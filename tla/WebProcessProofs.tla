-------------------------- MODULE WebProcessProofs --------------------------
(***************************************************************************)
(* Pages, processes and the messages between them, for any number of       *)
(* pages, processes and events.                                            *)
(*                                                                         *)
(* The operations of the UI process are functions of its state u, and so   *)
(* are the parts of the invariant here: w stands for web, r for toUI, c    *)
(* for crashed and i for inClient.                                         *)
(***************************************************************************)
EXTENDS WebProcess, Counting

UIState ==
    [current : 0..MaxProcess, launched : 0..MaxProcess,
     proxy : [Proc -> ProxyState], page : [Page -> PageState],
     toWeb : [Proc -> Seq(WebMessage)]]

(* Only the last process that was launched is in use, if any is.            *)
Processes(u) ==
    /\ u.current \in {NoProcess, u.launched}
    /\ \A n \in Proc :
          /\ n > u.launched => u.proxy[n].state = "none"
          /\ n <= u.launched /\ n # u.current => u.proxy[n].state = "closed"
          /\ n = u.current => u.proxy[n].state \in {"launching", "open"}

Valid(u, p) == u.page[p].state = "open" /\ u.page[p].valid

Attached(u, p) ==
    /\ u.current # NoProcess
    /\ u.page[p].state # "closed" /\ u.page[p].process = u.current

(* A page belongs to the current process if and only if it is valid and not *)
(* about to be told of the end of its process.                              *)
Pages(u, c, i) ==
    /\ i \in c \cup {NoPage}
    /\ \A p \in c : /\ u.page[p].state = "open" /\ (p # i => u.page[p].valid)
                    /\ u.page[p].process # NoProcess
    /\ \A p \in Page :
          /\ u.page[p].process <= u.launched
          /\ u.page[p].state # "closed" =>
                (Attached(u, p) <=> Valid(u, p) /\ p \notin c \ {i})
    /\ u.current # NoProcess =>
          u.proxy[u.current].pages = {p \in Page : Attached(u, p)}

(* What is on its way to process n.                                         *)
Outgoing(u, n) ==
    IF u.proxy[n].state = "launching" THEN u.proxy[n].pending ELSE u.toWeb[n]

(* A line is empty before its process is launched, and messages are kept    *)
(* back only until then.                                                    *)
Shape(u, w, r) ==
    \A n \in Proc :
        /\ u.proxy[n].state \in {"none", "launching"} =>
              /\ u.toWeb[n] = << >> /\ r[n] = << >>
              /\ w[n].pages = {} /\ ~w[n].initialized
        /\ u.proxy[n].state = "none" => w[n].state = "none"
        /\ u.proxy[n].state = "open" => u.proxy[n].pending = << >>

(* The web process x can handle the queue q in the order of its messages,   *)
(* but for wheel events, of which Known says enough.                        *)
WellFormed(q, x) ==
    /\ ~x.initialized => q # << >>
    /\ \A k \in DOMAIN q :
          /\ q[k].op = "initialize" <=> k = 1 /\ ~x.initialized
          /\ q[k].op # "initialize" => q[k].page \in Page
          /\ q[k].op = "create" => /\ q[k].page \notin x.pages
                                   /\ \A j \in 1..(k - 1) : q[j].page # q[k].page
          /\ q[k].op \notin {"initialize", "create", "wheel"} =>
                \/ q[k].page \in x.pages
                \/ \E j \in 1..(k - 1) : q[j] = Message("create", q[k].page)
          /\ q[k].op = "close" => \A j \in (k + 1)..Len(q) : q[j].page # q[k].page

(* The pages that the current process knows or will come to know are those  *)
(* attached to it, but for the closed ones.                                 *)
Known(u, q, x) ==
    \A p \in Page :
        /\ p \in x.pages \/ (\E k \in DOMAIN q : q[k].page = p) =>
              u.page[p].process = u.current /\ u.page[p].state # "none"
        /\ (\E k \in DOMAIN q : q[k] = Message("close", p)) =>
              u.page[p].state = "closed"
        /\ Attached(u, p) =>
              p \in x.pages \/ (\E k \in DOMAIN q : q[k] = Message("create", p))

Answerable(u, s) ==
    \A k \in DOMAIN s : s[k].op # "shouldTerminate" =>
        /\ s[k].page \in Page
        /\ u.page[s[k].page].process = u.current
        /\ u.page[s[k].page].state # "none"

Connects(u, w) == u.current # NoProcess /\ w[u.current].state # "gone"

Lines(u, w, r) ==
    Connects(u, w) =>
        /\ WellFormed(Outgoing(u, u.current), w[u.current])
        /\ Known(u, Outgoing(u, u.current), w[u.current])
        /\ Answerable(u, r[u.current])

(* The timer, or the report that the process does not respond, has a reason *)
(* on the line.                                                             *)
Reason(q, s) ==
    \/ \E k \in DOMAIN q : q[k].op \in TimedOps
    \/ \E k \in DOMAIN s : s[k].op \in TimedOps \cup {"stopTimer", "closePage"}

Alarm(u, w, r) ==
    (/\ Connects(u, w)
     /\ u.proxy[u.current].timer \/ ~u.proxy[u.current].responsive
     /\ \A p \in Page : u.page[p].state # "closed")
    => Reason(Outgoing(u, u.current), r[u.current])

(* From u to v no timer of a disconnected process starts or is left on.     *)
Silent(u, n) ==
    u.proxy[n].state = "closed" => ~u.proxy[n].timer /\ u.proxy[n].responsive

Calm(u, v) == \A n \in Proc : Silent(u, n) => Silent(v, n)

LEMMA CalmTrans ==
    ASSUME NEW t, NEW u, NEW v, Calm(t, u), Calm(u, v) PROVE Calm(t, v)
  BY DEF Calm

-----------------------------------------------------------------------------
(* The operations of the UI process.                                       *)

LEMMA NowIsState == TypeOK => Now \in UIState
  BY DEF TypeOK, Now, UIState

LEMMA BecomesNow ==
    ASSUME NEW u \in UIState, Becomes(u)
    PROVE  /\ Now' = u
           /\ current' = u.current /\ launched' = u.launched /\ proxy' = u.proxy
           /\ page' = u.page /\ toWeb' = u.toWeb
  BY DEF Becomes, Now, UIState

LEMMA UIStateFields ==
    ASSUME NEW u \in UIState
    PROVE  /\ u.current \in 0..MaxProcess /\ u.launched \in 0..MaxProcess
           /\ u.proxy \in [Proc -> ProxyState] /\ u.page \in [Page -> PageState]
           /\ u.toWeb \in [Proc -> Seq(WebMessage)]
           /\ \A n \in Proc :
                /\ u.proxy[n].state \in {"none", "launching", "open", "closed"}
                /\ u.proxy[n].pending \in Seq(WebMessage)
                /\ u.proxy[n].pages \in SUBSET Page
                /\ u.proxy[n].timer \in BOOLEAN
                /\ u.proxy[n].responsive \in BOOLEAN
           /\ \A p \in Page :
                /\ u.page[p].state \in {"none", "open", "closed"}
                /\ u.page[p].valid \in BOOLEAN
                /\ u.page[p].process \in 0..MaxProcess
  BY DEF UIState, ProxyState, PageState

LEMMA WithProxy ==
    ASSUME NEW u \in UIState, NEW n \in Proc, NEW x \in ProxyState
    PROVE  LET v == [u EXCEPT !.proxy[n] = x] IN
           /\ v \in UIState
           /\ v.current = u.current /\ v.launched = u.launched
           /\ v.page = u.page /\ v.toWeb = u.toWeb
           /\ v.proxy[n] = x
           /\ \A k \in Proc : k # n => v.proxy[k] = u.proxy[k]
  BY DEF UIState

LEMMA WithPage ==
    ASSUME NEW u \in UIState, NEW p \in Page, NEW x \in PageState
    PROVE  LET v == [u EXCEPT !.page[p] = x] IN
           /\ v \in UIState
           /\ v.current = u.current /\ v.launched = u.launched
           /\ v.proxy = u.proxy /\ v.toWeb = u.toWeb
           /\ v.page[p] = x
           /\ \A k \in Page : k # p => v.page[k] = u.page[k]
  BY DEF UIState

LEMMA WithQueue ==
    ASSUME NEW u \in UIState, NEW n \in Proc, NEW x \in Seq(WebMessage)
    PROVE  LET v == [u EXCEPT !.toWeb[n] = x] IN
           /\ v \in UIState
           /\ v.current = u.current /\ v.launched = u.launched
           /\ v.page = u.page /\ v.proxy = u.proxy
           /\ v.toWeb[n] = x
           /\ \A k \in Proc : k # n => v.toWeb[k] = u.toWeb[k]
  BY DEF UIState

(* Timers and the events that wait are no matter to the pages, processes    *)
(* and lines.                                                               *)
SameButWaits(u, v) ==
    /\ v.current = u.current /\ v.launched = u.launched /\ v.toWeb = u.toWeb
    /\ \A p \in Page : /\ v.page[p].state = u.page[p].state
                       /\ v.page[p].valid = u.page[p].valid
                       /\ v.page[p].process = u.page[p].process
    /\ \A n \in Proc : /\ v.proxy[n].state = u.proxy[n].state
                       /\ v.proxy[n].pending = u.proxy[n].pending
                       /\ v.proxy[n].pages = u.proxy[n].pages

(* Pages, processes and lines, together.                                    *)
Sound(u, c, i, w, r) ==
    /\ u \in UIState
    /\ Processes(u) /\ Pages(u, c, i) /\ Shape(u, w, r) /\ Lines(u, w, r)

LEMMA CurrentIsProc ==
    ASSUME NEW u \in UIState, u.current # NoProcess
    PROVE  u.current \in Proc
  BY WebAssumption, UIStateFields DEF Proc, NoProcess

LEMMA SameButWaitsSound ==
    ASSUME NEW u, NEW v \in UIState, SameButWaits(u, v),
           NEW c \in SUBSET Page, NEW i, NEW w, NEW r, Sound(u, c, i, w, r)
    PROVE  /\ Sound(v, c, i, w, r)
           /\ \A n \in Proc : Outgoing(v, n) = Outgoing(u, n)
           /\ \A p \in Page : Attached(v, p) <=> Attached(u, p)
           /\ \A p \in Page : Valid(v, p) <=> Valid(u, p)
           /\ Connects(v, w) <=> Connects(u, w)
  <1> USE DEF SameButWaits
  <1>0. u \in UIState BY DEF Sound
  <1>1. Processes(v) BY DEF Sound, Processes
  <1>2. \A p \in Page : Attached(v, p) <=> Attached(u, p) BY DEF Attached
  <1>3. \A p \in Page : Valid(v, p) <=> Valid(u, p) BY DEF Valid
  <1>4. Pages(v, c, i)
    <2>1. {p \in Page : Attached(v, p)} = {p \in Page : Attached(u, p)} BY <1>2
    <2>2. Pages(u, c, i) BY DEF Sound
    <2>3. i \in c \cup {NoPage} BY <2>2 DEF Pages
    <2>4. \A p \in c : /\ v.page[p].state = "open" /\ (p # i => v.page[p].valid)
                          /\ v.page[p].process # NoProcess
      BY <2>2 DEF Pages
    <2>5. ASSUME NEW p \in Page
          PROVE  /\ v.page[p].process <= v.launched
                 /\ v.page[p].state # "closed" =>
                       (Attached(v, p) <=> Valid(v, p) /\ p \notin c \ {i})
      BY <1>2, <1>3, <2>2 DEF Pages
    <2>6. v.current # NoProcess =>
             v.proxy[v.current].pages = {p \in Page : Attached(v, p)}
      BY <1>0, <2>1, <2>2, CurrentIsProc DEF Pages
    <2> QED BY <2>3, <2>4, <2>5, <2>6 DEF Pages
  <1>5. \A n \in Proc : Outgoing(v, n) = Outgoing(u, n) BY DEF Outgoing
  <1>6. Shape(v, w, r) BY DEF Sound, Shape
  <1>7. Connects(v, w) <=> Connects(u, w) BY DEF Connects
  <1>8. Lines(v, w, r)
    <2> SUFFICES ASSUME Connects(v, w) PROVE Lines(v, w, r) BY DEF Lines
    <2>1. u.current \in Proc BY <1>0, <1>7, CurrentIsProc DEF Connects
    <2> DEFINE q == Outgoing(u, u.current)
               x == w[u.current]
    <2>2. Outgoing(v, v.current) = q /\ w[v.current] = x /\ r[v.current] = r[u.current]
      BY <1>5, <2>1
    <2>3. /\ WellFormed(q, x) /\ Known(u, q, x) /\ Answerable(u, r[u.current])
      BY <1>7 DEF Sound, Lines
    <2> HIDE DEF q, x
    <2>4. Known(v, q, x) BY <1>2, <2>3 DEF Known
    <2>5. Answerable(v, r[u.current]) BY <2>3 DEF Answerable
    <2> QED BY <2>2, <2>3, <2>4, <2>5 DEF Lines
  <1> QED BY <1>1, <1>2, <1>3, <1>4, <1>5, <1>6, <1>7, <1>8 DEF Sound

LEMMA ProxyFields ==
    ASSUME NEW x \in ProxyState, NEW t \in BOOLEAN
    PROVE  /\ LET y == [x EXCEPT !.timer = t] IN
              /\ y \in ProxyState /\ y.state = x.state /\ y.pending = x.pending
              /\ y.pages = x.pages /\ y.responsive = x.responsive /\ y.timer = t
           /\ LET y == [x EXCEPT !.timer = FALSE, !.responsive = t] IN
              /\ y \in ProxyState /\ y.state = x.state /\ y.pending = x.pending
              /\ y.pages = x.pages /\ y.responsive = t /\ y.timer = FALSE
  BY DEF ProxyState

LEMMA TimerStartEffect ==
    ASSUME NEW u \in UIState, NEW n \in Proc
    PROVE  /\ TimerStart(u, n) \in UIState
           /\ SameButWaits(u, TimerStart(u, n))
           /\ TimerStart(u, n).page = u.page
           /\ \A k \in Proc : k # n => TimerStart(u, n).proxy[k] = u.proxy[k]
  <1> DEFINE t == u.proxy[n].timer \/ u.proxy[n].responsive
             x == [u.proxy[n] EXCEPT !.timer = t]
  <1>1. TimerStart(u, n) = [u EXCEPT !.proxy[n] = x] BY DEF TimerStart, UIState
  <1>2. /\ x \in ProxyState /\ x.state = u.proxy[n].state
        /\ x.pending = u.proxy[n].pending /\ x.pages = u.proxy[n].pages
    <2>1. u.proxy[n] \in ProxyState BY UIStateFields
    <2>2. t \in BOOLEAN OBVIOUS
    <2> HIDE DEF t
    <2>3. ASSUME NEW a \in ProxyState
          PROVE  LET y == [a EXCEPT !.timer = t] IN
                 /\ y \in ProxyState /\ y.state = a.state /\ y.pending = a.pending
                 /\ y.pages = a.pages
      BY <2>2 DEF ProxyState
    <2> QED BY <2>1, <2>3
  <1> HIDE DEF x
  <1> QED BY <1>1, <1>2, WithProxy DEF SameButWaits

LEMMA TimerStopEffect ==
    ASSUME NEW u \in UIState, NEW n \in Proc
    PROVE  LET v == TimerStop(u, n) IN
           /\ v \in UIState
           /\ SameButWaits(u, v)
           /\ v.page = u.page
           /\ v.proxy[n].timer = FALSE /\ v.proxy[n].responsive = TRUE
           /\ \A k \in Proc : k # n => v.proxy[k] = u.proxy[k]
  <1> DEFINE x == [u.proxy[n] EXCEPT !.timer = FALSE, !.responsive = TRUE]
  <1>1. TimerStop(u, n) = [u EXCEPT !.proxy[n] = x] BY DEF TimerStop, UIState
  <1>2. /\ x \in ProxyState /\ x.state = u.proxy[n].state
        /\ x.pending = u.proxy[n].pending /\ x.pages = u.proxy[n].pages
        /\ x.timer = FALSE /\ x.responsive = TRUE
    <2>1. u.proxy[n] \in ProxyState BY UIStateFields
    <2> QED BY <2>1, ProxyFields
  <1> HIDE DEF x
  <1> QED BY <1>1, <1>2, WithProxy DEF SameButWaits

WaitsState ==
    [keys : Int, wheel : Nat, wheelQueue : Nat, moving : BOOLEAN, nextMove : BOOLEAN]

WithWaits(u, p, y) == [u EXCEPT !.page[p] = [u.page[p] EXCEPT !.waits = y]]

LEMMA WaitsEffect ==
    ASSUME NEW u \in UIState, NEW p \in Page, NEW y \in WaitsState
    PROVE  LET v == WithWaits(u, p, y) IN
           /\ v \in UIState
           /\ SameButWaits(u, v)
           /\ v.proxy = u.proxy /\ v.page[p].waits = y
           /\ \A k \in Page : k # p => v.page[k] = u.page[k]
  <1> DEFINE x == [u.page[p] EXCEPT !.waits = y]
             v == [u EXCEPT !.page[p] = x]
  <1>1. /\ x \in PageState /\ x.state = u.page[p].state /\ x.valid = u.page[p].valid
        /\ x.process = u.page[p].process /\ x.waits = y
    BY UIStateFields DEF PageState, WaitsState
  <1> HIDE DEF x
  <1>2. /\ v \in UIState /\ v.page[p] = x
        /\ v.current = u.current /\ v.launched = u.launched
        /\ v.proxy = u.proxy /\ v.toWeb = u.toWeb
        /\ \A k \in Page : k # p => v.page[k] = u.page[k]
    BY <1>1, WithPage
  <1> HIDE DEF v
  <1>3. SameButWaits(u, v) BY <1>1, <1>2 DEF SameButWaits
  <1> QED BY <1>1, <1>2, <1>3 DEF v, x, WithWaits
-----------------------------------------------------------------------------
(* Queues.                                                                 *)

LEMMA WellFormedAppend ==
    ASSUME NEW q \in Seq(WebMessage), NEW x, NEW m \in WebMessage, WellFormed(q, x),
           m.op # "initialize", m.page \in Page,
           m.op = "create" => /\ m.page \notin x.pages
                              /\ \A j \in DOMAIN q : q[j].page # m.page,
           m.op # "create" => \/ m.page \in x.pages
                              \/ \E j \in DOMAIN q : q[j] = Message("create", m.page),
           \A j \in DOMAIN q : q[j].op = "close" => q[j].page # m.page
    PROVE  WellFormed(Append(q, m), x)
  <1> DEFINE s == Append(q, m)
  <1>1. /\ s \in Seq(WebMessage) /\ s # << >> /\ Len(s) = Len(q) + 1 /\ s[Len(q) + 1] = m
        /\ DOMAIN q = 1..Len(q) /\ DOMAIN s = 1..(Len(q) + 1) /\ Len(q) \in Nat
        /\ \A k \in 1..Len(q) : s[k] = q[k]
    OBVIOUS
  <1>2. ~x.initialized => Len(q) # 0 BY <1>1 DEF WellFormed
  <1> HIDE DEF s
  <1> SUFFICES ASSUME NEW k \in DOMAIN s
               PROVE  /\ s[k].op = "initialize" <=> k = 1 /\ ~x.initialized
                      /\ s[k].op # "initialize" => s[k].page \in Page
                      /\ s[k].op = "create" =>
                            /\ s[k].page \notin x.pages
                            /\ \A j \in 1..(k - 1) : s[j].page # s[k].page
                      /\ s[k].op \notin {"initialize", "create", "wheel"} =>
                            \/ s[k].page \in x.pages
                            \/ \E j \in 1..(k - 1) : s[j] = Message("create", s[k].page)
                      /\ s[k].op = "close" =>
                            \A j \in (k + 1)..Len(s) : s[j].page # s[k].page
    BY <1>1 DEF WellFormed, s
  <1>3. CASE k = Len(q) + 1
    <2>1. s[k] = m /\ (k + 1)..Len(s) = {} /\ 1..(k - 1) = DOMAIN q BY <1>1, <1>3
    <2>2. ~(k = 1 /\ ~x.initialized) BY <1>1, <1>2, <1>3
    <2> QED BY <1>1, <2>1, <2>2
  <1>4. CASE k \in 1..Len(q)
    <2>1. s[k] = q[k] /\ \A j \in 1..(k - 1) : s[j] = q[j] /\ j \in DOMAIN q BY <1>1, <1>4
    <2>2. k \in DOMAIN q BY <1>1, <1>4
    <2>3. ASSUME q[k].op = "close", NEW j \in (k + 1)..Len(s)
          PROVE  s[j].page # q[k].page
      <3>1. CASE j = Len(q) + 1 BY <1>1, <2>2, <2>3, <3>1
      <3>2. CASE j \in (k + 1)..Len(q)
        <4>1. s[j] = q[j] BY <1>1, <1>4, <3>2
        <4> QED BY <2>2, <2>3, <3>2, <4>1 DEF WellFormed
      <3> QED BY <1>1, <1>4, <3>1, <3>2
    <2> QED BY <2>1, <2>2, <2>3 DEF WellFormed
  <1> QED BY <1>1, <1>3, <1>4

(* What the web process does with a message that is no event.               *)
Handled(m, x, y) ==
    /\ y.initialized = (x.initialized \/ m.op = "initialize")
    /\ y.pages = IF m.op = "create" THEN x.pages \cup {m.page}
                 ELSE IF m.op = "close" THEN x.pages \ {m.page} ELSE x.pages

(* The message that is taken next: Takes, of any queue.                     *)
IsNext(q, k) ==
    k = 1 \/ (q[k].op # "wheel" /\ \A j \in 1..(k - 1) : q[j].op = "wheel")

(* Where an entry of RemoveAt(q, k) was in q, and where one of q is in it.  *)
Was(k, j) == IF j < k THEN j ELSE j + 1
Is(k, j) == IF j < k THEN j ELSE j - 1

LEMMA RemoveFacts ==
    ASSUME NEW T, NEW q \in Seq(T), NEW k \in DOMAIN q
    PROVE  LET s == RemoveAt(q, k) IN
           /\ s \in Seq(T) /\ Len(s) = Len(q) - 1 /\ Len(q) \in Nat \ {0}
           /\ DOMAIN q = 1..Len(q) /\ DOMAIN s = 1..(Len(q) - 1)
           /\ \A j \in DOMAIN s : /\ Was(k, j) \in DOMAIN q /\ Was(k, j) # k
                                  /\ s[j] = q[Was(k, j)] /\ j \in Nat
           /\ \A j \in DOMAIN q : j # k => Is(k, j) \in DOMAIN s /\ s[Is(k, j)] = q[j]
  <1> DEFINE a == SubSeq(q, 1, k - 1)
             b == SubSeq(q, k + 1, Len(q))
             s == RemoveAt(q, k)
  <1>1. /\ Len(q) \in Nat \ {0} /\ DOMAIN q = 1..Len(q) /\ k \in Nat /\ 1 <= k /\ k <= Len(q)
    OBVIOUS
  <1>2. /\ a \in Seq(T) /\ Len(a) = k - 1 /\ \A j \in 1..(k - 1) : a[j] = q[j] BY <1>1
  <1>3. /\ b \in Seq(T) /\ Len(b) = Len(q) - k
        /\ \A j \in 1..(Len(q) - k) : b[j] = q[k + j]
    BY <1>1
  <1>4. s = a \o b BY DEF RemoveAt
  <1> HIDE DEF a, b, s
  <1>5. /\ s \in Seq(T) /\ Len(s) = Len(a) + Len(b) /\ DOMAIN s = 1..Len(s)
        /\ \A j \in 1..Len(a) : s[j] = a[j]
        /\ \A j \in (Len(a) + 1)..(Len(a) + Len(b)) : s[j] = b[j - Len(a)]
    BY <1>2, <1>3, <1>4, SMTT(30)
  <1>6. Len(s) = Len(q) - 1 BY <1>1, <1>2, <1>3, <1>5
  <1>7. ASSUME NEW j \in DOMAIN s
        PROVE  Was(k, j) \in DOMAIN q /\ Was(k, j) # k /\ s[j] = q[Was(k, j)] /\ j \in Nat
    <2>1. j \in Nat /\ 1 <= j /\ j <= Len(q) - 1 BY <1>1, <1>5, <1>6
    <2>2. CASE j < k
      <3>1. j \in 1..(k - 1) BY <1>1, <2>1, <2>2
      <3>2. s[j] = q[j] BY <1>2, <1>5, <3>1
      <3> QED BY <1>1, <2>1, <2>2, <3>2 DEF Was
    <2>3. CASE ~(j < k)
      <3>1. j - (k - 1) \in 1..(Len(q) - k) /\ k + (j - (k - 1)) = j + 1 BY <1>1, <2>1, <2>3
      <3>2. j \in (Len(a) + 1)..(Len(a) + Len(b)) BY <1>1, <1>2, <1>3, <2>1, <2>3
      <3>3. s[j] = b[j - (k - 1)] BY <1>2, <1>5, <3>2
      <3>4. s[j] = q[j + 1] BY <1>3, <3>1, <3>3
      <3> QED BY <1>1, <2>1, <2>3, <3>4 DEF Was
    <2> QED BY <2>2, <2>3
  <1>8. ASSUME NEW j \in DOMAIN q, j # k
        PROVE  Is(k, j) \in DOMAIN s /\ s[Is(k, j)] = q[j]
    <2>1. j \in Nat /\ 1 <= j /\ j <= Len(q) BY <1>1
    <2>2. Is(k, j) \in DOMAIN s BY <1>1, <1>5, <1>6, <1>8, <2>1 DEF Is
    <2>3. Was(k, Is(k, j)) = j BY <1>1, <1>8, <2>1 DEF Is, Was
    <2> QED BY <1>7, <2>2, <2>3
  <1> QED BY <1>1, <1>5, <1>6, <1>7, <1>8 DEF s

LEMMA WellFormedRemove ==
    ASSUME NEW q \in Seq(WebMessage), NEW k \in DOMAIN q, NEW x, NEW y, WellFormed(q, x),
           x.initialized \in BOOLEAN, IsNext(q, k), Handled(q[k], x, y)
    PROVE  WellFormed(RemoveAt(q, k), y)
  <1> DEFINE s == RemoveAt(q, k)
             m == q[k]
  <1>1. /\ Len(s) = Len(q) - 1 /\ Len(q) \in Nat \ {0}
        /\ DOMAIN q = 1..Len(q) /\ DOMAIN s = 1..(Len(q) - 1)
        /\ \A j \in DOMAIN s : /\ Was(k, j) \in DOMAIN q /\ Was(k, j) # k
                               /\ s[j] = q[Was(k, j)] /\ j \in Nat
        /\ \A j \in DOMAIN q : j # k => Is(k, j) \in DOMAIN s /\ s[Is(k, j)] = q[j]
    BY RemoveFacts
  <1> HIDE DEF s
  <1>2. k \in Nat /\ 1 <= k /\ k <= Len(q) /\ 1 \in DOMAIN q BY <1>1
  <1>3. k = 1 \/ x.initialized
    <2>1. k # 1 => q[1].op = "wheel" BY <1>2 DEF IsNext
    <2> QED BY <1>2, <2>1 DEF WellFormed
  <1>4. y.initialized
    <2>1. m.op = "initialize" <=> k = 1 /\ ~x.initialized BY DEF WellFormed
    <2> QED BY <1>3, <2>1 DEF Handled
  <1>5. \A j \in DOMAIN q : j < k => q[j].op = "wheel" BY <1>1, <1>2 DEF IsNext
  <1> SUFFICES ASSUME NEW j \in DOMAIN s
               PROVE  /\ s[j].op # "initialize"
                      /\ s[j].page \in Page
                      /\ s[j].op = "create" =>
                            /\ s[j].page \notin y.pages
                            /\ \A l \in 1..(j - 1) : s[l].page # s[j].page
                      /\ s[j].op \notin {"create", "wheel"} =>
                            \/ s[j].page \in y.pages
                            \/ \E l \in 1..(j - 1) : s[l] = Message("create", s[j].page)
                      /\ s[j].op = "close" =>
                            \A l \in (j + 1)..Len(s) : s[l].page # s[j].page
    BY <1>4 DEF WellFormed, s
  <1>6. PICK i \in DOMAIN q : i = Was(k, j) /\ i # k /\ s[j] = q[i] BY <1>1
  <1>7. /\ i \in Nat /\ 1 <= i /\ i <= Len(q) /\ j \in Nat /\ 1 <= j /\ j <= Len(s)
        /\ (i < k => i = j) /\ (~(i < k) => i = j + 1)
    BY <1>1, <1>2, <1>6 DEF Was
  <1>8. s[j].op # "initialize" /\ s[j].page \in Page BY <1>2, <1>3, <1>6, <1>7 DEF WellFormed
  <1>9. ASSUME s[j].op = "create"
        PROVE  /\ s[j].page \notin y.pages
               /\ \A l \in 1..(j - 1) : s[l].page # s[j].page
    <2>1. s[j].page \notin x.pages /\ \A l \in 1..(i - 1) : q[l].page # s[j].page
      BY <1>6, <1>9 DEF WellFormed
    <2>2. k < i BY <1>2, <1>5, <1>6, <1>7, <1>9
    <2>3. k \in 1..(i - 1) BY <1>2, <1>7, <2>2
    <2>4. s[j].page \notin y.pages BY <2>1, <2>3 DEF Handled
    <2>5. ASSUME NEW l \in 1..(j - 1) PROVE s[l].page # s[j].page
      <3>1. l \in DOMAIN s /\ Was(k, l) \in 1..(i - 1) BY <1>1, <1>2, <1>7, <2>2 DEF Was
      <3> QED BY <1>1, <2>1, <3>1
    <2> QED BY <2>4, <2>5
  <1>10. ASSUME s[j].op \notin {"create", "wheel"}
         PROVE  \/ s[j].page \in y.pages
                \/ \E l \in 1..(j - 1) : s[l] = Message("create", s[j].page)
    <2>1. k < i BY <1>2, <1>5, <1>6, <1>7, <1>10
    <2>2. \/ s[j].page \in x.pages
          \/ \E l \in 1..(i - 1) : q[l] = Message("create", s[j].page)
      BY <1>6, <1>8, <1>10 DEF WellFormed
    <2>3. CASE s[j].page \in x.pages
      <3>1. i \in (k + 1)..Len(q) BY <1>2, <1>7, <2>1
      <3>2. m.op = "close" => m.page # s[j].page BY <1>6, <3>1 DEF WellFormed
      <3> QED BY <2>3, <3>2 DEF Handled
    <2>4. ASSUME NEW l \in 1..(i - 1), q[l] = Message("create", s[j].page)
          PROVE  \/ s[j].page \in y.pages
                 \/ \E h \in 1..(j - 1) : s[h] = Message("create", s[j].page)
      <3>1. CASE l = k
        <4>1. m.op = "create" /\ m.page = s[j].page BY <2>4, <3>1 DEF Message
        <4> QED BY <4>1 DEF Handled
      <3>2. CASE l # k
        <4>1. l \in DOMAIN q /\ Is(k, l) \in 1..(j - 1)
          BY <1>1, <1>2, <1>7, <2>1, <3>2 DEF Is
        <4>2. s[Is(k, l)] = q[l] BY <1>1, <3>2, <4>1
        <4> QED BY <2>4, <4>1, <4>2
      <3> QED BY <3>1, <3>2
    <2> QED BY <2>2, <2>3, <2>4
  <1>11. ASSUME s[j].op = "close", NEW l \in (j + 1)..Len(s)
         PROVE  s[l].page # s[j].page
    <2>0. l \in Nat /\ j < l /\ l <= Len(q) - 1 /\ l \in DOMAIN s BY <1>1, <1>7
    <2>1. Was(k, l) \in (i + 1)..Len(q)
      <3>1. CASE l < k
        <4>1. Was(k, l) = l /\ i = j BY <1>2, <1>7, <2>0, <3>1 DEF Was
        <4> QED BY <1>1, <1>7, <2>0, <4>1
      <3>2. CASE ~(l < k)
        <4>1. Was(k, l) = l + 1 BY <3>2 DEF Was
        <4>2. i <= j + 1 BY <1>7
        <4> QED BY <1>1, <1>7, <2>0, <4>1, <4>2
      <3> QED BY <3>1, <3>2
    <2>2. s[l] = q[Was(k, l)] BY <1>1, <2>0
    <2>3. \A h \in (i + 1)..Len(q) : q[h].page # q[i].page BY <1>6, <1>11 DEF WellFormed
    <2> QED BY <1>6, <2>1, <2>2, <2>3
  <1> QED BY <1>8, <1>9, <1>10, <1>11
-----------------------------------------------------------------------------
(* Messages to the current process.                                        *)

LEMMA SendEffect ==
    ASSUME NEW u \in UIState, Processes(u), u.current # NoProcess, NEW m \in WebMessage
    PROVE  LET n == u.current
               v == Send(u, n, m) IN
           /\ v \in UIState
           /\ v.current = u.current /\ v.launched = u.launched /\ v.page = u.page
           /\ \A k \in Proc : /\ v.proxy[k].state = u.proxy[k].state
                              /\ v.proxy[k].pages = u.proxy[k].pages
                              /\ v.proxy[k].timer = u.proxy[k].timer
                              /\ v.proxy[k].responsive = u.proxy[k].responsive
           /\ \A k \in Proc : v.proxy[k].state # "launching" =>
                                 v.proxy[k].pending = u.proxy[k].pending
           /\ \A k \in Proc : v.proxy[k].state # "open" => v.toWeb[k] = u.toWeb[k]
           /\ \A k \in Proc \ {n} : Outgoing(v, k) = Outgoing(u, k)
           /\ Connects(u, web) => Outgoing(v, n) = Append(Outgoing(u, n), m)
  <1> DEFINE n == u.current
             v == Send(u, n, m)
  <1>0. n \in Proc BY CurrentIsProc
  <1>1. u.proxy[n].state \in {"launching", "open"} BY <1>0 DEF Processes
  <1>2. CASE u.proxy[n].state = "launching"
    <2> DEFINE x == [u.proxy[n] EXCEPT !.pending = Append(u.proxy[n].pending, m)]
    <2>1. v = [u EXCEPT !.proxy[n] = x] BY <1>2, <1>0 DEF Send, UIState
    <2>2. u.proxy[n] \in ProxyState BY <1>0, UIStateFields
    <2>3. ASSUME NEW a \in ProxyState, NEW s \in Seq(WebMessage)
          PROVE  LET b == [a EXCEPT !.pending = s] IN
                 /\ b \in ProxyState /\ b.state = a.state /\ b.pages = a.pages
                 /\ b.timer = a.timer /\ b.responsive = a.responsive
                 /\ b.pending = s
      BY DEF ProxyState
    <2>7. Append(u.proxy[n].pending, m) \in Seq(WebMessage)
      BY <2>2, UIStateFields, <1>0
    <2>4. /\ x \in ProxyState /\ x.state = u.proxy[n].state /\ x.pages = u.proxy[n].pages
          /\ x.timer = u.proxy[n].timer /\ x.responsive = u.proxy[n].responsive
          /\ x.pending = Append(u.proxy[n].pending, m)
      BY <2>2, <2>3, <2>7
    <2> HIDE DEF x
    <2>5. /\ v \in UIState
          /\ v.current = u.current /\ v.launched = u.launched
          /\ v.page = u.page /\ v.toWeb = u.toWeb
          /\ v.proxy[n] = x
          /\ \A k \in Proc : k # n => v.proxy[k] = u.proxy[k]
      BY <1>0, <2>1, <2>4, WithProxy
    <2> HIDE DEF v, n
    <2>6. /\ \A k \in Proc \ {n} : Outgoing(v, k) = Outgoing(u, k)
          /\ Outgoing(v, n) = Append(Outgoing(u, n), m)
      BY <1>0, <1>2, <2>4, <2>5 DEF Outgoing
    <2> QED BY <1>0, <1>2, <2>4, <2>5, <2>6 DEF v, n
  <1>3. CASE u.proxy[n].state = "open" /\ web[n].state # "gone"
    <2> DEFINE x == Append(u.toWeb[n], m)
    <2>1. v = [u EXCEPT !.toWeb[n] = x] BY <1>3, <1>0 DEF Send, UIState
    <2>2. x \in Seq(WebMessage)
      <3>1. u.toWeb[n] \in Seq(WebMessage) BY <1>0, UIStateFields
      <3> QED BY <3>1
    <2> HIDE DEF x, v, n
    <2>5. /\ v \in UIState
          /\ v.current = u.current /\ v.launched = u.launched
          /\ v.page = u.page /\ v.proxy = u.proxy
          /\ v.toWeb[n] = x
          /\ \A k \in Proc : k # n => v.toWeb[k] = u.toWeb[k]
      BY <1>0, <2>1, <2>2, WithQueue DEF n
    <2>6. /\ \A k \in Proc \ {n} : Outgoing(v, k) = Outgoing(u, k)
          /\ Outgoing(v, n) = Append(Outgoing(u, n), m)
      BY <1>0, <1>3, <2>5 DEF Outgoing, x
    <2> QED BY <1>0, <1>3, <2>5, <2>6 DEF v, n
  <1>4. CASE u.proxy[n].state = "open" /\ web[n].state = "gone"
    <2>1. v = u BY <1>4 DEF Send
    <2> QED BY <1>4, <2>1 DEF Connects
  <1> QED BY <1>1, <1>2, <1>3, <1>4

LEMMA MessageType ==
    ASSUME NEW p \in Page, NEW op \in {"create", "close", "key", "wheel", "move",
                                       "request", "tryClose"}
    PROVE  /\ Message(op, p) \in WebMessage
           /\ Message(op, p).op = op /\ Message(op, p).page = p
  BY DEF Message, WebMessage

LEMMA MessageParts ==
    ASSUME NEW m \in WebMessage
    PROVE  m = Message(m.op, m.page)
  BY DEF Message, WebMessage

LEMMA QueueType ==
    ASSUME NEW u \in UIState, NEW n \in Proc
    PROVE  Outgoing(u, n) \in Seq(WebMessage)
  BY UIStateFields DEF Outgoing

(* A message to a page of the current process finds it.                     *)
PageOps == {"key", "wheel", "move", "request", "tryClose"}

LEMMA SendSound ==
    ASSUME NEW u, NEW c \in SUBSET Page, NEW i, NEW r, Sound(u, c, i, web, r),
           NEW p \in Page, Attached(u, p), NEW op \in PageOps
    PROVE  LET v == Send(u, u.current, Message(op, p)) IN
           /\ Sound(v, c, i, web, r)
           /\ v.page = u.page /\ v.current = u.current /\ v.launched = u.launched
           /\ \A k \in Proc : /\ v.proxy[k].timer = u.proxy[k].timer
                              /\ v.proxy[k].responsive = u.proxy[k].responsive
                              /\ v.proxy[k].state = u.proxy[k].state
           /\ Connects(u, web) => Outgoing(v, u.current)
                                    = Append(Outgoing(u, u.current), Message(op, p))
  <1> DEFINE n == u.current
             m == Message(op, p)
             v == Send(u, n, m)
             q == Outgoing(u, n)
             x == web[n]
  <1>0. u \in UIState /\ Processes(u) /\ Pages(u, c, i) /\ Shape(u, web, r)
        /\ Lines(u, web, r) /\ n # NoProcess
    BY DEF Sound, Attached
  <1>1. n \in Proc BY <1>0, CurrentIsProc
  <1>2. m \in WebMessage /\ m.op = op /\ m.page = p BY MessageType DEF PageOps
  <1> HIDE DEF m
  <1>3. /\ v \in UIState
        /\ v.current = u.current /\ v.launched = u.launched /\ v.page = u.page
        /\ \A k \in Proc : /\ v.proxy[k].state = u.proxy[k].state
                           /\ v.proxy[k].pages = u.proxy[k].pages
                           /\ v.proxy[k].timer = u.proxy[k].timer
                           /\ v.proxy[k].responsive = u.proxy[k].responsive
        /\ \A k \in Proc : v.proxy[k].state # "launching" =>
                              v.proxy[k].pending = u.proxy[k].pending
        /\ \A k \in Proc : v.proxy[k].state # "open" => v.toWeb[k] = u.toWeb[k]
        /\ Connects(u, web) => Outgoing(v, n) = Append(q, m)
    BY <1>0, <1>2, SendEffect
  <1> HIDE DEF v
  <1>4. Processes(v) BY <1>0, <1>3 DEF Processes
  <1>5. \A y \in Page : Attached(v, y) <=> Attached(u, y) BY <1>3 DEF Attached
  <1>6. Pages(v, c, i)
    <2>1. {y \in Page : Attached(v, y)} = {y \in Page : Attached(u, y)} BY <1>5
    <2>2. \A y \in Page : Valid(v, y) <=> Valid(u, y) BY <1>3 DEF Valid
    <2> QED BY <1>0, <1>1, <1>3, <1>5, <2>1, <2>2 DEF Pages
  <1>7. Shape(v, web, r) BY <1>0, <1>3 DEF Shape
  <1>8. Lines(v, web, r)
    <2> SUFFICES ASSUME Connects(v, web) PROVE Lines(v, web, r) BY DEF Lines
    <2>1. Connects(u, web) BY <1>3 DEF Connects
    <2>2. WellFormed(q, x) /\ Known(u, q, x) /\ Answerable(u, r[n])
      BY <1>0, <2>1 DEF Lines
    <2>3. q \in Seq(WebMessage) BY <1>0, <1>1, QueueType
    <2> HIDE DEF q, x
    <2>4. p \in x.pages \/ \E k \in DOMAIN q : q[k] = Message("create", p)
      BY <2>2 DEF Known
    <2>5. \A k \in DOMAIN q : q[k].op = "close" => q[k].page # p
      <3> SUFFICES ASSUME NEW k \in DOMAIN q, q[k].op = "close", q[k].page = p PROVE FALSE
        OBVIOUS
      <3>1. q[k] = Message("close", p)
        <4>1. q[k] \in WebMessage BY <2>3
        <4> QED BY <4>1, MessageParts
      <3> QED BY <3>1, <2>2 DEF Known, Attached
    <2>6. WellFormed(Append(q, m), x)
      BY <1>2, <2>2, <2>3, <2>4, <2>5, WellFormedAppend DEF PageOps
    <2>7. Known(v, Append(q, m), x)
      <3> DEFINE s == Append(q, m)
      <3>1. /\ DOMAIN s = 1..(Len(q) + 1) /\ DOMAIN q = 1..Len(q) /\ Len(q) \in Nat
            /\ s[Len(q) + 1] = m /\ \A k \in 1..Len(q) : s[k] = q[k]
        BY <1>2, <2>3
      <3> HIDE DEF s
      <3> SUFFICES ASSUME NEW y \in Page
                   PROVE  /\ y \in x.pages \/ (\E k \in DOMAIN s : s[k].page = y) =>
                                v.page[y].process = v.current /\ v.page[y].state # "none"
                          /\ (\E k \in DOMAIN s : s[k] = Message("close", y)) =>
                                v.page[y].state = "closed"
                          /\ Attached(v, y) =>
                                \/ y \in x.pages
                                \/ \E k \in DOMAIN s : s[k] = Message("create", y)
        BY DEF Known, s
      <3>2. (\E k \in DOMAIN s : s[k].page = y) =>
               y = p \/ \E k \in DOMAIN q : q[k].page = y
        BY <3>1, <1>2
      <3>3. u.page[p].process = u.current /\ u.page[p].state # "none"
        BY <2>2, <2>4 DEF Known, Message
      <3>4. (\E k \in DOMAIN s : s[k] = Message("close", y)) =>
               \E k \in DOMAIN q : q[k] = Message("close", y)
        <4>1. m # Message("close", y) BY <1>2 DEF Message, PageOps
        <4> QED BY <3>1, <4>1
      <3>5. (\E k \in DOMAIN q : q[k] = Message("create", y)) =>
               \E k \in DOMAIN s : s[k] = Message("create", y)
        BY <3>1
      <3> QED BY <1>3, <1>5, <2>2, <3>2, <3>3, <3>4, <3>5 DEF Known
    <2>8. Answerable(v, r[n]) BY <1>3, <2>2 DEF Answerable
    <2> QED BY <1>3, <2>1, <2>6, <2>7, <2>8 DEF Lines, q, x
  <1> QED BY <1>3, <1>4, <1>6, <1>7, <1>8 DEF Sound, m, v
-----------------------------------------------------------------------------
(* A new process, pages that come and go, and the end of a process.        *)

LEMMA ProxyUpdate ==
    ASSUME NEW f \in [Proc -> ProxyState], NEW n \in Proc, NEW x \in ProxyState
    PROVE  LET g == [f EXCEPT ![n] = x] IN
           /\ g \in [Proc -> ProxyState] /\ g[n] = x
           /\ \A k \in Proc : k # n => g[k] = f[k]
  OBVIOUS

LEMMA PageUpdate ==
    ASSUME NEW f \in [Page -> PageState], NEW p \in Page, NEW x \in PageState
    PROVE  LET g == [f EXCEPT ![p] = x] IN
           /\ g \in [Page -> PageState] /\ g[p] = x
           /\ \A k \in Page : k # p => g[k] = f[k]
  OBVIOUS

LEMMA EnsureSound ==
    ASSUME NEW u, NEW c \in SUBSET Page, NEW i, NEW r, Sound(u, c, i, web, r),
           u.current # NoProcess \/ u.launched < MaxProcess
    PROVE  LET v == EnsureWebProcess(u) IN
           /\ Sound(v, c, i, web, r)
           /\ v.page = u.page /\ v.current # NoProcess
           /\ u.current # NoProcess => v = u
           /\ u.current = NoProcess =>
                 /\ v.proxy[v.current].timer = FALSE
                 /\ v.proxy[v.current].responsive = TRUE
                 /\ Outgoing(v, v.current) = <<InitializeWebProcess>>
                 /\ r[v.current] = << >>
           /\ \A k \in Proc : v.proxy[k].state = "closed" <=> u.proxy[k].state = "closed"
           /\ \A k \in Proc : v.proxy[k].state = "closed" => v.proxy[k] = u.proxy[k]
  <1> DEFINE v == EnsureWebProcess(u)
  <1>1. CASE u.current # NoProcess
    BY <1>1 DEF EnsureWebProcess
  <1>2. CASE u.current = NoProcess
    <2> DEFINE n == u.launched + 1
               x == [NoProxy EXCEPT !.state = "launching",
                                    !.pending = <<InitializeWebProcess>>]
    <2>1. /\ u \in UIState /\ Processes(u) /\ Pages(u, c, i) /\ Shape(u, web, r)
      BY DEF Sound
    <2>2. n \in Proc /\ n \in 0..MaxProcess /\ n # NoProcess /\ u.launched < n
      BY <1>2, <2>1, UIStateFields, WebAssumption DEF Proc, NoProcess
    <2>3. /\ x \in ProxyState /\ x.state = "launching" /\ x.pages = {}
          /\ x.pending = <<InitializeWebProcess>> /\ x.timer = FALSE /\ x.responsive = TRUE
      <3>1. InitializeWebProcess \in WebMessage BY DEF InitializeWebProcess, WebMessage
      <3>2. <<InitializeWebProcess>> \in Seq(WebMessage) BY <3>1
      <3>3. /\ NoProxy \in ProxyState /\ NoProxy.pages = {}
            /\ NoProxy.timer = FALSE /\ NoProxy.responsive = TRUE
        BY DEF NoProxy, ProxyState
      <3>4. ASSUME NEW b \in ProxyState, NEW s \in Seq(WebMessage)
            PROVE  LET e == [b EXCEPT !.state = "launching", !.pending = s] IN
                   /\ e \in ProxyState /\ e.state = "launching" /\ e.pages = b.pages
                   /\ e.pending = s /\ e.timer = b.timer /\ e.responsive = b.responsive
        BY DEF ProxyState
      <3> QED BY <3>2, <3>3, <3>4
    <2>4. v = [u EXCEPT !.current = n, !.launched = n, !.proxy = [u.proxy EXCEPT ![n] = x]]
      BY <1>2, <2>1 DEF EnsureWebProcess, UIState
    <2> HIDE DEF x
    <2>5. /\ v \in UIState /\ v.current = n /\ v.launched = n /\ v.page = u.page
          /\ v.toWeb = u.toWeb /\ v.proxy[n] = x
          /\ \A k \in Proc : k # n => v.proxy[k] = u.proxy[k]
      <3> DEFINE f == [u.proxy EXCEPT ![n] = x]
      <3>1. /\ f \in [Proc -> ProxyState] /\ f[n] = x
            /\ \A k \in Proc : k # n => f[k] = u.proxy[k]
        BY <2>1, <2>2, <2>3, ProxyUpdate, UIStateFields
      <3> HIDE DEF f, n
      <3>2. /\ v \in UIState /\ v.proxy = f /\ v.page = u.page
            /\ v.current = n /\ v.launched = n /\ v.toWeb = u.toWeb
        <4>1. v = [u EXCEPT !.current = n, !.launched = n, !.proxy = f] BY <2>4 DEF f
        <4> HIDE DEF v
        <4> QED BY <2>1, <2>2, <4>1, <3>1 DEF UIState
      <3> QED BY <3>1, <3>2
    <2>6. u.proxy[n].state = "none" BY <2>1, <2>2 DEF Processes
    <2> HIDE DEF v
    <2>7. Processes(v)
      <3> SUFFICES ASSUME NEW k \in Proc
                   PROVE  /\ k > v.launched => v.proxy[k].state = "none"
                          /\ k <= v.launched /\ k # v.current => v.proxy[k].state = "closed"
                          /\ k = v.current => v.proxy[k].state \in {"launching", "open"}
        BY <2>5 DEF Processes
      <3>1. CASE k = n BY <2>2, <2>3, <2>5, <3>1 DEF Proc
      <3>2. CASE k # n
        <4>1. k > n => k > u.launched BY <2>1, <2>2, UIStateFields DEF Proc
        <4>2. k <= n => k <= u.launched BY <2>1, <2>2, <3>2, UIStateFields DEF Proc
        <4>3. k # u.current BY <1>2 DEF Proc, NoProcess
        <4> QED BY <2>1, <2>5, <3>2, <4>1, <4>2, <4>3 DEF Processes
      <3> QED BY <3>1, <3>2
    <2>8. \A p \in Page : u.page[p].process # n /\ u.page[p].process <= n
      BY <2>1, <2>2, UIStateFields DEF Pages
    <2>9. \A p \in Page : ~Attached(v, p) /\ ~Attached(u, p)
      BY <1>2, <2>5, <2>8 DEF Attached
    <2>10. Pages(v, c, i)
      <3>1. {p \in Page : Attached(v, p)} = {} BY <2>9
      <3>2. \A p \in Page : Valid(v, p) <=> Valid(u, p) BY <2>5 DEF Valid
      <3> QED BY <2>1, <2>3, <2>5, <2>8, <2>9, <3>1, <3>2 DEF Pages
    <2>11. /\ u.toWeb[n] = << >> /\ r[n] = << >> /\ web[n].pages = {}
           /\ ~web[n].initialized
      BY <2>1, <2>2, <2>6 DEF Shape
    <2>12. Shape(v, web, r)
      <3> SUFFICES ASSUME NEW k \in Proc
                   PROVE  /\ v.proxy[k].state \in {"none", "launching"} =>
                                /\ v.toWeb[k] = << >> /\ r[k] = << >>
                                /\ web[k].pages = {} /\ ~web[k].initialized
                          /\ v.proxy[k].state = "none" => web[k].state = "none"
                          /\ v.proxy[k].state = "open" => v.proxy[k].pending = << >>
        BY DEF Shape
      <3>1. CASE k = n BY <2>3, <2>5, <2>11, <3>1
      <3>2. CASE k # n BY <2>1, <2>5, <3>2 DEF Shape
      <3> QED BY <3>1, <3>2
    <2>13. Outgoing(v, n) = <<InitializeWebProcess>> BY <2>3, <2>5 DEF Outgoing
    <2>14. Lines(v, web, r)
      <3> DEFINE q == <<InitializeWebProcess>>
                 y == web[n]
      <3>1. q # << >> /\ DOMAIN q = {1} /\ q[1] = InitializeWebProcess /\ Len(q) = 1
        OBVIOUS
      <3>2. InitializeWebProcess.op = "initialize" /\ InitializeWebProcess.page = NoPage
        BY DEF InitializeWebProcess
      <3> HIDE DEF q, y
      <3>3. WellFormed(q, y) BY <2>11, <3>1, <3>2 DEF WellFormed, y
      <3>4. Known(v, q, y)
        <4>1. \A p \in Page : p \notin y.pages /\ NoPage # p BY <2>11, WebAssumption DEF y
        <4>2. \A p \in Page : InitializeWebProcess # Message("close", p)
          BY DEF InitializeWebProcess, Message
        <4> QED BY <2>9, <3>1, <3>2, <4>1, <4>2 DEF Known
      <3>5. Answerable(v, r[n]) BY <2>11 DEF Answerable
      <3> QED BY <2>5, <2>13, <3>3, <3>4, <3>5 DEF Lines, q, y
    <2> QED BY <1>2, <2>2, <2>3, <2>5, <2>6, <2>7, <2>10, <2>11, <2>12, <2>13, <2>14 DEF Sound, v
  <1> QED BY <1>1, <1>2

LEMMA AppendFacts ==
    ASSUME NEW T, NEW q \in Seq(T), NEW m \in T
    PROVE  LET s == Append(q, m) IN
           /\ s \in Seq(T)
           /\ DOMAIN s = 1..(Len(q) + 1) /\ DOMAIN q = 1..Len(q) /\ Len(q) \in Nat
           /\ s[Len(q) + 1] = m /\ \A k \in 1..Len(q) : s[k] = q[k]
  OBVIOUS

(* A page that joins the current process.                                   *)
Joined(v, p) == [v EXCEPT !.proxy[v.current].pages = @ \cup {p},
                          !.page[p].state = "open",
                          !.page[p].valid = TRUE,
                          !.page[p].process = v.current]

LEMMA JoinedEffect ==
    ASSUME NEW u \in UIState, u.current # NoProcess, NEW p \in Page
    PROVE  LET v == Joined(u, p) IN
           /\ v \in UIState
           /\ v.current = u.current /\ v.launched = u.launched /\ v.toWeb = u.toWeb
           /\ v.page[p].state = "open" /\ v.page[p].valid = TRUE
           /\ v.page[p].process = u.current /\ v.page[p].waits = u.page[p].waits
           /\ \A y \in Page : y # p => v.page[y] = u.page[y]
           /\ v.proxy[u.current].pages = u.proxy[u.current].pages \cup {p}
           /\ \A k \in Proc : /\ v.proxy[k].state = u.proxy[k].state
                              /\ v.proxy[k].pending = u.proxy[k].pending
                              /\ v.proxy[k].timer = u.proxy[k].timer
                              /\ v.proxy[k].responsive = u.proxy[k].responsive
           /\ \A k \in Proc : k # u.current => v.proxy[k] = u.proxy[k]
  <1> DEFINE n == u.current
             a == u.proxy[n].pages \cup {p}
             x == [u.proxy[n] EXCEPT !.pages = a]
             y == [u.page[p] EXCEPT !.state = "open", !.valid = TRUE, !.process = n]
             v == Joined(u, p)
  <1>1. n \in Proc BY CurrentIsProc
  <1>2. v = [u EXCEPT !.proxy = [u.proxy EXCEPT ![n] = x], !.page = [u.page EXCEPT ![p] = y]]
    BY <1>1 DEF Joined, UIState
  <1>3. /\ u.proxy[n] \in ProxyState /\ u.page[p] \in PageState
        /\ u.proxy \in [Proc -> ProxyState] /\ u.page \in [Page -> PageState]
        /\ n \in 0..MaxProcess /\ a \in SUBSET Page
    BY <1>1, UIStateFields
  <1>4. ASSUME NEW b \in ProxyState, NEW d \in SUBSET Page
        PROVE  LET e == [b EXCEPT !.pages = d] IN
               /\ e \in ProxyState /\ e.state = b.state /\ e.pending = b.pending
               /\ e.timer = b.timer /\ e.responsive = b.responsive /\ e.pages = d
    BY DEF ProxyState
  <1>5. ASSUME NEW b \in PageState, NEW d \in 0..MaxProcess
        PROVE  LET e == [b EXCEPT !.state = "open", !.valid = TRUE, !.process = d] IN
               /\ e \in PageState /\ e.state = "open" /\ e.valid = TRUE
               /\ e.process = d /\ e.waits = b.waits
    BY DEF PageState
  <1> HIDE DEF a, n
  <1>6. /\ x \in ProxyState /\ x.state = u.proxy[n].state /\ x.pending = u.proxy[n].pending
        /\ x.timer = u.proxy[n].timer /\ x.responsive = u.proxy[n].responsive /\ x.pages = a
    BY <1>3, <1>4
  <1>7. /\ y \in PageState /\ y.state = "open" /\ y.valid = TRUE
        /\ y.process = n /\ y.waits = u.page[p].waits
    BY <1>3, <1>5
  <1> HIDE DEF x, y
  <1>8. /\ v \in UIState /\ v.current = u.current /\ v.launched = u.launched
        /\ v.toWeb = u.toWeb /\ v.proxy[n] = x /\ v.page[p] = y
        /\ \A k \in Proc : k # n => v.proxy[k] = u.proxy[k]
        /\ \A k \in Page : k # p => v.page[k] = u.page[k]
    <2> DEFINE f == [u.proxy EXCEPT ![n] = x]
               g == [u.page EXCEPT ![p] = y]
    <2>1. /\ f \in [Proc -> ProxyState] /\ f[n] = x
          /\ \A k \in Proc : k # n => f[k] = u.proxy[k]
      BY <1>1, <1>3, <1>6, ProxyUpdate
    <2>2. /\ g \in [Page -> PageState] /\ g[p] = y
          /\ \A k \in Page : k # p => g[k] = u.page[k]
      BY <1>3, <1>7, PageUpdate
    <2>3. v = [u EXCEPT !.proxy = f, !.page = g] BY <1>2
    <2> HIDE DEF f, g, v
    <2>4. /\ v \in UIState /\ v.proxy = f /\ v.page = g
          /\ v.current = u.current /\ v.launched = u.launched /\ v.toWeb = u.toWeb
      BY <2>1, <2>2, <2>3 DEF UIState
    <2> QED BY <2>1, <2>2, <2>4
  <1> HIDE DEF v
  <1> QED BY <1>1, <1>6, <1>7, <1>8 DEF a, n, v
(* A page of no process joins the current one.                              *)
LEMMA JoinSound ==
    ASSUME NEW u, NEW c \in SUBSET Page, NEW i, NEW r, Sound(u, c, i, web, r),
           u.current # NoProcess, NEW p \in Page, ~Valid(u, p),
           u.page[p].state # "closed"
    PROVE  LET v == Send(Joined(u, p), u.current, Message("create", p)) IN
           /\ Sound(v, c, i, web, r)
           /\ v.current = u.current /\ Attached(v, p)
           /\ v.page[p].waits = u.page[p].waits
           /\ \A y \in Page : y # p => v.page[y] = u.page[y]
           /\ \A k \in Proc : /\ v.proxy[k].timer = u.proxy[k].timer
                              /\ v.proxy[k].responsive = u.proxy[k].responsive
                              /\ v.proxy[k].state = u.proxy[k].state
           /\ Connects(u, web) => Outgoing(v, u.current)
                                    = Append(Outgoing(u, u.current), Message("create", p))
  <1> DEFINE n == u.current
             j == Joined(u, p)
             m == Message("create", p)
             v == Send(j, n, m)
             q == Outgoing(u, n)
             x == web[n]
  <1>0. /\ u \in UIState /\ Processes(u) /\ Pages(u, c, i) /\ Shape(u, web, r)
        /\ Lines(u, web, r) /\ n # NoProcess
    BY DEF Sound
  <1>1. n \in Proc BY <1>0, CurrentIsProc
  <1>2. m \in WebMessage /\ m.op = "create" /\ m.page = p BY MessageType
  <1>3. /\ j \in UIState
        /\ j.current = u.current /\ j.launched = u.launched /\ j.toWeb = u.toWeb
        /\ j.page[p].state = "open" /\ j.page[p].valid = TRUE
        /\ j.page[p].process = u.current /\ j.page[p].waits = u.page[p].waits
        /\ \A y \in Page : y # p => j.page[y] = u.page[y]
        /\ j.proxy[n].pages = u.proxy[n].pages \cup {p}
        /\ \A k \in Proc : /\ j.proxy[k].state = u.proxy[k].state
                           /\ j.proxy[k].pending = u.proxy[k].pending
                           /\ j.proxy[k].timer = u.proxy[k].timer
                           /\ j.proxy[k].responsive = u.proxy[k].responsive
        /\ \A k \in Proc : k # n => j.proxy[k] = u.proxy[k]
    BY <1>0, JoinedEffect
  <1> HIDE DEF m, j
  <1>4. Processes(j) BY <1>0, <1>3 DEF Processes
  <1>5. Outgoing(j, n) = q BY <1>1, <1>3 DEF Outgoing
  <1>6. /\ v \in UIState
        /\ v.current = j.current /\ v.launched = j.launched /\ v.page = j.page
        /\ \A k \in Proc : /\ v.proxy[k].state = j.proxy[k].state
                           /\ v.proxy[k].pages = j.proxy[k].pages
                           /\ v.proxy[k].timer = j.proxy[k].timer
                           /\ v.proxy[k].responsive = j.proxy[k].responsive
        /\ \A k \in Proc : v.proxy[k].state # "launching" =>
                              v.proxy[k].pending = j.proxy[k].pending
        /\ \A k \in Proc : v.proxy[k].state # "open" => v.toWeb[k] = j.toWeb[k]
        /\ Connects(j, web) => Outgoing(v, n) = Append(q, m)
    BY <1>0, <1>2, <1>3, <1>4, <1>5, SendEffect
  <1> HIDE DEF v
  <1>7. Processes(v) BY <1>4, <1>6 DEF Processes
  <1>8. ~Attached(u, p) BY <1>0 DEF Pages
  <1>9. \A y \in Page : Attached(v, y) <=> y = p \/ Attached(u, y)
    BY <1>0, <1>3, <1>6 DEF Attached
  <1>10. Pages(v, c, i)
    <2>1. i \in c \cup {NoPage} BY <1>0 DEF Pages
    <2>2. p \in c => p = i BY <1>0 DEF Pages, Valid
    <2>3. \A y \in c : /\ v.page[y].state = "open" /\ (y # i => v.page[y].valid)
                          /\ v.page[y].process # NoProcess
      BY <1>0, <1>3, <1>6 DEF Pages
    <2>4. ASSUME NEW y \in Page
          PROVE  /\ v.page[y].process <= v.launched
                 /\ v.page[y].state # "closed" =>
                       (Attached(v, y) <=> Valid(v, y) /\ y \notin c \ {i})
      <3>1. CASE y = p
        <4>1. u.current <= u.launched
          BY <1>0, UIStateFields DEF Processes, NoProcess
        <4> QED BY <1>3, <1>6, <1>9, <2>2, <3>1, <4>1 DEF Valid
      <3>2. CASE y # p BY <1>0, <1>3, <1>6, <1>9, <3>2 DEF Pages, Valid
      <3> QED BY <3>1, <3>2
    <2>5. v.proxy[v.current].pages = {y \in Page : Attached(v, y)}
      <3>1. {y \in Page : Attached(v, y)} = {y \in Page : Attached(u, y)} \cup {p}
        BY <1>9
      <3> QED BY <1>0, <1>1, <1>3, <1>6, <3>1 DEF Pages
    <2> QED BY <2>1, <2>3, <2>4, <2>5 DEF Pages
  <1>11. Shape(v, web, r) BY <1>0, <1>3, <1>6 DEF Shape
  <1>12. Lines(v, web, r)
    <2> SUFFICES ASSUME Connects(v, web) PROVE Lines(v, web, r) BY DEF Lines
    <2>1. Connects(u, web) /\ Connects(j, web) BY <1>3, <1>6 DEF Connects
    <2>2. WellFormed(q, x) /\ Known(u, q, x) /\ Answerable(u, r[n])
      BY <1>0, <2>1 DEF Lines
    <2>3. q \in Seq(WebMessage) BY <1>0, <1>1, QueueType
    <2> HIDE DEF q, x
    <2>4. p \notin x.pages /\ \A k \in DOMAIN q : q[k].page # p
      BY <1>0, <1>8, <2>2 DEF Known, Attached
    <2> DEFINE s == Append(q, m)
    <2>5. WellFormed(s, x) BY <1>2, <2>2, <2>3, <2>4, WellFormedAppend
    <2>6. /\ DOMAIN s = 1..(Len(q) + 1) /\ DOMAIN q = 1..Len(q) /\ Len(q) \in Nat
          /\ s[Len(q) + 1] = m /\ \A k \in 1..Len(q) : s[k] = q[k]
      BY <1>2, <2>3, AppendFacts
    <2> HIDE DEF s
    <2>7. Known(v, s, x)
      <3> SUFFICES ASSUME NEW y \in Page
                   PROVE  /\ y \in x.pages \/ (\E k \in DOMAIN s : s[k].page = y) =>
                                v.page[y].process = v.current /\ v.page[y].state # "none"
                          /\ (\E k \in DOMAIN s : s[k] = Message("close", y)) =>
                                v.page[y].state = "closed"
                          /\ Attached(v, y) =>
                                \/ y \in x.pages
                                \/ \E k \in DOMAIN s : s[k] = Message("create", y)
        BY DEF Known
      <3>1. (\E k \in DOMAIN s : s[k].page = y) =>
               y = p \/ \E k \in DOMAIN q : q[k].page = y
        BY <2>6, <1>2
      <3>2. (\E k \in DOMAIN s : s[k] = Message("close", y)) =>
               y # p /\ \E k \in DOMAIN q : q[k] = Message("close", y)
        <4>1. m # Message("close", y) BY <1>2 DEF Message
        <4>2. \A k \in DOMAIN q : q[k] = Message("close", y) => y # p
          BY <2>4 DEF Message
        <4> QED BY <2>6, <4>1, <4>2
      <3>3. (\E k \in DOMAIN q : q[k] = Message("create", y)) =>
               \E k \in DOMAIN s : s[k] = Message("create", y)
        BY <2>6
      <3>4. \E k \in DOMAIN s : s[k] = Message("create", p)
        <4>1. Len(q) + 1 \in DOMAIN s BY <2>6
        <4> QED BY <2>6, <4>1 DEF m
      <3>5. CASE y = p BY <1>3, <1>6, <3>2, <3>4, <3>5
      <3>6. CASE y # p
        BY <1>3, <1>6, <1>9, <2>2, <3>1, <3>2, <3>3, <3>6 DEF Known
      <3> QED BY <3>5, <3>6
    <2>8. Answerable(v, r[n])
      <3> SUFFICES ASSUME NEW k \in DOMAIN r[n], r[n][k].op # "shouldTerminate"
                   PROVE  /\ r[n][k].page \in Page
                          /\ v.page[r[n][k].page].process = v.current
                          /\ v.page[r[n][k].page].state # "none"
        BY DEF Answerable
      <3>1. /\ r[n][k].page \in Page
            /\ u.page[r[n][k].page].process = u.current
            /\ u.page[r[n][k].page].state # "none"
        BY <2>2 DEF Answerable
      <3> QED BY <1>3, <1>6, <3>1
    <2>9. Outgoing(v, v.current) = s /\ v.current = n BY <1>3, <1>6, <2>1 DEF q, s
    <2> QED BY <2>5, <2>7, <2>8, <2>9 DEF Lines, x
  <1>13. Connects(u, web) => Connects(j, web) BY <1>3 DEF Connects
  <1> QED BY <1>1, <1>3, <1>6, <1>7, <1>9, <1>10, <1>11, <1>12, <1>13 DEF Sound, m, v, j

LEMMA AttachIsJoin ==
    ASSUME NEW u, NEW p
    PROVE  Attach(u, p) = LET v == EnsureWebProcess(u) IN
                          Send(Joined(v, p), v.current, Message("create", p))
  BY DEF Attach, Joined
LEMMA AttachSound ==
    ASSUME NEW u, NEW c \in SUBSET Page, NEW i, NEW r, Sound(u, c, i, web, r),
           u.current # NoProcess \/ u.launched < MaxProcess,
           NEW p \in Page, ~Valid(u, p), u.page[p].state # "closed"
    PROVE  LET e == EnsureWebProcess(u)
               v == Attach(u, p) IN
           /\ Sound(e, c, i, web, r) /\ Sound(v, c, i, web, r)
           /\ v.current = e.current /\ Attached(v, p)
           /\ v.page[p].waits = u.page[p].waits
           /\ \A y \in Page : y # p => v.page[y] = u.page[y]
           /\ \A k \in Proc : /\ v.proxy[k].timer = e.proxy[k].timer
                              /\ v.proxy[k].responsive = e.proxy[k].responsive
                              /\ v.proxy[k].state = e.proxy[k].state
           /\ Connects(e, web) => Outgoing(v, v.current)
                                    = Append(Outgoing(e, v.current), Message("create", p))
  <1> DEFINE e == EnsureWebProcess(u)
  <1>1. /\ Sound(e, c, i, web, r) /\ e.page = u.page /\ e.current # NoProcess
    BY EnsureSound
  <1>2. ~Valid(e, p) /\ e.page[p].state # "closed" BY <1>1 DEF Valid
  <1>3. Attach(u, p) = Send(Joined(e, p), e.current, Message("create", p))
    BY AttachIsJoin
  <1> HIDE DEF e
  <1> DEFINE v == Send(Joined(e, p), e.current, Message("create", p))
  <1>4. /\ Sound(v, c, i, web, r)
        /\ v.current = e.current /\ Attached(v, p)
        /\ v.page[p].waits = e.page[p].waits
        /\ \A y \in Page : y # p => v.page[y] = e.page[y]
        /\ \A k \in Proc : /\ v.proxy[k].timer = e.proxy[k].timer
                           /\ v.proxy[k].responsive = e.proxy[k].responsive
                           /\ v.proxy[k].state = e.proxy[k].state
        /\ Connects(e, web) => Outgoing(v, e.current)
                                 = Append(Outgoing(e, e.current), Message("create", p))
    BY <1>1, <1>2, JoinSound
  <1> HIDE DEF v
  <1> QED BY <1>1, <1>3, <1>4 DEF e, v

(* A page that is closed leaves its process.                                *)
Left(u, n, p) == [u EXCEPT !.page[p].state = "closed", !.proxy[n].pages = @ \ {p}]

LEMMA LeftEffect ==
    ASSUME NEW u \in UIState, NEW n \in Proc, NEW p \in Page
    PROVE  LET v == Left(u, n, p) IN
           /\ v \in UIState
           /\ v.current = u.current /\ v.launched = u.launched /\ v.toWeb = u.toWeb
           /\ v.page[p].state = "closed" /\ v.page[p].process = u.page[p].process
           /\ v.page[p].waits = u.page[p].waits
           /\ \A y \in Page : y # p => v.page[y] = u.page[y]
           /\ v.proxy[n].pages = u.proxy[n].pages \ {p}
           /\ \A k \in Proc : /\ v.proxy[k].state = u.proxy[k].state
                              /\ v.proxy[k].pending = u.proxy[k].pending
                              /\ v.proxy[k].timer = u.proxy[k].timer
                              /\ v.proxy[k].responsive = u.proxy[k].responsive
           /\ \A k \in Proc : k # n => v.proxy[k] = u.proxy[k]
  <1> DEFINE a == u.proxy[n].pages \ {p}
             x == [u.proxy[n] EXCEPT !.pages = a]
             y == [u.page[p] EXCEPT !.state = "closed"]
             f == [u.proxy EXCEPT ![n] = x]
             g == [u.page EXCEPT ![p] = y]
             v == Left(u, n, p)
  <1>2. v = [u EXCEPT !.page = g, !.proxy = f] BY DEF UIState, Left
  <1>3. /\ u.proxy[n] \in ProxyState /\ u.page[p] \in PageState
        /\ u.proxy \in [Proc -> ProxyState] /\ u.page \in [Page -> PageState]
        /\ a \in SUBSET Page
    BY UIStateFields
  <1>4. ASSUME NEW b \in ProxyState, NEW d \in SUBSET Page
        PROVE  LET e == [b EXCEPT !.pages = d] IN
               /\ e \in ProxyState /\ e.state = b.state /\ e.pending = b.pending
               /\ e.timer = b.timer /\ e.responsive = b.responsive /\ e.pages = d
    BY DEF ProxyState
  <1>5. ASSUME NEW b \in PageState
        PROVE  LET e == [b EXCEPT !.state = "closed"] IN
               /\ e \in PageState /\ e.state = "closed"
               /\ e.process = b.process /\ e.waits = b.waits
    BY DEF PageState
  <1> HIDE DEF a
  <1>6. /\ x \in ProxyState /\ x.state = u.proxy[n].state /\ x.pending = u.proxy[n].pending
        /\ x.timer = u.proxy[n].timer /\ x.responsive = u.proxy[n].responsive /\ x.pages = a
    BY <1>3, <1>4
  <1>7. /\ y \in PageState /\ y.state = "closed"
        /\ y.process = u.page[p].process /\ y.waits = u.page[p].waits
    BY <1>3, <1>5
  <1> HIDE DEF x, y
  <1>8. /\ f \in [Proc -> ProxyState] /\ f[n] = x
        /\ \A k \in Proc : k # n => f[k] = u.proxy[k]
    BY <1>3, <1>6, ProxyUpdate
  <1>9. /\ g \in [Page -> PageState] /\ g[p] = y
        /\ \A k \in Page : k # p => g[k] = u.page[k]
    BY <1>3, <1>7, PageUpdate
  <1> HIDE DEF f, g, v
  <1>10. /\ v \in UIState /\ v.proxy = f /\ v.page = g
         /\ v.current = u.current /\ v.launched = u.launched /\ v.toWeb = u.toWeb
    BY <1>2, <1>8, <1>9 DEF UIState
  <1> QED BY <1>6, <1>7, <1>8, <1>9, <1>10 DEF a, v
LEMMA ClosedSound ==
    ASSUME NEW u, NEW c \in SUBSET Page, NEW i, NEW r, Sound(u, c, i, web, r),
           NEW p \in Page, Attached(u, p), p \notin c
    PROVE  LET v == Closed(u, p) IN
           /\ Sound(v, c, i, web, r)
           /\ v.current = u.current /\ v.page[p].state = "closed"
           /\ \A y \in Page : y # p => v.page[y] = u.page[y]
           /\ \A k \in Proc : /\ v.proxy[k].timer = u.proxy[k].timer
                              /\ v.proxy[k].responsive = u.proxy[k].responsive
                              /\ v.proxy[k].state = u.proxy[k].state
           /\ Connects(u, web) => Outgoing(v, u.current)
                                    = Append(Outgoing(u, u.current), Message("close", p))
  <1> DEFINE n == u.current
             m == Message("close", p)
             j == Send(u, n, m)
             v == Left(j, n, p)
             q == Outgoing(u, n)
             x == web[n]
  <1>0. /\ u \in UIState /\ Processes(u) /\ Pages(u, c, i) /\ Shape(u, web, r)
        /\ Lines(u, web, r) /\ n # NoProcess /\ u.page[p].process = n
        /\ u.page[p].state # "closed"
    BY DEF Sound, Attached
  <1>1. n \in Proc BY <1>0, CurrentIsProc
  <1>2. m \in WebMessage /\ m.op = "close" /\ m.page = p BY MessageType
  <1>3. Closed(u, p) = v BY <1>0 DEF Closed, Left
  <1> HIDE DEF m
  <1>4. /\ j \in UIState
        /\ j.current = u.current /\ j.launched = u.launched /\ j.page = u.page
        /\ \A k \in Proc : /\ j.proxy[k].state = u.proxy[k].state
                           /\ j.proxy[k].pages = u.proxy[k].pages
                           /\ j.proxy[k].timer = u.proxy[k].timer
                           /\ j.proxy[k].responsive = u.proxy[k].responsive
        /\ \A k \in Proc : j.proxy[k].state # "launching" =>
                              j.proxy[k].pending = u.proxy[k].pending
        /\ \A k \in Proc : j.proxy[k].state # "open" => j.toWeb[k] = u.toWeb[k]
        /\ Connects(u, web) => Outgoing(j, n) = Append(q, m)
    BY <1>0, <1>2, SendEffect
  <1> HIDE DEF j
  <1>5. /\ v \in UIState
        /\ v.current = j.current /\ v.launched = j.launched /\ v.toWeb = j.toWeb
        /\ v.page[p].state = "closed" /\ v.page[p].process = j.page[p].process
        /\ v.page[p].waits = j.page[p].waits
        /\ \A y \in Page : y # p => v.page[y] = j.page[y]
        /\ v.proxy[n].pages = j.proxy[n].pages \ {p}
        /\ \A k \in Proc : /\ v.proxy[k].state = j.proxy[k].state
                           /\ v.proxy[k].pending = j.proxy[k].pending
                           /\ v.proxy[k].timer = j.proxy[k].timer
                           /\ v.proxy[k].responsive = j.proxy[k].responsive
        /\ \A k \in Proc : k # n => v.proxy[k] = j.proxy[k]
    BY <1>1, <1>4, LeftEffect, SMTT(30)
  <1> HIDE DEF v
  <1>6. Processes(v) BY <1>0, <1>4, <1>5 DEF Processes
  <1>7. Outgoing(v, n) = Outgoing(j, n) BY <1>1, <1>5 DEF Outgoing
  <1>8. \A y \in Page : Attached(v, y) <=> y # p /\ Attached(u, y)
    BY <1>4, <1>5 DEF Attached
  <1>9. Pages(v, c, i)
    <2>1. {y \in Page : Attached(v, y)} = {y \in Page : Attached(u, y)} \ {p} BY <1>8
    <2>2. v.proxy[v.current].pages = {y \in Page : Attached(v, y)}
      BY <1>0, <1>1, <1>4, <1>5, <2>1 DEF Pages
    <2>3. \A y \in c : /\ v.page[y].state = "open" /\ (y # i => v.page[y].valid)
                          /\ v.page[y].process # NoProcess
      BY <1>0, <1>4, <1>5 DEF Pages
    <2>4. ASSUME NEW y \in Page
          PROVE  /\ v.page[y].process <= v.launched
                 /\ v.page[y].state # "closed" =>
                       (Attached(v, y) <=> Valid(v, y) /\ y \notin c \ {i})
      BY <1>0, <1>4, <1>5, <1>8 DEF Pages, Valid
    <2> QED BY <1>0, <2>2, <2>3, <2>4 DEF Pages
  <1>10. Shape(v, web, r) BY <1>0, <1>4, <1>5 DEF Shape
  <1>11. Lines(v, web, r)
    <2> SUFFICES ASSUME Connects(v, web) PROVE Lines(v, web, r) BY DEF Lines
    <2>1. Connects(u, web) BY <1>4, <1>5 DEF Connects
    <2>2. WellFormed(q, x) /\ Known(u, q, x) /\ Answerable(u, r[n])
      BY <1>0, <2>1 DEF Lines
    <2>3. q \in Seq(WebMessage) BY <1>0, <1>1, QueueType
    <2> HIDE DEF q, x
    <2>4. p \in x.pages \/ \E k \in DOMAIN q : q[k] = Message("create", p)
      BY <2>2 DEF Known
    <2>5. \A k \in DOMAIN q : q[k].op = "close" => q[k].page # p
      <3> SUFFICES ASSUME NEW k \in DOMAIN q, q[k].op = "close", q[k].page = p PROVE FALSE
        OBVIOUS
      <3>1. q[k] = Message("close", p)
        <4>1. q[k] \in WebMessage BY <2>3
        <4> QED BY <4>1, MessageParts
      <3> QED BY <3>1, <2>2 DEF Known, Attached
    <2> DEFINE s == Append(q, m)
    <2>6. WellFormed(s, x) BY <1>2, <2>2, <2>3, <2>4, <2>5, WellFormedAppend
    <2>7. /\ DOMAIN s = 1..(Len(q) + 1) /\ DOMAIN q = 1..Len(q) /\ Len(q) \in Nat
          /\ s[Len(q) + 1] = m /\ \A k \in 1..Len(q) : s[k] = q[k]
      BY <1>2, <2>3, AppendFacts
    <2> HIDE DEF s
    <2>8. Known(v, s, x)
      <3> SUFFICES ASSUME NEW y \in Page
                   PROVE  /\ y \in x.pages \/ (\E k \in DOMAIN s : s[k].page = y) =>
                                v.page[y].process = v.current /\ v.page[y].state # "none"
                          /\ (\E k \in DOMAIN s : s[k] = Message("close", y)) =>
                                v.page[y].state = "closed"
                          /\ Attached(v, y) =>
                                \/ y \in x.pages
                                \/ \E k \in DOMAIN s : s[k] = Message("create", y)
        BY DEF Known
      <3>1. (\E k \in DOMAIN s : s[k].page = y) =>
               y = p \/ \E k \in DOMAIN q : q[k].page = y
        BY <2>7, <1>2
      <3>2. (\E k \in DOMAIN s : s[k] = Message("close", y)) =>
               y = p \/ \E k \in DOMAIN q : q[k] = Message("close", y)
        <4>1. m = Message("close", y) => y = p BY <1>2 DEF Message
        <4> QED BY <2>7, <4>1
      <3>3. (\E k \in DOMAIN q : q[k] = Message("create", y)) =>
               \E k \in DOMAIN s : s[k] = Message("create", y)
        BY <2>7
      <3>4. CASE y = p BY <1>0, <1>4, <1>5, <1>8, <3>4
      <3>5. CASE y # p
        BY <1>4, <1>5, <1>8, <2>2, <3>1, <3>2, <3>3, <3>5 DEF Known
      <3> QED BY <3>4, <3>5
    <2>9. Answerable(v, r[n])
      <3> SUFFICES ASSUME NEW k \in DOMAIN r[n], r[n][k].op # "shouldTerminate"
                   PROVE  /\ r[n][k].page \in Page
                          /\ v.page[r[n][k].page].process = v.current
                          /\ v.page[r[n][k].page].state # "none"
        BY DEF Answerable
      <3>1. /\ r[n][k].page \in Page
            /\ u.page[r[n][k].page].process = u.current
            /\ u.page[r[n][k].page].state # "none"
        BY <2>2 DEF Answerable
      <3> QED BY <1>4, <1>5, <3>1
    <2>10. Outgoing(v, v.current) = s /\ v.current = n
      BY <1>4, <1>5, <1>7, <2>1 DEF q, s
    <2> QED BY <2>6, <2>8, <2>9, <2>10 DEF Lines, x
  <1> QED BY <1>3, <1>4, <1>5, <1>6, <1>7, <1>9, <1>10, <1>11 DEF Sound, m, j

(* The end of the current process: its pages are about to be told.          *)
LEMMA DisconnectedSound ==
    ASSUME NEW u, NEW i, NEW r, Sound(u, {}, i, web, r), u.current # NoProcess, NEW s
    PROVE  LET n == u.current
               v == Disconnected(u, n)
               t == [r EXCEPT ![n] = s] IN
           /\ Sound(v, u.proxy[n].pages, i, web, t)
           /\ u.proxy[n].pages \in SUBSET Page
           /\ v.page = u.page /\ v.current = NoProcess
           /\ \A k \in Proc : k # n => v.proxy[k] = u.proxy[k]
           /\ v.proxy[n].timer = FALSE /\ v.proxy[n].responsive = TRUE
  <1> DEFINE n == u.current
             a == TimerStop(u, n)
             b == a.proxy[n]
             x == [b EXCEPT !.state = "closed"]
             v == Disconnected(u, n)
             t == [r EXCEPT ![n] = s]
             f == [a.proxy EXCEPT ![n] = x]
             c == u.proxy[n].pages
  <1>0. /\ u \in UIState /\ Processes(u) /\ Pages(u, {}, i) /\ Shape(u, web, r)
    BY DEF Sound
  <1>1. n \in Proc /\ n # NoProcess BY <1>0, CurrentIsProc
  <1>2. /\ a \in UIState
        /\ SameButWaits(u, a) /\ a.page = u.page
        /\ a.proxy[n].timer = FALSE /\ a.proxy[n].responsive = TRUE
        /\ \A k \in Proc : k # n => a.proxy[k] = u.proxy[k]
    BY <1>0, <1>1, TimerStopEffect
  <1>3. v = [a EXCEPT !.proxy = f, !.current = NoProcess]
    <2>1. v = [a EXCEPT !.proxy[n].state = "closed", !.current = NoProcess]
      BY DEF Disconnected
    <2> HIDE DEF a, v
    <2> QED BY <1>1, <1>2, <2>1 DEF UIState
  <1> HIDE DEF a
  <1>4. b \in ProxyState /\ a.proxy \in [Proc -> ProxyState] BY <1>1, <1>2, UIStateFields
  <1>5. /\ x \in ProxyState /\ x.state = "closed"
        /\ x.timer = b.timer /\ x.responsive = b.responsive
    <2> HIDE DEF b
    <2> QED BY <1>4 DEF ProxyState
  <1> HIDE DEF x
  <1>6. /\ f \in [Proc -> ProxyState] /\ f[n] = x
        /\ \A k \in Proc : k # n => f[k] = a.proxy[k]
    BY <1>1, <1>4, <1>5, ProxyUpdate
  <1>7. NoProcess \in 0..MaxProcess BY WebAssumption DEF NoProcess
  <1> HIDE DEF f, v
  <1>8. /\ v \in UIState /\ v.proxy = f /\ v.page = a.page
        /\ v.current = NoProcess /\ v.launched = a.launched /\ v.toWeb = a.toWeb
    BY <1>2, <1>3, <1>6, <1>7 DEF UIState
  <1>9. Processes(v)
    <2> SUFFICES ASSUME NEW k \in Proc
                 PROVE  /\ k > v.launched => v.proxy[k].state = "none"
                        /\ k <= v.launched /\ k # v.current => v.proxy[k].state = "closed"
                        /\ k = v.current => v.proxy[k].state \in {"launching", "open"}
      BY <1>8 DEF Processes
    <2>1. v.launched = u.launched BY <1>2, <1>8 DEF SameButWaits
    <2>2. n <= u.launched BY <1>0, <1>1, UIStateFields DEF Processes, NoProcess
    <2>3. k # NoProcess BY DEF Proc, NoProcess
    <2>4. CASE k = n BY <1>0, <1>1, <1>5, <1>6, <1>8, <2>1, <2>2, <2>3, <2>4, UIStateFields DEF Proc
    <2>5. CASE k # n BY <1>0, <1>2, <1>6, <1>8, <2>1, <2>3, <2>5 DEF Processes
    <2> QED BY <2>4, <2>5
  <1>10. c \in SUBSET Page BY <1>0, <1>1, UIStateFields
  <1>11. c = {p \in Page : Attached(u, p)} BY <1>0, <1>1 DEF Pages
  <1>12. Pages(v, c, i)
    <2>1. i = NoPage BY <1>0 DEF Pages
    <2>2. NoPage \notin c BY <1>10, WebAssumption
    <2>3. v.page = u.page /\ v.launched = u.launched BY <1>2, <1>8 DEF SameButWaits
    <2>4. \A p \in Page : ~Attached(v, p) BY <1>8 DEF Attached
    <2>5. \A p \in Page : Valid(v, p) <=> Valid(u, p) BY <2>3 DEF Valid
    <2>6. \A p \in Page : /\ u.page[p].process <= u.launched
                          /\ u.page[p].state # "closed" =>
                                (Attached(u, p) <=> Valid(u, p))
      BY <1>0 DEF Pages
    <2>7. \A p \in c : /\ v.page[p].state = "open" /\ (p # i => v.page[p].valid)
                          /\ v.page[p].process # NoProcess
      BY <1>11, <2>3, <2>6 DEF Valid, Attached
    <2>8. \A p \in Page : v.page[p].state # "closed" =>
                             (Attached(v, p) <=> Valid(v, p) /\ p \notin c \ {i})
      BY <1>11, <2>1, <2>2, <2>3, <2>4, <2>5, <2>6
    <2> QED BY <1>8, <2>1, <2>3, <2>6, <2>7, <2>8 DEF Pages
  <1>13. Shape(v, web, t)
    <2> SUFFICES ASSUME NEW k \in Proc
                 PROVE  /\ v.proxy[k].state \in {"none", "launching"} =>
                              /\ v.toWeb[k] = << >> /\ t[k] = << >>
                              /\ web[k].pages = {} /\ ~web[k].initialized
                        /\ v.proxy[k].state = "none" => web[k].state = "none"
                        /\ v.proxy[k].state = "open" => v.proxy[k].pending = << >>
      BY DEF Shape
    <2>1. CASE k = n BY <1>5, <1>6, <1>8, <2>1
    <2>2. CASE k # n
      <3>1. v.proxy[k] = u.proxy[k] /\ v.toWeb[k] = u.toWeb[k]
        BY <1>2, <1>6, <1>8, <2>2 DEF SameButWaits
      <3>2. r[k] = << >> => t[k] = << >> BY <2>2
      <3> QED BY <1>0, <3>1, <3>2 DEF Shape
    <2> QED BY <2>1, <2>2
  <1>14. Lines(v, web, t) BY <1>8 DEF Lines, Connects
  <1> QED BY <1>2, <1>5, <1>6, <1>8, <1>9, <1>10, <1>12, <1>13, <1>14 DEF Sound, v
-----------------------------------------------------------------------------
(* Events and their answers.                                               *)

EventOps == {"key", "wheel", "move"}

(* How often an event of page p is under way between it and its process.    *)
Under(u, r, op, p) ==
    Count(Outgoing(u, u.current), {Message(op, p)}) + Count(r[u.current], {Message(op, p)})

Matches(x, keys, wheels, moves) ==
    /\ x.keys = keys
    /\ wheels = IF x.wheel > 0 THEN 1 ELSE 0
    /\ moves = IF x.moving THEN 1 ELSE 0
    /\ x.wheelQueue > 0 => x.wheel > 0
    /\ x.nextMove => x.moving

(* A page without a process waits for nothing, but the one whose crash is   *)
(* being told; and of that one nothing is under way.                        *)
EventsOf(u, w, r, i, p) ==
    /\ ~Valid(u, p) /\ u.page[p].state # "closed" /\ p # i =>
          u.page[p].waits = NoEvents
    /\ Connects(u, w) /\ Attached(u, p) =>
          IF p = i THEN \A op \in EventOps : Under(u, r, op, p) = 0
          ELSE Matches(u.page[p].waits, Under(u, r, "key", p),
                       Under(u, r, "wheel", p), Under(u, r, "move", p))

Events(u, w, r, i) == \A p \in Page : EventsOf(u, w, r, i, p)

Good(u, c, i, w, r) == Sound(u, c, i, w, r) /\ Alarm(u, w, r) /\ Events(u, w, r, i)

Replies == [Proc -> Seq(UIMessage)]

LEMMA UnderType ==
    ASSUME NEW u \in UIState, u.current # NoProcess, NEW r \in Replies, NEW op, NEW p
    PROVE  Under(u, r, op, p) \in Nat
  <1>1. u.current \in Proc BY CurrentIsProc
  <1>2. Outgoing(u, u.current) \in Seq(WebMessage) BY <1>1, QueueType
  <1>3. r[u.current] \in Seq(UIMessage) BY <1>1 DEF Replies
  <1>4. Count(Outgoing(u, u.current), {Message(op, p)}) \in Nat BY <1>2, CountType
  <1>5. Count(r[u.current], {Message(op, p)}) \in Nat BY <1>3, CountType
  <1> QED BY <1>4, <1>5 DEF Under

LEMMA UnderSend ==
    ASSUME NEW u \in UIState, u.current # NoProcess, NEW r \in Replies, NEW m \in WebMessage,
           NEW v, v.current = u.current,
           Outgoing(v, u.current) = Append(Outgoing(u, u.current), m), NEW op, NEW p
    PROVE  Under(v, r, op, p) = Under(u, r, op, p) + (IF m = Message(op, p) THEN 1 ELSE 0)
  <1>1. u.current \in Proc BY CurrentIsProc
  <1> DEFINE q == Outgoing(u, u.current)
             M == {Message(op, p)}
  <1>2. q \in Seq(WebMessage) BY <1>1, QueueType
  <1>3. r[u.current] \in Seq(UIMessage) BY <1>1 DEF Replies
  <1>4. Count(q, M) \in Nat BY <1>2, CountType
  <1>5. Count(r[u.current], M) \in Nat BY <1>3, CountType
  <1> HIDE DEF q
  <1>6. Count(Append(q, m), M) = Count(q, M) + (IF m \in M THEN 1 ELSE 0)
    BY <1>2, CountAppend
  <1>7. Under(u, r, op, p) = Count(q, M) + Count(r[u.current], M) BY DEF Under, q
  <1>8. Under(v, r, op, p) = Count(Append(q, m), M) + Count(r[u.current], M)
    BY DEF Under, q
  <1> QED BY <1>4, <1>5, <1>6, <1>7, <1>8

(* A page that the current process knows nothing of has nothing under way.  *)
LEMMA UnderNothing ==
    ASSUME NEW u, NEW c, NEW i, NEW w, NEW r \in Replies, Sound(u, c, i, w, r),
           Connects(u, w), NEW p \in Page, ~Attached(u, p), u.page[p].state # "closed",
           NEW op \in EventOps
    PROVE  Under(u, r, op, p) = 0
  <1> DEFINE n == u.current
             q == Outgoing(u, n)
             s == r[n]
             m == Message(op, p)
  <1>0. u \in UIState /\ n # NoProcess /\ Known(u, q, w[n]) /\ Answerable(u, s)
    BY DEF Sound, Lines, Connects
  <1>1. n \in Proc BY <1>0, CurrentIsProc
  <1>2. q \in Seq(WebMessage) BY <1>0, <1>1, QueueType
  <1>3. s \in Seq(UIMessage) BY <1>1 DEF Replies
  <1>4. m.page = p /\ m.op = op BY DEF Message
  <1> HIDE DEF q, s, m
  <1>5. \A k \in DOMAIN q : q[k] # m BY <1>0, <1>4 DEF Known, Attached
  <1>6. \A k \in DOMAIN s : s[k] # m BY <1>0, <1>4 DEF Answerable, Attached, EventOps
  <1>7. Count(q, {m}) = 0 BY <1>2, <1>5, CountType
  <1>8. Count(s, {m}) = 0 BY <1>3, <1>6, CountType
  <1> QED BY <1>7, <1>8 DEF Under, q, s, m

LEMMA ReasonAppend ==
    ASSUME NEW q \in Seq(WebMessage), NEW m \in WebMessage, NEW s
    PROVE  /\ Reason(q, s) => Reason(Append(q, m), s)
           /\ m.op \in TimedOps => Reason(Append(q, m), s)
  <1> DEFINE t == Append(q, m)
  <1>1. /\ DOMAIN t = 1..(Len(q) + 1) /\ DOMAIN q = 1..Len(q) /\ Len(q) \in Nat
        /\ t[Len(q) + 1] = m /\ \A k \in 1..Len(q) : t[k] = q[k]
    BY AppendFacts
  <1>2. Len(q) + 1 \in DOMAIN t BY <1>1
  <1> HIDE DEF t
  <1>3. (\E k \in DOMAIN q : q[k].op \in TimedOps) => \E k \in DOMAIN t : t[k].op \in TimedOps
    BY <1>1
  <1>4. m.op \in TimedOps => \E k \in DOMAIN t : t[k].op \in TimedOps BY <1>1, <1>2
  <1> QED BY <1>3, <1>4 DEF Reason, t

(* A timed message is a reason for the alarm that it sets.                  *)
LEMMA SendTimedEffect ==
    ASSUME NEW u, NEW c \in SUBSET Page, NEW i, NEW r, Sound(u, c, i, web, r),
           NEW p \in Page, Attached(u, p), NEW op \in TimedOps
    PROVE  LET v == SendTimed(u, p, op) IN
           /\ Sound(v, c, i, web, r) /\ Alarm(v, web, r)
           /\ Calm(u, v)
           /\ v.page = u.page /\ v.current = u.current
           /\ \A y \in Page : Attached(v, y) <=> Attached(u, y)
           /\ \A y \in Page : Valid(v, y) <=> Valid(u, y)
           /\ Connects(v, web) <=> Connects(u, web)
           /\ Connects(u, web) => Outgoing(v, u.current)
                                    = Append(Outgoing(u, u.current), Message(op, p))
  <1> DEFINE n == u.current
             m == Message(op, p)
             a == Send(u, n, m)
             v == SendTimed(u, p, op)
  <1>0. /\ u \in UIState /\ Processes(u) /\ n # NoProcess /\ u.page[p].process = n
    BY DEF Sound, Attached
  <1>1. n \in Proc BY <1>0, CurrentIsProc
  <1>2. op \in PageOps BY DEF TimedOps, PageOps
  <1>3. m \in WebMessage /\ m.op = op BY <1>2, MessageType DEF PageOps
  <1>4. /\ Sound(a, c, i, web, r)
        /\ a.page = u.page /\ a.current = u.current /\ a.launched = u.launched
        /\ \A k \in Proc : /\ a.proxy[k].timer = u.proxy[k].timer
                           /\ a.proxy[k].responsive = u.proxy[k].responsive
                           /\ a.proxy[k].state = u.proxy[k].state
        /\ Connects(u, web) => Outgoing(a, n) = Append(Outgoing(u, n), m)
    BY <1>2, SendSound
  <1>5. v = TimerStart(a, n) BY <1>0 DEF SendTimed
  <1> HIDE DEF v, a, m
  <1>6. a \in UIState BY <1>4 DEF Sound
  <1>7. /\ v \in UIState /\ SameButWaits(a, v) /\ v.page = a.page
        /\ \A k \in Proc : k # n => v.proxy[k] = a.proxy[k]
    BY <1>1, <1>5, <1>6, TimerStartEffect
  <1>8. /\ Sound(v, c, i, web, r)
        /\ \A k \in Proc : Outgoing(v, k) = Outgoing(a, k)
    BY <1>4, <1>7, SameButWaitsSound
  <1>9. v.current = u.current /\ v.page = u.page BY <1>4, <1>7 DEF SameButWaits
  <1>10. Connects(v, web) <=> Connects(u, web) BY <1>9 DEF Connects
  <1>11. Alarm(v, web, r)
    <2> SUFFICES ASSUME Connects(v, web)
                 PROVE  Reason(Outgoing(v, n), r[n])
      BY <1>9 DEF Alarm
    <2>1. Outgoing(v, n) = Append(Outgoing(u, n), m) BY <1>1, <1>4, <1>8, <1>10
    <2>2. Outgoing(u, n) \in Seq(WebMessage) BY <1>0, <1>1, QueueType
    <2> QED BY <1>3, <2>1, <2>2, ReasonAppend
  <1>12. Calm(u, v)
    <2>1. u.proxy[n].state # "closed" BY <1>0, <1>1 DEF Processes
    <2>2. \A k \in Proc : v.proxy[k].state = u.proxy[k].state
      BY <1>4, <1>7 DEF SameButWaits
    <2> QED BY <1>4, <1>7, <2>1, <2>2 DEF Calm, Silent
  <1>13. \A y \in Page : Attached(v, y) <=> Attached(u, y) BY <1>9 DEF Attached
  <1>14. \A y \in Page : Valid(v, y) <=> Valid(u, y) BY <1>9 DEF Valid
  <1> QED BY <1>1, <1>4, <1>8, <1>9, <1>10, <1>11, <1>12, <1>13, <1>14 DEF v, m, a
LEMMA AttachedIsValid ==
    ASSUME NEW u, NEW c, NEW i, NEW w, NEW r, Sound(u, c, i, w, r), NEW p \in Page,
           Attached(u, p)
    PROVE  Valid(u, p) /\ p \notin c \ {i}
  BY DEF Sound, Pages, Attached

(* The events of a page that nothing is done to.                            *)
LEMMA EventsKept ==
    ASSUME NEW u, NEW v, NEW w, NEW r, NEW i, NEW p, EventsOf(u, w, r, i, p),
           Valid(v, p) <=> Valid(u, p), Attached(v, p) <=> Attached(u, p),
           Connects(v, w) => Connects(u, w),
           v.page[p] = u.page[p],
           Connects(u, w) => \A op \in EventOps : Under(v, r, op, p) = Under(u, r, op, p)
    PROVE  EventsOf(v, w, r, i, p)
  BY DEF EventsOf, EventOps

(* An event of page p is sent, and its page waits for the answer.           *)
LEMMA EventSent ==
    ASSUME NEW u, NEW c \in SUBSET Page, NEW i, NEW r \in Replies, Sound(u, c, i, web, r),
           NEW p \in Page, Attached(u, p), p # i, NEW y \in WaitsState,
           NEW op \in {"key", "wheel"},
           \A z \in Page : z # p => EventsOf(u, web, r, i, z),
           Connects(u, web) =>
               Matches(y, Under(u, r, "key", p) + (IF op = "key" THEN 1 ELSE 0),
                       Under(u, r, "wheel", p) + (IF op = "wheel" THEN 1 ELSE 0),
                       Under(u, r, "move", p))
    PROVE  LET v == SendTimed(WithWaits(u, p, y), p, op) IN
           Good(v, c, i, web, r) /\ Calm(u, v)
  <1> DEFINE n == u.current
             m == Message(op, p)
             a == WithWaits(u, p, y)
             v == SendTimed(a, p, op)
  <1>0. u \in UIState /\ n # NoProcess BY DEF Sound, Attached
  <1>1. /\ a \in UIState /\ SameButWaits(u, a)
        /\ a.proxy = u.proxy /\ a.page[p].waits = y
        /\ \A k \in Page : k # p => a.page[k] = u.page[k]
    BY <1>0, WaitsEffect
  <1> HIDE DEF a
  <1>2. /\ Sound(a, c, i, web, r)
        /\ \A k \in Proc : Outgoing(a, k) = Outgoing(u, k)
        /\ \A k \in Page : Attached(a, k) <=> Attached(u, k)
        /\ \A k \in Page : Valid(a, k) <=> Valid(u, k)
        /\ Connects(a, web) <=> Connects(u, web)
    BY <1>1, SameButWaitsSound
  <1>3. op \in TimedOps BY DEF TimedOps
  <1>4. a.current = n BY <1>1 DEF SameButWaits
  <1>5. /\ Sound(v, c, i, web, r) /\ Alarm(v, web, r)
        /\ Calm(a, v)
        /\ v.page = a.page /\ v.current = a.current
        /\ \A z \in Page : Attached(v, z) <=> Attached(a, z)
        /\ \A z \in Page : Valid(v, z) <=> Valid(a, z)
        /\ Connects(v, web) <=> Connects(a, web)
        /\ Connects(a, web) => Outgoing(v, a.current) = Append(Outgoing(a, a.current), m)
    BY <1>2, <1>3, SendTimedEffect
  <1> HIDE DEF v
  <1>6. n \in Proc BY <1>0, CurrentIsProc
  <1>7. m \in WebMessage /\ m.op = op /\ m.page = p BY MessageType
  <1>8. ASSUME Connects(u, web), NEW z, NEW o
        PROVE  Under(v, r, o, z) = Under(u, r, o, z) + (IF m = Message(o, z) THEN 1 ELSE 0)
    <2>1. Outgoing(v, n) = Append(Outgoing(u, n), m) /\ v.current = n
      BY <1>2, <1>4, <1>5, <1>6, <1>8
    <2> HIDE DEF m
    <2> QED BY <1>0, <1>7, <2>1, UnderSend
  <1>9. \A z : \A o \in EventOps : (m = Message(o, z)) <=> (o = op /\ z = p)
    BY DEF Message
  <1> HIDE DEF m
  <1>10. \A o \in EventOps : Connects(u, web) => \A z \in Page : Under(u, r, o, z) \in Nat
    BY <1>0, UnderType
  <1>11. ASSUME NEW z \in Page PROVE EventsOf(v, web, r, i, z)
    <2>1. CASE z = p
      <3>1. Valid(v, p) BY <1>2, <1>5, AttachedIsValid
      <3>2. v.page[p].waits = y BY <1>1, <1>5
      <3>3. ASSUME Connects(v, web)
            PROVE  Matches(y, Under(v, r, "key", p), Under(v, r, "wheel", p),
                           Under(v, r, "move", p))
        <4>1. Connects(u, web) BY <1>2, <1>5, <3>3
        <4>2. /\ Under(v, r, "key", p) = Under(u, r, "key", p) + (IF op = "key" THEN 1 ELSE 0)
              /\ Under(v, r, "wheel", p) = Under(u, r, "wheel", p) + (IF op = "wheel" THEN 1 ELSE 0)
              /\ Under(v, r, "move", p) = Under(u, r, "move", p)
          BY <1>8, <1>9, <1>10, <4>1 DEF EventOps
        <4> QED BY <4>1, <4>2
      <3> QED BY <2>1, <3>1, <3>2, <3>3 DEF EventsOf
    <2>2. CASE z # p
      <3>1. Connects(u, web) => \A o \in EventOps : Under(v, r, o, z) = Under(u, r, o, z)
        BY <1>8, <1>9, <1>10, <2>2
      <3>2. v.page[z] = u.page[z] BY <1>1, <1>5, <2>2
      <3> QED BY <1>2, <1>5, <2>2, <3>1, <3>2, EventsKept
    <2> QED BY <2>1, <2>2
  <1>12. Calm(u, a) BY <1>1 DEF Calm, Silent
  <1>13. Calm(u, v) BY <1>5, <1>12, CalmTrans
  <1> QED BY <1>5, <1>11, <1>13 DEF Good, Events, v, a

(* So is a mouse move, without the timer.                                   *)
LEMMA MoveSent ==
    ASSUME NEW u, NEW c \in SUBSET Page, NEW i, NEW r \in Replies, Sound(u, c, i, web, r),
           Alarm(u, web, r),
           NEW p \in Page, Attached(u, p), p # i, NEW y \in WaitsState,
           \A z \in Page : z # p => EventsOf(u, web, r, i, z),
           Connects(u, web) =>
               Matches(y, Under(u, r, "key", p), Under(u, r, "wheel", p),
                       Under(u, r, "move", p) + 1)
    PROVE  LET v == Send(WithWaits(u, p, y), u.current, Message("move", p)) IN
           Good(v, c, i, web, r) /\ Calm(u, v)
  <1> DEFINE n == u.current
             m == Message("move", p)
             a == WithWaits(u, p, y)
             v == Send(a, n, m)
  <1>0. u \in UIState /\ n # NoProcess BY DEF Sound, Attached
  <1>1. /\ a \in UIState /\ SameButWaits(u, a)
        /\ a.proxy = u.proxy /\ a.page[p].waits = y
        /\ \A k \in Page : k # p => a.page[k] = u.page[k]
    BY <1>0, WaitsEffect
  <1> HIDE DEF a
  <1>2. /\ Sound(a, c, i, web, r)
        /\ \A k \in Proc : Outgoing(a, k) = Outgoing(u, k)
        /\ \A k \in Page : Attached(a, k) <=> Attached(u, k)
        /\ \A k \in Page : Valid(a, k) <=> Valid(u, k)
        /\ Connects(a, web) <=> Connects(u, web)
    BY <1>1, SameButWaitsSound
  <1>3. "move" \in PageOps BY DEF PageOps
  <1>4. a.current = n BY <1>1 DEF SameButWaits
  <1>5. /\ Sound(v, c, i, web, r)
        /\ v.page = a.page /\ v.current = a.current
        /\ \A k \in Proc : /\ v.proxy[k].timer = a.proxy[k].timer
                           /\ v.proxy[k].responsive = a.proxy[k].responsive
                           /\ v.proxy[k].state = a.proxy[k].state
        /\ Connects(a, web) => Outgoing(v, n) = Append(Outgoing(a, n), m)
    <2> DEFINE t == Send(a, a.current, Message("move", p))
    <2>1. Attached(a, p) BY <1>2
    <2>2. /\ Sound(t, c, i, web, r)
          /\ t.page = a.page /\ t.current = a.current
          /\ \A k \in Proc : /\ t.proxy[k].timer = a.proxy[k].timer
                             /\ t.proxy[k].responsive = a.proxy[k].responsive
                             /\ t.proxy[k].state = a.proxy[k].state
          /\ Connects(a, web) => Outgoing(t, a.current)
                                   = Append(Outgoing(a, a.current), Message("move", p))
      BY <1>2, <1>3, <2>1, SendSound
    <2> QED BY <1>4, <2>2
  <1> HIDE DEF v
  <1>6. n \in Proc BY <1>0, CurrentIsProc
  <1>7. m \in WebMessage /\ m.op = "move" /\ m.page = p BY MessageType
  <1>8. /\ \A z \in Page : Attached(v, z) <=> Attached(u, z)
        /\ \A z \in Page : Valid(v, z) <=> Valid(u, z)
        /\ Connects(v, web) <=> Connects(u, web)
    <2>1. /\ \A z \in Page : Attached(v, z) <=> Attached(a, z)
          /\ \A z \in Page : Valid(v, z) <=> Valid(a, z)
          /\ Connects(v, web) <=> Connects(a, web)
      BY <1>5 DEF Attached, Valid, Connects
    <2> QED BY <1>2, <2>1
  <1>9. ASSUME Connects(u, web), NEW z, NEW o
        PROVE  Under(v, r, o, z) = Under(u, r, o, z) + (IF m = Message(o, z) THEN 1 ELSE 0)
    <2>1. Outgoing(v, n) = Append(Outgoing(u, n), m) /\ v.current = n
      BY <1>2, <1>4, <1>5, <1>6, <1>9
    <2> HIDE DEF m
    <2> QED BY <1>0, <1>7, <2>1, UnderSend
  <1>10. \A z : \A o \in EventOps : (m = Message(o, z)) <=> (o = "move" /\ z = p)
    BY DEF Message
  <1> HIDE DEF m
  <1>11. \A o \in EventOps : Connects(u, web) => \A z \in Page : Under(u, r, o, z) \in Nat
    BY <1>0, UnderType
  <1>12. ASSUME NEW z \in Page PROVE EventsOf(v, web, r, i, z)
    <2>1. CASE z = p
      <3>1. Valid(v, p) BY <1>5, <1>8, AttachedIsValid
      <3>2. v.page[p].waits = y BY <1>1, <1>5
      <3>3. ASSUME Connects(v, web)
            PROVE  Matches(y, Under(v, r, "key", p), Under(v, r, "wheel", p),
                           Under(v, r, "move", p))
        <4>1. Connects(u, web) BY <1>8, <3>3
        <4>2. /\ Under(v, r, "key", p) = Under(u, r, "key", p)
              /\ Under(v, r, "wheel", p) = Under(u, r, "wheel", p)
              /\ Under(v, r, "move", p) = Under(u, r, "move", p) + 1
          BY <1>9, <1>10, <1>11, <4>1 DEF EventOps
        <4> QED BY <4>1, <4>2
      <3> QED BY <2>1, <3>1, <3>2, <3>3 DEF EventsOf
    <2>2. CASE z # p
      <3>1. Connects(u, web) => \A o \in EventOps : Under(v, r, o, z) = Under(u, r, o, z)
        BY <1>9, <1>10, <1>11, <2>2
      <3>2. v.page[z] = u.page[z] BY <1>1, <1>5, <2>2
      <3> QED BY <1>8, <2>2, <3>1, <3>2, EventsKept
    <2> QED BY <2>1, <2>2
  <1>13. Calm(u, v) BY <1>1, <1>5 DEF Calm, Silent
  <1>14. Alarm(v, web, r)
    <2> SUFFICES ASSUME Connects(v, web),
                        v.proxy[n].timer \/ ~v.proxy[n].responsive,
                        \A z \in Page : v.page[z].state # "closed"
                 PROVE  Reason(Outgoing(v, n), r[n])
      BY <1>4, <1>5 DEF Alarm
    <2>1. \A z \in Page : u.page[z].state # "closed" BY <1>1, <1>5 DEF SameButWaits
    <2>2. Reason(Outgoing(u, n), r[n]) BY <1>1, <1>5, <1>6, <1>8, <2>1 DEF Alarm
    <2>3. Outgoing(v, n) = Append(Outgoing(u, n), m) BY <1>2, <1>4, <1>5, <1>6, <1>8
    <2>4. Outgoing(u, n) \in Seq(WebMessage) BY <1>0, <1>6, QueueType
    <2> QED BY <1>7, <2>2, <2>3, <2>4, ReasonAppend
  <1> QED BY <1>5, <1>12, <1>13, <1>14 DEF Good, Events, v, a, m
(* Only what page p waits for changes.                                      *)
LEMMA WaitsChanged ==
    ASSUME NEW u, NEW c \in SUBSET Page, NEW i, NEW r \in Replies, Sound(u, c, i, web, r),
           Alarm(u, web, r), NEW p \in Page, Attached(u, p), p # i, NEW y \in WaitsState,
           \A z \in Page : z # p => EventsOf(u, web, r, i, z),
           Connects(u, web) =>
               Matches(y, Under(u, r, "key", p), Under(u, r, "wheel", p),
                       Under(u, r, "move", p))
    PROVE  LET v == WithWaits(u, p, y) IN
           Good(v, c, i, web, r) /\ Calm(u, v)
  <1> DEFINE n == u.current
             v == WithWaits(u, p, y)
  <1>0. u \in UIState /\ n # NoProcess BY DEF Sound, Attached
  <1>1. /\ v \in UIState /\ SameButWaits(u, v)
        /\ v.proxy = u.proxy /\ v.page[p].waits = y
        /\ \A k \in Page : k # p => v.page[k] = u.page[k]
    BY <1>0, WaitsEffect
  <1> HIDE DEF v
  <1>2. /\ Sound(v, c, i, web, r)
        /\ \A k \in Proc : Outgoing(v, k) = Outgoing(u, k)
        /\ \A k \in Page : Attached(v, k) <=> Attached(u, k)
        /\ \A k \in Page : Valid(v, k) <=> Valid(u, k)
        /\ Connects(v, web) <=> Connects(u, web)
    BY <1>1, SameButWaitsSound
  <1>3. n \in Proc /\ v.current = n BY <1>0, <1>1, CurrentIsProc DEF SameButWaits
  <1>4. \A z, o : Under(v, r, o, z) = Under(u, r, o, z) BY <1>2, <1>3 DEF Under
  <1>5. ASSUME NEW z \in Page PROVE EventsOf(v, web, r, i, z)
    <2>1. CASE z = p
      <3>1. Valid(v, p) BY <1>2, AttachedIsValid
      <3> QED BY <1>1, <1>2, <1>4, <2>1, <3>1 DEF EventsOf
    <2>2. CASE z # p BY <1>1, <1>2, <1>4, <2>2, EventsKept
    <2> QED BY <2>1, <2>2
  <1>6. Alarm(v, web, r)
    <2>1. \A z \in Page : v.page[z].state = u.page[z].state BY <1>1 DEF SameButWaits
    <2> QED BY <1>1, <1>2, <1>3, <2>1 DEF Alarm
  <1>7. Calm(u, v) BY <1>1 DEF Calm, Silent
  <1> QED BY <1>2, <1>5, <1>6, <1>7 DEF Good, Events, v

(* Requests are no events.                                                  *)
LEMMA RequestGood ==
    ASSUME NEW u, NEW c \in SUBSET Page, NEW i, NEW r \in Replies, Good(u, c, i, web, r),
           NEW p \in Page, Attached(u, p), NEW op \in {"request", "tryClose"}
    PROVE  LET v == SendTimed(u, p, op) IN
           Good(v, c, i, web, r) /\ Calm(u, v)
  <1> DEFINE n == u.current
             m == Message(op, p)
             v == SendTimed(u, p, op)
  <1>0. u \in UIState /\ n # NoProcess /\ Sound(u, c, i, web, r) /\ Events(u, web, r, i)
    BY DEF Good, Sound, Attached
  <1>1. op \in TimedOps BY DEF TimedOps
  <1>2. /\ Sound(v, c, i, web, r) /\ Alarm(v, web, r)
        /\ Calm(u, v)
        /\ v.page = u.page /\ v.current = u.current
        /\ \A z \in Page : Attached(v, z) <=> Attached(u, z)
        /\ \A z \in Page : Valid(v, z) <=> Valid(u, z)
        /\ Connects(v, web) <=> Connects(u, web)
        /\ Connects(u, web) => Outgoing(v, n) = Append(Outgoing(u, n), m)
    BY <1>0, <1>1, SendTimedEffect
  <1> HIDE DEF v
  <1>3. m \in WebMessage BY MessageType
  <1>4. \A z : \A o \in EventOps : m # Message(o, z) BY DEF Message, EventOps
  <1> HIDE DEF m
  <1>5. ASSUME Connects(u, web), NEW z \in Page, NEW o \in EventOps
        PROVE  Under(v, r, o, z) = Under(u, r, o, z)
    <2>1. Under(v, r, o, z) = Under(u, r, o, z) + (IF m = Message(o, z) THEN 1 ELSE 0)
      BY <1>0, <1>2, <1>3, <1>5, UnderSend
    <2>2. Under(u, r, o, z) \in Nat BY <1>0, UnderType
    <2> QED BY <1>4, <2>1, <2>2
  <1>6. ASSUME NEW z \in Page PROVE EventsOf(v, web, r, i, z)
    <2>1. EventsOf(u, web, r, i, z) BY <1>0 DEF Events
    <2> QED BY <1>2, <1>5, <2>1, EventsKept
  <1> QED BY <1>2, <1>6 DEF Good, Events, v

(* A page is closed: no alarm needs a reason any more.                      *)
LEMMA ClosedGood ==
    ASSUME NEW u, NEW c \in SUBSET Page, NEW i, NEW r \in Replies, Sound(u, c, i, web, r),
           \A z \in Page : EventsOf(u, web, r, i, z),
           NEW p \in Page, Attached(u, p), p \notin c
    PROVE  LET v == Closed(u, p) IN
           Good(v, c, i, web, r) /\ Calm(u, v)
  <1> DEFINE n == u.current
             m == Message("close", p)
             v == Closed(u, p)
  <1>0. u \in UIState /\ n # NoProcess BY DEF Sound, Attached
  <1>2. /\ Sound(v, c, i, web, r)
        /\ v.current = u.current /\ v.page[p].state = "closed"
        /\ \A y \in Page : y # p => v.page[y] = u.page[y]
        /\ \A k \in Proc : /\ v.proxy[k].timer = u.proxy[k].timer
                           /\ v.proxy[k].responsive = u.proxy[k].responsive
                           /\ v.proxy[k].state = u.proxy[k].state
        /\ Connects(u, web) => Outgoing(v, n) = Append(Outgoing(u, n), m)
    BY ClosedSound
  <1> HIDE DEF v
  <1>3. m \in WebMessage BY MessageType
  <1>4. \A z : \A o \in EventOps : m # Message(o, z) BY DEF Message, EventOps
  <1> HIDE DEF m
  <1>5. ASSUME Connects(u, web), NEW z \in Page, NEW o \in EventOps
        PROVE  Under(v, r, o, z) = Under(u, r, o, z)
    <2>1. Under(v, r, o, z) = Under(u, r, o, z) + (IF m = Message(o, z) THEN 1 ELSE 0)
      BY <1>0, <1>2, <1>3, <1>5, UnderSend
    <2>2. Under(u, r, o, z) \in Nat BY <1>0, UnderType
    <2> QED BY <1>4, <2>1, <2>2
  <1>6. ASSUME NEW z \in Page PROVE EventsOf(v, web, r, i, z)
    <2>1. CASE z = p BY <1>2, <2>1 DEF EventsOf, Attached
    <2>2. CASE z # p
      <3>1. /\ Valid(v, z) <=> Valid(u, z)
            /\ Attached(v, z) <=> Attached(u, z)
            /\ Connects(v, web) <=> Connects(u, web)
        BY <1>2, <2>2 DEF Attached, Valid, Connects
      <3> QED BY <1>2, <1>5, <2>2, <3>1, EventsKept
    <2> QED BY <2>1, <2>2
  <1>7. Alarm(v, web, r) BY <1>2 DEF Alarm
  <1>8. Calm(u, v) BY <1>2 DEF Calm, Silent
  <1> QED BY <1>2, <1>6, <1>7, <1>8 DEF Good, Events, v

(* A page without a process joins one, and waits for nothing there.         *)
LEMMA AttachGood ==
    ASSUME NEW u, NEW c \in SUBSET Page, NEW i, NEW r \in Replies, Good(u, c, i, web, r),
           u.current # NoProcess \/ u.launched < MaxProcess,
           NEW p \in Page, ~Valid(u, p), u.page[p].state # "closed"
    PROVE  LET v == Attach(u, p) IN
           Good(v, c, i, web, r) /\ Attached(v, p) /\ Calm(u, v)
  <1> DEFINE e == EnsureWebProcess(u)
             m == Message("create", p)
             v == Attach(u, p)
             n == v.current
  <1>0. Sound(u, c, i, web, r) /\ Alarm(u, web, r) /\ Events(u, web, r, i) BY DEF Good
  <1>1. /\ Sound(e, c, i, web, r)
        /\ e.page = u.page /\ e.current # NoProcess
        /\ u.current # NoProcess => e = u
        /\ u.current = NoProcess =>
              /\ e.proxy[e.current].timer = FALSE
              /\ e.proxy[e.current].responsive = TRUE
              /\ Outgoing(e, e.current) = <<InitializeWebProcess>>
              /\ r[e.current] = << >>
        /\ \A k \in Proc : e.proxy[k].state = "closed" <=> u.proxy[k].state = "closed"
        /\ \A k \in Proc : e.proxy[k].state = "closed" => e.proxy[k] = u.proxy[k]
    BY <1>0, EnsureSound
  <1>2. /\ Sound(v, c, i, web, r)
        /\ n = e.current /\ Attached(v, p)
        /\ v.page[p].waits = u.page[p].waits
        /\ \A y \in Page : y # p => v.page[y] = u.page[y]
        /\ \A k \in Proc : /\ v.proxy[k].timer = e.proxy[k].timer
                           /\ v.proxy[k].responsive = e.proxy[k].responsive
                           /\ v.proxy[k].state = e.proxy[k].state
        /\ Connects(e, web) => Outgoing(v, n) = Append(Outgoing(e, n), m)
    BY <1>0, AttachSound
  <1> HIDE DEF v, e
  <1>3. e \in UIState /\ n \in Proc BY <1>1, <1>2, CurrentIsProc DEF Sound
  <1>4. m \in WebMessage /\ m.op = "create" /\ m.page = p BY MessageType
  <1>5. \A z : \A o \in EventOps : m # Message(o, z) BY DEF Message, EventOps
  <1>6. Connects(v, web) <=> Connects(e, web) BY <1>2 DEF Connects
  <1> HIDE DEF m
  <1>7. ASSUME Connects(e, web), NEW z \in Page, NEW o \in EventOps
        PROVE  Under(v, r, o, z) = Under(e, r, o, z) /\ Under(e, r, o, z) \in Nat
    <2>1. Under(v, r, o, z) = Under(e, r, o, z) + (IF m = Message(o, z) THEN 1 ELSE 0)
      BY <1>1, <1>2, <1>3, <1>4, <1>7, UnderSend
    <2>2. Under(e, r, o, z) \in Nat BY <1>1, <1>3, UnderType
    <2> QED BY <1>5, <2>1, <2>2
  <1>8. ~Attached(e, p) /\ e.page[p].state # "closed"
    <2>1. ~Valid(e, p) BY <1>1 DEF Valid
    <2> QED BY <1>1, <2>1, AttachedIsValid
  <1>9. \A z \in Page : z # p => (Attached(v, z) <=> Attached(e, z)) /\ (Valid(v, z) <=> Valid(e, z))
    BY <1>1, <1>2 DEF Attached, Valid
  <1>10. \A z \in Page : EventsOf(e, web, r, i, z)
    <2>1. CASE u.current # NoProcess BY <1>0, <1>1, <2>1 DEF Events
    <2>2. CASE u.current = NoProcess
      <3> SUFFICES ASSUME NEW z \in Page PROVE EventsOf(e, web, r, i, z)
        OBVIOUS
      <3>1. EventsOf(u, web, r, i, z) BY <1>0 DEF Events
      <3>2. ~Attached(u, z) BY <2>2 DEF Attached
      <3>3. Valid(e, z) <=> Valid(u, z) BY <1>1 DEF Valid
      <3>4. ~Attached(e, z)
        BY <1>0, <1>1, <3>2, <3>3 DEF Sound, Pages, Attached
      <3> QED BY <1>1, <3>1, <3>3, <3>4 DEF EventsOf
    <2> QED BY <2>1, <2>2
  <1>11. ASSUME NEW z \in Page PROVE EventsOf(v, web, r, i, z)
    <2>1. CASE z = p
      <3>1. Valid(v, p) BY <1>2, AttachedIsValid
      <3>2. Connects(v, web) => \A o \in EventOps : Under(v, r, o, p) = 0
        BY <1>1, <1>6, <1>7, <1>8, UnderNothing
      <3>3. p # i => v.page[p].waits = NoEvents
        BY <1>0, <1>2 DEF Events, EventsOf
      <3>4. Matches(NoEvents, 0, 0, 0) BY DEF Matches, NoEvents
      <3> QED BY <2>1, <3>1, <3>2, <3>3, <3>4 DEF EventsOf, EventOps
    <2>2. CASE z # p
      <3>1. v.page[z] = e.page[z] BY <1>1, <1>2, <2>2
      <3> QED BY <1>6, <1>7, <1>9, <1>10, <2>2, <3>1, EventsKept
    <2> QED BY <2>1, <2>2
  <1>12. Alarm(v, web, r)
    <2> SUFFICES ASSUME Connects(v, web),
                        v.proxy[n].timer \/ ~v.proxy[n].responsive,
                        \A z \in Page : v.page[z].state # "closed"
                 PROVE  Reason(Outgoing(v, n), r[n])
      BY DEF Alarm
    <2>1. u.current # NoProcess BY <1>1, <1>2, <1>3
    <2>2. e = u /\ Connects(u, web) BY <1>1, <1>6, <2>1
    <2>3. \A z \in Page : u.page[z].state # "closed" BY <1>2
    <2>4. Reason(Outgoing(u, n), r[n]) BY <1>0, <1>2, <1>3, <2>2, <2>3 DEF Alarm
    <2>5. Outgoing(u, n) \in Seq(WebMessage) BY <1>3, <2>2, QueueType
    <2> QED BY <1>2, <1>4, <2>2, <2>4, <2>5, ReasonAppend, ZenonT(40)
  <1>13. Calm(u, v) BY <1>1, <1>2 DEF Calm, Silent
  <1> QED BY <1>2, <1>11, <1>12, <1>13 DEF Good, Events, v
(* An answer stops the timer.                                               *)
LEMMA TimerStopGood ==
    ASSUME NEW u, NEW c \in SUBSET Page, NEW i, NEW r, Sound(u, c, i, web, r),
           u.current # NoProcess
    PROVE  LET v == TimerStop(u, u.current) IN
           /\ Sound(v, c, i, web, r) /\ Alarm(v, web, r)
           /\ v.page = u.page /\ v.current = u.current
           /\ \A z \in Page : Attached(v, z) <=> Attached(u, z)
           /\ Connects(v, web) <=> Connects(u, web)
           /\ \A z, o : Under(v, r, o, z) = Under(u, r, o, z)
           /\ \A z \in Page : EventsOf(u, web, r, i, z) => EventsOf(v, web, r, i, z)
           /\ Calm(u, v)
  <1> DEFINE n == u.current
             v == TimerStop(u, n)
  <1>0. u \in UIState BY DEF Sound
  <1>1. n \in Proc BY <1>0, CurrentIsProc
  <1>2. /\ v \in UIState /\ SameButWaits(u, v) /\ v.page = u.page
        /\ v.proxy[n].timer = FALSE /\ v.proxy[n].responsive = TRUE
        /\ \A k \in Proc : k # n => v.proxy[k] = u.proxy[k]
    BY <1>0, <1>1, TimerStopEffect
  <1> HIDE DEF v
  <1>3. /\ Sound(v, c, i, web, r)
        /\ \A k \in Proc : Outgoing(v, k) = Outgoing(u, k)
        /\ \A k \in Page : Attached(v, k) <=> Attached(u, k)
        /\ \A k \in Page : Valid(v, k) <=> Valid(u, k)
        /\ Connects(v, web) <=> Connects(u, web)
    BY <1>2, SameButWaitsSound
  <1>4. v.current = n BY <1>2 DEF SameButWaits
  <1>5. Alarm(v, web, r) BY <1>2, <1>4 DEF Alarm
  <1>6. \A z, o : Under(v, r, o, z) = Under(u, r, o, z) BY <1>1, <1>3, <1>4 DEF Under
  <1>7. ASSUME NEW z \in Page, EventsOf(u, web, r, i, z) PROVE EventsOf(v, web, r, i, z)
    BY <1>2, <1>3, <1>6, <1>7, EventsKept
  <1>8. Calm(u, v) BY <1>2 DEF Calm, Silent, SameButWaits
  <1> QED BY <1>2, <1>3, <1>4, <1>5, <1>6, <1>7, <1>8 DEF v

-----------------------------------------------------------------------------
(* The invariant, and the steps of the UI process that keep it.            *)

IInv ==
    /\ TypeOK
    /\ Good(Now, crashed, inClient, web, toUI)

(* What every step does, and what OldTimerIsSilent allows it.               *)
Holds == IInv' /\ \A n \in Proc : OldTimer(n)' => OldTimer(n) \/ LoadsAnother(n)

LEMMA NowFields ==
    /\ Now.current = current /\ Now.launched = launched /\ Now.proxy = proxy
    /\ Now.page = page /\ Now.toWeb = toWeb
  BY DEF Now

LEMMA Lands ==
    ASSUME IInv, NEW v, Becomes(v), Good(v, crashed', inClient', web', toUI'),
           crashed' \in SUBSET Page, inClient' \in Page \cup {NoPage}, events' \in Nat,
           toUI' \in Replies, web' \in [Proc -> WebState],
           \A n \in Proc : Silent(Now, n) => Silent(v, n) \/ LoadsAnother(n)
    PROVE  Holds
  <1>1. v \in UIState BY DEF Good, Sound
  <1>2. /\ Now' = v
        /\ current' = v.current /\ launched' = v.launched /\ proxy' = v.proxy
        /\ page' = v.page /\ toWeb' = v.toWeb
    BY <1>1, BecomesNow
  <1>3. TypeOK' BY <1>1, <1>2, UIStateFields DEF TypeOK, Replies
  <1>4. Good(Now, crashed, inClient, web, toUI)' BY <1>2
  <1>5. ASSUME NEW n \in Proc, OldTimer(n)', ~OldTimer(n) PROVE LoadsAnother(n)
    <2>1. proxy \in [Proc -> ProxyState] /\ proxy' \in [Proc -> ProxyState]
      BY <1>3 DEF TypeOK, IInv
    <2>2. proxy[n].timer \in BOOLEAN /\ proxy[n].responsive \in BOOLEAN
      BY <2>1 DEF ProxyState
    <2>3. Silent(Now, n) BY <1>5, <2>2, NowFields DEF OldTimer, Silent
    <2>4. ~Silent(v, n) BY <1>2, <1>5 DEF OldTimer, Silent
    <2> QED BY <2>3, <2>4
  <1> QED BY <1>3, <1>4, <1>5 DEF IInv, Holds

LEMMA Arrives ==
    ASSUME IInv, NEW v, Becomes(v), Good(v, crashed', inClient', web', toUI'),
           crashed' \in SUBSET Page, inClient' \in Page \cup {NoPage}, events' \in Nat,
           toUI' \in Replies, web' \in [Proc -> WebState], Calm(Now, v)
    PROVE  Holds
  <1>1. \A n \in Proc : Silent(Now, n) => Silent(v, n) \/ LoadsAnother(n) BY DEF Calm
  <1> HIDE DEF Holds
  <1> QED BY <1>1, Lands

LEMMA IdleFacts ==
    ASSUME IInv, Idle
    PROVE  /\ crashed = {} /\ inClient = NoPage
           /\ \A p \in Page : IsValid(p) => Attached(Now, p)
           /\ \A p \in Page : p # inClient
  <1>1. Pages(Now, {}, inClient) /\ crashed = {} BY DEF IInv, Good, Sound, Idle
  <1>2. inClient = NoPage BY <1>1 DEF Pages
  <1>3. \A p \in Page : IsValid(p) => Attached(Now, p)
    BY <1>1, NowFields DEF Pages, Valid, IsValid
  <1> QED BY <1>1, <1>2, <1>3, WebAssumption

LEMMA InvFacts ==
    ASSUME IInv
    PROVE  /\ Now \in UIState /\ Sound(Now, crashed, inClient, web, toUI)
           /\ Good(Now, crashed, inClient, web, toUI) /\ Alarm(Now, web, toUI)
           /\ \A p \in Page : EventsOf(Now, web, toUI, inClient, p)
           /\ crashed \in SUBSET Page /\ inClient \in Page \cup {NoPage}
           /\ events \in Nat /\ toUI \in Replies /\ web \in [Proc -> WebState]
           /\ Calm(Now, Now)
  BY DEF IInv, TypeOK, Good, Sound, Events, Replies, Calm

LEMMA CreateWebPageStep ==
    ASSUME IInv, NEW p \in Page, CreateWebPage(p)
    PROVE  Holds
  <1>1. /\ Now.current # NoProcess \/ Now.launched < MaxProcess
        /\ ~Valid(Now, p) /\ Now.page[p].state # "closed"
    BY NowFields DEF CreateWebPage, MayLaunch, Valid
  <1>2. /\ Good(Attach(Now, p), crashed, inClient, web, toUI)
        /\ Calm(Now, Attach(Now, p))
    BY <1>1, InvFacts, AttachGood
  <1> QED BY <1>2, InvFacts, Arrives DEF CreateWebPage

LEMMA CloseStep ==
    ASSUME IInv, NEW p \in Page, Close(p)
    PROVE  Holds
  <1>1. Attached(Now, p) /\ p \notin crashed BY IdleFacts DEF Close
  <1>2. /\ Good(Closed(Now, p), crashed, inClient, web, toUI)
        /\ Calm(Now, Closed(Now, p))
    BY <1>1, InvFacts, ClosedGood
  <1> QED BY <1>2, InvFacts, Arrives DEF Close

LEMMA TryCloseStep ==
    ASSUME IInv, NEW p \in Page, TryClose(p)
    PROVE  Holds
  <1>1. Attached(Now, p) BY IdleFacts DEF TryClose
  <1>2. /\ Good(SendTimed(Now, p, "tryClose"), crashed, inClient, web, toUI)
        /\ Calm(Now, SendTimed(Now, p, "tryClose"))
    BY <1>1, InvFacts, RequestGood
  <1>3. events' \in Nat BY InvFacts DEF TryClose, CountEvent
  <1> QED BY <1>2, <1>3, InvFacts, Arrives DEF TryClose

LEMMA HideViewStep ==
    ASSUME IInv, NEW p \in Page, HideView(p)
    PROVE  Holds
  <1>1. Attached(Now, p) BY IdleFacts DEF HideView
  <1>2. page[p].process = Now.current /\ Now.current # NoProcess
    BY <1>1, NowFields DEF Attached
  <1> DEFINE v == TimerStop(Now, Now.current)
  <1>3. /\ Sound(v, crashed, inClient, web, toUI) /\ Alarm(v, web, toUI)
        /\ \A z \in Page : EventsOf(Now, web, toUI, inClient, z)
                              => EventsOf(v, web, toUI, inClient, z)
        /\ Calm(Now, v)
    BY <1>2, InvFacts, TimerStopGood
  <1>4. Becomes(v) BY <1>2 DEF HideView
  <1> HIDE DEF v
  <1>5. Good(v, crashed, inClient, web, toUI) BY <1>3, InvFacts DEF Good, Events
  <1>6. events' \in Nat BY InvFacts DEF HideView, CountEvent
  <1> QED BY <1>3, <1>4, <1>5, <1>6, InvFacts, Arrives DEF HideView

LEMMA WaitsType ==
    ASSUME NEW u \in UIState, NEW p \in Page
    PROVE  /\ u.page[p].waits \in WaitsState
           /\ u.page[p].waits.keys \in Int /\ u.page[p].waits.wheel \in Nat
           /\ u.page[p].waits.wheelQueue \in Nat /\ u.page[p].waits.moving \in BOOLEAN
           /\ u.page[p].waits.nextMove \in BOOLEAN
  BY DEF UIState, PageState, WaitsState

LEMMA HandleKeyboardEventStep ==
    ASSUME IInv, NEW p \in Page, HandleKeyboardEvent(p)
    PROVE  Holds
  <1> DEFINE x == Now.page[p].waits
             y == [x EXCEPT !.keys = x.keys + 1]
             r == toUI
             v == SendTimed(WithWaits(Now, p, y), p, "key")
  <1>1. Attached(Now, p) /\ p # inClient BY IdleFacts DEF HandleKeyboardEvent
  <1>2. Now \in UIState BY InvFacts
  <1>3. /\ y \in WaitsState /\ y.keys = x.keys + 1 /\ y.wheel = x.wheel
        /\ y.wheelQueue = x.wheelQueue /\ y.moving = x.moving /\ y.nextMove = x.nextMove
    <2>1. x \in WaitsState BY <1>2, WaitsType
    <2> HIDE DEF x
    <2> QED BY <2>1 DEF WaitsState
  <1>4. Connects(Now, web) =>
           Matches(x, Under(Now, r, "key", p), Under(Now, r, "wheel", p), Under(Now, r, "move", p))
    BY <1>1, InvFacts DEF EventsOf
  <1>5. Becomes(v)
    <2>1. [Now EXCEPT !.page[p].waits.keys = @ + 1] = WithWaits(Now, p, y)
      BY <1>2 DEF UIState, PageState, WithWaits
    <2> QED BY <2>1 DEF HandleKeyboardEvent
  <1> HIDE DEF x, y
  <1>6. Connects(Now, web) =>
           Matches(y, Under(Now, r, "key", p) + (IF "key" = "key" THEN 1 ELSE 0),
                   Under(Now, r, "wheel", p) + (IF "key" = "wheel" THEN 1 ELSE 0),
                   Under(Now, r, "move", p))
    <2>1. Connects(Now, web) => Under(Now, r, "wheel", p) \in Nat
      BY <1>2, InvFacts, UnderType DEF Connects
    <2> QED BY <1>3, <1>4, <2>1 DEF Matches
  <1>7. Good(v, crashed, inClient, web, r) /\ Calm(Now, v)
    BY <1>1, <1>3, <1>6, InvFacts, EventSent
  <1> HIDE DEF v
  <1>8. events' \in Nat BY InvFacts DEF HandleKeyboardEvent, CountEvent
  <1> QED BY <1>5, <1>7, <1>8, InvFacts, Arrives DEF HandleKeyboardEvent
LEMMA HandleWheelEventStep ==
    ASSUME IInv, NEW p \in Page, HandleWheelEvent(p)
    PROVE  Holds
  <1> DEFINE x == Now.page[p].waits
             r == toUI
  <1>1. Attached(Now, p) /\ p # inClient BY IdleFacts DEF HandleWheelEvent
  <1>2. Now \in UIState BY InvFacts
  <1>3. x \in WaitsState BY <1>2, WaitsType
  <1>4. Connects(Now, web) =>
           Matches(x, Under(Now, r, "key", p), Under(Now, r, "wheel", p), Under(Now, r, "move", p))
    BY <1>1, InvFacts DEF EventsOf
  <1>5. events' \in Nat BY InvFacts DEF HandleWheelEvent, CountEvent
  <1>6. \A o \in EventOps : Connects(Now, web) => Under(Now, r, o, p) \in Nat
    BY <1>2, InvFacts, UnderType DEF Connects
  <1>7. x = page[p].waits BY NowFields
  <1>8. CASE page[p].waits.wheel > 0
    <2> DEFINE y == [x EXCEPT !.wheelQueue = x.wheelQueue + 1]
               v == WithWaits(Now, p, y)
    <2>1. Becomes(v)
      <3>1. [Now EXCEPT !.page[p].waits.wheelQueue = @ + 1] = v
        BY <1>2 DEF UIState, PageState, WithWaits
      <3> QED BY <1>8, <3>1 DEF HandleWheelEvent
    <2> HIDE DEF x
    <2>2. /\ y \in WaitsState /\ y.keys = x.keys /\ y.wheel = x.wheel
          /\ y.wheelQueue = x.wheelQueue + 1 /\ y.moving = x.moving /\ y.nextMove = x.nextMove
      BY <1>3 DEF WaitsState
    <2> HIDE DEF y
    <2>3. Connects(Now, web) =>
             Matches(y, Under(Now, r, "key", p), Under(Now, r, "wheel", p), Under(Now, r, "move", p))
      BY <1>4, <1>7, <1>8, <2>2 DEF Matches
    <2>4. Good(v, crashed, inClient, web, r) /\ Calm(Now, v)
      BY <1>1, <2>2, <2>3, InvFacts, WaitsChanged
    <2> HIDE DEF v
    <2> QED BY <1>5, <2>1, <2>4, InvFacts, Arrives DEF HandleWheelEvent
  <1>9. CASE ~(page[p].waits.wheel > 0)
    <2> DEFINE y == [x EXCEPT !.wheel = 1]
               v == SendTimed(WithWaits(Now, p, y), p, "wheel")
    <2>1. Becomes(v)
      <3>1. [Now EXCEPT !.page[p].waits.wheel = 1] = WithWaits(Now, p, y)
        BY <1>2 DEF UIState, PageState, WithWaits
      <3> QED BY <1>9, <3>1 DEF HandleWheelEvent
    <2> HIDE DEF x
    <2>2. /\ y \in WaitsState /\ y.keys = x.keys /\ y.wheel = 1
          /\ y.wheelQueue = x.wheelQueue /\ y.moving = x.moving /\ y.nextMove = x.nextMove
      BY <1>3 DEF WaitsState
    <2> HIDE DEF y
    <2>3. Connects(Now, web) =>
             Matches(y, Under(Now, r, "key", p) + (IF "wheel" = "key" THEN 1 ELSE 0),
                     Under(Now, r, "wheel", p) + (IF "wheel" = "wheel" THEN 1 ELSE 0),
                     Under(Now, r, "move", p))
      <3> SUFFICES ASSUME Connects(Now, web)
                   PROVE  Matches(y, Under(Now, r, "key", p), Under(Now, r, "wheel", p) + 1,
                                  Under(Now, r, "move", p))
        BY <1>6 DEF EventOps
      <3>1. Under(Now, r, "wheel", p) = 0 BY <1>4, <1>7, <1>9 DEF Matches
      <3> QED BY <1>4, <2>2, <3>1 DEF Matches
    <2>4. Good(v, crashed, inClient, web, r) /\ Calm(Now, v)
      BY <1>1, <2>2, <2>3, InvFacts, EventSent
    <2> HIDE DEF v
    <2> QED BY <1>5, <2>1, <2>4, InvFacts, Arrives DEF HandleWheelEvent
  <1> QED BY <1>8, <1>9

LEMMA SendMouseMoveIs ==
    ASSUME NEW u \in UIState, NEW p \in Page, u.page[p].process = u.current
    PROVE  LET y == [u.page[p].waits EXCEPT !.moving = TRUE] IN
           /\ SendMouseMove(u, p) = Send(WithWaits(u, p, y), u.current, Message("move", p))
           /\ y \in WaitsState /\ y.keys = u.page[p].waits.keys
           /\ y.wheel = u.page[p].waits.wheel /\ y.wheelQueue = u.page[p].waits.wheelQueue
           /\ y.moving = TRUE /\ y.nextMove = u.page[p].waits.nextMove
  <1> DEFINE x == u.page[p].waits
             y == [x EXCEPT !.moving = TRUE]
  <1>1. [u EXCEPT !.page[p].waits.moving = TRUE] = WithWaits(u, p, y)
    BY DEF UIState, PageState, WithWaits
  <1>2. x \in WaitsState BY WaitsType
  <1>3. SendMouseMove(u, p) = Send(WithWaits(u, p, y), u.current, Message("move", p))
    BY <1>1 DEF SendMouseMove
  <1> HIDE DEF x
  <1>4. /\ y \in WaitsState /\ y.keys = x.keys /\ y.wheel = x.wheel
        /\ y.wheelQueue = x.wheelQueue /\ y.moving = TRUE /\ y.nextMove = x.nextMove
    BY <1>2 DEF WaitsState
  <1> QED BY <1>3, <1>4 DEF x

LEMMA HandleMouseMoveStep ==
    ASSUME IInv, NEW p \in Page, HandleMouseMove(p)
    PROVE  Holds
  <1> DEFINE x == Now.page[p].waits
             r == toUI
  <1>1. Attached(Now, p) /\ p # inClient BY IdleFacts DEF HandleMouseMove
  <1>2. Now \in UIState BY InvFacts
  <1>3. x \in WaitsState BY <1>2, WaitsType
  <1>4. Connects(Now, web) =>
           Matches(x, Under(Now, r, "key", p), Under(Now, r, "wheel", p), Under(Now, r, "move", p))
    BY <1>1, InvFacts DEF EventsOf
  <1>5. events' \in Nat BY InvFacts DEF HandleMouseMove, CountEvent
  <1>6. \A o \in EventOps : Connects(Now, web) => Under(Now, r, o, p) \in Nat
    BY <1>2, InvFacts, UnderType DEF Connects
  <1>7. x = page[p].waits BY NowFields
  <1>8. CASE page[p].waits.moving
    <2> DEFINE y == [x EXCEPT !.nextMove = TRUE]
               v == WithWaits(Now, p, y)
    <2>1. Becomes(v)
      <3>1. [Now EXCEPT !.page[p].waits.nextMove = TRUE] = v
        BY <1>2 DEF UIState, PageState, WithWaits
      <3> QED BY <1>8, <3>1 DEF HandleMouseMove
    <2> HIDE DEF x
    <2>2. /\ y \in WaitsState /\ y.keys = x.keys /\ y.wheel = x.wheel
          /\ y.wheelQueue = x.wheelQueue /\ y.moving = x.moving /\ y.nextMove = TRUE
      BY <1>3 DEF WaitsState
    <2> HIDE DEF y
    <2>3. Connects(Now, web) =>
             Matches(y, Under(Now, r, "key", p), Under(Now, r, "wheel", p), Under(Now, r, "move", p))
      BY <1>4, <1>7, <1>8, <2>2 DEF Matches
    <2>4. Good(v, crashed, inClient, web, r) /\ Calm(Now, v)
      BY <1>1, <2>2, <2>3, InvFacts, WaitsChanged
    <2> HIDE DEF v
    <2> QED BY <1>5, <2>1, <2>4, InvFacts, Arrives DEF HandleMouseMove
  <1>9. CASE ~page[p].waits.moving
    <2> DEFINE y == [x EXCEPT !.moving = TRUE]
               v == Send(WithWaits(Now, p, y), Now.current, Message("move", p))
    <2>0. Now.page[p].process = Now.current BY <1>1 DEF Attached
    <2>2. /\ SendMouseMove(Now, p) = v
          /\ y \in WaitsState /\ y.keys = x.keys /\ y.wheel = x.wheel
          /\ y.wheelQueue = x.wheelQueue /\ y.moving = TRUE /\ y.nextMove = x.nextMove
      BY <1>2, <2>0, SendMouseMoveIs
    <2>1. Becomes(v) BY <1>9, <2>2 DEF HandleMouseMove
    <2> HIDE DEF y, x
    <2>3. Connects(Now, web) =>
             Matches(y, Under(Now, r, "key", p), Under(Now, r, "wheel", p),
                     Under(Now, r, "move", p) + 1)
      <3> SUFFICES ASSUME Connects(Now, web)
                   PROVE  Matches(y, Under(Now, r, "key", p), Under(Now, r, "wheel", p),
                                  Under(Now, r, "move", p) + 1)
        OBVIOUS
      <3>1. Under(Now, r, "move", p) = 0 BY <1>4, <1>7, <1>9 DEF Matches
      <3> QED BY <1>4, <2>2, <3>1 DEF Matches
    <2>4. Good(v, crashed, inClient, web, r) /\ Calm(Now, v)
      BY <1>1, <2>2, <2>3, InvFacts, MoveSent
    <2> HIDE DEF v
    <2> QED BY <1>5, <2>1, <2>4, InvFacts, Arrives DEF HandleMouseMove
  <1> QED BY <1>8, <1>9

(* A page whose process is gone, though it was not told yet: the request    *)
(* goes nowhere, and starts the old timer.                                  *)
LEMMA LateRequest ==
    ASSUME NEW u, NEW c \in SUBSET Page, NEW i, NEW r \in Replies, Good(u, c, i, web, r),
           NEW p \in c \ {i}
    PROVE  /\ Good(SendTimed(u, p, "request"), c, i, web, r)
           /\ \A k \in Proc : k # u.page[p].process =>
                 SendTimed(u, p, "request").proxy[k] = u.proxy[k]
  <1> DEFINE n == u.page[p].process
             v == SendTimed(u, p, "request")
  <1>0. /\ Sound(u, c, i, web, r) /\ Alarm(u, web, r) /\ Events(u, web, r, i)
        /\ u \in UIState /\ Processes(u) /\ Pages(u, c, i)
    BY DEF Good, Sound
  <1>1. n \in Proc /\ n # u.current /\ n <= u.launched
    <2>1. ~Attached(u, p) /\ u.page[p].state = "open" /\ n # NoProcess BY <1>0 DEF Pages
    <2>2. n # u.current BY <2>1 DEF Attached
    <2>3. n \in 0..MaxProcess BY <1>0, UIStateFields
    <2>4. n \in Proc BY <2>1, <2>3, WebAssumption DEF Proc, NoProcess
    <2> QED BY <1>0, <2>2, <2>4 DEF Pages
  <1>2. u.proxy[n].state = "closed" BY <1>0, <1>1 DEF Processes
  <1>3. v = TimerStart(u, n) BY <1>2 DEF SendTimed, Send
  <1>4. /\ v \in UIState /\ SameButWaits(u, v) /\ v.page = u.page
        /\ \A k \in Proc : k # n => v.proxy[k] = u.proxy[k]
    BY <1>0, <1>1, <1>3, TimerStartEffect
  <1> HIDE DEF v
  <1>5. /\ Sound(v, c, i, web, r)
        /\ \A k \in Proc : Outgoing(v, k) = Outgoing(u, k)
        /\ \A k \in Page : Attached(v, k) <=> Attached(u, k)
        /\ \A k \in Page : Valid(v, k) <=> Valid(u, k)
        /\ Connects(v, web) <=> Connects(u, web)
    BY <1>0, <1>4, SameButWaitsSound
  <1>6. v.current = u.current BY <1>4 DEF SameButWaits
  <1>7. Connects(u, web) => u.current \in Proc BY <1>0, CurrentIsProc DEF Connects
  <1>8. Alarm(v, web, r) BY <1>0, <1>1, <1>4, <1>5, <1>6, <1>7 DEF Alarm
  <1>9. Connects(u, web) => \A z, o : Under(v, r, o, z) = Under(u, r, o, z)
    BY <1>5, <1>6, <1>7 DEF Under
  <1>10. ASSUME NEW z \in Page PROVE EventsOf(v, web, r, i, z)
    <2>1. EventsOf(u, web, r, i, z) BY <1>0 DEF Events
    <2> QED BY <1>4, <1>5, <1>9, <2>1, EventsKept
  <1> QED BY <1>4, <1>5, <1>8, <1>10 DEF Good, Events, v

LEMMA LoadStep ==
    ASSUME IInv, NEW p \in Page, Load(p)
    PROVE  Holds
  <1> DEFINE a == IF page[p].valid THEN Now ELSE Attach(Now, p)
             v == SendTimed(a, p, "request")
             c == crashed
             i == inClient
             r == toUI
  <1>1. Becomes(v) /\ page[p].state = "open" BY DEF Load
  <1>2. events' \in Nat BY InvFacts DEF Load, CountEvent
  <1>3. Now.page[p].state = "open" /\ Now.page[p].valid = page[p].valid BY <1>1, NowFields
  <1>4. CASE page[p].valid /\ p \in c \ {i}
    <2>1. a = Now BY <1>4
    <2>2. Good(v, c, i, web, r) BY <1>4, <2>1, InvFacts, LateRequest
    <2>3. ASSUME NEW n \in Proc, Silent(Now, n)
          PROVE  Silent(v, n) \/ LoadsAnother(n)
      <3>1. CASE n = page[p].process
        <4>1. inClient # NoPage BY <1>4 DEF Load, Idle
        <4> QED BY <1>4, <3>1, <4>1 DEF LoadsAnother
      <3>2. CASE n # page[p].process
        <4>1. v.proxy[n] = Now.proxy[n] BY <1>4, <2>1, <2>3, <3>2, InvFacts, LateRequest, NowFields
        <4> QED BY <2>3, <4>1 DEF Silent
      <3> QED BY <3>1, <3>2
    <2> HIDE DEF v, a
    <2> QED BY <1>1, <1>2, <2>2, <2>3, InvFacts, Lands DEF Load
  <1>5. CASE ~(page[p].valid /\ p \in c \ {i})
    <2>1. Good(a, c, i, web, r) /\ Attached(a, p) /\ Calm(Now, a)
      <3>1. CASE page[p].valid
        <4>1. Attached(Now, p) BY <1>3, <1>5, <3>1, InvFacts DEF Sound, Pages, Valid
        <4> QED BY <3>1, <4>1, InvFacts
      <3>2. CASE ~page[p].valid
        <4>1. /\ Now.current # NoProcess \/ Now.launched < MaxProcess
              /\ ~Valid(Now, p) /\ Now.page[p].state # "closed"
          BY <1>3, <3>2, NowFields DEF Load, MayLaunch, Valid
        <4>2. /\ Good(Attach(Now, p), c, i, web, r) /\ Attached(Attach(Now, p), p)
              /\ Calm(Now, Attach(Now, p))
          BY <4>1, InvFacts, AttachGood
        <4> QED BY <3>2, <4>2
      <3> QED BY <3>1, <3>2
    <2> HIDE DEF a
    <2>2. Good(v, c, i, web, r) /\ Calm(a, v)
      BY <2>1, InvFacts, RequestGood
    <2>3. Calm(Now, v) BY <2>1, <2>2, CalmTrans
    <2> HIDE DEF v
    <2> QED BY <1>1, <1>2, <2>2, <2>3, InvFacts, Arrives DEF Load
  <1> QED BY <1>4, <1>5
-----------------------------------------------------------------------------
(* Answers.                                                                *)

Taken(r, n) == [r EXCEPT ![n] = Tail(@)]

LEMMA TakenEffect ==
    ASSUME NEW u, NEW c, NEW i, NEW r \in Replies, Sound(u, c, i, web, r),
           u.current # NoProcess, u.proxy[u.current].state = "open", r[u.current] # << >>
    PROVE  LET n == u.current
               s == Taken(r, n)
               m == Head(r[n]) IN
           /\ s \in Replies /\ s[n] = Tail(r[n])
           /\ Sound(u, c, i, web, s) /\ m \in UIMessage
           /\ \A z : \A o \in EventOps :
                 /\ Under(u, r, o, z) \in Nat
                 /\ Under(u, s, o, z) =
                       Under(u, r, o, z) - (IF m = Message(o, z) THEN 1 ELSE 0)
           /\ m.op \notin TimedOps \cup {"stopTimer", "closePage"} /\ Alarm(u, web, r)
                 => Alarm(u, web, s)
           /\ Connects(u, web) /\ m.op # "shouldTerminate" =>
                 m.page \in Page /\ u.page[m.page].process = n
  <1> DEFINE n == u.current
             s == Taken(r, n)
             m == Head(r[n])
             q == Outgoing(u, n)
             t == r[n]
  <1>0. u \in UIState /\ Processes(u) /\ Pages(u, c, i) /\ Shape(u, web, r) /\ Lines(u, web, r)
    BY DEF Sound
  <1>1. n \in Proc BY <1>0, CurrentIsProc
  <1>2. t \in Seq(UIMessage) BY <1>1 DEF Replies
  <1>3. /\ Tail(t) \in Seq(UIMessage) /\ m \in UIMessage /\ m = t[1] /\ 1 \in DOMAIN t
        /\ DOMAIN Tail(t) = 1..(Len(t) - 1) /\ DOMAIN t = 1..Len(t) /\ Len(t) \in Nat
        /\ \A k \in 1..(Len(t) - 1) : Tail(t)[k] = t[k + 1] /\ k + 1 \in 1..Len(t)
    BY <1>2
  <1>4. s \in Replies /\ s[n] = Tail(t) /\ \A k \in Proc : k # n => s[k] = r[k]
    BY <1>1, <1>3 DEF Replies, Taken
  <1> HIDE DEF s, m, t
  <1>5. Shape(u, web, s)
    <2> SUFFICES ASSUME NEW k \in Proc
                 PROVE  /\ u.proxy[k].state \in {"none", "launching"} =>
                              /\ u.toWeb[k] = << >> /\ s[k] = << >>
                              /\ web[k].pages = {} /\ ~web[k].initialized
                        /\ u.proxy[k].state = "none" => web[k].state = "none"
                        /\ u.proxy[k].state = "open" => u.proxy[k].pending = << >>
      BY DEF Shape
    <2>1. CASE k = n BY <1>0, <1>1, <2>1 DEF Shape
    <2>2. CASE k # n BY <1>0, <1>4, <2>2 DEF Shape
    <2> QED BY <2>1, <2>2
  <1>6. Connects(u, web) => Answerable(u, t) BY <1>0 DEF Lines, t
  <1>7. Answerable(u, t) => Answerable(u, Tail(t)) BY <1>3 DEF Answerable
  <1>8. Lines(u, web, s) BY <1>0, <1>4, <1>6, <1>7 DEF Lines
  <1>9. ASSUME NEW z, NEW o
        PROVE  /\ Under(u, r, o, z) \in Nat
               /\ Under(u, s, o, z) = Under(u, r, o, z) - (IF m = Message(o, z) THEN 1 ELSE 0)
    <2> DEFINE M == {Message(o, z)}
    <2>1. Count(Tail(t), M) = Count(t, M) - (IF m \in M THEN 1 ELSE 0)
      BY <1>2, CountTail DEF m, t
    <2>2. Count(t, M) \in Nat /\ Count(q, M) \in Nat
      <3>1. q \in Seq(WebMessage) BY <1>0, <1>1, QueueType
      <3> QED BY <1>2, <3>1, CountType
    <2>3. Under(u, r, o, z) = Count(q, M) + Count(t, M) BY DEF Under, t
    <2>4. Under(u, s, o, z) = Count(q, M) + Count(Tail(t), M) BY <1>4 DEF Under
    <2> HIDE DEF q
    <2> QED BY <2>1, <2>2, <2>3, <2>4
  <1>10. ASSUME m.op \notin TimedOps \cup {"stopTimer", "closePage"}, Alarm(u, web, r)
         PROVE  Alarm(u, web, s)
    <2> SUFFICES ASSUME Reason(q, t) PROVE Reason(q, Tail(t))
      BY <1>4, <1>10 DEF Alarm, t
    <2> HIDE DEF q
    <2>1. CASE \E k \in DOMAIN q : q[k].op \in TimedOps BY <2>1 DEF Reason
    <2>2. ASSUME NEW k \in DOMAIN t, t[k].op \in TimedOps \cup {"stopTimer", "closePage"}
          PROVE  Reason(q, Tail(t))
      <3>1. k # 1 BY <1>3, <1>10, <2>2
      <3>2. k - 1 \in DOMAIN Tail(t) /\ Tail(t)[k - 1] = t[k] BY <1>3, <3>1
      <3> QED BY <2>2, <3>2 DEF Reason
    <2> QED BY <2>1, <2>2 DEF Reason
  <1>11. Connects(u, web) /\ m.op # "shouldTerminate" =>
            m.page \in Page /\ u.page[m.page].process = n
    BY <1>3, <1>6 DEF Answerable
  <1> QED BY <1>0, <1>3, <1>4, <1>5, <1>8, <1>9, <1>10, <1>11 DEF Sound, s, m, t

(* An answer to a page of its process, handled.                             *)
LEMMA DidReceiveGood ==
    ASSUME NEW u, NEW i, NEW r \in Replies, Good(u, {}, i, web, r), i \notin Page,
           u.current # NoProcess, u.proxy[u.current].state = "open", r[u.current] # << >>,
           Head(r[u.current]).op # "shouldTerminate",
           Head(r[u.current]).page \in u.proxy[u.current].pages
    PROVE  LET v == DidReceive(u, u.current, Head(r[u.current])) IN
           /\ Good(v, {}, i, web, Taken(r, u.current))
           /\ Calm(u, v)
  <1> DEFINE n == u.current
             s == Taken(r, n)
             m == Head(r[n])
             p == m.page
             v == DidReceive(u, n, m)
             a == TimerStop(u, n)
             x == u.page[p].waits
  <1>0. /\ Sound(u, {}, i, web, r) /\ Alarm(u, web, r) /\ Events(u, web, r, i)
        /\ u \in UIState
    BY DEF Good, Sound
  <1>1. /\ s \in Replies /\ s[n] = Tail(r[n])
        /\ Sound(u, {}, i, web, s) /\ m \in UIMessage
        /\ \A z : \A o \in EventOps :
              /\ Under(u, r, o, z) \in Nat
              /\ Under(u, s, o, z) =
                    Under(u, r, o, z) - (IF m = Message(o, z) THEN 1 ELSE 0)
        /\ m.op \notin TimedOps \cup {"stopTimer", "closePage"} /\ Alarm(u, web, r)
              => Alarm(u, web, s)
    BY <1>0, TakenEffect
  <1> HIDE DEF s, m
  <1>2. p \in Page /\ Attached(u, p) /\ m.op # "shouldTerminate"
    <2>1. p \in u.proxy[n].pages /\ m.op # "shouldTerminate" BY DEF m
    <2> QED BY <1>0, <2>1 DEF Sound, Pages
  <1>3. \A z : \A o \in EventOps : (m = Message(o, z)) <=> (m.op = o /\ p = z)
    BY <1>1 DEF Message, UIMessage
  <1>4. \A z \in Page : z # p => EventsOf(u, web, s, i, z)
    BY <1>0, <1>1, <1>3 DEF Events, EventsOf, EventOps
  <1>5. Connects(u, web) =>
           Matches(x, Under(u, r, "key", p), Under(u, r, "wheel", p), Under(u, r, "move", p))
    BY <1>0, <1>2 DEF Events, EventsOf
  <1>6. x \in WaitsState BY <1>0, <1>2, WaitsType
  <1>7. /\ Sound(a, {}, i, web, s) /\ Alarm(a, web, s)
        /\ a.page = u.page /\ a.current = u.current
        /\ \A z \in Page : Attached(a, z) <=> Attached(u, z)
        /\ Connects(a, web) <=> Connects(u, web)
        /\ \A z, o : Under(a, s, o, z) = Under(u, s, o, z)
        /\ \A z \in Page : EventsOf(u, web, s, i, z) => EventsOf(a, web, s, i, z)
        /\ Calm(u, a)
    BY <1>1, TimerStopGood
  <1>8. a \in UIState BY <1>7 DEF Sound
  <1>9. i # p BY <1>2
  <1>10. CASE m.op = "key"
    <2> DEFINE y == [x EXCEPT !.keys = x.keys - 1]
    <2>1. v = WithWaits(a, p, y)
      <3>1. v = [a EXCEPT !.page[p].waits.keys = @ - 1] BY <1>10 DEF DidReceive
      <3> HIDE DEF a, v
      <3>2. [a EXCEPT !.page[p].waits.keys = @ - 1] = WithWaits(a, p, y)
        BY <1>2, <1>7, <1>8 DEF UIState, PageState, WithWaits
      <3> QED BY <3>1, <3>2
    <2> HIDE DEF x
    <2>2. /\ y \in WaitsState /\ y.keys = x.keys - 1 /\ y.wheel = x.wheel
          /\ y.wheelQueue = x.wheelQueue /\ y.moving = x.moving /\ y.nextMove = x.nextMove
      BY <1>6 DEF WaitsState
    <2> HIDE DEF y, a, v
    <2>3. Connects(a, web) =>
             Matches(y, Under(a, s, "key", p), Under(a, s, "wheel", p), Under(a, s, "move", p))
      <3>1. /\ Under(a, s, "key", p) = Under(u, r, "key", p) - 1
            /\ Under(a, s, "wheel", p) = Under(u, r, "wheel", p)
            /\ Under(a, s, "move", p) = Under(u, r, "move", p)
        BY <1>1, <1>3, <1>7, <1>10 DEF EventOps
      <3> QED BY <1>5, <1>7, <2>2, <3>1 DEF Matches
    <2>4. Good(v, {}, i, web, s) /\ Calm(a, v)
      BY <1>1, <1>2, <1>4, <1>7, <1>9, <2>1, <2>2, <2>3, WaitsChanged
    <2>5. Calm(u, v) BY <1>7, <2>4, CalmTrans
    <2> QED BY <2>4, <2>5 DEF v, s, m
  <1>11. CASE m.op = "wheel"
    <2> DEFINE y == [x EXCEPT !.wheel = x.wheelQueue, !.wheelQueue = 0]
               b == WithWaits(a, p, y)
    <2>1. v = IF x.wheelQueue = 0 THEN b ELSE SendTimed(b, p, "wheel")
      <3>1. v = DidReceiveWheel(a, p) BY <1>11 DEF DidReceive
      <3> HIDE DEF a, v
      <3>2. [a EXCEPT !.page[p].waits = [@ EXCEPT !.wheel = x.wheelQueue,
                                                  !.wheelQueue = 0]] = b
        BY <1>2, <1>7, <1>8 DEF UIState, PageState, WithWaits
      <3> QED BY <1>7, <3>1, <3>2 DEF DidReceiveWheel
    <2> HIDE DEF x
    <2>2. /\ y \in WaitsState /\ y.keys = x.keys /\ y.wheel = x.wheelQueue
          /\ y.wheelQueue = 0 /\ y.moving = x.moving /\ y.nextMove = x.nextMove
          /\ x.wheelQueue \in Nat /\ x.wheel \in Nat
      BY <1>6 DEF WaitsState
    <2> HIDE DEF y, a, v
    <2>3. Connects(a, web) =>
             /\ Under(a, s, "key", p) = Under(u, r, "key", p)
             /\ Under(a, s, "wheel", p) = 0
             /\ Under(a, s, "move", p) = Under(u, r, "move", p)
      <3>1. /\ Under(a, s, "key", p) = Under(u, r, "key", p)
            /\ Under(a, s, "wheel", p) = Under(u, r, "wheel", p) - 1
            /\ Under(a, s, "move", p) = Under(u, r, "move", p)
        BY <1>1, <1>3, <1>7, <1>11 DEF EventOps
      <3>2. Under(a, s, "wheel", p) \in Nat
        <4>1. a.current # NoProcess BY <1>7
        <4> QED BY <1>1, <1>8, <4>1, UnderType
      <3> QED BY <1>5, <1>7, <3>1, <3>2 DEF Matches
    <2>4. CASE x.wheelQueue = 0
      <3>1. Connects(a, web) =>
               Matches(y, Under(a, s, "key", p), Under(a, s, "wheel", p), Under(a, s, "move", p))
        BY <1>5, <1>7, <2>2, <2>3, <2>4 DEF Matches
      <3>2. v = b BY <2>1, <2>4
      <3>3. Good(v, {}, i, web, s) /\ Calm(a, v)
        BY <1>1, <1>2, <1>4, <1>7, <1>9, <2>2, <3>1, <3>2, WaitsChanged
      <3>4. Calm(u, v) BY <1>7, <3>3, CalmTrans
      <3> QED BY <3>3, <3>4 DEF v, s, m
    <2>5. CASE x.wheelQueue # 0
      <3>1. Connects(a, web) =>
               Matches(y, Under(a, s, "key", p) + (IF "wheel" = "key" THEN 1 ELSE 0),
                       Under(a, s, "wheel", p) + (IF "wheel" = "wheel" THEN 1 ELSE 0),
                       Under(a, s, "move", p))
        <4>1. Under(u, r, "key", p) \in Nat BY <1>1 DEF EventOps
        <4> QED BY <1>5, <1>7, <2>2, <2>3, <2>5, <4>1 DEF Matches
      <3>2. v = SendTimed(b, p, "wheel") BY <2>1, <2>5
      <3>3. Good(v, {}, i, web, s) /\ Calm(a, v)
        BY <1>1, <1>2, <1>4, <1>7, <1>9, <2>2, <3>1, <3>2, EventSent
      <3>4. Calm(u, v) BY <1>7, <3>3, CalmTrans
      <3> QED BY <3>3, <3>4 DEF v, s, m
    <2> QED BY <2>4, <2>5
  <1>12. CASE m.op = "move"
    <2> DEFINE y == [x EXCEPT !.moving = FALSE, !.nextMove = FALSE]
               b == WithWaits(u, p, y)
    <2>1. v = IF x.nextMove THEN SendMouseMove(b, p) ELSE b
      <3>1. [u EXCEPT !.page[p].waits = [@ EXCEPT !.moving = FALSE,
                                                  !.nextMove = FALSE]] = b
        BY <1>0, <1>2 DEF UIState, PageState, WithWaits
      <3> QED BY <1>12, <3>1 DEF DidReceive
    <2>0. Alarm(u, web, s) BY <1>0, <1>1, <1>12 DEF TimedOps
    <2> HIDE DEF x
    <2>2. /\ y \in WaitsState /\ y.keys = x.keys /\ y.wheel = x.wheel
          /\ y.wheelQueue = x.wheelQueue /\ y.moving = FALSE /\ y.nextMove = FALSE
      BY <1>6 DEF WaitsState
    <2> HIDE DEF y, a, v
    <2>3. Connects(u, web) =>
             /\ Under(u, s, "key", p) = Under(u, r, "key", p)
             /\ Under(u, s, "wheel", p) = Under(u, r, "wheel", p)
             /\ Under(u, s, "move", p) = 0
      <3>1. /\ Under(u, s, "key", p) = Under(u, r, "key", p)
            /\ Under(u, s, "wheel", p) = Under(u, r, "wheel", p)
            /\ Under(u, s, "move", p) = Under(u, r, "move", p) - 1
        BY <1>1, <1>3, <1>12 DEF EventOps
      <3>2. Under(u, s, "move", p) \in Nat BY <1>0, <1>1, UnderType
      <3> QED BY <1>5, <3>1, <3>2 DEF Matches
    <2>4. Connects(u, web) =>
             Matches(y, Under(u, s, "key", p), Under(u, s, "wheel", p), Under(u, s, "move", p))
      BY <1>5, <2>2, <2>3 DEF Matches
    <2>5. Good(b, {}, i, web, s) /\ Calm(u, b)
      BY <1>1, <1>2, <1>4, <1>9, <2>0, <2>2, <2>4, WaitsChanged
    <2>6. CASE ~x.nextMove BY <2>1, <2>5, <2>6 DEF v, s, m
    <2>7. CASE x.nextMove
      <3>1. /\ b \in UIState /\ SameButWaits(u, b) /\ b.page[p].waits = y
            /\ b.proxy = u.proxy
        BY <1>0, <1>2, <2>2, WaitsEffect
      <3> HIDE DEF b
      <3>2. b.current = n /\ b.page[p].process = n /\ Attached(b, p) /\ b.current # NoProcess
        BY <1>2, <3>1 DEF SameButWaits, Attached
      <3> DEFINE g == [y EXCEPT !.moving = TRUE]
      <3>3. /\ SendMouseMove(b, p) = Send(WithWaits(b, p, g), b.current, Message("move", p))
            /\ g \in WaitsState /\ g.keys = y.keys /\ g.wheel = y.wheel
            /\ g.wheelQueue = y.wheelQueue /\ g.moving = TRUE /\ g.nextMove = y.nextMove
        BY <1>2, <3>1, <3>2, SendMouseMoveIs
      <3> HIDE DEF g
      <3>4. Connects(b, web) => Connects(u, web) BY <3>2 DEF Connects
      <3>5. \A o : Under(b, s, o, p) = Under(u, s, o, p)
        <4>1. n \in Proc BY <1>0, CurrentIsProc
        <4>2. Outgoing(b, n) = Outgoing(u, n) BY <3>1, <4>1 DEF SameButWaits, Outgoing
        <4> QED BY <3>2, <4>2 DEF Under
      <3>6. Connects(b, web) =>
               Matches(g, Under(b, s, "key", p), Under(b, s, "wheel", p),
                       Under(b, s, "move", p) + 1)
        BY <1>5, <2>2, <2>3, <3>3, <3>4, <3>5 DEF Matches
      <3> DEFINE d == Send(WithWaits(b, p, g), b.current, Message("move", p))
      <3>7. Good(d, {}, i, web, s) /\ Calm(b, d)
        BY <1>1, <1>2, <1>9, <2>5, <3>2, <3>3, <3>6, MoveSent DEF Good, Events
      <3>8. Calm(u, d) BY <2>5, <3>7, CalmTrans
      <3> QED BY <2>1, <2>7, <3>3, <3>7, <3>8 DEF v, s, m
    <2> QED BY <2>6, <2>7
  <1>13. CASE m.op \in {"stopTimer", "closePage"}
    <2>1. \A z \in Page : EventsOf(a, web, s, i, z)
      <3>1. Connects(u, web) => \A o \in EventOps : Under(u, s, o, p) = Under(u, r, o, p)
        BY <1>1, <1>3, <1>13 DEF EventOps
      <3>2. EventsOf(u, web, s, i, p)
        BY <1>0, <1>2, <3>1 DEF Events, EventsOf, EventOps
      <3> QED BY <1>4, <1>7, <3>2
    <2>2. CASE m.op = "stopTimer"
      <3>1. v = a BY <2>2 DEF DidReceive
      <3> QED BY <1>7, <2>1, <3>1 DEF Good, Events, s, m
    <2>3. CASE m.op = "closePage"
      <3>1. v = Closed(a, p) BY <2>3 DEF DidReceive
      <3> HIDE DEF a, v
      <3>2. Good(v, {}, i, web, s) /\ Calm(a, v)
        BY <1>1, <1>2, <1>7, <2>1, <3>1, ClosedGood
      <3>3. Calm(u, v) BY <1>7, <3>2, CalmTrans
      <3> QED BY <3>2, <3>3 DEF v, s, m
    <2> QED BY <1>13, <2>2, <2>3
  <1> QED BY <1>1, <1>2, <1>10, <1>11, <1>12, <1>13 DEF UIMessage
LEMMA ReceiveFromWebStep ==
    ASSUME IInv, NEW n \in Proc, ReceiveFromWeb(n)
    PROVE  Holds
  <1> DEFINE m == Head(toUI[n])
             s == Taken(toUI, n)
             i == inClient
             v == DidReceive(Now, n, m)
  <1>1. /\ crashed = {} /\ i = NoPage /\ i \notin Page
    BY IdleFacts, WebAssumption DEF ReceiveFromWeb
  <1>2. /\ Now \in UIState /\ Processes(Now) /\ Pages(Now, {}, i) /\ toUI \in Replies
        /\ Good(Now, {}, i, web, toUI) /\ Sound(Now, {}, i, web, toUI)
        /\ Alarm(Now, web, toUI)
        /\ \A z \in Page : EventsOf(Now, web, toUI, i, z)
    BY <1>1, InvFacts DEF Sound
  <1>3. /\ n = Now.current /\ n # NoProcess /\ Now.proxy[n].state = "open"
        /\ toUI[n] # << >> /\ m.op # "shouldTerminate"
    <2>1. Now.proxy[n].state = "open" BY NowFields DEF ReceiveFromWeb
    <2>2. n \in Nat /\ Now.launched \in Nat BY <1>2, UIStateFields DEF Proc
    <2>3. n = Now.current BY <1>2, <2>1, <2>2 DEF Processes
    <2> QED BY <2>1, <2>3 DEF ReceiveFromWeb, Proc, NoProcess
  <1>4. /\ toUI' = s /\ UNCHANGED <<crashed, inClient, events, web>>
        /\ Becomes(IF m.page \in Now.proxy[n].pages THEN v ELSE Now)
    BY NowFields DEF ReceiveFromWeb, Taken
  <1>5. /\ s \in Replies /\ s[n] = Tail(toUI[n])
        /\ Sound(Now, {}, i, web, s) /\ m \in UIMessage
        /\ \A z : \A o \in EventOps :
              /\ Under(Now, toUI, o, z) \in Nat
              /\ Under(Now, s, o, z) =
                    Under(Now, toUI, o, z) - (IF m = Message(o, z) THEN 1 ELSE 0)
        /\ Connects(Now, web) /\ m.op # "shouldTerminate" =>
              m.page \in Page /\ Now.page[m.page].process = n
    BY <1>2, <1>3, TakenEffect
  <1>6. CASE m.page \in Now.proxy[n].pages
    <2>1. Good(v, {}, i, web, s) /\ Calm(Now, v)
      BY <1>1, <1>2, <1>3, <1>6, DidReceiveGood
    <2> HIDE DEF v, s
    <2> QED BY <1>1, <1>4, <1>5, <1>6, <2>1, InvFacts, Arrives
  <1>7. CASE m.page \notin Now.proxy[n].pages
    <2>1. ~Attached(Now, m.page) \/ m.page \notin Page
      BY <1>2, <1>3, <1>7 DEF Pages
    <2>2. Connects(Now, web) => m.page \in Page /\ Now.page[m.page].state = "closed"
      BY <1>3, <1>5, <2>1 DEF Attached
    <2>3. Alarm(Now, web, s) BY <2>2 DEF Alarm
    <2>4. ASSUME NEW z \in Page PROVE EventsOf(Now, web, s, i, z)
      <3>1. EventsOf(Now, web, toUI, i, z) BY <1>2
      <3>2. Attached(Now, z) => \A o \in EventOps : Under(Now, s, o, z) = Under(Now, toUI, o, z)
        <4>1. Attached(Now, z) => z # m.page BY <2>1
        <4>2. \A o : m = Message(o, z) => z = m.page BY DEF Message
        <4> HIDE DEF m, s
        <4> QED BY <1>5, <4>1, <4>2
      <3> QED BY <3>1, <3>2 DEF EventsOf, EventOps
    <2>5. Good(Now, {}, i, web, s) BY <1>5, <2>3, <2>4 DEF Good, Events
    <2> HIDE DEF v, s
    <2> QED BY <1>1, <1>4, <1>5, <1>7, <2>5, InvFacts, Arrives
  <1> QED BY <1>6, <1>7

(* The process is current while it can be talked to.                        *)
LEMMA OpenIsCurrent ==
    ASSUME IInv, NEW n \in Proc, proxy[n].state \in {"launching", "open"}
    PROVE  n = Now.current /\ n # NoProcess
  <1>1. Now \in UIState /\ Processes(Now) BY InvFacts DEF Sound
  <1>2. n \in Nat /\ Now.launched \in Nat /\ n # NoProcess
    BY <1>1, UIStateFields DEF Proc, NoProcess
  <1> QED BY <1>1, <1>2, NowFields DEF Processes

LEMMA DidDisconnect ==
    ASSUME IInv, Idle, NEW n \in Proc, proxy[n].state = "open", NEW s \in Seq(UIMessage),
           Becomes(Disconnected(Now, n)), toUI' = [toUI EXCEPT ![n] = s],
           crashed' = proxy[n].pages, UNCHANGED <<inClient, events, web>>
    PROVE  Holds
  <1> DEFINE v == Disconnected(Now, n)
             i == inClient
             t == [toUI EXCEPT ![n] = s]
             c == Now.proxy[n].pages
  <1>1. n = Now.current /\ n # NoProcess BY OpenIsCurrent
  <1>2. crashed = {} /\ i = NoPage BY IdleFacts
  <1>3. /\ Sound(v, c, i, web, t) /\ c \in SUBSET Page
        /\ v.page = Now.page /\ v.current = NoProcess
        /\ \A k \in Proc : k # n => v.proxy[k] = Now.proxy[k]
        /\ v.proxy[n].timer = FALSE /\ v.proxy[n].responsive = TRUE
    BY <1>1, <1>2, InvFacts, DisconnectedSound
  <1>4. Becomes(v) /\ crashed' = c BY NowFields
  <1>5. t \in Replies BY InvFacts DEF Replies
  <1> HIDE DEF v, c
  <1>6. Alarm(v, web, t) BY <1>3 DEF Alarm, Connects
  <1>7. Events(v, web, t, i)
    <2> SUFFICES ASSUME NEW z \in Page PROVE EventsOf(v, web, t, i, z) BY DEF Events
    <2>1. EventsOf(Now, web, toUI, i, z) BY InvFacts
    <2> QED BY <1>3, <2>1 DEF EventsOf, Valid, Connects
  <1>8. Calm(Now, v) BY <1>3 DEF Calm, Silent
  <1> HIDE DEF t
  <1>9. Good(v, crashed', inClient', web', toUI')
    BY <1>3, <1>4, <1>6, <1>7 DEF Good, t
  <1> QED BY <1>3, <1>4, <1>5, <1>8, <1>9, InvFacts, Arrives DEF t

LEMMA DidCloseStep ==
    ASSUME IInv, NEW n \in Proc, DidClose(n)
    PROVE  Holds
  <1>1. << >> \in Seq(UIMessage) OBVIOUS
  <1> QED BY <1>1, DidDisconnect DEF DidClose

(* A page is told of the end of its process.                                *)
LEMMA ProcessDidCrashStep ==
    ASSUME IInv, NEW p \in Page, ProcessDidCrash(p)
    PROVE  Holds
  <1> DEFINE u == Now
             x == [u.page[p] EXCEPT !.valid = FALSE]
             v == [u EXCEPT !.page[p] = x]
             c == crashed
             r == toUI
  <1>0. /\ u \in UIState /\ Sound(u, c, NoPage, web, r) /\ Alarm(u, web, r)
        /\ \A z \in Page : EventsOf(u, web, r, NoPage, z)
        /\ Processes(u) /\ Pages(u, c, NoPage) /\ Shape(u, web, r) /\ Lines(u, web, r)
    BY InvFacts DEF ProcessDidCrash, Sound
  <1>1. p \in c /\ inClient = NoPage /\ inClient' = p BY DEF ProcessDidCrash
  <1>2. /\ x \in PageState /\ x.state = u.page[p].state /\ x.valid = FALSE
        /\ x.process = u.page[p].process
    <2>1. u.page[p] \in PageState BY <1>0, UIStateFields
    <2>2. ASSUME NEW b \in PageState
          PROVE  LET e == [b EXCEPT !.valid = FALSE] IN
                 /\ e \in PageState /\ e.state = b.state /\ e.valid = FALSE
                 /\ e.process = b.process
      BY DEF PageState
    <2> QED BY <2>1, <2>2
  <1>3. Becomes(v)
    <2>1. v = [u EXCEPT !.page = [page EXCEPT ![p].valid = FALSE]] BY NowFields
    <2>2. v.page = page' BY <2>1 DEF ProcessDidCrash, Now
    <2>3. /\ v.current = u.current /\ v.launched = u.launched /\ v.proxy = u.proxy
          /\ v.toWeb = u.toWeb
      BY <2>1 DEF Now
    <2> HIDE DEF v
    <2> QED BY <2>2, <2>3, NowFields DEF ProcessDidCrash, Becomes
  <1> HIDE DEF x, u
  <1>4. /\ v \in UIState
        /\ v.current = u.current /\ v.launched = u.launched
        /\ v.proxy = u.proxy /\ v.toWeb = u.toWeb
        /\ v.page[p] = x
        /\ \A k \in Page : k # p => v.page[k] = u.page[k]
    BY <1>0, <1>2, WithPage
  <1> HIDE DEF v
  <1>5. p # NoPage BY WebAssumption
  <1>6. ~Attached(u, p) BY <1>0, <1>1, <1>5 DEF Pages, Attached
  <1>7. /\ \A z \in Page : Attached(v, z) <=> Attached(u, z)
        /\ \A z \in Page : z # p => (Valid(v, z) <=> Valid(u, z))
        /\ ~Valid(v, p)
        /\ Connects(v, web) <=> Connects(u, web)
        /\ \A z \in Page : /\ v.page[z].state = u.page[z].state
                           /\ v.page[z].process = u.page[z].process
    BY <1>2, <1>4 DEF Attached, Valid, Connects
  <1>8. Pages(v, c, p)
    <2>1. {z \in Page : Attached(v, z)} = {z \in Page : Attached(u, z)} BY <1>7
    <2>2. \A z \in c : /\ v.page[z].state = "open" /\ (z # p => v.page[z].valid)
                       /\ v.page[z].process # NoProcess
      BY <1>0, <1>4, <1>7, InvFacts, WebAssumption DEF Pages
    <2>3. ASSUME NEW z \in Page
          PROVE  /\ v.page[z].process <= v.launched
                 /\ v.page[z].state # "closed" =>
                       (Attached(v, z) <=> Valid(v, z) /\ z \notin c \ {p})
      <3>1. CASE z = p BY <1>0, <1>4, <1>6, <1>7, <3>1 DEF Pages
      <3>2. CASE z # p
        <4>1. z # NoPage BY WebAssumption
        <4> QED BY <1>0, <1>4, <1>7, <3>2, <4>1 DEF Pages
      <3> QED BY <3>1, <3>2
    <2>4. v.current # NoProcess =>
             v.proxy[v.current].pages = {z \in Page : Attached(v, z)}
      BY <1>0, <1>4, <2>1 DEF Pages
    <2> QED BY <1>1, <2>2, <2>3, <2>4 DEF Pages
  <1>9. Processes(v) BY <1>0, <1>4 DEF Processes
  <1>10. Shape(v, web, r) BY <1>0, <1>4 DEF Shape
  <1>11. \A k \in Proc : Outgoing(v, k) = Outgoing(u, k) BY <1>4 DEF Outgoing
  <1>12. Connects(u, web) => u.current \in Proc BY <1>0, CurrentIsProc DEF Connects
  <1>13. Lines(v, web, r)
    <2> SUFFICES ASSUME Connects(v, web) PROVE Lines(v, web, r) BY DEF Lines
    <2> DEFINE q == Outgoing(u, u.current)
               y == web[u.current]
    <2>1. Outgoing(v, v.current) = q /\ v.current = u.current BY <1>4, <1>7, <1>11, <1>12
    <2>2. WellFormed(q, y) /\ Known(u, q, y) /\ Answerable(u, r[u.current])
      BY <1>0, <1>7 DEF Lines
    <2> HIDE DEF q, y
    <2>3. Known(v, q, y) BY <1>4, <1>7, <2>2 DEF Known
    <2>4. Answerable(v, r[u.current]) BY <1>4, <1>7, <2>2 DEF Answerable
    <2> QED BY <2>1, <2>2, <2>3, <2>4 DEF Lines, y
  <1>14. Connects(u, web) => \A z, o : Under(v, r, o, z) = Under(u, r, o, z)
    BY <1>4, <1>11, <1>12 DEF Under
  <1>15. ASSUME NEW z \in Page PROVE EventsOf(v, web, r, p, z)
    <2>1. CASE z = p BY <1>6, <1>7, <2>1 DEF EventsOf
    <2>2. CASE z # p
      <3>1. z # NoPage /\ EventsOf(u, web, r, NoPage, z) BY <1>0, WebAssumption
      <3> QED BY <1>4, <1>7, <1>14, <2>2, <3>1 DEF EventsOf, EventOps
    <2> QED BY <2>1, <2>2
  <1>16. Alarm(v, web, r) BY <1>0, <1>4, <1>7, <1>11, <1>12 DEF Alarm
  <1>17. Calm(u, v) BY <1>4 DEF Calm, Silent
  <1>18. Good(v, c, p, web, r) BY <1>4, <1>8, <1>9, <1>10, <1>13, <1>15, <1>16 DEF Good, Sound, Events
  <1> QED BY <1>1, <1>3, <1>17, <1>18, InvFacts, Arrives DEF ProcessDidCrash, u

(* ... and it forgets what it waited for.                                   *)
LEMMA ClientReturnsStep ==
    ASSUME IInv, ClientReturns
    PROVE  Holds
  <1> DEFINE u == Now
             p == inClient
             v == WithWaits(u, p, NoEvents)
             c == crashed
             r == toUI
  <1>0. /\ u \in UIState /\ Sound(u, c, p, web, r) /\ Alarm(u, web, r)
        /\ \A z \in Page : EventsOf(u, web, r, p, z)
        /\ Pages(u, c, p)
    BY InvFacts DEF Sound
  <1>1. p \in c /\ p \in Page /\ inClient' = NoPage /\ crashed' = c \ {p}
    BY <1>0, InvFacts DEF ClientReturns, Pages
  <1>2. NoEvents \in WaitsState BY DEF NoEvents, WaitsState
  <1>3. Becomes(v)
    <2>1. v.page = page' BY DEF ClientReturns, Now, WithWaits
    <2>2. /\ v.current = u.current /\ v.launched = u.launched /\ v.proxy = u.proxy
          /\ v.toWeb = u.toWeb
      BY DEF Now, WithWaits
    <2> HIDE DEF v
    <2> QED BY <2>1, <2>2, NowFields DEF ClientReturns, Becomes
  <1> HIDE DEF u
  <1>4. /\ v \in UIState /\ SameButWaits(u, v)
        /\ v.proxy = u.proxy /\ v.page[p].waits = NoEvents
        /\ \A k \in Page : k # p => v.page[k] = u.page[k]
    BY <1>0, <1>1, <1>2, WaitsEffect
  <1> HIDE DEF v
  <1>5. /\ Sound(v, c, p, web, r)
        /\ \A k \in Proc : Outgoing(v, k) = Outgoing(u, k)
        /\ \A k \in Page : Attached(v, k) <=> Attached(u, k)
        /\ \A k \in Page : Valid(v, k) <=> Valid(u, k)
        /\ Connects(v, web) <=> Connects(u, web)
    BY <1>0, <1>4, InvFacts, SameButWaitsSound
  <1>6. Sound(v, c \ {p}, NoPage, web, r)
    <2>1. Pages(v, c, p) BY <1>5 DEF Sound
    <2>2. NoPage \notin c BY InvFacts, WebAssumption
    <2>3. (c \ {p}) \ {NoPage} = c \ {p} BY <2>2
    <2>4. Pages(v, c \ {p}, NoPage)
      <3>1. \A z \in c \ {p} : /\ v.page[z].state = "open" /\ (z # NoPage => v.page[z].valid)
                               /\ v.page[z].process # NoProcess
        BY <2>1 DEF Pages
      <3> QED BY <2>1, <2>3, <3>1 DEF Pages
    <2> QED BY <1>5, <2>4 DEF Sound
  <1>7. v.current = u.current BY <1>4 DEF SameButWaits
  <1>8. Connects(u, web) => u.current \in Proc BY <1>0, CurrentIsProc DEF Connects
  <1>9. Connects(u, web) => \A z, o : Under(v, r, o, z) = Under(u, r, o, z)
    BY <1>5, <1>7, <1>8 DEF Under
  <1>10. ASSUME NEW z \in Page PROVE EventsOf(v, web, r, NoPage, z)
    <2>0. z # NoPage /\ EventsOf(u, web, r, p, z) BY <1>0, WebAssumption
    <2>1. CASE z = p
      <3>1. Matches(NoEvents, 0, 0, 0) BY DEF Matches, NoEvents
      <3>2. Connects(v, web) /\ Attached(v, p) => \A o \in EventOps : Under(v, r, o, p) = 0
        BY <1>1, <1>5, <1>9, <2>0, <2>1 DEF EventsOf
      <3> QED BY <1>4, <2>0, <2>1, <3>1, <3>2 DEF EventsOf, EventOps
    <2>2. CASE z # p BY <1>4, <1>5, <1>9, <2>0, <2>2 DEF EventsOf, EventOps
    <2> QED BY <2>1, <2>2
  <1>11. Alarm(v, web, r)
    <2>1. \A z \in Page : v.page[z].state = u.page[z].state BY <1>4 DEF SameButWaits
    <2> QED BY <1>0, <1>4, <1>5, <1>7, <1>8, <2>1 DEF Alarm
  <1>12. Calm(u, v) BY <1>4 DEF Calm, Silent
  <1>13. Good(v, c \ {p}, NoPage, web, r) BY <1>6, <1>10, <1>11 DEF Good, Events
  <1> QED BY <1>1, <1>3, <1>12, <1>13, InvFacts, Arrives DEF ClientReturns, u
-----------------------------------------------------------------------------
(* Steps of the lines and of the web process.                              *)

(* The line of the current process stays in order and loses no event, no    *)
(* answer and no reason for the timer, but of closed pages.                 *)
Carries(u, v, w, x, r, s) ==
    LET n == u.current
        q == Outgoing(v, n) IN
    /\ Connects(u, w)
    /\ WellFormed(q, x[n]) /\ Known(u, q, x[n]) /\ Answerable(u, s[n])
    /\ Reason(Outgoing(u, n), r[n]) =>
          Reason(q, s[n]) \/ \E p \in Page : u.page[p].state = "closed"
    /\ \A p \in Page : u.page[p].state # "closed" =>
          \A o \in EventOps : Under(v, s, o, p) = Under(u, r, o, p)

LEMMA LineStep ==
    ASSUME NEW u, NEW v \in UIState, NEW c \in SUBSET Page, NEW i, NEW w, NEW x,
           NEW r, NEW s, Good(u, c, i, w, r),
           v.current = u.current, v.launched = u.launched, v.page = u.page,
           \A k \in Proc : /\ v.proxy[k].pages = u.proxy[k].pages
                           /\ v.proxy[k].timer = u.proxy[k].timer
                           /\ v.proxy[k].responsive = u.proxy[k].responsive,
           Processes(v), Shape(v, x, s),
           Connects(v, x) => Carries(u, v, w, x, r, s)
    PROVE  Good(v, c, i, x, s)
  <1>0. /\ u \in UIState /\ Pages(u, c, i) /\ Alarm(u, w, r) /\ Events(u, w, r, i)
    BY DEF Good, Sound
  <1>1. /\ \A z \in Page : Attached(v, z) <=> Attached(u, z)
        /\ \A z \in Page : Valid(v, z) <=> Valid(u, z)
    BY DEF Attached, Valid
  <1>2. Pages(v, c, i)
    <2>1. {z \in Page : Attached(v, z)} = {z \in Page : Attached(u, z)} BY <1>1
    <2>2. v.current # NoProcess =>
             v.proxy[v.current].pages = {z \in Page : Attached(v, z)}
      BY <1>0, <2>1, CurrentIsProc DEF Pages
    <2> QED BY <1>0, <1>1, <2>2 DEF Pages
  <1>3. Connects(v, x) => u.current \in Proc BY <1>0, CurrentIsProc DEF Connects
  <1>4. Lines(v, x, s)
    <2> SUFFICES ASSUME Connects(v, x) PROVE Lines(v, x, s) BY DEF Lines
    <2> DEFINE n == u.current
               q == Outgoing(v, n)
    <2>1. WellFormed(q, x[n]) /\ Known(u, q, x[n]) /\ Answerable(u, s[n]) BY DEF Carries
    <2> HIDE DEF q
    <2>2. Known(v, q, x[n]) BY <1>1, <2>1 DEF Known
    <2>3. Answerable(v, s[n]) BY <2>1 DEF Answerable
    <2> QED BY <2>1, <2>2, <2>3 DEF Lines, q
  <1>5. Alarm(v, x, s) BY <1>0, <1>3 DEF Alarm, Carries
  <1>6. ASSUME NEW z \in Page PROVE EventsOf(v, x, s, i, z)
    <2>1. EventsOf(u, w, r, i, z) BY <1>0 DEF Events
    <2> QED BY <1>1, <2>1 DEF EventsOf, EventOps, Carries, Attached
  <1> QED BY <1>2, <1>4, <1>5, <1>6 DEF Good, Sound, Events

(* Now, once the step is taken.                                             *)
Then == [current |-> current', launched |-> launched', proxy |-> proxy',
         page |-> page', toWeb |-> toWeb']

LEMMA ThenFields ==
    /\ Then.current = current' /\ Then.launched = launched' /\ Then.proxy = proxy'
    /\ Then.page = page' /\ Then.toWeb = toWeb' /\ Becomes(Then)
  BY DEF Then, Becomes

LEMMA ThenIsState ==
    ASSUME IInv, current' = current, launched' = launched, page' = page,
           proxy' \in [Proc -> ProxyState], toWeb' \in [Proc -> Seq(WebMessage)]
    PROVE  Then \in UIState
  BY InvFacts, NowFields, UIStateFields DEF Then, UIState

(* The line of a process that is not current, or that has just been lost,   *)
(* may go.                                                                  *)
LEMMA LineLost ==
    ASSUME IInv, NEW n \in Proc, UNCHANGED <<current, launched, proxy, page, crashed,
                                             inClient, events>>,
           web' = [web EXCEPT ![n].state = "gone"],
           toWeb' = [toWeb EXCEPT ![n] = << >>],
           toUI' \in Replies, \A k \in Proc : toUI'[k] = toUI[k] \/ k = n,
           proxy[n].state = "launching" => toUI'[n] = toUI[n],
           web[n].state # "none"
    PROVE  Holds
  <1> DEFINE u == Now
             v == Then
             x == web'
             s == toUI'
  <1>0. /\ u \in UIState /\ Good(u, crashed, inClient, web, toUI) /\ crashed \in SUBSET Page
        /\ Sound(u, crashed, inClient, web, toUI) /\ Processes(u) /\ Shape(u, web, toUI)
        /\ Lines(u, web, toUI) /\ Alarm(u, web, toUI)
    BY InvFacts DEF Sound
  <1>1. /\ u.current = current /\ u.launched = launched /\ u.proxy = proxy
        /\ u.page = page /\ u.toWeb = toWeb
        /\ v.current = current /\ v.launched = launched /\ v.proxy = proxy
        /\ v.page = page /\ v.toWeb = toWeb' /\ Becomes(v)
    BY NowFields, ThenFields
  <1>2. toWeb' \in [Proc -> Seq(WebMessage)] BY <1>0, <1>1, UIStateFields
  <1>3. v \in UIState BY <1>0, <1>1, <1>2, UIStateFields, ThenIsState
  <1>4. /\ x \in [Proc -> WebState] /\ x[n].state = "gone"
        /\ x[n].pages = web[n].pages /\ x[n].initialized = web[n].initialized
        /\ \A k \in Proc : k # n => x[k] = web[k]
    BY InvFacts DEF WebState
  <1>5. toWeb'[n] = << >> /\ \A k \in Proc : k # n => toWeb'[k] = toWeb[k]
    BY <1>0, <1>1, UIStateFields
  <1> HIDE DEF u, v, x, s
  <1>6. Processes(v) BY <1>0, <1>1 DEF Processes
  <1>7. Shape(v, x, s)
    <2> SUFFICES ASSUME NEW k \in Proc
                 PROVE  /\ v.proxy[k].state \in {"none", "launching"} =>
                              /\ v.toWeb[k] = << >> /\ s[k] = << >>
                              /\ x[k].pages = {} /\ ~x[k].initialized
                        /\ v.proxy[k].state = "none" => x[k].state = "none"
                        /\ v.proxy[k].state = "open" => v.proxy[k].pending = << >>
      BY DEF Shape
    <2>1. CASE k = n
      <3>1. proxy[n].state # "none" BY <1>0, <1>1 DEF Shape
      <3> QED BY <1>0, <1>1, <1>4, <1>5, <2>1, <3>1 DEF Shape, s
    <2>2. CASE k # n BY <1>0, <1>1, <1>4, <1>5, <2>2 DEF Shape, s
    <2> QED BY <2>1, <2>2
  <1>8. ASSUME Connects(v, x)
        PROVE  Carries(u, v, web, x, toUI, s)
    <2>1. u.current \in Proc /\ u.current # n
      BY <1>0, <1>1, <1>4, <1>8, CurrentIsProc DEF Connects
    <2>2. /\ x[u.current] = web[u.current] /\ s[u.current] = toUI[u.current]
          /\ v.toWeb[u.current] = u.toWeb[u.current]
      BY <1>1, <1>4, <1>5, <2>1 DEF s
    <2>3. Outgoing(v, u.current) = Outgoing(u, u.current) BY <1>1, <2>2 DEF Outgoing
    <2>4. Connects(u, web) BY <1>1, <1>8, <2>2 DEF Connects
    <2>5. \A p, o : Under(v, s, o, p) = Under(u, toUI, o, p) BY <1>1, <2>2, <2>3 DEF Under
    <2> QED BY <1>0, <2>2, <2>3, <2>4, <2>5 DEF Lines, Carries
  <1>9. Good(v, crashed, inClient, x, s)
    BY <1>0, <1>1, <1>3, <1>6, <1>7, <1>8, LineStep
  <1>10. Calm(u, v) BY <1>1 DEF Calm, Silent
  <1> QED BY <1>1, <1>4, <1>9, <1>10, InvFacts, Arrives DEF u, x, s

LEMMA ExitsStep ==
    ASSUME IInv, NEW n \in Proc, Exits(n)
    PROVE  Holds
  <1>1. /\ toUI' \in Replies /\ \A k \in Proc : toUI'[k] = toUI[k] \/ k = n
    BY InvFacts DEF Exits, Replies
  <1> QED BY <1>1, LineLost DEF Exits, WebUnchanged

LEMMA DiesStep ==
    ASSUME IInv, NEW n \in Proc, Dies(n)
    PROVE  Holds
  BY InvFacts, LineLost DEF Dies, WebUnchanged

LEMMA ShouldTerminateStep ==
    ASSUME IInv, NEW n \in Proc, ShouldTerminate(n)
    PROVE  Holds
  <1> DEFINE s == Taken(toUI, n)
             u == Now
             m == Head(toUI[n])
  <1>1. /\ Idle /\ proxy[n].state = "open" /\ toUI[n] # << >> /\ m.op = "shouldTerminate"
        /\ toUI' = s /\ UNCHANGED <<inClient, events, crashed>>
    BY DEF ShouldTerminate, Taken
  <1>2. n = u.current /\ n # NoProcess /\ u.proxy = proxy BY <1>1, OpenIsCurrent, NowFields
  <1>3. /\ u \in UIState /\ Good(u, crashed, inClient, web, toUI) /\ crashed \in SUBSET Page
        /\ Sound(u, crashed, inClient, web, toUI) /\ Processes(u)
        /\ toUI \in Replies /\ web \in [Proc -> WebState] /\ Alarm(u, web, toUI)
    BY InvFacts DEF Sound
  <1> HIDE DEF u
  <1>4. /\ s \in Replies /\ s[n] = Tail(toUI[n]) /\ m \in UIMessage
        /\ Sound(u, crashed, inClient, web, s)
        /\ \A z : \A o \in EventOps :
              /\ Under(u, toUI, o, z) \in Nat
              /\ Under(u, s, o, z) =
                    Under(u, toUI, o, z) - (IF m = Message(o, z) THEN 1 ELSE 0)
        /\ m.op \notin TimedOps \cup {"stopTimer", "closePage"} /\ Alarm(u, web, toUI)
              => Alarm(u, web, s)
    BY <1>1, <1>2, <1>3, TakenEffect
  <1> HIDE DEF s
  <1>5. CASE /\ Becomes(Now)
             /\ web' = IF web[n].state = "asking"
                       THEN [web EXCEPT ![n].state = "running"] ELSE web
    <2>1. /\ web' \in [Proc -> WebState]
          /\ \A k \in Proc : /\ web'[k].pages = web[k].pages
                             /\ web'[k].initialized = web[k].initialized
                             /\ k # n => web'[k] = web[k]
          /\ web'[n].state = "gone" <=> web[n].state = "gone"
      BY <1>3, <1>5 DEF WebState
    <2>2. Shape(u, web', s)
      <3>1. Shape(u, web, s) BY <1>4 DEF Sound
      <3>2. \A k \in Proc : u.proxy[k].state = "none" => k # n BY <1>1, <1>2
      <3> QED BY <2>1, <3>1, <3>2 DEF Shape
    <2>3. m.op \notin TimedOps \cup {"stopTimer", "closePage"} BY <1>1 DEF TimedOps
    <2>4. \A z : \A o \in EventOps : Under(u, s, o, z) = Under(u, toUI, o, z)
      <3>1. \A z : \A o \in EventOps : m # Message(o, z)
        BY <1>1 DEF Message, EventOps
      <3> HIDE DEF m
      <3> QED BY <1>4, <3>1
    <2>5. ASSUME Connects(u, web')
          PROVE  Carries(u, u, web, web', s, s)
      <3>1. Connects(u, web) BY <1>2, <2>1, <2>5 DEF Connects
      <3>2. /\ WellFormed(Outgoing(u, n), web[n]) /\ Known(u, Outgoing(u, n), web[n])
            /\ Answerable(u, s[n])
        BY <1>2, <1>4, <3>1 DEF Sound, Lines
      <3> DEFINE q == Outgoing(u, n)
      <3> HIDE DEF q
      <3>3. WellFormed(q, web[n]) => WellFormed(q, web'[n])
        BY <2>1 DEF WellFormed
      <3>4. Known(u, q, web[n]) => Known(u, q, web'[n])
        BY <2>1 DEF Known
      <3> QED BY <1>2, <3>1, <3>2, <3>3, <3>4 DEF q, Carries
    <2>6. Good(u, crashed, inClient, web, s)
      <3>1. Alarm(u, web, s) BY <1>3, <1>4, <2>3
      <3>2. Events(u, web, s, inClient)
        BY <1>3, <2>4 DEF Good, Events, EventsOf, EventOps
      <3> QED BY <1>4, <3>1, <3>2 DEF Good
    <2>7. Good(u, crashed, inClient, web', s)
      BY <1>2, <1>3, <2>2, <2>5, <2>6, LineStep
    <2> QED BY <1>1, <1>4, <1>5, <2>1, <2>7, InvFacts, Arrives DEF u
  <1>6. CASE /\ proxy[n].pages = {} /\ Becomes(Disconnected(Now, n)) /\ UNCHANGED web
    <2>1. Tail(toUI[n]) \in Seq(UIMessage) /\ s = [toUI EXCEPT ![n] = Tail(toUI[n])]
      <3>1. toUI[n] \in Seq(UIMessage) BY <1>3 DEF Replies
      <3> QED BY <1>1, <3>1 DEF Taken, s
    <2>2. crashed' = proxy[n].pages BY <1>1, <1>6 DEF Idle
    <2> QED BY <1>1, <1>6, <2>1, <2>2, DidDisconnect
  <1> QED BY <1>5, <1>6 DEF ShouldTerminate
(* A step of process n's line, from its web process or from the launcher.   *)
LEMMA LineMoves ==
    ASSUME IInv, NEW n \in Proc,
           UNCHANGED <<current, launched, page, crashed, inClient, events>>,
           proxy' \in [Proc -> ProxyState], toWeb' \in [Proc -> Seq(WebMessage)],
           toUI' \in Replies, web' \in [Proc -> WebState],
           \A k \in Proc : /\ proxy'[k].pages = proxy[k].pages
                           /\ proxy'[k].timer = proxy[k].timer
                           /\ proxy'[k].responsive = proxy[k].responsive
                           /\ proxy'[k].state # "closed" \/ proxy[k].state = "closed",
           \A k \in Proc : k # n => /\ proxy'[k] = proxy[k] /\ toWeb'[k] = toWeb[k]
                                    /\ toUI'[k] = toUI[k] /\ web'[k] = web[k],
           Processes(Then), Shape(Then, web', toUI'),
           n = current /\ web'[n].state # "gone" =>
               Carries(Now, Then, web, web', toUI, toUI')
    PROVE  Holds
  <1> DEFINE u == Now
             v == Then
             x == web'
             s == toUI'
  <1>0. /\ u \in UIState /\ Good(u, crashed, inClient, web, toUI) /\ crashed \in SUBSET Page
        /\ Lines(u, web, toUI)
    BY InvFacts DEF Sound
  <1>1. /\ u.current = current /\ u.launched = launched /\ u.proxy = proxy
        /\ u.page = page /\ u.toWeb = toWeb
        /\ v.current = current /\ v.launched = launched /\ v.proxy = proxy'
        /\ v.page = page /\ v.toWeb = toWeb' /\ Becomes(v)
    BY NowFields, ThenFields
  <1>2. v \in UIState BY ThenIsState
  <1> HIDE DEF u, v, x, s
  <1>3. ASSUME Connects(v, x)
        PROVE  Carries(u, v, web, x, toUI, s)
    <2>0. current \in Proc /\ current # NoProcess /\ x[current].state # "gone"
      BY <1>0, <1>1, <1>3, CurrentIsProc DEF Connects
    <2>1. CASE current = n BY <2>0, <2>1 DEF u, v, x, s
    <2>2. CASE current # n
      <3>1. /\ x[current] = web[current] /\ s[current] = toUI[current]
            /\ v.toWeb[current] = u.toWeb[current] /\ v.proxy[current] = u.proxy[current]
        BY <1>1, <2>0, <2>2 DEF x, s
      <3>2. Outgoing(v, current) = Outgoing(u, current) BY <3>1 DEF Outgoing
      <3>3. Connects(u, web) BY <1>1, <2>0, <3>1 DEF Connects
      <3>4. \A p, o : Under(v, s, o, p) = Under(u, toUI, o, p) BY <1>1, <3>1, <3>2 DEF Under
      <3> QED BY <1>0, <1>1, <3>1, <3>2, <3>3, <3>4 DEF Lines, Carries
    <2> QED BY <2>1, <2>2
  <1>4. Good(v, crashed, inClient, x, s)
    <2>1. Processes(v) /\ Shape(v, x, s) BY DEF v, x, s
    <2>2. \A k \in Proc : /\ v.proxy[k].pages = u.proxy[k].pages
                          /\ v.proxy[k].timer = u.proxy[k].timer
                          /\ v.proxy[k].responsive = u.proxy[k].responsive
      BY <1>1
    <2>3. v.current = u.current /\ v.launched = u.launched /\ v.page = u.page BY <1>1
    <2> QED BY <1>0, <1>2, <1>3, <2>1, <2>2, <2>3, LineStep
  <1>5. Calm(u, v) BY <1>1 DEF Calm, Silent
  <1> QED BY <1>1, <1>4, <1>5, InvFacts, Arrives DEF u, x, s

LEMMA LaunchProcessStep ==
    ASSUME IInv, NEW n \in Proc, LaunchProcess(n)
    PROVE  Holds
  <1>0. /\ Now \in UIState /\ Sound(Now, crashed, inClient, web, toUI)
        /\ Processes(Now) /\ Shape(Now, web, toUI) /\ Lines(Now, web, toUI)
        /\ web \in [Proc -> WebState]
    BY InvFacts DEF Sound
  <1>1. Then = Now BY DEF LaunchProcess, Then, Now
  <1>2. /\ web' \in [Proc -> WebState]
        /\ web'[n].pages = web[n].pages /\ web'[n].initialized = web[n].initialized
        /\ \A k \in Proc : k # n => web'[k] = web[k]
        /\ web[n].state = "none" /\ Now.proxy[n].state = "launching"
    BY <1>0, NowFields DEF LaunchProcess, WebState
  <1>3. Shape(Now, web', toUI) BY <1>0, <1>2 DEF Shape
  <1>4. ASSUME n = current
        PROVE  Carries(Now, Now, web, web', toUI, toUI)
    <2>1. n = Now.current /\ Connects(Now, web)
      BY <1>2, <1>4, NowFields, WebAssumption DEF Connects, Proc, NoProcess
    <2> DEFINE q == Outgoing(Now, n)
    <2>2. WellFormed(q, web[n]) /\ Known(Now, q, web[n]) /\ Answerable(Now, toUI[n])
      BY <1>0, <2>1 DEF Lines
    <2> HIDE DEF q
    <2>3. WellFormed(q, web'[n]) BY <1>2, <2>2 DEF WellFormed
    <2>4. Known(Now, q, web'[n]) BY <1>2, <2>2 DEF Known
    <2> QED BY <2>1, <2>2, <2>3, <2>4 DEF q, Carries
  <1>5. proxy \in [Proc -> ProxyState] /\ toWeb \in [Proc -> Seq(WebMessage)]
    BY <1>0, NowFields, UIStateFields
  <1> QED BY <1>0, <1>1, <1>2, <1>3, <1>4, <1>5, InvFacts, LineMoves DEF LaunchProcess
(* What waited for the launch is the line.                                  *)
LEMMA DidFinishLaunchingStep ==
    ASSUME IInv, NEW n \in Proc, DidFinishLaunching(n)
    PROVE  Holds
  <1>0. /\ Now \in UIState /\ Processes(Now) /\ Shape(Now, web, toUI) /\ Lines(Now, web, toUI)
    BY InvFacts DEF Sound
  <1>1. /\ proxy \in [Proc -> ProxyState] /\ toWeb \in [Proc -> Seq(WebMessage)]
        /\ proxy[n] \in ProxyState /\ proxy[n].pending \in Seq(WebMessage)
    BY <1>0, NowFields, UIStateFields
  <1>2. /\ proxy[n].state = "launching" /\ web[n].state # "none"
        /\ proxy' = [proxy EXCEPT ![n].state = "open", ![n].pending = << >>]
        /\ toWeb' = IF web[n].state = "gone" THEN toWeb
                    ELSE [toWeb EXCEPT ![n] = proxy[n].pending]
        /\ UNCHANGED <<current, launched, page, crashed, inClient, events, toUI, web>>
    BY DEF DidFinishLaunching
  <1>3. n = Now.current /\ n # NoProcess /\ n = current BY <1>2, OpenIsCurrent, NowFields
  <1>4. /\ proxy' \in [Proc -> ProxyState] /\ proxy'[n].state = "open"
        /\ proxy'[n].pending = << >> /\ proxy'[n].pages = proxy[n].pages
        /\ proxy'[n].timer = proxy[n].timer /\ proxy'[n].responsive = proxy[n].responsive
        /\ \A k \in Proc : k # n => proxy'[k] = proxy[k]
    <2> DEFINE b == [proxy[n] EXCEPT !.state = "open", !.pending = << >>]
    <2>1. proxy' = [proxy EXCEPT ![n] = b] BY <1>1, <1>2
    <2>2. ASSUME NEW a \in ProxyState, NEW e \in Seq(WebMessage)
          PROVE  LET y == [a EXCEPT !.state = "open", !.pending = e] IN
                 /\ y \in ProxyState /\ y.state = "open" /\ y.pending = e
                 /\ y.pages = a.pages /\ y.timer = a.timer /\ y.responsive = a.responsive
      BY DEF ProxyState
    <2>3. /\ b \in ProxyState /\ b.state = "open" /\ b.pending = << >>
          /\ b.pages = proxy[n].pages /\ b.timer = proxy[n].timer
          /\ b.responsive = proxy[n].responsive
      <3> DEFINE a == proxy[n]
                 e == << >>
      <3>1. a \in ProxyState /\ e \in Seq(WebMessage) BY <1>1
      <3> HIDE DEF a, e
      <3> QED BY <2>2, <3>1 DEF a, e
    <2> HIDE DEF b
    <2> QED BY <1>1, <2>1, <2>3
  <1>5. /\ toWeb' \in [Proc -> Seq(WebMessage)]
        /\ \A k \in Proc : k # n => toWeb'[k] = toWeb[k]
        /\ web[n].state # "gone" => toWeb'[n] = proxy[n].pending
    BY <1>1, <1>2
  <1>6. /\ Then.current = current /\ Then.launched = launched /\ Then.proxy = proxy'
        /\ Then.page = page /\ Then.toWeb = toWeb'
    BY <1>2, ThenFields
  <1>7. Processes(Then)
    <2>1. Then.current = Now.current /\ Then.launched = Now.launched BY <1>6, NowFields
    <2>2. \A k \in Proc : k # n => Then.proxy[k] = Now.proxy[k] BY <1>4, <1>6, NowFields
    <2>3. Then.proxy[n].state = "open" BY <1>4, <1>6
    <2> QED BY <1>0, <1>3, <2>1, <2>2, <2>3 DEF Processes
  <1>8. Shape(Then, web', toUI')
    <2> SUFFICES ASSUME NEW k \in Proc
                 PROVE  /\ proxy'[k].state \in {"none", "launching"} =>
                              /\ toWeb'[k] = << >> /\ toUI[k] = << >>
                              /\ web[k].pages = {} /\ ~web[k].initialized
                        /\ proxy'[k].state = "none" => web[k].state = "none"
                        /\ proxy'[k].state = "open" => proxy'[k].pending = << >>
      BY <1>2, <1>6 DEF Shape
    <2>1. CASE k = n BY <1>4, <2>1
    <2>2. CASE k # n BY <1>0, <1>4, <1>5, <2>2, NowFields DEF Shape
    <2> QED BY <2>1, <2>2
  <1>9. ASSUME web'[n].state # "gone"
        PROVE  Carries(Now, Then, web, web', toUI, toUI')
    <2>1. Connects(Now, web) BY <1>2, <1>3, <1>9 DEF Connects
    <2>2. Outgoing(Then, n) = Outgoing(Now, n)
      BY <1>2, <1>4, <1>5, <1>6, <1>9, NowFields DEF Outgoing
    <2>3. \A o, p : Under(Then, toUI, o, p) = Under(Now, toUI, o, p)
      BY <1>3, <1>6, <2>2 DEF Under
    <2> QED BY <1>0, <1>2, <1>3, <2>1, <2>2, <2>3 DEF Lines, Carries
  <1>10. \A k \in Proc : /\ proxy'[k].pages = proxy[k].pages
                         /\ proxy'[k].timer = proxy[k].timer
                         /\ proxy'[k].responsive = proxy[k].responsive
                         /\ proxy'[k].state # "closed" \/ proxy[k].state = "closed"
    BY <1>4
  <1>11. UNCHANGED <<current, launched, page, crashed, inClient, events, toUI, web>> BY <1>2
  <1> QED BY <1>4, <1>5, <1>7, <1>8, <1>9, <1>10, <1>11, InvFacts, LineMoves

LEMMA TerminationTimerFiresStep ==
    ASSUME IInv, NEW n \in Proc, TerminationTimerFires(n)
    PROVE  Holds
  <1> DEFINE m == Message("shouldTerminate", NoPage)
             t == toUI[n]
  <1>0. /\ Now \in UIState /\ Processes(Now) /\ Shape(Now, web, toUI) /\ Lines(Now, web, toUI)
        /\ toUI \in Replies /\ web \in [Proc -> WebState]
    BY InvFacts DEF Sound
  <1>1. /\ proxy[n].state = "open" /\ web[n].state = "running"
        /\ web' = [web EXCEPT ![n].state = "asking", ![n].timer = FALSE]
        /\ toUI' = [toUI EXCEPT ![n] = Append(t, m)]
        /\ UNCHANGED <<current, launched, proxy, page, crashed, inClient, events, toWeb>>
    BY DEF TerminationTimerFires, Runs, WebUnchanged
  <1>2. Then = Now BY <1>1 DEF Then, Now
  <1>3. n = Now.current /\ n # NoProcess /\ n = current BY <1>1, OpenIsCurrent, NowFields
  <1>4. m \in UIMessage /\ m.op = "shouldTerminate" /\ \A o \in EventOps : \A p : m # Message(o, p)
    BY DEF UIMessage, Message, EventOps
  <1>5. t \in Seq(UIMessage) BY <1>0 DEF Replies
  <1> HIDE DEF m
  <1>6. /\ toUI' \in Replies /\ toUI'[n] = Append(t, m)
        /\ \A k \in Proc : k # n => toUI'[k] = toUI[k]
    BY <1>0, <1>1, <1>4, <1>5 DEF Replies
  <1>7. /\ web' \in [Proc -> WebState] /\ web'[n].state = "asking"
        /\ web'[n].pages = web[n].pages /\ web'[n].initialized = web[n].initialized
        /\ \A k \in Proc : k # n => web'[k] = web[k]
    <2> DEFINE b == [web[n] EXCEPT !.state = "asking", !.timer = FALSE]
    <2>1. web' = [web EXCEPT ![n] = b] BY <1>0, <1>1
    <2>2. /\ b \in WebState /\ b.state = "asking" /\ b.pages = web[n].pages
          /\ b.initialized = web[n].initialized
      <3>1. web[n] \in WebState BY <1>0
      <3> QED BY <3>1 DEF WebState
    <2> HIDE DEF b
    <2> QED BY <1>0, <2>1, <2>2
  <1>8. Shape(Now, web', toUI')
    <2> SUFFICES ASSUME NEW k \in Proc
                 PROVE  /\ proxy[k].state \in {"none", "launching"} =>
                              /\ toWeb[k] = << >> /\ toUI'[k] = << >>
                              /\ web'[k].pages = {} /\ ~web'[k].initialized
                        /\ proxy[k].state = "none" => web'[k].state = "none"
                        /\ proxy[k].state = "open" => proxy[k].pending = << >>
      BY NowFields DEF Shape
    <2>1. CASE k = n BY <1>0, <1>1, <2>1, NowFields DEF Shape
    <2>2. CASE k # n BY <1>0, <1>6, <1>7, <2>2, NowFields DEF Shape
    <2> QED BY <2>1, <2>2
  <1>9. Carries(Now, Now, web, web', toUI, toUI')
    <2> DEFINE q == Outgoing(Now, n)
    <2>1. Connects(Now, web) BY <1>1, <1>3 DEF Connects
    <2>2. WellFormed(q, web[n]) /\ Known(Now, q, web[n]) /\ Answerable(Now, t)
      BY <1>0, <1>3, <2>1 DEF Lines
    <2>3. q \in Seq(WebMessage) BY <1>0, QueueType
    <2> HIDE DEF q
    <2>4. WellFormed(q, web'[n]) BY <1>7, <2>2 DEF WellFormed
    <2>5. Known(Now, q, web'[n]) BY <1>7, <2>2 DEF Known
    <2> HIDE DEF t
    <2> DEFINE s == Append(t, m)
    <2>6. /\ DOMAIN s = 1..(Len(t) + 1) /\ DOMAIN t = 1..Len(t) /\ Len(t) \in Nat
          /\ s[Len(t) + 1] = m /\ \A k \in 1..Len(t) : s[k] = t[k]
      BY <1>4, <1>5, AppendFacts
    <2>7. \A o \in EventOps : \A p : Count(s, {Message(o, p)}) = Count(t, {Message(o, p)})
      <3> TAKE o \in EventOps
      <3> TAKE p
      <3>1. Count(s, {Message(o, p)})
              = Count(t, {Message(o, p)}) + (IF m \in {Message(o, p)} THEN 1 ELSE 0)
        BY <1>4, <1>5, CountAppend
      <3>2. Count(t, {Message(o, p)}) \in Nat BY <1>5, CountType
      <3> QED BY <1>4, <3>1, <3>2
    <2> HIDE DEF s
    <2>8. Answerable(Now, s)
      <3> SUFFICES ASSUME NEW k \in DOMAIN s, s[k].op # "shouldTerminate"
                   PROVE  /\ s[k].page \in Page
                          /\ Now.page[s[k].page].process = Now.current
                          /\ Now.page[s[k].page].state # "none"
        BY DEF Answerable
      <3>1. k \in DOMAIN t /\ s[k] = t[k] BY <1>4, <2>6
      <3> QED BY <2>2, <3>1 DEF Answerable
    <2>9. Reason(q, t) => Reason(q, s) BY <2>6 DEF Reason
    <2>10. toUI'[n] = s BY <1>6 DEF s
    <2>11. \A o \in EventOps : \A p : Under(Now, toUI', o, p) = Under(Now, toUI, o, p)
      BY <1>3, <2>7, <2>10 DEF Under, t
    <2> QED BY <1>3, <2>1, <2>4, <2>5, <2>8, <2>9, <2>10, <2>11 DEF Carries, q, t
  <1>10. proxy \in [Proc -> ProxyState] /\ toWeb \in [Proc -> Seq(WebMessage)]
    BY <1>0, NowFields, UIStateFields
  <1> QED BY <1>0, <1>1, <1>2, <1>3, <1>6, <1>7, <1>8, <1>9, <1>10, LineMoves

(* The report that the process does not respond has the timer's reason.     *)
LEMMA ResponsivenessTimerFiresStep ==
    ASSUME IInv, NEW n \in Proc, ResponsivenessTimerFires(n)
    PROVE  Holds
  <1>0. /\ Now \in UIState /\ Sound(Now, crashed, inClient, web, toUI)
        /\ Alarm(Now, web, toUI) /\ \A z \in Page : EventsOf(Now, web, toUI, inClient, z)
    BY InvFacts
  <1>1. proxy \in [Proc -> ProxyState] /\ proxy[n] \in ProxyState
    BY <1>0, NowFields, UIStateFields
  <1>2. /\ proxy' = [proxy EXCEPT ![n].timer = FALSE, ![n].responsive = FALSE]
        /\ proxy[n].timer
        /\ UNCHANGED <<current, launched, page, crashed, inClient, events, toWeb, toUI, web>>
    BY DEF ResponsivenessTimerFires
  <1>3. /\ proxy' \in [Proc -> ProxyState]
        /\ \A k \in Proc : k # n => proxy'[k] = proxy[k]
        /\ proxy'[n].state = proxy[n].state /\ proxy'[n].pending = proxy[n].pending
        /\ proxy'[n].pages = proxy[n].pages
    <2> DEFINE b == [proxy[n] EXCEPT !.timer = FALSE, !.responsive = FALSE]
    <2>1. proxy' = [proxy EXCEPT ![n] = b] BY <1>1, <1>2
    <2>2. /\ b \in ProxyState /\ b.state = proxy[n].state /\ b.pending = proxy[n].pending
          /\ b.pages = proxy[n].pages
      BY <1>1, ProxyFields
    <2> HIDE DEF b
    <2> QED BY <1>1, <2>1, <2>2
  <1>4. /\ Then.current = Now.current /\ Then.launched = Now.launched /\ Then.proxy = proxy'
        /\ Then.page = Now.page /\ Then.toWeb = Now.toWeb /\ Becomes(Then) /\ Now.proxy = proxy
    BY <1>2, ThenFields, NowFields
  <1>5. Then \in UIState
    <2>1. toWeb' \in [Proc -> Seq(WebMessage)] BY <1>0, <1>2, NowFields, UIStateFields
    <2> QED BY <1>2, <1>3, <2>1, ThenIsState
  <1>6. SameButWaits(Now, Then)
    <2>1. \A k \in Proc : /\ Then.proxy[k].state = Now.proxy[k].state
                          /\ Then.proxy[k].pending = Now.proxy[k].pending
                          /\ Then.proxy[k].pages = Now.proxy[k].pages
      BY <1>3, <1>4
    <2> QED BY <1>4, <2>1 DEF SameButWaits
  <1> DEFINE u == Now
             v == Then
  <1> HIDE DEF u, v
  <1>7. /\ Sound(v, crashed, inClient, web, toUI)
        /\ \A k \in Proc : Outgoing(v, k) = Outgoing(u, k)
        /\ \A k \in Page : Attached(v, k) <=> Attached(u, k)
        /\ \A k \in Page : Valid(v, k) <=> Valid(u, k)
        /\ Connects(v, web) <=> Connects(u, web)
    BY <1>0, <1>5, <1>6, InvFacts, SameButWaitsSound DEF u, v
  <1>8. Connects(u, web) => u.current \in Proc BY <1>0, CurrentIsProc DEF Connects, u
  <1>9. Alarm(v, web, toUI)
    <2> SUFFICES ASSUME Connects(v, web), \A p \in Page : v.page[p].state # "closed",
                        v.proxy[v.current].timer \/ ~v.proxy[v.current].responsive
                 PROVE  Reason(Outgoing(v, v.current), toUI[v.current])
      BY DEF Alarm
    <2>1. u.proxy[u.current].timer \/ ~u.proxy[u.current].responsive
      BY <1>2, <1>3, <1>4, <1>7, <1>8 DEF u, v
    <2>2. v.current = u.current /\ v.page = u.page BY <1>4 DEF u, v
    <2> QED BY <1>0, <1>7, <1>8, <2>1, <2>2 DEF Alarm, u
  <1>10. ASSUME NEW z \in Page PROVE EventsOf(v, web, toUI, inClient, z)
    <2>1. Connects(u, web) => \A o, p : Under(v, toUI, o, p) = Under(u, toUI, o, p)
      BY <1>4, <1>7, <1>8 DEF Under, u, v
    <2>2. v.page[z] = u.page[z] /\ EventsOf(u, web, toUI, inClient, z) BY <1>0, <1>4 DEF u, v
    <2> QED BY <1>7, <2>1, <2>2, EventsKept
  <1>11. Good(v, crashed, inClient, web, toUI) BY <1>7, <1>9, <1>10 DEF Good, Events
  <1>12. Calm(u, v)
    <2> SUFFICES ASSUME NEW k \in Proc, Silent(u, k), v.proxy[k].state = "closed"
                 PROVE  ~v.proxy[k].timer /\ v.proxy[k].responsive
      BY DEF Calm, Silent
    <2>1. k # n BY <1>2, <1>3, <1>4 DEF Calm, Silent, u, v
    <2> QED BY <1>3, <1>4, <2>1 DEF Calm, Silent, u, v
  <1> QED BY <1>2, <1>4, <1>11, <1>12, InvFacts, Arrives DEF u, v
(* The message that a process takes next.                                   *)
LEMMA NextMessage ==
    ASSUME IInv, NEW n \in Proc, Runs(n), NEW k \in DOMAIN toWeb[n], Takes(n, k)
    PROVE  LET q == toWeb[n]
               m == q[k] IN
           /\ n = current /\ n = Now.current /\ n # NoProcess /\ Outgoing(Now, n) = q
           /\ Connects(Now, web) /\ q \in Seq(WebMessage) /\ m \in WebMessage
           /\ IsNext(q, k)
           /\ WellFormed(q, web[n]) /\ Known(Now, q, web[n]) /\ Answerable(Now, toUI[n])
           /\ m.op = "initialize" <=> ~web[n].initialized
           /\ m.op = "create" => m.page \notin web[n].pages
           /\ m.op \notin {"initialize", "create"} =>
                 \/ m.page \in web[n].pages
                 \/ m.op = "wheel" /\ m.page \in Page /\ page[m.page].state = "closed"
  <1> DEFINE q == toWeb[n]
             m == q[k]
  <1>0. Now \in UIState /\ Lines(Now, web, toUI) BY InvFacts DEF Sound
  <1>1. proxy[n].state = "open" /\ web[n].state = "running" BY DEF Runs
  <1>2. n = Now.current /\ n # NoProcess /\ n = current BY <1>1, OpenIsCurrent, NowFields
  <1>3. Connects(Now, web) BY <1>1, <1>2 DEF Connects
  <1>4. Outgoing(Now, n) = q BY <1>1, NowFields DEF Outgoing
  <1>5. q \in Seq(WebMessage) BY <1>0, NowFields, UIStateFields
  <1>6. /\ m \in WebMessage /\ DOMAIN q = 1..Len(q) /\ Len(q) \in Nat /\ k \in Nat
        /\ 1 <= k /\ 1 \in DOMAIN q
    BY <1>5
  <1>7. WellFormed(q, web[n]) /\ Known(Now, q, web[n]) /\ Answerable(Now, toUI[n])
    BY <1>0, <1>2, <1>3, <1>4 DEF Lines
  <1>8. IsNext(q, k) BY DEF Takes, IsNext
  <1> HIDE DEF q, m
  <1>9. k # 1 => q[1].op = "wheel" BY <1>6, <1>8 DEF IsNext
  <1>10. m.op = "initialize" <=> ~web[n].initialized BY <1>6, <1>7, <1>9 DEF WellFormed, m, q
  <1>11. m.op = "create" => m.page \notin web[n].pages BY <1>7 DEF WellFormed, m, q
  <1>12. CASE m.op \notin {"initialize", "create", "wheel"}
    <2>1. \/ m.page \in web[n].pages
          \/ \E j \in 1..(k - 1) : q[j] = Message("create", m.page)
      BY <1>7, <1>12 DEF WellFormed, m, q
    <2>2. ASSUME NEW j \in 1..(k - 1) PROVE q[j].op = "wheel" BY <1>6, <1>8 DEF IsNext
    <2>3. Message("create", m.page).op = "create" BY DEF Message
    <2> QED BY <1>2, <1>3, <1>4, <1>5, <1>6, <1>7, <1>8, <1>10, <1>11, <2>1, <2>2, <2>3
            DEF m, q
  <1>13. CASE m.op = "wheel"
    <2>1. k = 1 BY <1>8, <1>13 DEF IsNext, m
    <2>2. m.page \in Page BY <1>7, <1>13 DEF WellFormed, m, q
    <2>3. Now.page[m.page].process = Now.current /\ Now.page[m.page].state # "none"
      BY <1>6, <1>7, <2>1, <2>2 DEF Known, m
    <2>4. ASSUME page[m.page].state # "closed" PROVE m.page \in web[n].pages
      <3>1. Attached(Now, m.page) BY <1>2, <2>3, <2>4, NowFields DEF Attached
      <3>2. \/ m.page \in web[n].pages
            \/ \E j \in DOMAIN q : q[j] = Message("create", m.page)
        BY <1>7, <2>2, <3>1 DEF Known
      <3>3. ASSUME NEW j \in DOMAIN q, q[j] = Message("create", m.page) PROVE FALSE
        <4>1. q[j].op = "create" /\ q[j].page = m.page BY <3>3 DEF Message
        <4>2. j # 1 BY <1>13, <2>1, <4>1 DEF m
        <4>3. 1 \in 1..(j - 1) BY <1>6, <4>2
        <4>4. q[1].page # q[j].page BY <1>7, <4>1, <4>3 DEF WellFormed
        <4> QED BY <2>1, <4>1, <4>4 DEF m
      <3> QED BY <3>2, <3>3
    <2> QED BY <1>2, <1>3, <1>4, <1>5, <1>6, <1>7, <1>8, <1>10, <1>11, <1>13, <2>2, <2>4
            DEF m, q
  <1>14. CASE m.op \in {"initialize", "create"}
    BY <1>2, <1>3, <1>4, <1>5, <1>6, <1>7, <1>8, <1>10, <1>11, <1>14 DEF m, q
  <1> QED BY <1>12, <1>13, <1>14

LEMMA KnownRemove ==
    ASSUME NEW u, NEW q \in Seq(WebMessage), NEW i \in DOMAIN q, NEW x, NEW y,
           Known(u, q, x), Handled(q[i], x, y),
           q[i].op = "close" => q[i] = Message("close", q[i].page)
    PROVE  Known(u, RemoveAt(q, i), y)
  <1> DEFINE s == RemoveAt(q, i)
             m == q[i]
  <1>1. /\ \A k \in DOMAIN s : \E j \in DOMAIN q : s[k] = q[j]
        /\ \A k \in DOMAIN q : k # i => \E j \in DOMAIN s : s[j] = q[k]
    <2>1. /\ \A j \in DOMAIN s : Was(i, j) \in DOMAIN q /\ s[j] = q[Was(i, j)]
          /\ \A j \in DOMAIN q : j # i => Is(i, j) \in DOMAIN s /\ s[Is(i, j)] = q[j]
      BY RemoveFacts
    <2> HIDE DEF s
    <2> QED BY <2>1
  <1> HIDE DEF s, m
  <1> SUFFICES ASSUME NEW p \in Page
               PROVE  /\ p \in y.pages \/ (\E k \in DOMAIN s : s[k].page = p) =>
                            u.page[p].process = u.current /\ u.page[p].state # "none"
                      /\ (\E k \in DOMAIN s : s[k] = Message("close", p)) =>
                            u.page[p].state = "closed"
                      /\ Attached(u, p) =>
                            p \in y.pages \/ (\E k \in DOMAIN s : s[k] = Message("create", p))
    BY DEF Known, s
  <1>2. p \in y.pages => p \in x.pages \/ (m.op = "create" /\ m.page = p)
    BY DEF Handled, m
  <1>3. p \in y.pages \/ (\E k \in DOMAIN s : s[k].page = p) =>
           p \in x.pages \/ (\E k \in DOMAIN q : q[k].page = p)
    BY <1>1, <1>2 DEF m
  <1>4. (\E k \in DOMAIN s : s[k] = Message("close", p)) =>
           \E k \in DOMAIN q : q[k] = Message("close", p)
    BY <1>1
  <1>5. ASSUME Attached(u, p)
        PROVE  p \in y.pages \/ (\E k \in DOMAIN s : s[k] = Message("create", p))
    <2>1. p \in x.pages \/ \E k \in DOMAIN q : q[k] = Message("create", p)
      BY <1>5 DEF Known
    <2>2. ASSUME p \in x.pages PROVE p \in y.pages
      <3>1. ~(m.op = "close" /\ m.page = p) BY <1>5 DEF Known, Attached, m
      <3> QED BY <2>2, <3>1 DEF Handled, m
    <2>3. ASSUME NEW k \in DOMAIN q, q[k] = Message("create", p)
          PROVE  p \in y.pages \/ (\E j \in DOMAIN s : s[j] = Message("create", p))
      <3>1. CASE k = i
        <4>1. m.op = "create" /\ m.page = p BY <2>3, <3>1 DEF Message, m
        <4> QED BY <4>1 DEF Handled, m
      <3>2. CASE k # i BY <1>1, <2>3, <3>2
      <3> QED BY <3>1, <3>2
    <2> QED BY <2>1, <2>2, <2>3
  <1> QED BY <1>3, <1>4, <1>5 DEF Known

(* A message is taken from the line, and a is what it is answered.          *)
LEMMA LineHandled ==
    ASSUME IInv, NEW n \in Proc, Runs(n), NEW i \in DOMAIN toWeb[n], Takes(n, i),
           NEW a \in Seq(UIMessage),
           UNCHANGED <<current, launched, proxy, page, crashed, inClient, events>>,
           toWeb' = [toWeb EXCEPT ![n] = RemoveAt(@, i)], toUI' = [toUI EXCEPT ![n] = @ \o a],
           web' \in [Proc -> WebState], web'[n].state = web[n].state,
           \A k \in Proc : k # n => web'[k] = web[k],
           Handled(toWeb[n][i], web[n], web'[n]),
           \A k \in DOMAIN a : a[k].page \in web[n].pages,
           toWeb[n][i].op \in TimedOps =>
               \/ \E k \in DOMAIN a : a[k].op \in TimedOps \cup {"stopTimer", "closePage"}
               \/ \E p \in Page : page[p].state = "closed",
           \A o \in EventOps : \A p \in Page : page[p].state # "closed" =>
               Count(a, {Message(o, p)}) = IF toWeb[n][i] = Message(o, p) THEN 1 ELSE 0
    PROVE  Holds
  <1> DEFINE q == toWeb[n]
             m == q[i]
             left == RemoveAt(q, i)
             r == toUI[n]
             s == r \o a
  <1>0. /\ Now \in UIState /\ Processes(Now) /\ Shape(Now, web, toUI) /\ toUI \in Replies
        /\ web \in [Proc -> WebState]
    BY InvFacts DEF Sound
  <1>1. /\ n = current /\ n = Now.current /\ n # NoProcess /\ Outgoing(Now, n) = q
        /\ Connects(Now, web) /\ q \in Seq(WebMessage) /\ m \in WebMessage
        /\ IsNext(q, i)
        /\ WellFormed(q, web[n]) /\ Known(Now, q, web[n]) /\ Answerable(Now, r)
    BY NextMessage
  <1>2. proxy[n].state = "open" BY DEF Runs
  <1>3. /\ proxy \in [Proc -> ProxyState] /\ toWeb \in [Proc -> Seq(WebMessage)]
        /\ r \in Seq(UIMessage) /\ web[n] \in WebState
    BY <1>0, NowFields, UIStateFields DEF Replies
  <1>4. left \in Seq(WebMessage) /\ s \in Seq(UIMessage) BY <1>1, <1>3, RemoveFacts
  <1>5. /\ toWeb' \in [Proc -> Seq(WebMessage)] /\ toWeb'[n] = left
        /\ \A k \in Proc : k # n => toWeb'[k] = toWeb[k]
        /\ toUI' \in Replies /\ toUI'[n] = s
        /\ \A k \in Proc : k # n => toUI'[k] = toUI[k]
    BY <1>0, <1>3, <1>4 DEF Replies
  <1>6. /\ Then.current = current /\ Then.launched = launched /\ Then.proxy = proxy
        /\ Then.page = page /\ Then.toWeb = toWeb'
    BY ThenFields
  <1>7. Processes(Then) BY <1>0, <1>6, NowFields DEF Processes
  <1>8. Shape(Then, web', toUI')
    <2> SUFFICES ASSUME NEW k \in Proc
                 PROVE  /\ proxy[k].state \in {"none", "launching"} =>
                              /\ toWeb'[k] = << >> /\ toUI'[k] = << >>
                              /\ web'[k].pages = {} /\ ~web'[k].initialized
                        /\ proxy[k].state = "none" => web'[k].state = "none"
                        /\ proxy[k].state = "open" => proxy[k].pending = << >>
      BY <1>6 DEF Shape
    <2>1. CASE k = n BY <1>0, <1>2, <2>1, NowFields DEF Shape
    <2>2. CASE k # n BY <1>0, <1>5, <2>2, NowFields DEF Shape
    <2> QED BY <2>1, <2>2
  <1>9. Outgoing(Then, n) = left BY <1>2, <1>5, <1>6 DEF Outgoing
  <1>10. WellFormed(left, web'[n])
    <2>1. web[n].initialized \in BOOLEAN BY <1>3 DEF WebState
    <2> HIDE DEF q
    <2> QED BY <1>1, <2>1, WellFormedRemove DEF q
  <1>11. Known(Now, left, web'[n])
    <2>1. m = Message(m.op, m.page) BY <1>1, MessageParts
    <2> QED BY <1>1, <2>1, KnownRemove
  <1>12. /\ DOMAIN s = 1..(Len(r) + Len(a)) /\ DOMAIN r = 1..Len(r) /\ DOMAIN a = 1..Len(a)
         /\ Len(r) \in Nat /\ Len(a) \in Nat
         /\ \A k \in 1..Len(r) : s[k] = r[k]
         /\ \A k \in 1..Len(a) : s[Len(r) + k] = a[k]
    BY <1>3
  <1> HIDE DEF s
  <1>13. Answerable(Now, s)
    <2> SUFFICES ASSUME NEW k \in DOMAIN s, s[k].op # "shouldTerminate"
                 PROVE  /\ s[k].page \in Page
                        /\ Now.page[s[k].page].process = Now.current
                        /\ Now.page[s[k].page].state # "none"
      BY DEF Answerable
    <2>1. CASE k \in DOMAIN r BY <1>1, <1>12, <2>1 DEF Answerable
    <2>2. CASE k \notin DOMAIN r
      <3>1. k - Len(r) \in DOMAIN a /\ s[k] = a[k - Len(r)] BY <1>12, <2>2
      <3>2. s[k].page \in web[n].pages BY <3>1
      <3>3. s[k].page \in Page BY <1>3, <3>2 DEF WebState
      <3> QED BY <1>1, <3>2, <3>3 DEF Known
    <2> QED BY <2>1, <2>2
  <1>14. Reason(q, r) => Reason(left, s) \/ \E p \in Page : Now.page[p].state = "closed"
    <2>1. ASSUME NEW k \in DOMAIN q, q[k].op \in TimedOps
          PROVE  Reason(left, s) \/ \E p \in Page : page[p].state = "closed"
      <3>1. CASE k = i
        <4>1. SUFFICES ASSUME NEW j \in DOMAIN a,
                              a[j].op \in TimedOps \cup {"stopTimer", "closePage"}
                       PROVE  Reason(left, s)
          BY <2>1, <3>1
        <4>2. Len(r) + j \in DOMAIN s /\ s[Len(r) + j] = a[j] BY <1>12
        <4> QED BY <4>1, <4>2 DEF Reason
      <3>2. CASE k # i
        <4>1. PICK j \in DOMAIN left : left[j] = q[k] BY <1>1, <3>2, RemoveFacts
        <4> QED BY <2>1, <4>1 DEF Reason
      <3> QED BY <3>1, <3>2
    <2>2. ASSUME NEW k \in DOMAIN r, r[k].op \in TimedOps \cup {"stopTimer", "closePage"}
          PROVE  Reason(left, s)
      <3>1. k \in DOMAIN s /\ s[k] = r[k] BY <1>12
      <3> QED BY <2>2, <3>1 DEF Reason
    <2> HIDE DEF left
    <2> QED BY <2>1, <2>2, NowFields DEF Reason
  <1>15. ASSUME NEW o \in EventOps, NEW p \in Page, page[p].state # "closed"
         PROVE  Under(Then, toUI', o, p) = Under(Now, toUI, o, p)
    <2> DEFINE M == {Message(o, p)}
    <2>1. Count(left, M) = Count(q, M) - (IF m \in M THEN 1 ELSE 0)
      BY <1>1, CountRemove DEF RemoveAt
    <2>2. Count(s, M) = Count(r, M) + Count(a, M) BY <1>3, CountConcat DEF s
    <2>3. Count(q, M) \in Nat /\ Count(r, M) \in Nat BY <1>1, <1>3, CountType
    <2>4. Count(a, M) = IF m \in M THEN 1 ELSE 0 BY <1>15
    <2> HIDE DEF q, r, m, left, M
    <2>5. Count(left, M) + Count(s, M) = Count(q, M) + Count(r, M)
      BY <2>1, <2>2, <2>3, <2>4
    <2> QED BY <1>1, <1>5, <1>6, <1>9, <2>5 DEF Under, q, r, M
  <1>16. Carries(Now, Then, web, web', toUI, toUI')
    BY <1>1, <1>5, <1>9, <1>10, <1>11, <1>13, <1>14, <1>15, NowFields, ZenonT(40) DEF Carries
  <1> QED BY <1>0, <1>3, <1>5, <1>7, <1>8, <1>16, LineMoves
(* The answers to one message: one for an event, and one that stops the     *)
(* timer for what started it.                                               *)
LEMMA AnswersFacts ==
    ASSUME NEW m \in WebMessage, m.op \in TimedOps \cup {"move"}, NEW a \in Answers(m)
    PROVE  /\ a \in Seq(UIMessage)
           /\ \A k \in DOMAIN a : a[k].page = m.page
           /\ m.op \in TimedOps =>
                 \E k \in DOMAIN a : a[k].op \in TimedOps \cup {"stopTimer", "closePage"}
           /\ \A o \in EventOps : \A p :
                 Count(a, {Message(o, p)}) = IF m = Message(o, p) THEN 1 ELSE 0
  <1>0. m = Message(m.op, m.page) /\ m.page \in Page \cup {NoPage}
    BY MessageParts DEF WebMessage
  <1>1. ASSUME NEW b \in UIMessage, NEW M
        PROVE  Count(<<b>>, M) = IF b \in M THEN 1 ELSE 0
    <2>1. << >> \in Seq(UIMessage) /\ <<b>> = Append(<< >>, b) OBVIOUS
    <2>2. Count(<< >>, M) = 0 BY CountEmpty
    <2>3. Count(Append(<< >>, b), M) = Count(<< >>, M) + (IF b \in M THEN 1 ELSE 0)
      BY <2>1, CountAppend
    <2> QED BY <2>1, <2>2, <2>3
  <1>2. ASSUME NEW b \in UIMessage, NEW d \in UIMessage, NEW M, b \notin M, d \notin M
        PROVE  Count(<<b, d>>, M) = 0
    <2> DEFINE e == <<b>>
    <2>1. e \in Seq(UIMessage) /\ <<b, d>> = Append(e, d) OBVIOUS
    <2>2. Count(e, M) = 0 BY <1>1, <1>2
    <2> HIDE DEF e
    <2>3. Count(Append(e, d), M) = Count(e, M) + (IF d \in M THEN 1 ELSE 0)
      BY <2>1, CountAppend
    <2>4. Count(Append(e, d), M) = 0 BY <1>2, <2>2, <2>3
    <2> QED BY <2>1, <2>4
  <1>3. CASE m.op \in {"key", "wheel", "move"}
    <2>1. a = <<m>> BY <1>0, <1>3 DEF Answers
    <2>2. m \in UIMessage BY <1>3 DEF WebMessage, UIMessage
    <2>3. a \in Seq(UIMessage) /\ DOMAIN a = {1} /\ a[1] = m BY <2>1, <2>2
    <2>4. \A o \in EventOps : \A p :
             Count(a, {Message(o, p)}) = IF m = Message(o, p) THEN 1 ELSE 0
      BY <1>1, <2>1, <2>2
    <2> QED BY <2>3, <2>4
  <1> DEFINE stop == Message("stopTimer", m.page)
             shut == Message("closePage", m.page)
  <1>4. /\ stop \in UIMessage /\ shut \in UIMessage /\ stop.op = "stopTimer"
        /\ shut.op = "closePage" /\ stop.page = m.page /\ shut.page = m.page
    BY <1>0 DEF Message, UIMessage
  <1>5. \A o \in EventOps : \A p : stop # Message(o, p) /\ shut # Message(o, p)
    BY DEF Message, EventOps
  <1>6. CASE m.op \notin {"key", "wheel", "move"}
    <2>1. \A o \in EventOps : \A p : m # Message(o, p) BY <1>6 DEF Message, EventOps
    <2>2. a \in {<<stop>>, <<stop, stop>>, <<shut, stop>>} BY <1>6 DEF Answers
    <2> HIDE DEF stop, shut
    <2>3. CASE a = <<stop>>
      <3>1. a \in Seq(UIMessage) /\ DOMAIN a = {1} /\ a[1] = stop BY <1>4, <2>3
      <3>2. \A o \in EventOps : \A p : Count(a, {Message(o, p)}) = 0 BY <1>1, <1>4, <1>5, <2>3
      <3> QED BY <1>4, <2>1, <3>1, <3>2
    <2>4. ASSUME NEW b \in {stop, shut}, a = <<b, stop>>
          PROVE  /\ a \in Seq(UIMessage) /\ DOMAIN a = {1, 2} /\ a[1] = b /\ a[2] = stop
                 /\ \A o \in EventOps : \A p : Count(a, {Message(o, p)}) = 0
      <3>1. a \in Seq(UIMessage) /\ DOMAIN a = {1, 2} /\ a[1] = b /\ a[2] = stop
        BY <1>4, <2>4
      <3>2. b \in UIMessage /\ \A o \in EventOps : \A p : b # Message(o, p) BY <1>4, <1>5
      <3>3. \A o \in EventOps : \A p : Count(a, {Message(o, p)}) = 0
        BY <1>2, <1>4, <1>5, <2>4, <3>2
      <3> QED BY <3>1, <3>3
    <2>5. CASE a \in {<<stop, stop>>, <<shut, stop>>} BY <1>4, <2>1, <2>4, <2>5
    <2> QED BY <2>2, <2>3, <2>5
  <1> QED BY <1>3, <1>6

LEMMA HandleInPageStep ==
    ASSUME IInv, NEW n \in Proc, HandleInPage(n)
    PROVE  Holds
  <1>0. PICK i \in DOMAIN toWeb[n] :
           LET m == toWeb[n][i] IN
           /\ Runs(n) /\ Takes(n, i) /\ m.op \in TimedOps \cup {"move"}
           /\ toWeb' = [toWeb EXCEPT ![n] = RemoveAt(@, i)]
           /\ IF m.page \in web[n].pages
              THEN \E a \in Answers(m) : toUI' = [toUI EXCEPT ![n] = @ \o a]
              ELSE UNCHANGED toUI
           /\ UNCHANGED <<current, launched, proxy, page, crashed, inClient, events, web>>
    BY DEF HandleInPage, WebUnchanged
  <1> DEFINE m == toWeb[n][i]
  <1>1. m.op \notin {"initialize", "create", "close"} BY <1>0 DEF TimedOps
  <1>2. /\ m \in WebMessage
        /\ \/ m.page \in web[n].pages
           \/ m.op = "wheel" /\ m.page \in Page /\ page[m.page].state = "closed"
    BY <1>0, <1>1, NextMessage
  <1>3. Handled(m, web[n], web'[n])
    <2>1. web[n].initialized \in BOOLEAN BY InvFacts DEF WebState
    <2> HIDE DEF m
    <2> QED BY <1>0, <1>1, <2>1 DEF Handled
  <1>4. web' \in [Proc -> WebState] BY <1>0, InvFacts
  <1>5. CASE m.page \in web[n].pages
    <2>1. PICK a \in Answers(m) : toUI' = [toUI EXCEPT ![n] = @ \o a] BY <1>0, <1>5
    <2>2. /\ a \in Seq(UIMessage) /\ \A k \in DOMAIN a : a[k].page = m.page
          /\ m.op \in TimedOps =>
                \E k \in DOMAIN a : a[k].op \in TimedOps \cup {"stopTimer", "closePage"}
          /\ \A o \in EventOps : \A p :
                Count(a, {Message(o, p)}) = IF m = Message(o, p) THEN 1 ELSE 0
      BY <1>0, <1>2, <2>1, AnswersFacts
    <2>3. \A k \in DOMAIN a : a[k].page \in web[n].pages BY <1>5, <2>2
    <2>4. /\ m.op \in TimedOps =>
                \/ \E k \in DOMAIN a : a[k].op \in TimedOps \cup {"stopTimer", "closePage"}
                \/ \E p \in Page : page[p].state = "closed"
          /\ \A o \in EventOps : \A p \in Page : page[p].state # "closed" =>
                Count(a, {Message(o, p)}) = IF m = Message(o, p) THEN 1 ELSE 0
      BY <2>2
    <2> QED BY <1>0, <1>3, <1>4, <2>1, <2>2, <2>3, <2>4, LineHandled
  <1>6. CASE m.page \notin web[n].pages
    <2> DEFINE a == << >>
    <2>1. m.op = "wheel" /\ m.page \in Page /\ page[m.page].state = "closed" BY <1>2, <1>6
    <2>2. a \in Seq(UIMessage) /\ DOMAIN a = {} /\ \A M : Count(a, M) = 0 BY CountEmpty
    <2>3. toUI' = [toUI EXCEPT ![n] = @ \o a]
      <3>1. toUI[n] \in Seq(UIMessage) /\ toUI \in Replies BY InvFacts DEF Replies
      <3>2. toUI[n] \o << >> = toUI[n] BY <3>1
      <3> QED BY <1>0, <1>6, <3>1, <3>2 DEF Replies
    <2> HIDE DEF a
    <2>4. ASSUME NEW o \in EventOps, NEW p \in Page, page[p].state # "closed"
          PROVE  Count(a, {Message(o, p)}) = IF m = Message(o, p) THEN 1 ELSE 0
      <3>1. m # Message(o, p) BY <2>1, <2>4 DEF Message
      <3> QED BY <2>2, <3>1
    <2>5. a \in Seq(UIMessage) /\ \A k \in DOMAIN a : a[k].page \in web[n].pages BY <2>2
    <2>6. \E p \in Page : page[p].state = "closed" BY <2>1
    <2> QED BY <1>0, <1>3, <1>4, <2>3, <2>4, <2>5, <2>6, LineHandled
  <1> QED BY <1>5, <1>6

LEMMA HandleInProcessStep ==
    ASSUME IInv, NEW n \in Proc, HandleInProcess(n)
    PROVE  Holds
  <1>1. PICK i \in DOMAIN toWeb[n] :
           LET m == toWeb[n][i] IN
           /\ Runs(n) /\ Takes(n, i) /\ m.op \in {"initialize", "create", "close"}
           /\ toWeb' = [toWeb EXCEPT ![n] = RemoveAt(@, i)]
           /\ web' = CASE m.op = "initialize" -> [web EXCEPT ![n].initialized = TRUE]
                       [] m.op = "create" -> [web EXCEPT ![n].pages = @ \cup {m.page},
                                                         ![n].timer = FALSE]
                       [] m.op = "close" -> [web EXCEPT ![n].pages = @ \ {m.page},
                                                        ![n].timer = web[n].pages = {m.page}]
           /\ UNCHANGED <<current, launched, proxy, page, crashed, inClient, events, toUI>>
    BY DEF HandleInProcess, WebUnchanged
  <1> DEFINE m == toWeb[n][i]
             x == web[n]
  <1>2. /\ m \in WebMessage /\ m \in WebMessage /\ web \in [Proc -> WebState] /\ x \in WebState
        /\ toUI \in Replies /\ WellFormed(toWeb[n], x)
    BY <1>1, InvFacts, NextMessage
  <1>3. m.op # "initialize" => m.page \in Page BY <1>2 DEF WellFormed
  <1>4. /\ web' \in [Proc -> WebState] /\ web'[n].state = x.state
        /\ \A k \in Proc : k # n => web'[k] = web[k]
        /\ Handled(m, x, web'[n])
    <2> DEFINE b == CASE m.op = "initialize" -> [x EXCEPT !.initialized = TRUE]
                      [] m.op = "create" -> [x EXCEPT !.pages = @ \cup {m.page},
                                                      !.timer = FALSE]
                      [] m.op = "close" -> [x EXCEPT !.pages = @ \ {m.page},
                                                     !.timer = x.pages = {m.page}]
    <2>1. web' = [web EXCEPT ![n] = b] BY <1>1, <1>2
    <2>2. b \in WebState /\ b.state = x.state /\ Handled(m, x, b)
      <3> HIDE DEF m, x
      <3>1. CASE m.op = "initialize"
        <4>1. b = [x EXCEPT !.initialized = TRUE] BY <3>1
        <4> QED BY <1>2, <3>1, <4>1 DEF WebState, Handled
      <3>2. CASE m.op = "create"
        <4>1. b = [x EXCEPT !.pages = @ \cup {m.page}, !.timer = FALSE] BY <3>2
        <4>2. x.initialized \in BOOLEAN BY <1>2 DEF WebState
        <4> QED BY <1>2, <1>3, <3>2, <4>1, <4>2 DEF WebState, Handled
      <3>3. CASE m.op = "close"
        <4>1. b = [x EXCEPT !.pages = @ \ {m.page}, !.timer = x.pages = {m.page}] BY <3>3
        <4>2. x.initialized \in BOOLEAN BY <1>2 DEF WebState
        <4> QED BY <1>2, <1>3, <3>3, <4>1, <4>2 DEF WebState, Handled
      <3> QED BY <1>1, <3>1, <3>2, <3>3 DEF m
    <2> HIDE DEF b
    <2> QED BY <1>2, <2>1, <2>2
  <1> DEFINE a == << >>
  <1>5. a \in Seq(UIMessage) /\ DOMAIN a = {} /\ \A M : Count(a, M) = 0 BY CountEmpty
  <1>6. toUI' = [toUI EXCEPT ![n] = @ \o a]
    <2>1. toUI[n] \in Seq(UIMessage) BY <1>2 DEF Replies
    <2>2. toUI[n] \o << >> = toUI[n] BY <2>1
    <2> QED BY <1>1, <1>2, <2>2 DEF Replies
  <1> HIDE DEF a
  <1>7. m.op \notin TimedOps /\ \A o \in EventOps : \A p : m # Message(o, p)
    BY <1>1 DEF TimedOps, EventOps, Message
  <1>8. \A k \in DOMAIN a : a[k].page \in web[n].pages BY <1>5
  <1>9. \A o \in EventOps : \A p \in Page : page[p].state # "closed" =>
           Count(a, {Message(o, p)}) = IF m = Message(o, p) THEN 1 ELSE 0
    BY <1>5, <1>7
  <1>10. a \in Seq(UIMessage) /\ m.op \notin TimedOps BY <1>5, <1>7
  <1>11. /\ Runs(n) /\ Takes(n, i) /\ toWeb' = [toWeb EXCEPT ![n] = RemoveAt(@, i)]
         /\ UNCHANGED <<current, launched, proxy, page, crashed, inClient, events>>
    BY <1>1
  <1> QED BY <1>4, <1>6, <1>8, <1>9, <1>10, <1>11, LineHandled

-----------------------------------------------------------------------------

LEMMA InitIInv == Init => IInv
  <1> SUFFICES ASSUME Init PROVE IInv OBVIOUS
  <1>1. TypeOK
    <2>1. NoProxy \in ProxyState BY DEF NoProxy, ProxyState
    <2>2. NewPage \in PageState
      BY WebAssumption DEF NewPage, PageState, NoEvents, NoProcess
    <2>3. NoWeb \in WebState BY DEF NoWeb, WebState
    <2> QED BY <2>1, <2>2, <2>3, WebAssumption DEF Init, TypeOK, NoProcess
  <1>2. Now \in UIState BY <1>1, NowIsState
  <1>3. /\ \A n \in Proc : Now.proxy[n] = NoProxy /\ Now.toWeb[n] = << >> /\ web[n] = NoWeb
                           /\ toUI[n] = << >> /\ n \in Nat /\ n > 0
        /\ \A p \in Page : Now.page[p] = NewPage
        /\ Now.current = NoProcess /\ Now.launched = 0 /\ crashed = {} /\ inClient = NoPage
    BY NowFields DEF Init, Proc
  <1> USE DEF NoProxy, NewPage, NoWeb
  <1>4. Processes(Now) BY <1>3 DEF Processes, NoProcess
  <1>5. Pages(Now, crashed, inClient) BY <1>3 DEF Pages, Attached, Valid, NoProcess
  <1>6. Shape(Now, web, toUI) BY <1>3 DEF Shape
  <1>7. ~Connects(Now, web) BY <1>3 DEF Connects
  <1>8. Events(Now, web, toUI, inClient) BY <1>3, <1>7 DEF Events, EventsOf
  <1> QED BY <1>1, <1>2, <1>4, <1>5, <1>6, <1>7, <1>8
       DEF IInv, Good, Sound, Lines, Alarm

LEMMA NextHolds == IInv /\ [Next]_vars => Holds
  <1> SUFFICES ASSUME IInv, [Next]_vars PROVE Holds OBVIOUS
  <1>1. CASE UNCHANGED vars
    <2>1. Then = Now /\ Becomes(Now) BY <1>1 DEF vars, Then, Now, Becomes
    <2>2. UNCHANGED <<crashed, inClient, web, toUI, events>> BY <1>1 DEF vars
    <2> QED BY <2>1, <2>2, InvFacts, Arrives
  <1>2. ASSUME NEW p \in Page, CreateWebPage(p) PROVE Holds BY <1>2, CreateWebPageStep
  <1>3. ASSUME NEW p \in Page, Load(p) PROVE Holds BY <1>3, LoadStep
  <1>4. ASSUME NEW p \in Page, Close(p) PROVE Holds BY <1>4, CloseStep
  <1>5. ASSUME NEW p \in Page, TryClose(p) PROVE Holds BY <1>5, TryCloseStep
  <1>6. ASSUME NEW p \in Page, HandleKeyboardEvent(p) PROVE Holds
    BY <1>6, HandleKeyboardEventStep
  <1>7. ASSUME NEW p \in Page, HandleWheelEvent(p) PROVE Holds BY <1>7, HandleWheelEventStep
  <1>8. ASSUME NEW p \in Page, HandleMouseMove(p) PROVE Holds BY <1>8, HandleMouseMoveStep
  <1>9. ASSUME NEW p \in Page, HideView(p) PROVE Holds BY <1>9, HideViewStep
  <1>10. ASSUME NEW n \in Proc, LaunchProcess(n) PROVE Holds BY <1>10, LaunchProcessStep
  <1>11. ASSUME NEW n \in Proc, DidFinishLaunching(n) PROVE Holds
    BY <1>11, DidFinishLaunchingStep
  <1>12. ASSUME NEW n \in Proc, ReceiveFromWeb(n) PROVE Holds BY <1>12, ReceiveFromWebStep
  <1>13. ASSUME NEW n \in Proc, ShouldTerminate(n) PROVE Holds BY <1>13, ShouldTerminateStep
  <1>14. ASSUME NEW n \in Proc, DidClose(n) PROVE Holds BY <1>14, DidCloseStep
  <1>15. ASSUME NEW p \in Page, ProcessDidCrash(p) PROVE Holds BY <1>15, ProcessDidCrashStep
  <1>16. CASE ClientReturns BY <1>16, ClientReturnsStep
  <1>17. ASSUME NEW n \in Proc, HandleInPage(n) PROVE Holds BY <1>17, HandleInPageStep
  <1>18. ASSUME NEW n \in Proc, HandleInProcess(n) PROVE Holds BY <1>18, HandleInProcessStep
  <1>19. ASSUME NEW n \in Proc, Exits(n) PROVE Holds BY <1>19, ExitsStep
  <1>20. ASSUME NEW n \in Proc, ResponsivenessTimerFires(n) PROVE Holds
    BY <1>20, ResponsivenessTimerFiresStep
  <1>21. ASSUME NEW n \in Proc, TerminationTimerFires(n) PROVE Holds
    BY <1>21, TerminationTimerFiresStep
  <1>22. ASSUME NEW n \in Proc, Dies(n) PROVE Holds BY <1>22, DiesStep
  <1>23. CASE Next
    BY <1>23, <1>2, <1>3, <1>4, <1>5, <1>6, <1>7, <1>8, <1>9, <1>10, <1>11, <1>12, <1>13,
       <1>14, <1>15, <1>16, <1>17, <1>18, <1>19, <1>20, <1>21, <1>22
       DEF Next, Application, Launcher, UIProcess, WebProcessRuns, Timers
  <1> QED BY <1>1, <1>23
-----------------------------------------------------------------------------
(* What the invariant says of the properties.                              *)

LEMMA InvPages == IInv => PagesAreAttached
  <1> SUFFICES ASSUME IInv PROVE PagesAreAttached OBVIOUS
  <1>1. Pages(Now, crashed, inClient) BY InvFacts DEF Sound
  <1>2. \A p \in Page : Valid(Now, p) <=> IsValid(p) BY NowFields DEF Valid, IsValid
  <1>3. ASSUME current # NoProcess, NEW p \in Page
        PROVE  Attached(Now, p) <=> IsValid(p) /\ page[p].process = current
    <2>1. Attached(Now, p) => IsValid(p) BY <1>1, <1>2 DEF Pages, Attached
    <2>2. Attached(Now, p) <=> page[p].state # "closed" /\ page[p].process = current
      BY <1>3, NowFields DEF Attached
    <2> QED BY <2>1, <2>2 DEF IsValid
  <1>4. current # NoProcess =>
           proxy[current].pages = {p \in Page : IsValid(p) /\ page[p].process = current}
    BY <1>1, <1>3, NowFields DEF Pages
  <1>5. crashed = {} =>
           \A p \in Page : IsValid(p) => current # NoProcess /\ page[p].process = current
    BY IdleFacts, NowFields DEF Idle, Attached
  <1> QED BY <1>4, <1>5 DEF PagesAreAttached

LEMMA InvMessage == IInv => MessageFindsItsPage
  BY NextMessage DEF MessageFindsItsPage

(* The line of a connected process is what the invariant counts.            *)
LEMMA ConnectedLine ==
    ASSUME IInv, NEW n \in Proc, Connected(n)
    PROVE  /\ n = current /\ n = Now.current /\ Connects(Now, web)
           /\ Line(n) = Outgoing(Now, n) \o toUI[n]
           /\ Outgoing(Now, n) \in Seq(WebMessage) /\ toUI[n] \in Seq(UIMessage)
  <1>0. Now \in UIState /\ Shape(Now, web, toUI) /\ toUI \in Replies BY InvFacts DEF Sound
  <1>1. /\ proxy[n].pending \in Seq(WebMessage) /\ toWeb[n] \in Seq(WebMessage)
        /\ toUI[n] \in Seq(UIMessage) /\ Outgoing(Now, n) \in Seq(WebMessage)
    BY <1>0, NowFields, UIStateFields, QueueType DEF Replies
  <1>2. n = current /\ n = Now.current /\ n # NoProcess
    BY OpenIsCurrent, NowFields DEF Connected
  <1>3. Connects(Now, web) BY <1>2 DEF Connects, Connected
  <1>4. CASE proxy[n].state = "launching"
    <2>1. Outgoing(Now, n) = proxy[n].pending /\ toWeb[n] = << >>
      BY <1>0, <1>4, NowFields DEF Outgoing, Shape
    <2>2. proxy[n].pending \o toWeb[n] = proxy[n].pending BY <1>1, <2>1
    <2> QED BY <1>1, <1>2, <1>3, <2>1, <2>2 DEF Line
  <1>5. CASE proxy[n].state = "open"
    <2>1. Outgoing(Now, n) = toWeb[n] /\ proxy[n].pending = << >>
      BY <1>0, <1>5, NowFields DEF Outgoing, Shape
    <2>2. proxy[n].pending \o toWeb[n] = toWeb[n] BY <1>1, <2>1
    <2> QED BY <1>1, <1>2, <1>3, <2>1, <2>2 DEF Line
  <1> QED BY <1>4, <1>5 DEF Connected

LEMMA InvAlarm == IInv => AlarmHasReason
  <1> SUFFICES ASSUME IInv, NEW n \in Proc, proxy[n].timer \/ ~proxy[n].responsive,
                      Connected(n), \A p \in Page : page[p].state # "closed"
               PROVE  \E k \in DOMAIN Line(n) :
                          Line(n)[k].op \in TimedOps \cup {"stopTimer", "closePage"}
    BY DEF AlarmHasReason
  <1> DEFINE q == Outgoing(Now, n)
             s == toUI[n]
             line == q \o s
  <1>1. /\ n = Now.current /\ Connects(Now, web) /\ Line(n) = line
        /\ q \in Seq(WebMessage) /\ s \in Seq(UIMessage)
    BY ConnectedLine
  <1>2. Reason(q, s) BY <1>1, InvFacts, NowFields DEF Alarm
  <1>3. /\ \A k \in DOMAIN q : k \in DOMAIN line /\ line[k] = q[k]
        /\ \A k \in DOMAIN s : Len(q) + k \in DOMAIN line /\ line[Len(q) + k] = s[k]
    <2>1. DOMAIN q = 1..Len(q) /\ DOMAIN s = 1..Len(s) /\ Len(q) \in Nat /\ Len(s) \in Nat
      BY <1>1
    <2>2. /\ DOMAIN line = 1..(Len(q) + Len(s))
          /\ \A k \in 1..Len(q) : line[k] = q[k]
          /\ \A k \in 1..Len(s) : line[Len(q) + k] = s[k]
      BY <1>1
    <2> HIDE DEF q, s, line
    <2> QED BY <2>1, <2>2
  <1> HIDE DEF q, s, line
  <1> QED BY <1>1, <1>2, <1>3 DEF Reason

LEMMA InvEvents == IInv => EventsMatchAnswers
  <1> SUFFICES ASSUME IInv, NEW p \in Page, IsValid(p), p # inClient,
                      Connected(page[p].process)
               PROVE  Matches(page[p].waits, UnderWay(p, "key"), UnderWay(p, "wheel"),
                              UnderWay(p, "move"))
    BY DEF EventsMatchAnswers, Matches
  <1> DEFINE n == page[p].process
             q == Outgoing(Now, n)
             s == toUI[n]
  <1>0. Now \in UIState /\ Pages(Now, crashed, inClient) BY InvFacts DEF Sound
  <1>1. n \in Proc
    <2>1. n \in 0..MaxProcess BY <1>0, NowFields, UIStateFields
    <2>2. n # NoProcess BY <1>0, NowFields DEF Pages, Attached, Valid, IsValid
    <2> QED BY <2>1, <2>2, WebAssumption DEF Proc, NoProcess
  <1>2. /\ n = Now.current /\ Connects(Now, web) /\ Line(n) = q \o s
        /\ q \in Seq(WebMessage) /\ s \in Seq(UIMessage)
    BY <1>1, ConnectedLine
  <1>3. Attached(Now, p) BY <1>2, NowFields DEF Attached, Connects, IsValid
  <1>4. Matches(page[p].waits, Under(Now, toUI, "key", p), Under(Now, toUI, "wheel", p),
                Under(Now, toUI, "move", p))
    BY <1>2, <1>3, InvFacts, NowFields DEF EventsOf
  <1>5. ASSUME NEW o PROVE UnderWay(p, o) = Under(Now, toUI, o, p)
    <2> DEFINE M == {Message(o, p)}
    <2>1. UnderWay(p, o) = Count(Line(n), M)
      <3>1. {k \in DOMAIN Line(n) : Line(n)[k] = Message(o, p)} = Places(Line(n), M)
        BY DEF Places
      <3> QED BY <3>1 DEF UnderWay, Count
    <2>2. Count(q \o s, M) = Count(q, M) + Count(s, M) BY <1>2, CountConcat
    <2> QED BY <1>2, <2>1, <2>2 DEF Under
  <1> QED BY <1>4, <1>5

-----------------------------------------------------------------------------

(* The invariant holds of the pages, processes and lines of a context.      *)
THEOREM ContextInvariant == Spec => []IInv
  <1>1. IInv /\ [Next]_vars => IInv' BY NextHolds DEF Holds
  <1> QED BY <1>1, InitIInv, PTL DEF Spec

(* WebContext, WebProcessProxy::m_pageMap and WebPageProxy agree on which   *)
(* page has which process, across crashes, terminations and relaunches from *)
(* the crash callback.                                                      *)
THEOREM PagesStayAttached == Spec => []PagesAreAttached
  BY ContextInvariant, InvPages, PTL

(* What WebProcessProxy sent before, during and after the launch is such    *)
(* that the web process is initialised first and finds each page, though    *)
(* wheel events go round the connection's queue; it drops a wheel event of  *)
(* a closed page at most.                                                   *)
THEOREM MessagesFindTheirPages == Spec => []MessageFindsItsPage
  BY ContextInvariant, InvMessage, PTL

(* The ResponsivenessTimer that all pages share never runs, and never       *)
(* leaves the process reported unresponsive, without an answer to come that *)
(* takes it back, as long as no page is closed.                             *)
THEOREM AlarmsHaveReasons == Spec => []AlarmHasReason
  BY ContextInvariant, InvAlarm, PTL

(* WebPageProxy::didReceiveEvent finds the event that is answered, and each *)
(* event that is kept back waits for an answer that is under way.           *)
THEOREM EventsStayMatched == Spec => []EventsMatchAnswers
  BY ContextInvariant, InvEvents, PTL

(* WebProcessProxy::disconnect leaves no timer on, and only a load of a     *)
(* page that has not been told of the crash, from the crash callback of     *)
(* another, starts the timer of a process that is gone.                     *)
THEOREM OldTimersStaySilent == Spec => OldTimerIsSilent
  <1>1. IInv /\ [Next]_vars =>
           [\A n \in Proc : OldTimer(n)' => OldTimer(n) \/ LoadsAnother(n)]_vars
    BY NextHolds DEF Holds
  <1> QED BY <1>1, ContextInvariant, PTL DEF Spec, OldTimerIsSilent
=============================================================================
