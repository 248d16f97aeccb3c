------------------------- MODULE DrawingAreaProofs -------------------------
(***************************************************************************)
(* The invariants of DrawingArea, for views of any size and any number of  *)
(* changes, events and states.                                             *)
(*                                                                         *)
(* TypeOK and QuietMeansCurrent are proved for every build and with both   *)
(* windows of the wait open; the assertions of the two drawing areas for   *)
(* the builds and runs without a race in waitForMessage; and that only a   *)
(* display without a bitmap lets the timer run while the web process waits.*)
(***************************************************************************)
EXTENDS DrawingArea, SequenceTheorems, WellFoundedInduction, TLAPS

(* Types.                                                                  *)

Info ==
    {i \in [size : 0..MaxSize, rects : SUBSET Tiles,
            bits : UNION {[R -> Nat] : R \in SUBSET Tiles},
            scrollRect : SUBSET Tiles, scrollOffset : Int] :
       i.rects \subseteq 1..i.size /\ DOMAIN i.bits = i.rects}

UIMessage ==
    [type : {"Update", "DidUpdateBackingStoreState"}, id : Nat, info : Info]

Request ==
    [type : {"UpdateBackingStoreState"}, id : Nat, respondImmediately : BOOLEAN,
     size : 1..MaxSize]

Notice == [type : {"DidUpdate", "SuspendPainting", "ResumePainting", "ForceRepaint"}]

WebMessage == Request \cup Notice

UIState ==
    [compositing : BOOLEAN, current : Nat, next : Nat, waiting : BOOLEAN,
     hasReceivedFirstUpdate : BOOLEAN, store : Seq(Int), discardable : BOOLEAN,
     discardTimer : BOOLEAN, size : 0..MaxSize, visible : BOOLEAN,
     invalid : SUBSET Tiles, screen : [Tiles -> Int], sent : Seq(WebMessage)]

WebState ==
    [stateID : Nat, size : 0..MaxSize, shouldSend : BOOLEAN, waiting : BOOLEAN,
     suspended : BOOLEAN, dirty : SUBSET Tiles, scrollRect : SUBSET Tiles,
     scrollOffset : Int, displayTimer : BOOLEAN, content : [Tiles -> Nat],
     version : Nat, sent : Seq(UIMessage)]

UIOK(u) == /\ u \in UIState
           /\ u.invalid \subseteq 1..u.size /\ Len(u.store) <= MaxSize

(* Scrolled-in tiles are dirty, an offset belongs to a rectangle, and what *)
(* is to be scrolled waits for something to be drawn.                      *)
WebOK(w) == /\ w \in WebState
            /\ w.dirty \subseteq 1..w.size
            /\ w.scrollRect = {} => w.scrollOffset = 0
            /\ w.dirty = {} => w.scrollRect = {}
            /\ \A t \in w.scrollRect \cap (1..w.size) :
                 t - w.scrollOffset \notin w.scrollRect => t \in w.dirty
            /\ w.shouldSend => w.size > 0 /\ w.dirty = 1..w.size

IsState(m) == m.type = "DidUpdateBackingStoreState"
IsRequest(m) == m.type = "UpdateBackingStoreState"

SlotOK(sl) == sl = << >> \/ \E m \in UIMessage : IsState(m) /\ sl = <<m>>

TypeInv ==
    /\ UIOK(ui) /\ ui.sent = << >>
    /\ WebOK(web) /\ web.sent = << >>
    /\ toWeb \in Seq(WebMessage) /\ toUI \in Seq(UIMessage) /\ SlotOK(slot)
    /\ pc \in {"idle", "insert", "blocked"} /\ rect \subseteq Tiles
    /\ events \in Nat
    /\ pc # "blocked" => slot = << >>
-----------------------------------------------------------------------------
(* What holds of the messages whatever is lost or overtaken in the wait.   *)

(* States are asked for in their order.                                    *)
Asked(u, w, tw) ==
    /\ w.stateID <= u.next
    /\ \A k \in DOMAIN tw : IsRequest(tw[k]) =>
          /\ w.stateID <= tw[k].id /\ tw[k].id <= u.next
          /\ \A j \in 1..(k - 1) : IsRequest(tw[j]) => tw[j].id <= tw[k].id

(* A message of the web process's state draws in the page's size; the one  *)
(* that announces it draws the whole page, or nothing.                     *)
Fits(m, w) ==
    m.id = w.stateID => /\ m.info.size = w.size
                        /\ IsState(m) => m.info.rects \in {{}, 1..w.size}

(* Answers come in the order of the states, each first and once.           *)
Answered(u, w, tu, sl) ==
    /\ u.current <= w.stateID
    /\ w.shouldSend => u.current < w.stateID
    /\ u.current = w.stateID /\ u.store # << >> => Len(u.store) = w.size
    /\ \A k \in DOMAIN tu :
          /\ tu[k].id <= w.stateID /\ Fits(tu[k], w)
          /\ w.shouldSend => tu[k].id < w.stateID
          /\ IsState(tu[k]) /\ tu[k].id = w.stateID => u.current < w.stateID
          /\ \A j \in 1..(k - 1) :
                /\ tu[j].id <= tu[k].id
                /\ IsState(tu[k]) => tu[j].id < tu[k].id
    /\ sl # << >> =>
          /\ sl[1].id <= w.stateID /\ Fits(sl[1], w)
          /\ w.shouldSend => sl[1].id < w.stateID
          /\ sl[1].id = w.stateID =>
                /\ u.current < w.stateID
                /\ \A k \in DOMAIN tu : IsState(tu[k]) => tu[k].id < w.stateID
-----------------------------------------------------------------------------
(* What the backing store will hold once the messages have been handled.   *)

Stores(n) == [1..n -> Int]

Shown(u, n) == IF u.store = << >> THEN [t \in 1..n |-> Undefined] ELSE u.store

(* The store an Update leaves.                                             *)
Painted(V, i) ==
    IF i.rects = {} THEN V
    ELSE [t \in DOMAIN V |-> IF t \in i.rects THEN i.bits[t]
                             ELSE ScrollStore(V, i.scrollRect, i.scrollOffset)[t]]

(* S shows what P does, or has missed it, the bitmap not mapped.           *)
Misses(S, P) ==
    DOMAIN S = DOMAIN P /\ \A t \in DOMAIN P : S[t] \in {P[t], Stale}

(* A store that the announcement of a state may leave: if it draws nothing *)
(* there is no telling what is left of an older one.                       *)
Leaves(m, V) ==
    m.info.rects = {} \/ \A t \in DOMAIN V : V[t] \in {m.info.bits[t], Stale}

(* The store V from which the messages after the k-th are applied.         *)
Starts(u, w, tu, sl, k, V) ==
    \/ k = 0 /\ u.current = w.stateID /\ V = Shown(u, w.size)
    \/ k = 0 /\ sl # << >> /\ sl[1].id = w.stateID /\ Leaves(sl[1], V)
    \/ k \in DOMAIN tu /\ IsState(tu[k]) /\ tu[k].id = w.stateID /\ Leaves(tu[k], V)

Applies(w, m, V, V2) ==
    /\ m.type = "Update"
    /\ IF m.id < w.stateID THEN V2 = V ELSE Misses(V2, Painted(V, m.info))

Run(u, w, tu, sl, k, h) ==
    /\ h \in [k..Len(tu) -> Stores(w.size)]
    /\ Starts(u, w, tu, sl, k, h[k])
    /\ \A j \in (k + 1)..Len(tu) : Applies(w, tu[j], h[j - 1], h[j])

(* With the pending scroll, V shows what is neither dirty nor undrawn nor  *)
(* missed.                                                                 *)
Matches(V, w) ==
    \A t \in 1..w.size : t \notin w.dirty /\ w.content[t] # 0 =>
        ScrollStore(V, w.scrollRect, w.scrollOffset)[t] \in {w.content[t], Stale}

Current(u, w, tu, sl) ==
    u.next = w.stateID =>
      \A k \in 0..Len(tu) : \A h \in [k..Len(tu) -> Stores(w.size)] :
         Run(u, w, tu, sl, k, h) => Matches(h[Len(tu)], w)

Agree(u, w, tw, tu, sl) ==
    Asked(u, w, tw) /\ Answered(u, w, tu, sl) /\ Current(u, w, tu, sl)

QuietInv == TypeInv /\ Agree(ui, web, toWeb, toUI, slot)
-----------------------------------------------------------------------------
(* Without a race in the wait.                                             *)

NoRace == (LateTimeout \/ LateInsert) => TRUE \notin Compositing

(* Every state arrives, and a later one than the last.                     *)
Arrives(u, w, tu, sl) ==
    /\ \A k \in DOMAIN tu : IsState(tu[k]) => u.current < tu[k].id /\ sl = << >>
    /\ sl # << >> => u.current < sl[1].id
    /\ ~w.shouldSend =>
         \/ u.current = w.stateID
         \/ sl # << >> /\ sl[1].id = w.stateID
         \/ \E k \in DOMAIN tu : IsState(tu[k]) /\ tu[k].id = w.stateID
    /\ \A k \in DOMAIN tu :
         \/ tu[k].id <= u.current
         \/ sl # << >> /\ tu[k].id <= sl[1].id
         \/ \E j \in 1..k : IsState(tu[j]) /\ tu[k].id <= tu[j].id

(* The bits of one state have one size, that of the store it left.         *)
OneSize(u, tu, sl) ==
    /\ \A k \in DOMAIN tu :
         /\ tu[k].id = u.current /\ u.store # << >> => tu[k].info.size = Len(u.store)
         /\ \A j \in DOMAIN tu : tu[j].id = tu[k].id => tu[j].info.size = tu[k].info.size
         /\ sl # << >> /\ sl[1].id = tu[k].id => sl[1].info.size = tu[k].info.size

(* Both waits, for any state of the two sides.                             *)
UIWait(u, w, tw, tu, sl) ==
    u.waiting =>
      \/ sl # << >>
      \/ \E k \in DOMAIN tu : IsState(tu[k])
      \/ \E k \in DOMAIN tw : /\ IsRequest(tw[k]) /\ tw[k].respondImmediately
                              /\ tw[k].id > w.stateID \/ w.shouldSend

WebWait(w, tw, tu) ==
    w.waiting =>
      \/ \E k \in DOMAIN tu : tu[k].type = "Update" /\ tu[k].id = w.stateID
      \/ \E k \in DOMAIN tw : \/ tw[k].type = "DidUpdate"
                              \/ IsRequest(tw[k]) /\ tw[k].id > w.stateID

WaitsOK ==
    /\ pc # "insert"
    /\ pc = "blocked" => \A k \in DOMAIN toUI : ~IsState(toUI[k])
    /\ ~ui.compositing => pc = "idle"
    /\ LateTimeout \/ LateInsert => ~ui.compositing

Promises(u, w, tw, tu, sl) ==
    /\ Arrives(u, w, tu, sl) /\ OneSize(u, tu, sl)
    /\ UIWait(u, w, tw, tu, sl) /\ WebWait(w, tw, tu)

RaceFree == WaitsOK /\ Promises(ui, web, toWeb, toUI, slot)
-----------------------------------------------------------------------------
(* The drawing area of the web process.                                    *)

(* Of w only the dirty region, now D, and the display timer have changed;  *)
(* the timer was not started while w waits.                                *)
Dirtied(v, w, D) ==
    /\ v \in WebState /\ v.dirty = D
    /\ v.stateID = w.stateID /\ v.size = w.size /\ v.shouldSend = w.shouldSend
    /\ v.waiting = w.waiting /\ v.suspended = w.suspended
    /\ v.scrollRect = w.scrollRect /\ v.scrollOffset = w.scrollOffset
    /\ v.content = w.content /\ v.version = w.version /\ v.sent = w.sent
    /\ v.displayTimer /\ v.waiting => w.displayTimer

LEMMA WebFields ==
    ASSUME NEW w \in WebState
    PROVE  /\ w.stateID \in Nat /\ w.size \in 0..MaxSize /\ w.shouldSend \in BOOLEAN
           /\ w.waiting \in BOOLEAN /\ w.suspended \in BOOLEAN /\ w.dirty \in SUBSET Tiles
           /\ w.scrollRect \in SUBSET Tiles /\ w.scrollOffset \in Int
           /\ w.displayTimer \in BOOLEAN /\ w.content \in [Tiles -> Nat]
           /\ w.version \in Nat /\ w.sent \in Seq(UIMessage) /\ w.size \in Nat
  BY DrawingAreaAssumption DEF WebState

LEMMA PageIsTiles == ASSUME NEW n \in 0..MaxSize PROVE 1..n \subseteq Tiles
  BY DrawingAreaAssumption DEF Tiles

LEMMA ScheduleEffect ==
    ASSUME NEW w \in WebState
    PROVE  Dirtied(ScheduleDisplay(w), w, w.dirty)
  <1>1. CASE w.waiting \/ w.suspended \/ w.dirty = {}
    BY <1>1 DEF ScheduleDisplay, Dirtied
  <1>2. CASE ~(w.waiting \/ w.suspended \/ w.dirty = {})
    BY <1>2 DEF ScheduleDisplay, Dirtied, WebState
  <1> QED BY <1>1, <1>2

LEMMA NeedsDisplayEffect ==
    ASSUME NEW w \in WebState, NEW r
    PROVE  Dirtied(SetNeedsDisplay(w, r), w, w.dirty \cup (r \cap (1..w.size)))
  <1> DEFINE d == r \cap (1..w.size)
             v == [w EXCEPT !.dirty = @ \cup d]
  <1>1. w.dirty \in SUBSET Tiles /\ 1..w.size \subseteq Tiles BY WebFields, PageIsTiles
  <1>2. CASE d = {} BY <1>2 DEF SetNeedsDisplay, Dirtied
  <1>3. CASE d # {}
    <2>1. v \in WebState /\ v.dirty = w.dirty \cup d BY <1>1 DEF WebState
    <2>2. Dirtied(v, w, w.dirty \cup d) BY <2>1 DEF Dirtied, WebState
    <2>3. SetNeedsDisplay(w, r) = ScheduleDisplay(v) BY <1>3 DEF SetNeedsDisplay
    <2> HIDE DEF v
    <2>4. Dirtied(ScheduleDisplay(v), v, v.dirty) BY <2>1, ScheduleEffect
    <2> QED BY <2>1, <2>2, <2>3, <2>4 DEF Dirtied
  <1> QED BY <1>2, <1>3

(* More dirt disturbs nothing.                                             *)
LEMMA DirtierOK ==
    ASSUME NEW w, WebOK(w), NEW D, w.dirty \subseteq D, D \subseteq 1..w.size,
           NEW v, Dirtied(v, w, D)
    PROVE  WebOK(v)
  BY DEF WebOK, Dirtied

LEMMA NeedsDisplayOK ==
    ASSUME NEW w, WebOK(w), NEW r
    PROVE  WebOK(SetNeedsDisplay(w, r))
  <1>1. w \in WebState /\ w.dirty \subseteq 1..w.size BY DEF WebOK
  <1> DEFINE D == w.dirty \cup (r \cap (1..w.size))
  <1>2. Dirtied(SetNeedsDisplay(w, r), w, D) BY <1>1, NeedsDisplayEffect
  <1>3. w.dirty \subseteq D /\ D \subseteq 1..w.size BY <1>1
  <1> HIDE DEF D
  <1> QED BY <1>2, <1>3, DirtierOK

LEMMA ResumeOK ==
    ASSUME NEW w, WebOK(w),
           NEW v, v = ResumePainting(w)
    PROVE  /\ WebOK(v) /\ w.dirty \subseteq v.dirty
           /\ v.stateID = w.stateID /\ v.size = w.size /\ v.shouldSend = w.shouldSend
           /\ v.waiting = w.waiting
           /\ v.scrollRect = w.scrollRect /\ v.scrollOffset = w.scrollOffset
           /\ v.content = w.content /\ v.version = w.version /\ v.sent = w.sent
           /\ v.displayTimer /\ v.waiting => w.displayTimer
  <1>1. CASE ~w.suspended BY <1>1 DEF ResumePainting
  <1>2. CASE w.suspended
    <2> DEFINE x == [w EXCEPT !.suspended = FALSE]
    <2>1. /\ WebOK(x) /\ x.dirty = w.dirty /\ x \in WebState
          /\ x.stateID = w.stateID /\ x.size = w.size /\ x.shouldSend = w.shouldSend
          /\ x.waiting = w.waiting
          /\ x.scrollRect = w.scrollRect /\ x.scrollOffset = w.scrollOffset
          /\ x.content = w.content /\ x.version = w.version /\ x.sent = w.sent
          /\ x.displayTimer = w.displayTimer
      BY DEF WebOK, WebState
    <2>2. ResumePainting(w) = SetNeedsDisplay(x, 1..w.size) BY <1>2 DEF ResumePainting
    <2> HIDE DEF x
    <2>3. Dirtied(SetNeedsDisplay(x, 1..w.size), x, x.dirty \cup ((1..w.size) \cap (1..x.size)))
      BY <2>1, NeedsDisplayEffect
    <2>4. WebOK(SetNeedsDisplay(x, 1..w.size)) BY <2>1, NeedsDisplayOK
    <2> QED BY <2>1, <2>2, <2>3, <2>4 DEF Dirtied
  <1> QED BY <1>1, <1>2

(* The tiles that are dirty after the rectangle r was scrolled by k.       *)
ScrolledDirt(w, r, k) ==
    (w.dirty \ r) \cup (Translate(w.dirty \cap r, k) \cap r) \cup (r \ Translate(r, k))

LEMMA Translated ==
    ASSUME NEW S \in SUBSET Int, NEW k \in Int, NEW t \in Int
    PROVE  t \in Translate(S, k) <=> t - k \in S
  <1>1. ASSUME t - k \in S PROVE t \in Translate(S, k)
    <2>1. t = (t - k) + k OBVIOUS
    <2> QED BY <1>1, <2>1 DEF Translate
  <1>2. ASSUME t \in Translate(S, k) PROVE t - k \in S
    <2>1. PICK s \in S : t = s + k BY <1>2 DEF Translate
    <2>2. s \in Int /\ t - k = s BY <2>1
    <2> QED BY <2>2
  <1> QED BY <1>1, <1>2

LEMMA ScrolledDirtOf ==
    ASSUME NEW w, NEW r \in SUBSET Int, NEW k \in Int, NEW t \in Int
    PROVE  t \in ScrolledDirt(w, r, k) <=>
             IF t \in r THEN t - k \notin r \/ t - k \in w.dirty ELSE t \in w.dirty
  <1>1. w.dirty \cap r \in SUBSET Int OBVIOUS
  <1>2. t \in Translate(w.dirty \cap r, k) <=> t - k \in w.dirty \cap r BY <1>1, Translated
  <1>3. t \in Translate(r, k) <=> t - k \in r BY Translated
  <1> QED BY <1>2, <1>3 DEF ScrolledDirt

LEMMA ScrollIntoEffect ==
    ASSUME NEW w \in WebState, NEW r \in SUBSET Tiles, NEW k \in Int,
           NEW v, v = ScrollInto(w, r, k)
    PROVE  /\ v \in WebState /\ v.dirty = ScrolledDirt(w, r, k)
           /\ v.scrollRect = r /\ v.scrollOffset = w.scrollOffset + k
           /\ v.stateID = w.stateID /\ v.size = w.size /\ v.shouldSend = w.shouldSend
           /\ v.waiting = w.waiting /\ v.suspended = w.suspended
           /\ v.content = w.content /\ v.version = w.version /\ v.sent = w.sent
           /\ v.displayTimer /\ v.waiting => w.displayTimer
  <1> DEFINE x == [w EXCEPT !.dirty = ScrolledDirt(w, r, k)]
             y == ScheduleDisplay(x)
             o == y.scrollOffset + k
             z == [y EXCEPT !.scrollRect = r, !.scrollOffset = o]
  <1>1. w.dirty \in SUBSET Tiles /\ r \in SUBSET Tiles /\ w.scrollOffset \in Int
    BY WebFields, PageIsTiles
  <1>2. ScrolledDirt(w, r, k) \in SUBSET Tiles BY <1>1 DEF ScrolledDirt
  <1>3. v = z BY DEF ScrollInto, ScrolledDirt
  <1>4. Dirtied(x, w, ScrolledDirt(w, r, k)) BY <1>2 DEF Dirtied, WebState
  <1> HIDE DEF x
  <1>5. Dirtied(y, x, x.dirty) /\ x \in WebState BY <1>4, ScheduleEffect DEF Dirtied
  <1> HIDE DEF y
  <1>6. Dirtied(y, w, ScrolledDirt(w, r, k)) BY <1>4, <1>5 DEF Dirtied
  <1>7. y \in WebState /\ o \in Int /\ o = w.scrollOffset + k BY <1>1, <1>6 DEF Dirtied
  <1> HIDE DEF o
  <1>8. /\ z \in WebState /\ z.scrollRect = r /\ z.scrollOffset = o
        /\ z.dirty = y.dirty
        /\ z.stateID = y.stateID /\ z.size = y.size /\ z.shouldSend = y.shouldSend
        /\ z.waiting = y.waiting /\ z.suspended = y.suspended
        /\ z.content = y.content /\ z.version = y.version /\ z.sent = y.sent
        /\ z.displayTimer = y.displayTimer
    BY <1>1, <1>7 DEF WebState
  <1> HIDE DEF z
  <1> QED BY <1>3, <1>6, <1>7, <1>8 DEF Dirtied

(* A rectangle of the page into which something is scrolled.               *)
InPage(r, k, w) == r \subseteq 1..w.size /\ \E t \in r : t - k \notin r

LEMMA ScrollIntoOK ==
    ASSUME NEW w, WebOK(w), NEW k \in Int, NEW r, InPage(r, k, w),
           w.scrollRect \in {{}, r}
    PROVE  WebOK(ScrollInto(w, r, k))
  <1>i. r \subseteq 1..w.size /\ \E t \in r : t - k \notin r BY DEF InPage
  <1> DEFINE v == ScrollInto(w, r, k)
  <1>1. /\ w \in WebState
        /\ w.scrollRect = {} => w.scrollOffset = 0
        /\ \A t \in w.scrollRect \cap (1..w.size) :
             t - w.scrollOffset \notin w.scrollRect => t \in w.dirty
        /\ w.shouldSend => w.size > 0 /\ w.dirty = 1..w.size
        /\ w.dirty \subseteq 1..w.size
    BY DEF WebOK
  <1>2. /\ v \in WebState /\ v.dirty = ScrolledDirt(w, r, k)
        /\ v.scrollRect = r /\ v.scrollOffset = w.scrollOffset + k
        /\ v.size = w.size /\ v.shouldSend = w.shouldSend
    <2>1. w \in WebState BY <1>1
    <2>2. r \in SUBSET Tiles BY <1>i, <2>1, WebFields, PageIsTiles
    <2> QED BY <2>1, <2>2, ScrollIntoEffect
  <1> HIDE DEF v
  <1>0. w.size \in Nat /\ w.scrollOffset \in Int BY <1>1, WebFields
  <1>3. r \in SUBSET Int /\ w.size \in Nat /\ w.scrollOffset \in Int BY <1>0, <1>i
  <1>4. v.dirty \subseteq 1..w.size
    BY <1>i, <1>1, <1>2 DEF ScrolledDirt
  <1>5. \A t \in v.scrollRect : t - v.scrollOffset \notin v.scrollRect => t \in v.dirty
    <2> SUFFICES ASSUME NEW t \in r, t - v.scrollOffset \notin r PROVE t \in v.dirty
      BY <1>2
    <2>1. t \in Int /\ t - v.scrollOffset = (t - k) - w.scrollOffset BY <1>2, <1>3
    <2>2. t - k \in r => t - k \in w.dirty
      <3>1. CASE w.scrollRect = {}
        <4>1. t - k \in Int /\ w.scrollOffset = 0 BY <1>1, <2>1, <3>1
        <4>2. t - v.scrollOffset = t - k BY <2>1, <4>1
        <4> QED BY <4>2
      <3>2. CASE w.scrollRect = r BY <1>i, <1>1, <2>1, <3>2
      <3> QED BY <3>1, <3>2
    <2> QED BY <1>2, <1>3, <2>1, <2>2, ScrolledDirtOf
  <1>6. v.shouldSend => v.dirty = 1..w.size
    <2> SUFFICES ASSUME v.shouldSend PROVE v.dirty = 1..w.size OBVIOUS
    <2>1. w.dirty = 1..w.size BY <1>1, <1>2
    <2>2. ASSUME NEW t \in 1..w.size PROVE t \in ScrolledDirt(w, r, k)
      <3>1. t \in Int BY <1>3
      <3>2. t \in ScrolledDirt(w, r, k) <=>
              IF t \in r THEN t - k \notin r \/ t - k \in w.dirty ELSE t \in w.dirty
        BY <1>3, <3>1, ScrolledDirtOf
      <3> QED BY <1>i, <2>1, <3>2
    <2> QED BY <1>2, <1>4, <2>2
  <1>7. v.scrollRect # {} /\ v.dirty # {}
    <2>1. PICK t \in r : t - k \notin r BY <1>i
    <2>2. t \in Int BY <1>3
    <2>3. t \in ScrolledDirt(w, r, k) BY <1>3, <2>1, <2>2, ScrolledDirtOf
    <2> QED BY <1>2, <2>1, <2>3
  <1>8. v.size = w.size /\ v \in WebState /\ v.dirty \subseteq 1..v.size BY <1>2, <1>4
  <1>9. \A t \in v.scrollRect \cap (1..v.size) :
           t - v.scrollOffset \notin v.scrollRect => t \in v.dirty
    BY <1>5
  <1>10. v.shouldSend => v.size > 0 /\ v.dirty = 1..v.size BY <1>1, <1>2, <1>6, <1>8
  <1>11. v.scrollRect = {} => v.scrollOffset = 0 BY <1>7
  <1>13. v.dirty = {} => v.scrollRect = {} BY <1>7
  <1>12. WebOK(v) BY <1>8, <1>9, <1>10, <1>11, <1>13, Zenon DEF WebOK
  <1> QED BY <1>12 DEF v

(* The web process entered the state of m, and nothing of the page is      *)
(* drawn in it yet.                                                        *)
LEMMA EnterEffect ==
    ASSUME NEW w, WebOK(w), NEW m \in Request, m.id # w.stateID,
           NEW v, v = EnterState(w, m)
    PROVE  /\ WebOK(v) /\ v.stateID = m.id /\ v.size = m.size /\ v.shouldSend
           /\ v.dirty = 1..m.size /\ v.waiting = w.waiting /\ v.sent = w.sent
           /\ v.displayTimer /\ v.waiting => w.displayTimer
  <1> DEFINE a == [w EXCEPT !.stateID = m.id, !.shouldSend = TRUE]
             s == SetSize(a, m.size)
             z == [s EXCEPT !.dirty = 1..m.size]
  <1>0. w \in WebState /\ m.id \in Nat /\ m.size \in 1..MaxSize /\ m.size \in 0..MaxSize
        /\ m.size > 0
    BY DrawingAreaAssumption DEF WebOK, Request
  <1>1. /\ a \in WebState /\ a.stateID = m.id /\ a.shouldSend /\ a.waiting = w.waiting
        /\ a.sent = w.sent /\ a.displayTimer = w.displayTimer /\ a.size = w.size
        /\ a.scrollRect = w.scrollRect /\ a.scrollOffset = w.scrollOffset
    BY <1>0 DEF WebState
  <1>2. v = z BY DEF EnterState
  <1> HIDE DEF a
  <1>3. /\ s \in WebState /\ s.stateID = m.id /\ s.size = m.size /\ s.shouldSend
        /\ s.waiting = w.waiting /\ s.sent = w.sent
        /\ s.scrollRect = w.scrollRect /\ s.scrollOffset = w.scrollOffset
        /\ s.displayTimer /\ s.waiting => w.displayTimer
    <2>1. CASE m.size = a.size BY <1>1, <2>1 DEF SetSize
    <2>2. CASE m.size # a.size
      <3> DEFINE b == SetNeedsDisplay(a, 1..m.size)
                 n == b.version + 1
                 f == [t \in Tiles |-> a.version + 1]
                 c == [b EXCEPT !.size = m.size, !.content = f, !.version = n]
      <3>1. s = SetNeedsDisplay(c, 1..m.size) BY <2>2 DEF SetSize
      <3>2. Dirtied(b, a, a.dirty \cup ((1..m.size) \cap (1..a.size)))
        BY <1>1, NeedsDisplayEffect
      <3> HIDE DEF b
      <3>3. b \in WebState /\ a.version \in Nat /\ b.version \in Nat
        BY <1>1, <3>2, WebFields DEF Dirtied
      <3>4. f \in [Tiles -> Nat] /\ n \in Nat BY <3>3
      <3> HIDE DEF f, n
      <3>5. /\ c \in WebState /\ c.size = m.size /\ c.stateID = b.stateID
            /\ c.shouldSend = b.shouldSend /\ c.waiting = b.waiting /\ c.sent = b.sent
            /\ c.scrollRect = b.scrollRect /\ c.scrollOffset = b.scrollOffset
            /\ c.displayTimer = b.displayTimer
        BY <1>0, <3>3, <3>4 DEF WebState
      <3> HIDE DEF c
      <3>6. Dirtied(s, c, c.dirty \cup ((1..m.size) \cap (1..c.size)))
        BY <3>1, <3>5, NeedsDisplayEffect
      <3> QED BY <1>1, <3>2, <3>5, <3>6 DEF Dirtied
    <2> QED BY <2>1, <2>2
  <1> HIDE DEF s
  <1>4. 1..m.size \in SUBSET Tiles BY <1>0, PageIsTiles
  <1>5. /\ z \in WebState /\ z.stateID = s.stateID /\ z.size = s.size /\ z.shouldSend = s.shouldSend
        /\ z.dirty = 1..m.size /\ z.waiting = s.waiting /\ z.sent = s.sent
        /\ z.scrollRect = s.scrollRect /\ z.scrollOffset = s.scrollOffset
        /\ z.displayTimer = s.displayTimer
    BY <1>3, <1>4 DEF WebState
  <1> HIDE DEF z
  <1>6. WebOK(z)
    <2>1. z.scrollRect = {} => z.scrollOffset = 0 BY <1>3, <1>5 DEF WebOK
    <2>2. z.size > 0 /\ z.dirty = 1..z.size /\ z \in WebState BY <1>0, <1>3, <1>5
    <2>3. \A t \in z.scrollRect \cap (1..z.size) : t \in z.dirty BY <2>2
    <2>4. z.dirty # {}
      <3>1. 1 \in 1..m.size /\ m.size \in Nat BY <1>0
      <3> QED BY <1>5, <3>1
    <2> QED BY <2>1, <2>2, <2>3, <2>4, Zenon DEF WebOK
  <1> QED BY <1>2, <1>3, <1>5, <1>6


(* How a scroll of r by k is recorded: added to the pending one, repainted *)
(* instead, or kept in place of the pending one, which is repainted.       *)
RecordsScroll(w, v, r, k) ==
    \/ /\ w.scrollRect \in {{}, r} /\ v.dirty = ScrolledDirt(w, r, k)
       /\ v.scrollRect = r /\ v.scrollOffset = w.scrollOffset + k
    \/ /\ v.dirty = w.dirty \cup r
       /\ v.scrollRect = w.scrollRect /\ v.scrollOffset = w.scrollOffset
    \/ \E x : /\ x.dirty = w.dirty \cup (w.scrollRect \cap (1..w.size))
              /\ v.dirty = ScrolledDirt(x, r, k)
              /\ v.scrollRect = r /\ v.scrollOffset = k

LEMMA ScrollWebEffect ==
    ASSUME NEW w, WebOK(w), NEW k \in Int, NEW r, InPage(r, k, w), NEW v, v = ScrollWeb(w, r, k)
    PROVE  /\ WebOK(v)
           /\ v.stateID = w.stateID /\ v.size = w.size /\ v.shouldSend = w.shouldSend
           /\ v.waiting = w.waiting
           /\ v.content = w.content /\ v.version = w.version /\ v.sent = w.sent
           /\ v.displayTimer /\ v.waiting => w.displayTimer
           /\ RecordsScroll(w, v, r, k)
  <1>0. w \in WebState /\ k = 0 + k BY DEF WebOK
  <1>i. r \subseteq 1..w.size BY DEF InPage
  <1>r. r \in SUBSET Tiles BY <1>0, <1>i, WebFields, PageIsTiles
  <1>1. CASE w.scrollRect = {} \/ w.scrollRect = r
    <2>1. v = ScrollInto(w, r, k) BY <1>1 DEF ScrollWeb
    <2>2. w.scrollRect \in {{}, r} BY <1>1
    <2>3. WebOK(v) BY <2>1, <2>2, ScrollIntoOK
    <2> QED BY <1>0, <1>r, <2>1, <2>2, <2>3, ScrollIntoEffect DEF RecordsScroll
  <1>2. CASE ~(w.scrollRect = {} \/ w.scrollRect = r) /\ Cardinality(w.scrollRect) >= Cardinality(r)
    <2>1. v = SetNeedsDisplay(w, r) BY <1>2 DEF ScrollWeb
    <2>2. Dirtied(v, w, w.dirty \cup (r \cap (1..w.size))) BY <1>0, <2>1, NeedsDisplayEffect
    <2>3. WebOK(v) BY <2>1, NeedsDisplayOK
    <2>4. v.dirty = w.dirty \cup r BY <1>i, <2>2 DEF Dirtied
    <2> QED BY <2>2, <2>3, <2>4 DEF Dirtied, RecordsScroll
  <1>3. CASE ~(w.scrollRect = {} \/ w.scrollRect = r) /\ ~(Cardinality(w.scrollRect) >= Cardinality(r))
    <2> DEFINE y == SetNeedsDisplay(w, w.scrollRect)
               e == {}
               o == 0
               x == [y EXCEPT !.scrollRect = e, !.scrollOffset = o]
    <2>1. v = ScrollInto(x, r, k) BY <1>3 DEF ScrollWeb
    <2>2. Dirtied(y, w, w.dirty \cup (w.scrollRect \cap (1..w.size)))
      BY <1>0, NeedsDisplayEffect
    <2>3. WebOK(y) /\ y \in WebState BY NeedsDisplayOK DEF WebOK
    <2>0. e = {} /\ o = 0 /\ e \in SUBSET Tiles /\ o \in Int OBVIOUS
    <2> HIDE DEF y, e, o
    <2>4. /\ x \in WebState /\ x.scrollRect = e /\ x.scrollOffset = o /\ x.dirty = y.dirty
          /\ x.stateID = y.stateID /\ x.size = y.size /\ x.shouldSend = y.shouldSend
          /\ x.waiting = y.waiting /\ x.content = y.content /\ x.version = y.version
          /\ x.sent = y.sent /\ x.displayTimer = y.displayTimer
      <3>1. y \in WebState /\ e \in SUBSET Tiles /\ o \in Int BY <2>0, <2>3
      <3> QED BY <3>1 DEF WebState
    <2> HIDE DEF x
    <2>5. WebOK(x) BY <2>0, <2>3, <2>4 DEF WebOK
    <2>6. InPage(r, k, x) /\ x.scrollRect \in {{}, r} BY <2>0, <2>2, <2>4 DEF Dirtied, InPage
    <2>7. WebOK(v) BY <2>1, <2>5, <2>6, ScrollIntoOK
    <2>8. /\ v.dirty = ScrolledDirt(x, r, k)
          /\ v.scrollRect = r /\ v.scrollOffset = x.scrollOffset + k
          /\ v.stateID = x.stateID /\ v.size = x.size /\ v.shouldSend = x.shouldSend
          /\ v.waiting = x.waiting
          /\ v.content = x.content /\ v.version = x.version /\ v.sent = x.sent
          /\ v.displayTimer /\ v.waiting => x.displayTimer
      <3>1. x \in WebState BY <2>4
      <3> QED BY <1>r, <2>1, <3>1, ScrollIntoEffect
    <2>9. x.dirty = w.dirty \cup (w.scrollRect \cap (1..w.size)) BY <2>2, <2>4 DEF Dirtied
    <2>10. v.scrollOffset = k BY <1>0, <2>0, <2>4, <2>8
    <2>11. RecordsScroll(w, v, r, k) BY <2>8, <2>9, <2>10 DEF RecordsScroll
    <2> QED BY <2>2, <2>4, <2>7, <2>8, <2>11 DEF Dirtied
  <1> QED BY <1>1, <1>2, <1>3

(* What display puts into the message i, and what that leaves of w: it     *)
(* draws all that is dirty, or nothing.                                    *)
Draws(w, v, i) ==
    /\ i \in Info /\ i.size = w.size
    /\ \/ /\ i.rects = {} /\ v.dirty = w.dirty
          /\ v.scrollRect = w.scrollRect /\ v.scrollOffset = w.scrollOffset
       \/ /\ i.rects # {} /\ w.dirty \subseteq i.rects
          /\ \A t \in i.rects : i.bits[t] = w.content[t]
          /\ i.scrollRect = w.scrollRect /\ i.scrollOffset = w.scrollOffset
          /\ v.dirty = {} /\ v.scrollRect = {} /\ v.scrollOffset = 0

LEMMA NoUpdateInfo ==
    ASSUME NEW n \in 0..MaxSize
    PROVE  NoUpdate(n) \in Info /\ NoUpdate(n).rects = {} /\ NoUpdate(n).size = n
  <1> DEFINE b == << >>
             e == {}
             i == UpdateInfo(n, e, b, e, 0)
  <1>1. b \in [{} -> Nat] /\ e \in SUBSET Tiles /\ DOMAIN b = e /\ e \subseteq 1..n OBVIOUS
  <1>2. b \in UNION {[R -> Nat] : R \in SUBSET Tiles} BY <1>1
  <1>3. i = NoUpdate(n) BY DEF NoUpdate
  <1>4. e = {} OBVIOUS
  <1> HIDE DEF b, e
  <1>5. i.size = n /\ i.rects = e /\ i.bits = b BY DEF UpdateInfo
  <1>6. i \in [size : 0..MaxSize, rects : SUBSET Tiles,
               bits : UNION {[R -> Nat] : R \in SUBSET Tiles},
               scrollRect : SUBSET Tiles, scrollOffset : Int]
    BY <1>1, <1>2 DEF UpdateInfo
  <1> QED BY <1>1, <1>3, <1>4, <1>5, <1>6 DEF Info

LEMMA RectsOf ==
    ASSUME NEW n \in 0..MaxSize, NEW D, D \subseteq 1..n, NEW R \in Rects(D)
    PROVE  D \subseteq R /\ R \subseteq 1..n /\ R \subseteq Tiles
  <1>1. 1..n \subseteq Tiles /\ n \in Nat BY PageIsTiles, DrawingAreaAssumption
  <1>2. CASE R = D BY <1>1, <1>2
  <1>3. CASE R = Hull(D)
    <2>1. D \subseteq R BY <1>1, <1>3 DEF Hull, Tiles
    <2>2. R \subseteq 1..n BY <1>1, <1>3 DEF Hull, Tiles
    <2> QED BY <1>1, <2>1, <2>2
  <1> QED BY <1>2, <1>3 DEF Rects

(* display(UpdateInfo&).                                                   *)
LEMMA DrawnEffect ==
    ASSUME NEW w, WebOK(w), w.dirty # {}, NEW ok \in BOOLEAN, NEW rects \in Rects(w.dirty),
           NEW i, i = Drawn(w, ok, rects), NEW v, v = AfterDrawing(w, ok)
    PROVE  /\ v \in WebState /\ Draws(w, v, i)
           /\ v.stateID = w.stateID /\ v.size = w.size /\ v.shouldSend = w.shouldSend
           /\ v.waiting = w.waiting /\ v.suspended = w.suspended
           /\ v.content = w.content /\ v.version = w.version /\ v.sent = w.sent
           /\ v.displayTimer => w.displayTimer /\ i.rects = {}
  <1>0. w \in WebState /\ w.dirty \subseteq 1..w.size BY DEF WebOK
  <1>1. w.size \in 0..MaxSize /\ w.content \in [Tiles -> Nat] /\ w.scrollRect \in SUBSET Tiles
        /\ w.scrollOffset \in Int
    BY <1>0, WebFields
  <1>2. CASE ~ok
    <2>1. v = w /\ i = NoUpdate(w.size) BY <1>2 DEF AfterDrawing, Drawn
    <2>2. Draws(w, v, i) /\ i.rects = {} BY <1>1, <2>1, NoUpdateInfo DEF Draws
    <2> QED BY <1>0, <2>1, <2>2
  <1>3. CASE ok
    <2> DEFINE b == [t \in rects |-> w.content[t]]
    <2>1. w.dirty \subseteq rects /\ rects \subseteq 1..w.size /\ rects \in SUBSET Tiles
      BY <1>0, <1>1, RectsOf
    <2>2. b \in [rects -> Nat] BY <1>1, <2>1
    <2>3. b \in UNION {[R -> Nat] : R \in SUBSET Tiles} BY <2>1, <2>2
    <2>4. i = UpdateInfo(w.size, rects, b, w.scrollRect, w.scrollOffset) BY <1>3 DEF Drawn
    <2>5. DOMAIN b = rects /\ \A t \in rects : b[t] = w.content[t] OBVIOUS
    <2> HIDE DEF b
    <2>6. /\ i.size = w.size /\ i.rects = rects /\ i.bits = b /\ i.scrollRect = w.scrollRect
          /\ i.scrollOffset = w.scrollOffset
      BY <2>4 DEF UpdateInfo
    <2>7. i \in Info BY <1>1, <2>1, <2>3, <2>4, <2>5 DEF UpdateInfo, Info
    <2> DEFINE e == {}
               o == 0
               f == FALSE
    <2>8. v = [w EXCEPT !.dirty = e, !.scrollRect = e, !.scrollOffset = o, !.displayTimer = f]
      BY <1>3 DEF AfterDrawing
    <2>11. e = {} /\ o = 0 /\ ~f /\ e \in SUBSET Tiles /\ o \in Int /\ f \in BOOLEAN OBVIOUS
    <2> HIDE DEF e, o, f
    <2>9. /\ v \in WebState /\ v.dirty = e /\ v.scrollRect = e /\ v.scrollOffset = o
          /\ v.displayTimer = f
          /\ v.stateID = w.stateID /\ v.size = w.size /\ v.shouldSend = w.shouldSend
          /\ v.waiting = w.waiting /\ v.suspended = w.suspended
          /\ v.content = w.content /\ v.version = w.version /\ v.sent = w.sent
      BY <1>0, <2>8, <2>11 DEF WebState
    <2>10. Draws(w, v, i) BY <2>1, <2>5, <2>6, <2>7, <2>9, <2>11 DEF Draws
    <2> QED BY <2>9, <2>10, <2>11
  <1> QED BY <1>2, <1>3

(* What a display that is not suspended leaves, drawn or not.              *)
LEMMA DrawsOK ==
    ASSUME NEW w, WebOK(w), NEW i, NEW v \in WebState, Draws(w, v, i),
           v.size = w.size, ~v.shouldSend
    PROVE  WebOK(v)
  BY DEF WebOK, Draws

LEMMA SendStateEffect ==
    ASSUME NEW w, WebOK(w), w.dirty # {}, NEW ok \in BOOLEAN, NEW rects \in Rects(w.dirty),
           NEW v, v = SendDidUpdateBackingStoreState(w, ok, rects)
    PROVE  /\ WebOK(v) /\ ~v.shouldSend
           /\ v.stateID = w.stateID /\ v.size = w.size
           /\ v.waiting = w.waiting /\ v.content = w.content /\ v.version = w.version
           /\ v.displayTimer => w.displayTimer
           /\ \E i \in Info : /\ Draws(w, v, i)
                              /\ v.sent = <<DidUpdateBackingStoreStateMessage(w.stateID, i)>>
  <1>0. w \in WebState BY DEF WebOK
  <1> DEFINE j == Drawn(w, ok, rects)
             d == AfterDrawing(w, ok)
             i == IF w.suspended THEN NoUpdate(w.size) ELSE j
             x == IF w.suspended THEN w ELSE d
             m == DidUpdateBackingStoreStateMessage(w.stateID, i)
             s == <<m>>
             f == FALSE
             z == [x EXCEPT !.shouldSend = f, !.sent = s]
  <1>1. v = z BY DEF SendDidUpdateBackingStoreState
  <1>2. /\ x \in WebState /\ Draws(w, x, i) /\ i \in Info
        /\ x.stateID = w.stateID /\ x.size = w.size
        /\ x.waiting = w.waiting /\ x.content = w.content /\ x.version = w.version
        /\ x.displayTimer => w.displayTimer
    <2>1. CASE w.suspended
      <3>1. x = w /\ i = NoUpdate(w.size) BY <2>1
      <3>2. w.size \in 0..MaxSize BY <1>0, WebFields
      <3>3. Draws(w, x, i) /\ i \in Info BY <3>1, <3>2, NoUpdateInfo DEF Draws
      <3> QED BY <1>0, <3>1, <3>3
    <2>2. CASE ~w.suspended
      <3>1. x = d /\ i = j BY <2>2
      <3> HIDE DEF i, x
      <3>2. /\ d \in WebState /\ Draws(w, d, j)
            /\ d.stateID = w.stateID /\ d.size = w.size
            /\ d.waiting = w.waiting /\ d.content = w.content /\ d.version = w.version
            /\ d.displayTimer => w.displayTimer
        BY DrawnEffect
      <3>3. i \in Info BY <3>1, <3>2 DEF Draws
      <3> QED BY <3>1, <3>2, <3>3
    <2> QED BY <2>1, <2>2
  <1> HIDE DEF x, i
  <1>3. w.stateID \in Nat BY <1>0, WebFields
  <1>4. m \in UIMessage BY <1>2, <1>3 DEF UIMessage, DidUpdateBackingStoreStateMessage
  <1> HIDE DEF m
  <1>5. s \in Seq(UIMessage) BY <1>4
  <1>6. f \in BOOLEAN /\ ~f OBVIOUS
  <1> HIDE DEF f, s
  <1>7. /\ z \in WebState /\ z.shouldSend = f /\ z.sent = s
        /\ z.stateID = x.stateID /\ z.size = x.size
        /\ z.waiting = x.waiting /\ z.content = x.content /\ z.version = x.version
        /\ z.displayTimer = x.displayTimer /\ z.dirty = x.dirty
        /\ z.scrollRect = x.scrollRect /\ z.scrollOffset = x.scrollOffset
    <2>1. x \in WebState BY <1>2
    <2> QED BY <1>5, <1>6, <2>1 DEF WebState
  <1> HIDE DEF z
  <1>8. Draws(w, z, i) BY <1>2, <1>7 DEF Draws
  <1>9. WebOK(z)
    <2>1. z \in WebState /\ z.size = w.size /\ ~z.shouldSend BY <1>2, <1>6, <1>7
    <2> QED BY <1>8, <2>1, DrawsOK
  <1>10. z.sent = <<DidUpdateBackingStoreStateMessage(w.stateID, i)>> BY <1>7 DEF s, m
  <1>11. \E n \in Info : /\ Draws(w, z, n)
                         /\ z.sent = <<DidUpdateBackingStoreStateMessage(w.stateID, n)>>
    BY <1>2, <1>8, <1>10
  <1>12. /\ ~z.shouldSend /\ z.stateID = w.stateID /\ z.size = w.size
         /\ z.waiting = w.waiting /\ z.content = w.content /\ z.version = w.version
         /\ z.displayTimer => w.displayTimer
    BY <1>2, <1>6, <1>7
  <1> QED BY <1>1, <1>9, <1>11, <1>12

(* What display does: nothing, or one message, and it waits after an       *)
(* Update.                                                                 *)
Displays(w, v) ==
    \/ v = w
    \/ /\ ~v.shouldSend
       /\ \E i \in Info :
            /\ Draws(w, v, i)
            /\ \/ /\ w.shouldSend /\ v.waiting = w.waiting
                  /\ v.displayTimer => w.displayTimer
                  /\ v.sent = <<DidUpdateBackingStoreStateMessage(w.stateID, i)>>
               \/ /\ ~w.shouldSend /\ v.waiting
                  /\ v.displayTimer => i.rects = {}
                  /\ v.sent = <<UpdateMessage(w.stateID, i)>>

LEMMA DisplayEffect ==
    ASSUME NEW w, WebOK(w), NEW ok \in BOOLEAN, NEW rects \in Rects(w.dirty),
           NEW v, v = Display(w, ok, rects)
    PROVE  /\ WebOK(v) /\ Displays(w, v)
           /\ v.stateID = w.stateID /\ v.size = w.size
           /\ v.content = w.content /\ v.version = w.version
  <1>0. w \in WebState BY DEF WebOK
  <1>1. CASE w.suspended \/ w.dirty = {} BY <1>1 DEF Display, Displays
  <1>2. CASE ~(w.suspended \/ w.dirty = {}) /\ w.shouldSend
    <2>1. v = SendDidUpdateBackingStoreState(w, ok, rects) BY <1>2 DEF Display
    <2>2. w.dirty # {} BY <1>2
    <2>3. /\ WebOK(v) /\ ~v.shouldSend
          /\ v.stateID = w.stateID /\ v.size = w.size
          /\ v.waiting = w.waiting /\ v.content = w.content /\ v.version = w.version
          /\ v.displayTimer => w.displayTimer
          /\ \E i \in Info : /\ Draws(w, v, i)
                             /\ v.sent = <<DidUpdateBackingStoreStateMessage(w.stateID, i)>>
      BY <2>1, <2>2, SendStateEffect
    <2>4. Displays(w, v) BY <1>2, <2>3 DEF Displays
    <2> QED BY <2>3, <2>4
  <1>3. CASE ~(w.suspended \/ w.dirty = {}) /\ ~w.shouldSend
    <2> DEFINE i == Drawn(w, ok, rects)
               x == AfterDrawing(w, ok)
               m == UpdateMessage(w.stateID, i)
               s == <<m>>
               b == TRUE
               z == [x EXCEPT !.waiting = b, !.sent = s]
    <2>1. v = z BY <1>3 DEF Display
    <2>2. /\ x \in WebState /\ Draws(w, x, i)
          /\ x.stateID = w.stateID /\ x.size = w.size /\ x.shouldSend = w.shouldSend
          /\ x.content = w.content /\ x.version = w.version
          /\ x.displayTimer => i.rects = {}
      BY <1>3, DrawnEffect
    <2> HIDE DEF x, i
    <2>3. w.stateID \in Nat /\ i \in Info BY <1>0, <2>2, WebFields DEF Draws
    <2>4. m \in UIMessage BY <2>3 DEF UIMessage, UpdateMessage
    <2> HIDE DEF m
    <2>5. s \in Seq(UIMessage) BY <2>4
    <2>6. b \in BOOLEAN /\ b OBVIOUS
    <2> HIDE DEF b, s
    <2>7. /\ z \in WebState /\ z.waiting = b /\ z.sent = s
          /\ z.stateID = x.stateID /\ z.size = x.size /\ z.shouldSend = x.shouldSend
          /\ z.content = x.content /\ z.version = x.version
          /\ z.displayTimer = x.displayTimer /\ z.dirty = x.dirty
          /\ z.scrollRect = x.scrollRect /\ z.scrollOffset = x.scrollOffset
      <3>1. x \in WebState BY <2>2
      <3> QED BY <2>5, <2>6, <3>1 DEF WebState
    <2> HIDE DEF z
    <2>8. Draws(w, z, i) BY <2>2, <2>7 DEF Draws
    <2>9. WebOK(z)
      <3>1. z \in WebState /\ z.size = w.size /\ ~z.shouldSend BY <1>3, <2>2, <2>7
      <3> QED BY <2>8, <3>1, DrawsOK
    <2>10. z.sent = <<UpdateMessage(w.stateID, i)>> BY <2>7 DEF s, m
    <2>11. Displays(w, z)
      <3>1. ~z.shouldSend /\ ~w.shouldSend /\ z.waiting /\ (z.displayTimer => i.rects = {})
        BY <1>3, <2>2, <2>6, <2>7
      <3> QED BY <2>3, <2>8, <2>10, <3>1 DEF Displays
    <2> QED BY <2>1, <2>2, <2>7, <2>9, <2>11
  <1> QED BY <1>1, <1>2, <1>3
-----------------------------------------------------------------------------
(* The drawing area of the UI process.                                     *)

LEMMA UIFields ==
    ASSUME NEW u \in UIState
    PROVE  /\ u.compositing \in BOOLEAN /\ u.current \in Nat /\ u.next \in Nat
           /\ u.waiting \in BOOLEAN /\ u.hasReceivedFirstUpdate \in BOOLEAN
           /\ u.store \in Seq(Int) /\ u.discardable \in BOOLEAN
           /\ u.discardTimer \in BOOLEAN /\ u.size \in 0..MaxSize
           /\ u.visible \in BOOLEAN /\ u.invalid \in SUBSET Tiles
           /\ u.screen \in [Tiles -> Int] /\ u.sent \in Seq(WebMessage)
  BY DEF UIState

(* The UI process asks for the next state, or does not.                    *)
Asks(u, v) ==
    \/ v.sent = u.sent /\ v.waiting = u.waiting
    \/ \E q \in Request : /\ q.id = u.next /\ v.sent = Append(u.sent, q)
                          /\ v.waiting = q.respondImmediately

LEMMA AskEffect ==
    ASSUME NEW u, UIOK(u), NEW imm \in BOOLEAN,
           NEW v, v = SendUpdateBackingStoreState(u, imm)
    PROVE  /\ UIOK(v) /\ Asks(u, v)
           /\ v.compositing = u.compositing /\ v.current = u.current /\ v.next = u.next
           /\ v.store = u.store /\ v.size = u.size
           /\ v.sent # u.sent => v.waiting = imm
  <1>0. u \in UIState BY DEF UIOK
  <1>1. CASE u.waiting \/ u.size = 0 BY <1>1 DEF SendUpdateBackingStoreState, Asks
  <1>2. CASE ~(u.waiting \/ u.size = 0)
    <2> DEFINE q == UpdateBackingStoreStateMessage(u.next, imm, u.size)
               s == Append(u.sent, q)
               z == [u EXCEPT !.waiting = imm, !.sent = s]
    <2>1. v = z BY <1>2 DEF SendUpdateBackingStoreState
    <2>2. u.next \in Nat /\ u.size \in 1..MaxSize /\ u.sent \in Seq(WebMessage)
      BY <1>0, <1>2, UIFields, DrawingAreaAssumption
    <2>3. q \in Request /\ q.id = u.next /\ q.respondImmediately = imm
      BY <2>2 DEF UpdateBackingStoreStateMessage, Request
    <2> HIDE DEF q
    <2>4. s \in Seq(WebMessage) BY <2>2, <2>3 DEF WebMessage
    <2>5. s = Append(u.sent, q) OBVIOUS
    <2> HIDE DEF s
    <2>6. /\ z \in UIState /\ z.waiting = imm /\ z.sent = s
          /\ z.compositing = u.compositing /\ z.current = u.current /\ z.next = u.next
          /\ z.store = u.store /\ z.size = u.size /\ z.invalid = u.invalid
      BY <1>0, <2>4 DEF UIState
    <2> HIDE DEF z
    <2>7. UIOK(z) BY <2>6 DEF UIOK
    <2>8. Asks(u, z) BY <2>3, <2>5, <2>6 DEF Asks
    <2> QED BY <2>1, <2>6, <2>7, <2>8
  <1> QED BY <1>1, <1>2

LEMMA DidChangeEffect ==
    ASSUME NEW u, UIOK(u), NEW imm \in BOOLEAN,
           NEW v, v = BackingStoreStateDidChange(u, imm)
    PROVE  /\ UIOK(v)
           /\ v.compositing = u.compositing /\ v.current = u.current /\ v.next = u.next + 1
           /\ v.store = u.store
           /\ \/ v.sent = u.sent /\ v.waiting = u.waiting
              \/ \E q \in Request : /\ q.id = u.next + 1 /\ v.sent = Append(u.sent, q)
                                    /\ v.waiting = q.respondImmediately
  <1> DEFINE n == u.next + 1
             x == [u EXCEPT !.next = n]
  <1>0. u \in UIState BY DEF UIOK
  <1>1. n \in Nat /\ n = u.next + 1 BY <1>0, UIFields
  <1>2. v = SendUpdateBackingStoreState(x, imm) BY DEF BackingStoreStateDidChange
  <1> HIDE DEF n
  <1>3. /\ x \in UIState /\ x.next = n
        /\ x.compositing = u.compositing /\ x.current = u.current /\ x.store = u.store
        /\ x.size = u.size /\ x.invalid = u.invalid /\ x.sent = u.sent /\ x.waiting = u.waiting
    BY <1>0, <1>1 DEF UIState
  <1> HIDE DEF x
  <1>4. UIOK(x) BY <1>3 DEF UIOK
  <1>5. /\ UIOK(v) /\ Asks(x, v)
        /\ v.compositing = x.compositing /\ v.current = x.current /\ v.next = x.next
        /\ v.store = x.store
    BY <1>2, <1>4, AskEffect
  <1> QED BY <1>1, <1>3, <1>5 DEF Asks

LEMMA ScrollStoreType ==
    ASSUME NEW n \in Nat, NEW V \in [1..n -> Int], NEW r, NEW k \in Int
    PROVE  ScrollStore(V, r, k) \in [1..n -> Int]
  <1> SUFFICES ASSUME NEW t \in 1..n
               PROVE  (IF t \notin r \/ t - k \notin r THEN V[t]
                       ELSE IF t - k \in DOMAIN V THEN V[t - k] ELSE Undefined) \in Int
    BY DEF ScrollStore
  <1> QED BY DEF Undefined

LEMMA PaintedType ==
    ASSUME NEW n \in Nat, NEW V \in [1..n -> Int], NEW i \in Info
    PROVE  Painted(V, i) \in [1..n -> Int]
  <1>1. i.scrollOffset \in Int /\ \A t \in i.rects : i.bits[t] \in Nat BY DEF Info
  <1> DEFINE W == ScrollStore(V, i.scrollRect, i.scrollOffset)
  <1>2. W \in [1..n -> Int] BY <1>1, ScrollStoreType
  <1> HIDE DEF W
  <1>3. [t \in 1..n |-> IF t \in i.rects THEN i.bits[t] ELSE W[t]] \in [1..n -> Int]
    BY <1>1, <1>2
  <1>4. DOMAIN V = 1..n OBVIOUS
  <1> QED BY <1>3, <1>4 DEF Painted, W

LEMMA ShownType ==
    ASSUME NEW u \in UIState, NEW n \in Nat, u.store # << >> => Len(u.store) = n
    PROVE  Shown(u, n) \in [1..n -> Int]
  <1>1. u.store \in Seq(Int) BY UIFields
  <1> QED BY <1>1 DEF Shown, Undefined

(* The store s after bits have been incorporated into u's, mapped or not.  *)
Incorporated(u, i, s) == IF i.rects = {} THEN s = u.store
                         ELSE Misses(s, Painted(Shown(u, i.size), i))

(* BackingStore::incorporateUpdate.                                        *)
LEMMA DrawIntoEffect ==
    ASSUME NEW n \in Nat, NEW V \in [1..n -> Int], NEW i \in Info, i.rects # {},
           NEW mapped \in BOOLEAN, NEW P, P = DrawInto(V, i, mapped)
    PROVE  P \in [1..n -> Int] /\ Misses(P, Painted(V, i))
  <1> DEFINE W == ScrollStore(V, i.scrollRect, i.scrollOffset)
             D == [t \in DOMAIN V |-> IF t \in i.rects THEN i.bits[t] ELSE W[t]]
  <1>1. D = Painted(V, i) BY DEF Painted
  <1>2. P = [t \in DOMAIN V |-> IF mapped \/ D[t] = V[t] THEN D[t] ELSE Stale]
    BY DEF DrawInto
  <1> HIDE DEF D
  <1>3. D \in [1..n -> Int] BY <1>1, PaintedType
  <1>4. \A t \in 1..n : P[t] \in {D[t], Stale} BY <1>2
  <1>5. P \in [1..n -> Int] BY <1>2, <1>3 DEF Stale
  <1>6. DOMAIN P = DOMAIN D /\ DOMAIN D = 1..n BY <1>3, <1>5
  <1> QED BY <1>1, <1>4, <1>5, <1>6 DEF Misses

LEMMA IncorporateEffect ==
    ASSUME NEW u, UIOK(u), NEW i \in Info, NEW mapped \in BOOLEAN,
           NEW v, v = IncorporateUpdate(u, i, mapped)
    PROVE  /\ UIOK(v) /\ Incorporated(u, i, v.store)
           /\ v.compositing = u.compositing /\ v.current = u.current /\ v.next = u.next
           /\ v.waiting = u.waiting /\ v.sent = u.sent
           /\ i.rects # {} => Len(v.store) = IF u.store # << >> THEN Len(u.store) ELSE i.size
  <1>0. u \in UIState /\ Len(u.store) <= MaxSize BY DEF UIOK
  <1>1. CASE i.rects = {} BY <1>1 DEF IncorporateUpdate, Incorporated
  <1>2. CASE i.rects # {}
    <2> DEFINE V == IF u.store # << >> THEN u.store ELSE [t \in 1..i.size |-> Undefined]
               n == IF u.store # << >> THEN Len(u.store) ELSE i.size
               P == DrawInto(V, i, mapped)
               I == (u.invalid \cup i.scrollRect \cup i.rects) \cap (1..u.size)
               z == [u EXCEPT !.store = P, !.invalid = I]
    <2>1. v = z BY <1>2 DEF IncorporateUpdate
    <2>2. i.size \in 0..MaxSize /\ i.size \in Nat BY DrawingAreaAssumption DEF Info
    <2>3. u.store \in Seq(Int) /\ u.size \in 0..MaxSize BY <1>0, UIFields
    <2>4. n \in Nat /\ n <= MaxSize BY <1>0, <2>2, <2>3
    <2>5. V \in [1..n -> Int] BY <2>2, <2>3 DEF Undefined
    <2>6. V = Shown(u, i.size) BY DEF Shown
    <2>7. P = DrawInto(V, i, mapped) OBVIOUS
    <2> HIDE DEF V, P, n
    <2>8. P \in [1..n -> Int] /\ Misses(P, Painted(V, i))
      BY <1>2, <2>4, <2>5, <2>7, DrawIntoEffect
    <2>9. P \in Seq(Int) /\ Len(P) = n BY <2>4, <2>8
    <2>10. I \in SUBSET Tiles /\ I \subseteq 1..u.size BY <2>3, PageIsTiles
    <2> HIDE DEF I
    <2>11. /\ z \in UIState /\ z.store = P /\ z.invalid = I
           /\ z.compositing = u.compositing /\ z.current = u.current /\ z.next = u.next
           /\ z.waiting = u.waiting /\ z.sent = u.sent /\ z.size = u.size
      BY <1>0, <2>9, <2>10 DEF UIState
    <2> HIDE DEF z
    <2>12. UIOK(z) BY <2>4, <2>9, <2>10, <2>11 DEF UIOK
    <2>13. Incorporated(u, i, P) BY <1>2, <2>6, <2>8 DEF Incorporated
    <2>14. Len(P) = IF u.store # << >> THEN Len(u.store) ELSE i.size BY <2>9 DEF n
    <2> QED BY <2>1, <2>11, <2>12, <2>13, <2>14
  <1> QED BY <1>1, <1>2

LEMMA UpdateEffect ==
    ASSUME NEW u, UIOK(u), NEW m \in UIMessage, NEW mapped \in BOOLEAN,
           NEW v, v = UpdateProxy(u, m, mapped)
    PROVE  \/ m.id < u.current /\ v = u
           \/ /\ m.id >= u.current /\ UIOK(v) /\ Incorporated(u, m.info, v.store)
              /\ v.compositing = u.compositing /\ v.current = u.current /\ v.next = u.next
              /\ v.waiting = u.waiting /\ v.sent = Append(u.sent, Plain("DidUpdate"))
              /\ m.info.rects # {} =>
                   Len(v.store) = IF u.store # << >> THEN Len(u.store) ELSE m.info.size
  <1>0. u \in UIState /\ m.id \in Nat /\ m.info \in Info BY DEF UIOK, UIMessage
  <1>1. CASE m.id < u.current BY <1>1 DEF UpdateProxy
  <1>2. CASE ~(m.id < u.current)
    <2> DEFINE x == IncorporateUpdate(u, m.info, mapped)
               n == Plain("DidUpdate")
               s == Append(x.sent, n)
               z == [x EXCEPT !.sent = s]
    <2>1. v = z BY <1>2 DEF UpdateProxy
    <2>2. /\ UIOK(x) /\ Incorporated(u, m.info, x.store)
          /\ x.compositing = u.compositing /\ x.current = u.current /\ x.next = u.next
          /\ x.waiting = u.waiting /\ x.sent = u.sent
          /\ m.info.rects # {} =>
               Len(x.store) = IF u.store # << >> THEN Len(u.store) ELSE m.info.size
      BY <1>0, IncorporateEffect
    <2> HIDE DEF x
    <2>3. n \in WebMessage BY DEF WebMessage, Notice, Plain
    <2>4. n = Plain("DidUpdate") OBVIOUS
    <2> HIDE DEF n
    <2>5. x \in UIState /\ x.sent \in Seq(WebMessage) BY <2>2, UIFields DEF UIOK
    <2>6. s \in Seq(WebMessage) /\ s = Append(u.sent, n) BY <2>2, <2>3, <2>5
    <2> HIDE DEF s
    <2>7. /\ z \in UIState /\ z.sent = s /\ z.store = x.store /\ z.invalid = x.invalid
          /\ z.compositing = x.compositing /\ z.current = x.current /\ z.next = x.next
          /\ z.waiting = x.waiting /\ z.size = x.size
      BY <2>5, <2>6 DEF UIState
    <2> HIDE DEF z
    <2>8. UIOK(z) BY <2>2, <2>7 DEF UIOK
    <2>9. m.id >= u.current BY <1>0, <1>2, UIFields
    <2>10. /\ Incorporated(u, m.info, z.store)
           /\ z.compositing = u.compositing /\ z.current = u.current /\ z.next = u.next
           /\ z.waiting = u.waiting /\ z.sent = Append(u.sent, Plain("DidUpdate"))
           /\ m.info.rects # {} =>
                Len(z.store) = IF u.store # << >> THEN Len(u.store) ELSE m.info.size
      BY <2>2, <2>4, <2>6, <2>7
    <2> QED BY <2>1, <2>8, <2>9, <2>10
  <1> QED BY <1>1, <1>2

(* The state of m has arrived, and the UI process may ask for the next:    *)
(* the store has the size of the bits, and shows them if they are all.     *)
(* The state that m announces is the current one in v.                     *)
EntersState(u, m, v) ==
    /\ UIOK(v) /\ v.compositing = u.compositing /\ v.current = m.id /\ v.next = u.next
    /\ \/ v.sent = u.sent /\ v.waiting = FALSE
       \/ \E q \in Request : /\ q.id = u.next /\ u.next # m.id
                             /\ v.sent = Append(u.sent, q)
                             /\ v.waiting = q.respondImmediately
    /\ v.store # << >> => Len(v.store) = m.info.size
    /\ m.info.rects \in {{}, 1..m.info.size} => Leaves(m, Shown(v, m.info.size))

LEMMA StateEffect ==
    ASSUME NEW u, UIOK(u), NEW m \in UIMessage, NEW mapped \in BOOLEAN,
           NEW v, v = DidUpdateBackingStoreState(u, m, mapped)
    PROVE  EntersState(u, m, v)
  <1> DEFINE f == FALSE
             a == [u EXCEPT !.current = m.id, !.waiting = f]
             tt == TRUE
             g == [a EXCEPT !.hasReceivedFirstUpdate = tt]
             b == IF a.next # m.id THEN SendUpdateBackingStoreState(a, tt) ELSE g
             e == << >>
             k == IF Len(b.store) = m.info.size THEN b ELSE [b EXCEPT !.store = e]
  <1>0. u \in UIState /\ m.id \in Nat /\ m.info \in Info /\ f \in BOOLEAN /\ tt \in BOOLEAN /\ ~f
    BY DEF UIOK, UIMessage
  <1>1. v = IncorporateUpdate(k, m.info, mapped) BY DEF DidUpdateBackingStoreState
  <1>2. e \in Seq(Int) /\ e = << >> /\ Len(e) = 0 /\ f = FALSE OBVIOUS
  <1> HIDE DEF e, f, tt
  <1>3. /\ a \in UIState /\ a.current = m.id /\ a.waiting = f
        /\ a.compositing = u.compositing /\ a.next = u.next /\ a.store = u.store
        /\ a.size = u.size /\ a.invalid = u.invalid /\ a.sent = u.sent
    BY <1>0 DEF UIState
  <1> HIDE DEF a
  <1>4. UIOK(a) BY <1>3 DEF UIOK
  <1>5. /\ UIOK(b) /\ b.current = m.id /\ b.compositing = u.compositing /\ b.next = u.next
        /\ \/ b.sent = u.sent /\ b.waiting = FALSE
           \/ \E q \in Request : /\ q.id = u.next /\ u.next # m.id
                                 /\ b.sent = Append(u.sent, q)
                                 /\ b.waiting = q.respondImmediately
    <2>1. CASE a.next # m.id
      <3>1. b = SendUpdateBackingStoreState(a, tt) BY <2>1
      <3> HIDE DEF b
      <3>2. /\ UIOK(b) /\ Asks(a, b) /\ b.compositing = a.compositing /\ b.current = a.current
            /\ b.next = a.next
        BY <1>0, <1>4, <3>1, AskEffect, SMTT(30)
      <3>3. b.current = m.id /\ b.compositing = u.compositing /\ b.next = u.next BY <1>3, <3>2
      <3>4. CASE b.sent = a.sent /\ b.waiting = a.waiting BY <1>2, <1>3, <3>2, <3>3, <3>4
      <3>5. CASE \E q \in Request : /\ q.id = a.next /\ b.sent = Append(a.sent, q)
                                    /\ b.waiting = q.respondImmediately
        <4>1. PICK q \in Request : /\ q.id = a.next /\ b.sent = Append(a.sent, q)
                                   /\ b.waiting = q.respondImmediately
          BY <3>5
        <4>2. /\ q.id = u.next /\ u.next # m.id /\ b.sent = Append(u.sent, q)
              /\ b.waiting = q.respondImmediately
          BY <1>3, <2>1, <4>1
        <4> QED BY <3>2, <3>3, <4>2
      <3> QED BY <3>2, <3>4, <3>5 DEF Asks
    <2>2. CASE a.next = m.id
      <3>1. b = g BY <2>2
      <3>2. /\ g \in UIState /\ g.current = a.current /\ g.compositing = a.compositing
            /\ g.next = a.next /\ g.store = a.store /\ g.size = a.size /\ g.invalid = a.invalid
            /\ g.sent = a.sent /\ g.waiting = a.waiting
        <4>1. a \in UIState /\ tt \in BOOLEAN BY <1>0, <1>3
        <4> QED BY <4>1 DEF UIState
      <3> HIDE DEF b, g
      <3>3. UIOK(g) BY <1>4, <3>2 DEF UIOK
      <3> QED BY <1>2, <1>3, <3>1, <3>2, <3>3
    <2> QED BY <2>1, <2>2
  <1> HIDE DEF b
  <1>6. /\ UIOK(k) /\ k.current = b.current /\ k.compositing = b.compositing /\ k.next = b.next
        /\ k.sent = b.sent /\ k.waiting = b.waiting
        /\ k.store # << >> => Len(k.store) = m.info.size
    <2>1. CASE Len(b.store) = m.info.size
      <3>1. k = b BY <2>1
      <3> HIDE DEF k
      <3> QED BY <1>5, <2>1, <3>1
    <2>2. CASE Len(b.store) # m.info.size
      <3> DEFINE y == [b EXCEPT !.store = e]
      <3>1. k = y BY <2>2
      <3>2. b \in UIState BY <1>5 DEF UIOK
      <3>3. /\ y \in UIState /\ y.current = b.current /\ y.compositing = b.compositing
            /\ y.next = b.next /\ y.sent = b.sent /\ y.waiting = b.waiting /\ y.store = e
            /\ y.size = b.size /\ y.invalid = b.invalid
        BY <1>2, <3>2 DEF UIState
      <3> HIDE DEF y, k
      <3>4. UIOK(y) BY <1>2, <1>5, <3>3, DrawingAreaAssumption DEF UIOK
      <3> QED BY <1>2, <3>1, <3>3, <3>4
    <2> QED BY <2>1, <2>2
  <1> HIDE DEF k
  <1>7. /\ UIOK(v) /\ Incorporated(k, m.info, v.store)
        /\ v.compositing = k.compositing /\ v.current = k.current /\ v.next = k.next
        /\ v.waiting = k.waiting /\ v.sent = k.sent
        /\ m.info.rects # {} => Len(v.store) = IF k.store # << >> THEN Len(k.store) ELSE m.info.size
    BY <1>0, <1>1, <1>6, IncorporateEffect, SMTT(30)
  <1>8. v.store # << >> => Len(v.store) = m.info.size
    BY <1>6, <1>7 DEF Incorporated
  <1>9. m.info.rects \in {{}, 1..m.info.size} => Leaves(m, Shown(v, m.info.size))
    <2> SUFFICES ASSUME m.info.rects = 1..m.info.size, m.info.rects # {}
                 PROVE  Leaves(m, Shown(v, m.info.size))
      BY DEF Leaves
    <2>1. k \in UIState /\ m.info.size \in Nat BY <1>0, <1>6, DrawingAreaAssumption DEF UIOK, Info
    <2> DEFINE S == Shown(k, m.info.size)
    <2>2. S \in [1..m.info.size -> Int] BY <1>6, <2>1, ShownType
    <2>3. Misses(v.store, Painted(S, m.info)) BY <1>7 DEF Incorporated
    <2> HIDE DEF S
    <2>4. \A t \in 1..m.info.size : t \in DOMAIN S /\ t \in m.info.rects BY <2>2
    <2>7. \A t \in 1..m.info.size : /\ t \in DOMAIN Painted(S, m.info)
                                    /\ Painted(S, m.info)[t] = m.info.bits[t]
      BY <2>4 DEF Painted
    <2>5. \A t \in 1..m.info.size : v.store[t] \in {m.info.bits[t], Stale}
      BY <2>3, <2>7 DEF Misses
    <2>6. DOMAIN v.store = 1..m.info.size /\ v.store # << >>
      <3>1. v \in UIState BY <1>7 DEF UIOK
      <3>2. v.store \in Seq(Int) /\ Len(v.store) = m.info.size BY <1>6, <1>7, <3>1, UIFields
      <3>3. m.info.size # 0 BY <2>1
      <3> QED BY <3>2, <3>3
    <2> QED BY <2>5, <2>6 DEF Leaves, Shown
  <1>10. v.sent = b.sent /\ v.waiting = b.waiting BY <1>6, <1>7
  <1>11. \/ v.sent = u.sent /\ v.waiting = FALSE
         \/ \E q \in Request : /\ q.id = u.next /\ u.next # m.id
                               /\ v.sent = Append(u.sent, q)
                               /\ v.waiting = q.respondImmediately
    BY <1>5, <1>10
  <1>12. UIOK(v) /\ v.compositing = u.compositing /\ v.current = m.id /\ v.next = u.next
    BY <1>5, <1>6, <1>7
  <1> QED BY <1>8, <1>9, <1>11, <1>12 DEF EntersState

(* Nothing changes but what is shown, when it is discarded, and the view.  *)
Redraws(u, v) ==
    /\ UIOK(v) /\ v.compositing = u.compositing /\ v.current = u.current /\ v.next = u.next
    /\ v.waiting = u.waiting /\ v.store = u.store /\ v.sent = u.sent

LEMMA DiscardSoonEffect ==
    ASSUME NEW u, UIOK(u) PROVE Redraws(u, DiscardBackingStoreSoon(u))
  <1> DEFINE d == u.discardTimer \/ u.discardable
             z == [u EXCEPT !.discardTimer = d]
  <1>1. u \in UIState BY DEF UIOK
  <1>2. d \in BOOLEAN BY <1>1, UIFields
  <1>3. DiscardBackingStoreSoon(u) = z BY DEF DiscardBackingStoreSoon
  <1> HIDE DEF d
  <1>4. /\ z \in UIState /\ z.compositing = u.compositing /\ z.current = u.current
        /\ z.next = u.next /\ z.waiting = u.waiting /\ z.store = u.store /\ z.sent = u.sent
        /\ z.size = u.size /\ z.invalid = u.invalid
    BY <1>1, <1>2 DEF UIState
  <1> HIDE DEF z
  <1> QED BY <1>3, <1>4 DEF Redraws, UIOK

LEMMA ScreenEffect ==
    ASSUME NEW u, UIOK(u), NEW s \in [Tiles -> Int]
    PROVE  Redraws(u, [u EXCEPT !.screen = s])
  <1> DEFINE z == [u EXCEPT !.screen = s]
  <1>1. u \in UIState BY DEF UIOK
  <1>4. /\ z \in UIState /\ z.compositing = u.compositing /\ z.current = u.current
        /\ z.next = u.next /\ z.waiting = u.waiting /\ z.store = u.store /\ z.sent = u.sent
        /\ z.size = u.size /\ z.invalid = u.invalid
    BY <1>1 DEF UIState
  <1> HIDE DEF z
  <1>5. Redraws(u, z) BY <1>4 DEF Redraws, UIOK
  <1> QED BY <1>5 DEF z

LEMMA PaintNothingEffect ==
    ASSUME NEW u, UIOK(u), NEW r PROVE Redraws(u, PaintNothing(u, r))
  <1>1. u.screen \in [Tiles -> Int] BY UIFields DEF UIOK
  <1> DEFINE s == [t \in Tiles |-> IF t \in r THEN Undefined ELSE u.screen[t]]
  <1>2. s \in [Tiles -> Int] BY <1>1 DEF Undefined
  <1>3. PaintNothing(u, r) = [u EXCEPT !.screen = s] BY DEF PaintNothing
  <1> HIDE DEF s
  <1> QED BY <1>2, <1>3, ScreenEffect

LEMMA PaintStoreEffect ==
    ASSUME NEW u, UIOK(u), NEW r PROVE Redraws(u, PaintStore(u, r))
  <1>1. u.screen \in [Tiles -> Int] /\ u.store \in Seq(Int) BY UIFields DEF UIOK
  <1>2. CASE u.store = << >> BY <1>2, PaintNothingEffect DEF PaintStore
  <1>3. CASE u.store # << >>
    <2> DEFINE s == [t \in Tiles |-> IF t \notin r THEN u.screen[t]
                            ELSE IF t \in DOMAIN u.store THEN u.store[t]
                            ELSE Undefined]
               x == [u EXCEPT !.screen = s]
    <2>1. s \in [Tiles -> Int] BY <1>1 DEF Undefined
    <2>2. PaintStore(u, r) = DiscardBackingStoreSoon(x) BY <1>3 DEF PaintStore
    <2> HIDE DEF s
    <2>3. Redraws(u, x) BY <2>1, ScreenEffect
    <2> HIDE DEF x
    <2>4. Redraws(x, DiscardBackingStoreSoon(x)) BY <2>3, DiscardSoonEffect DEF Redraws
    <2> QED BY <2>2, <2>3, <2>4 DEF Redraws
  <1> QED BY <1>2, <1>3

LEMMA LostEffect ==
    ASSUME NEW u \in UIState, Len(u.store) <= MaxSize PROVE Redraws(u, Lost(u))
  <1> DEFINE s == [t \in Tiles |-> Undefined]
             I == 1..u.size
             z == [u EXCEPT !.invalid = I, !.screen = s]
  <1>1. s \in [Tiles -> Int] BY DEF Undefined
  <1>2. I \in SUBSET Tiles BY UIFields, PageIsTiles
  <1>3. Lost(u) = z BY DEF Lost
  <1>5. I = 1..u.size OBVIOUS
  <1> HIDE DEF s, I
  <1>4. /\ z \in UIState /\ z.compositing = u.compositing /\ z.current = u.current
        /\ z.next = u.next /\ z.waiting = u.waiting /\ z.store = u.store /\ z.sent = u.sent
        /\ z.size = u.size /\ z.invalid = I
    BY <1>1, <1>2 DEF UIState
  <1> HIDE DEF z
  <1> QED BY <1>3, <1>4, <1>5 DEF Redraws, UIOK

(* What a handler sent is no part of the drawing area once it has left.    *)
LEMMA UISentEffect ==
    ASSUME NEW u, UIOK(u), NEW v, v = [u EXCEPT !.sent = << >>]
    PROVE  /\ UIOK(v) /\ v.compositing = u.compositing /\ v.current = u.current
           /\ v.next = u.next /\ v.waiting = u.waiting /\ v.store = u.store /\ v.sent = << >>
  <1> DEFINE s == << >>
  <1>1. u \in UIState BY DEF UIOK
  <1>2. s \in Seq(WebMessage) /\ s = << >> OBVIOUS
  <1>3. v = [u EXCEPT !.sent = s] OBVIOUS
  <1> HIDE DEF s
  <1>4. /\ v \in UIState /\ v.compositing = u.compositing /\ v.current = u.current
        /\ v.next = u.next /\ v.waiting = u.waiting /\ v.store = u.store /\ v.sent = s
        /\ v.size = u.size /\ v.invalid = u.invalid
    BY <1>1, <1>2, <1>3 DEF UIState
  <1> QED BY <1>2, <1>4 DEF UIOK

LEMMA WebSentEffect ==
    ASSUME NEW w, WebOK(w), NEW v, v = [w EXCEPT !.sent = << >>]
    PROVE  /\ WebOK(v) /\ v.sent = << >> /\ v.stateID = w.stateID /\ v.size = w.size
           /\ v.shouldSend = w.shouldSend /\ v.waiting = w.waiting /\ v.dirty = w.dirty
           /\ v.scrollRect = w.scrollRect /\ v.scrollOffset = w.scrollOffset
           /\ v.displayTimer = w.displayTimer /\ v.content = w.content
  <1> DEFINE s == << >>
  <1>1. w \in WebState BY DEF WebOK
  <1>2. s \in Seq(UIMessage) /\ s = << >> OBVIOUS
  <1>3. v = [w EXCEPT !.sent = s] OBVIOUS
  <1> HIDE DEF s
  <1>4. /\ v \in WebState /\ v.sent = s /\ v.stateID = w.stateID /\ v.size = w.size
        /\ v.shouldSend = w.shouldSend /\ v.waiting = w.waiting /\ v.dirty = w.dirty
        /\ v.scrollRect = w.scrollRect /\ v.scrollOffset = w.scrollOffset
        /\ v.displayTimer = w.displayTimer /\ v.content = w.content
    BY <1>1, <1>2, <1>3 DEF WebState
  <1> QED BY <1>2, <1>4 DEF WebOK
-----------------------------------------------------------------------------
(* The order of the messages, one elementary change at a time: a message   *)
(* is sent, a state is announced or entered, a message is handled.         *)

LEMMA NoticeIsNoRequest == ASSUME NEW n \in Notice PROVE ~IsRequest(n)
  BY DEF Notice, IsRequest

LEMMA AskedNotice ==
    ASSUME NEW u \in UIState, NEW w \in WebState, NEW tw \in Seq(WebMessage),
           Asked(u, w, tw), NEW n \in Notice
    PROVE  Asked(u, w, Append(tw, n))
  BY NoticeIsNoRequest DEF Asked

LEMMA AskedRequest ==
    ASSUME NEW u \in UIState, NEW w \in WebState, NEW tw \in Seq(WebMessage),
           Asked(u, w, tw), NEW q \in Request, q.id = u.next
    PROVE  Asked(u, w, Append(tw, q))
  <1>1. u.next \in Nat BY UIFields
  <1> QED BY <1>1 DEF Asked

LEMMA AskedNext ==
    ASSUME NEW u \in UIState, NEW w \in WebState, NEW tw \in Seq(WebMessage),
           Asked(u, w, tw), NEW v, v.next \in {u.next, u.next + 1}
    PROVE  Asked(v, w, tw)
  <1>1. u.next \in Nat /\ w.stateID \in Nat BY UIFields, WebFields
  <1>2. \A k \in DOMAIN tw : IsRequest(tw[k]) => tw[k].id \in Nat
    BY DEF WebMessage, Request, Notice, IsRequest
  <1> QED BY <1>1, <1>2 DEF Asked

LEMMA AskedTail ==
    ASSUME NEW u \in UIState, NEW w \in WebState, NEW tw \in Seq(WebMessage),
           Asked(u, w, tw), tw # << >>
    PROVE  Asked(u, w, Tail(tw))
  <1> SUFFICES ASSUME NEW k \in DOMAIN Tail(tw), IsRequest(Tail(tw)[k])
               PROVE  /\ w.stateID <= Tail(tw)[k].id /\ Tail(tw)[k].id <= u.next
                      /\ \A j \in 1..(k - 1) :
                           IsRequest(Tail(tw)[j]) => Tail(tw)[j].id <= Tail(tw)[k].id
    BY DEF Asked
  <1>1. k + 1 \in DOMAIN tw /\ Tail(tw)[k] = tw[k + 1] OBVIOUS
  <1>2. \A j \in 1..(k - 1) : j + 1 \in 1..k /\ Tail(tw)[j] = tw[j + 1] OBVIOUS
  <1>3. k = (k + 1) - 1 OBVIOUS
  <1> QED BY <1>1, <1>2, <1>3 DEF Asked

LEMMA AskedEnter ==
    ASSUME NEW u \in UIState, NEW w \in WebState, NEW tw \in Seq(WebMessage),
           Asked(u, w, tw), tw # << >>, IsRequest(Head(tw)),
           NEW v, v.stateID = Head(tw).id
    PROVE  Asked(u, v, Tail(tw)) /\ w.stateID <= v.stateID
  <1>1. Asked(u, w, Tail(tw)) BY AskedTail
  <1>2. Head(tw) = tw[1] /\ 1 \in DOMAIN tw OBVIOUS
  <1>3. v.stateID <= u.next /\ w.stateID <= v.stateID BY <1>2 DEF Asked
  <1>4. ASSUME NEW k \in DOMAIN Tail(tw), IsRequest(Tail(tw)[k])
        PROVE  v.stateID <= Tail(tw)[k].id
    <2>1. k + 1 \in DOMAIN tw /\ Tail(tw)[k] = tw[k + 1] /\ 1 \in 1..((k + 1) - 1) OBVIOUS
    <2> QED BY <1>2, <1>4, <2>1 DEF Asked
  <1> QED BY <1>1, <1>3, <1>4 DEF Asked

LEMMA MessageFields ==
    ASSUME NEW m \in UIMessage
    PROVE  /\ m.id \in Nat /\ m.info \in Info /\ m.type \in {"Update", "DidUpdateBackingStoreState"}
           /\ ~IsState(m) <=> m.type = "Update"
           /\ m.info.size \in 0..MaxSize /\ m.info.size \in Nat
  BY DrawingAreaAssumption DEF UIMessage, IsState, Info

LEMMA SlotMessage ==
    ASSUME NEW sl, SlotOK(sl), sl # << >>
    PROVE  sl[1] \in UIMessage /\ IsState(sl[1]) /\ sl = <<sl[1]>>
  BY DEF SlotOK

(* Only these fields of the two drawing areas are looked at.               *)
LEMMA AnsweredSame ==
    ASSUME NEW u, NEW w, NEW tu, NEW sl, Answered(u, w, tu, sl),
           NEW v, v.current = u.current, v.store = u.store \/ v.store = << >>,
           NEW x, x.stateID = w.stateID, x.size = w.size, x.shouldSend = w.shouldSend
    PROVE  Answered(v, x, tu, sl)
  BY DEF Answered, Fits

LEMMA AnsweredEnter ==
    ASSUME NEW u \in UIState, NEW w \in WebState, NEW tu \in Seq(UIMessage), NEW sl, SlotOK(sl),
           Answered(u, w, tu, sl), NEW v \in WebState, w.stateID < v.stateID
    PROVE  Answered(u, v, tu, sl)
  <1>1. u.current \in Nat /\ w.stateID \in Nat /\ v.stateID \in Nat BY UIFields, WebFields
  <1>2. \A k \in DOMAIN tu : tu[k].id \in Nat BY MessageFields
  <1>3. sl # << >> => sl[1].id \in Nat BY SlotMessage, MessageFields
  <1>4. u.current < v.stateID BY <1>1 DEF Answered
  <1>5. \A k \in DOMAIN tu : tu[k].id < v.stateID BY <1>1, <1>2 DEF Answered
  <1>6. sl # << >> => sl[1].id < v.stateID BY <1>1, <1>3 DEF Answered
  <1>7. \A k \in DOMAIN tu : \A j \in 1..(k - 1) :
                /\ tu[j].id <= tu[k].id
                /\ IsState(tu[k]) => tu[j].id < tu[k].id
    BY DEF Answered
  <1>8. \A k \in DOMAIN tu : tu[k].id <= v.stateID /\ Fits(tu[k], v)
    BY <1>1, <1>2, <1>5 DEF Fits
  <1>9. sl # << >> => sl[1].id <= v.stateID /\ Fits(sl[1], v) /\ sl[1].id # v.stateID
    BY <1>1, <1>3, <1>6 DEF Fits
  <1>10. u.current <= v.stateID /\ u.current # v.stateID BY <1>1, <1>4
  <1> QED BY <1>4, <1>5, <1>6, <1>7, <1>8, <1>9, <1>10, Zenon DEF Answered
LEMMA LeastNumber ==
    ASSUME NEW T, T \subseteq Nat, T # {}
    PROVE  \E x \in T : \A y \in T : x <= y
  <1>1. PICK x \in T : \A y \in T : ~(<<y, x>> \in OpToRel(<, Nat))
    BY NatLessThanWellFounded, WFMin
  <1>2. ASSUME NEW y \in T PROVE x <= y
    <2>1. ~(y < x) BY <1>1 DEF OpToRel
    <2> QED BY <2>1
  <1> QED BY <1>2

(* waitForMessage finds the oldest DidUpdateBackingStoreState.             *)
LEMMA IncomingEffect ==
    ASSUME NEW tu \in Seq(UIMessage), NEW p, p = IncomingState(tu)
    PROVE  \/ p = 0 /\ \A k \in DOMAIN tu : ~IsState(tu[k])
           \/ /\ p \in DOMAIN tu /\ IsState(tu[p])
              /\ \A k \in 1..(p - 1) : ~IsState(tu[k])
  <1> DEFINE I == {k \in 1..Len(tu) : tu[k].type = "DidUpdateBackingStoreState"}
  <1>1. p = IF I # {} THEN Min(I) ELSE 0 BY DEF IncomingState, SelectInSeq
  <1>2. CASE I = {} BY <1>1, <1>2 DEF IsState
  <1>3. CASE I # {}
    <2>1. I \subseteq Nat OBVIOUS
    <2>2. \A k \in 1..Len(tu) : IsState(tu[k]) => k \in I BY DEF IsState
    <2>3. \A k \in I : k \in 1..Len(tu) /\ IsState(tu[k]) BY DEF IsState
    <2> HIDE DEF I
    <2>4. \E x \in I : \A y \in I : x <= y BY <1>3, <2>1, LeastNumber
    <2>5. p = CHOOSE x \in I : \A y \in I : x <= y BY <1>1, <1>3 DEF Min
    <2>6. p \in I /\ \A y \in I : p <= y BY <2>4, <2>5
    <2>7. p \in DOMAIN tu /\ IsState(tu[p]) BY <2>3, <2>6
    <2>8. ASSUME NEW k \in 1..(p - 1) PROVE ~IsState(tu[k])
      <3>1. p \in 1..Len(tu) /\ k \in 1..Len(tu) /\ ~(p <= k) BY <2>7
      <3> QED BY <2>2, <2>6, <3>1
    <2> QED BY <2>7, <2>8
  <1> QED BY <1>2, <1>3

(* tv is tu without its p-th message.                                      *)
Without(tv, tu, p) ==
    /\ tv \in Seq(UIMessage) /\ Len(tv) = Len(tu) - 1
    /\ \A k \in 1..Len(tv) : tv[k] = tu[IF k < p THEN k ELSE k + 1]

LEMMA TailIsWithout ==
    ASSUME NEW tu \in Seq(UIMessage), tu # << >>
    PROVE  Without(Tail(tu), tu, 1) /\ Head(tu) = tu[1] /\ 1 \in DOMAIN tu
  BY DEF Without

LEMMA RemoveAtIsWithout ==
    ASSUME NEW tu \in Seq(UIMessage), NEW p \in DOMAIN tu
    PROVE  Without(RemoveAt(tu, p), tu, p)
  <1> DEFINE a == SubSeq(tu, 1, p - 1)
             b == SubSeq(tu, p + 1, Len(tu))
  <1>0. p \in 1..Len(tu) /\ Len(tu) \in Nat OBVIOUS
  <1>1. a \in Seq(UIMessage) /\ Len(a) = p - 1 /\ \A k \in 1..(p - 1) : a[k] = tu[k]
    BY <1>0, SubSeqProperties
  <1>2. b \in Seq(UIMessage) /\ Len(b) = Len(tu) - p /\ \A k \in 1..(Len(tu) - p) : b[k] = tu[p + k]
    BY <1>0, SubSeqProperties
  <1>3. RemoveAt(tu, p) = a \o b BY DEF RemoveAt
  <1> HIDE DEF a, b
  <1>4. /\ a \o b \in Seq(UIMessage) /\ Len(a \o b) = Len(tu) - 1
        /\ \A k \in 1..Len(a \o b) : (a \o b)[k] = IF k <= Len(a) THEN a[k] ELSE b[k - Len(a)]
    <2>1. a \in Seq(UIMessage) /\ b \in Seq(UIMessage) BY <1>1, <1>2
    <2>2. /\ a \o b \in Seq(UIMessage) /\ Len(a \o b) = Len(a) + Len(b)
          /\ \A k \in 1..(Len(a) + Len(b)) :
               (a \o b)[k] = IF k <= Len(a) THEN a[k] ELSE b[k - Len(a)]
      BY <2>1, ConcatProperties, Zenon
    <2>3. Len(a) + Len(b) = Len(tu) - 1 BY <1>0, <1>1, <1>2
    <2> QED BY <2>2, <2>3
  <1>5. ASSUME NEW k \in 1..Len(a \o b)
        PROVE  (a \o b)[k] = tu[IF k < p THEN k ELSE k + 1]
    <2>1. CASE k < p BY <1>0, <1>1, <1>4, <2>1
    <2>2. CASE ~(k < p)
      <3>1. k - (p - 1) \in 1..(Len(tu) - p) /\ ~(k <= p - 1) /\ p + (k - (p - 1)) = k + 1
        BY <1>0, <1>4, <2>2
      <3>2. (a \o b)[k] = b[k - (p - 1)] BY <1>1, <1>4, <3>1
      <3> QED BY <1>2, <2>2, <3>1, <3>2
    <2> QED BY <2>1, <2>2
  <1> QED BY <1>3, <1>4, <1>5 DEF Without

(* The web process announces its state, or sends an Update in it.          *)
LEMMA AnsweredSends ==
    ASSUME NEW u \in UIState, NEW w \in WebState, NEW tu \in Seq(UIMessage), NEW sl, SlotOK(sl),
           Answered(u, w, tu, sl), NEW m \in UIMessage, m.id = w.stateID, m.info.size = w.size,
           IsState(m) => w.shouldSend /\ m.info.rects \in {{}, 1..w.size},
           ~IsState(m) => ~w.shouldSend,
           NEW v, v.stateID = w.stateID, v.size = w.size, ~v.shouldSend
    PROVE  Answered(u, v, Append(tu, m), sl)
  <1> DEFINE tv == Append(tu, m)
  <1>0. u.current \in Nat /\ w.stateID \in Nat BY UIFields, WebFields
  <1>1. \A k \in DOMAIN tu : tu[k].id \in Nat BY MessageFields
  <1>2. sl # << >> => sl[1].id \in Nat BY SlotMessage, MessageFields
  <1>3. /\ tv \in Seq(UIMessage) /\ DOMAIN tv = 1..(Len(tu) + 1) /\ tv[Len(tu) + 1] = m
        /\ Len(tu) \in Nat /\ DOMAIN tu = 1..Len(tu)
        /\ \A k \in 1..Len(tu) : tv[k] = tu[k]
    OBVIOUS
  <1> HIDE DEF tv
  <1>4. Fits(m, v) BY DEF Fits
  <1>5. \A k \in 1..Len(tu) : Fits(tu[k], v) BY <1>3 DEF Answered, Fits
  <1>6. sl # << >> => Fits(sl[1], v) BY DEF Answered, Fits
  <1>7. IsState(m) => /\ u.current < w.stateID /\ \A k \in DOMAIN tu : tu[k].id < w.stateID
                      /\ sl # << >> => sl[1].id < w.stateID
    BY DEF Answered
  <1>8. ASSUME NEW k \in DOMAIN tv
        PROVE  /\ tv[k].id <= v.stateID /\ Fits(tv[k], v)
               /\ IsState(tv[k]) /\ tv[k].id = v.stateID => u.current < v.stateID
               /\ \A j \in 1..(k - 1) :
                     /\ tv[j].id <= tv[k].id
                     /\ IsState(tv[k]) => tv[j].id < tv[k].id
    <2>1. CASE k \in 1..Len(tu)
      <3>1. \A j \in 1..(k - 1) : j \in 1..Len(tu) BY <2>1
      <3> QED BY <1>3, <1>5, <2>1, <3>1 DEF Answered
    <2>2. CASE k = Len(tu) + 1
      <3>1. k - 1 = Len(tu) BY <1>3, <2>2
      <3>2. tv[k].id = w.stateID /\ tv[k] = m BY <1>3, <2>2
      <3>3. \A j \in 1..(k - 1) : tv[j] = tu[j] /\ j \in DOMAIN tu BY <1>3, <3>1
      <3>4. \A j \in 1..(k - 1) : tv[j].id <= w.stateID BY <3>3 DEF Answered
      <3> QED BY <1>0, <1>4, <1>7, <3>2, <3>3, <3>4
    <2> QED BY <1>3, <2>1, <2>2
  <1>9. ASSUME sl # << >>
        PROVE  /\ sl[1].id <= v.stateID /\ Fits(sl[1], v)
               /\ sl[1].id = v.stateID =>
                    /\ u.current < v.stateID
                    /\ \A k \in DOMAIN tv : IsState(tv[k]) => tv[k].id < v.stateID
    <2>1. sl[1].id <= v.stateID BY <1>9 DEF Answered
    <2>2. ASSUME sl[1].id = v.stateID, NEW k \in DOMAIN tv, IsState(tv[k])
          PROVE  tv[k].id < v.stateID
      <3>1. ~IsState(m) BY <1>0, <1>2, <1>7, <1>9, <2>2
      <3>2. k \in DOMAIN tu /\ tv[k] = tu[k] BY <1>3, <2>2, <3>1
      <3> QED BY <1>9, <2>2, <3>2 DEF Answered
    <2>3. sl[1].id = v.stateID => u.current < v.stateID BY <1>9 DEF Answered
    <2> QED BY <1>6, <1>9, <2>1, <2>2, <2>3
  <1>10. /\ u.current <= v.stateID
         /\ u.current = v.stateID /\ u.store # << >> => Len(u.store) = v.size
    BY DEF Answered
  <1>11. Answered(u, v, tv, sl) BY <1>8, <1>9, <1>10, Zenon DEF Answered
  <1> QED BY <1>11 DEF tv

(* The announcement goes to the wait instead.                              *)
LEMMA AnsweredFills ==
    ASSUME NEW u \in UIState, NEW w \in WebState, NEW tu \in Seq(UIMessage), NEW sl, SlotOK(sl),
           Answered(u, w, tu, sl), NEW m \in UIMessage, m.id = w.stateID, m.info.size = w.size,
           w.shouldSend, m.info.rects \in {{}, 1..w.size},
           NEW v, v.stateID = w.stateID, v.size = w.size, ~v.shouldSend
    PROVE  Answered(u, v, tu, <<m>>)
  <1>0. u.current \in Nat /\ w.stateID \in Nat BY UIFields, WebFields
  <1>1. <<m>>[1] = m OBVIOUS
  <1>2. Fits(m, v) BY DEF Fits
  <1>3. \A k \in DOMAIN tu : Fits(tu[k], v) BY DEF Answered, Fits
  <1> DEFINE s == <<m>>
  <1>4. s[1] = m OBVIOUS
  <1> HIDE DEF s
  <1>5. Answered(u, v, tu, s) BY <1>0, <1>2, <1>3, <1>4 DEF Answered
  <1> QED BY <1>5 DEF s

(* The state that was the p-th message arrives.                            *)
LEMMA AnsweredArrives ==
    ASSUME NEW u \in UIState, NEW w \in WebState, NEW tu \in Seq(UIMessage), NEW sl, SlotOK(sl),
           Answered(u, w, tu, sl), NEW p \in DOMAIN tu, IsState(tu[p]),
           \A k \in 1..(p - 1) : ~IsState(tu[k]),
           NEW tv, Without(tv, tu, p),
           NEW v, v.current = tu[p].id, v.store # << >> => Len(v.store) = tu[p].info.size
    PROVE  Answered(v, w, tv, sl)
  <1>0. w.stateID \in Nat /\ p \in 1..Len(tu) /\ Len(tu) \in Nat BY WebFields
  <1>1. \A k \in DOMAIN tu : tu[k].id \in Nat BY MessageFields
  <1>2. sl # << >> => sl[1].id \in Nat BY SlotMessage, MessageFields
  <1>3. tv \in Seq(UIMessage) /\ DOMAIN tv = 1..(Len(tu) - 1) BY DEF Without
  <1> DEFINE at(k) == IF k < p THEN k ELSE k + 1
  <1>4. \A k \in DOMAIN tv : /\ at(k) \in DOMAIN tu /\ tv[k] = tu[at(k)]
                             /\ \A j \in 1..(k - 1) : at(j) \in 1..(at(k) - 1) /\ j \in DOMAIN tv
    BY <1>0, <1>3 DEF Without
  <1>5. \A k \in DOMAIN tv : IsState(tv[k]) => p \in 1..(at(k) - 1)
    <2>1. ASSUME NEW k \in DOMAIN tv, k < p PROVE ~IsState(tv[k])
      <3>1. k \in 1..(p - 1) /\ at(k) = k BY <1>0, <1>3, <2>1
      <3> QED BY <1>4, <3>1
    <2>2. ASSUME NEW k \in DOMAIN tv, ~(k < p) PROVE p \in 1..(at(k) - 1)
      BY <1>0, <1>3, <2>2
    <2> QED BY <2>1, <2>2
  <1> HIDE DEF at
  <1>6. /\ v.current <= w.stateID
        /\ w.shouldSend => v.current < w.stateID
        /\ v.current = w.stateID /\ v.store # << >> => Len(v.store) = w.size
    BY DEF Answered, Fits
  <1>7. ASSUME NEW k \in DOMAIN tv
        PROVE  /\ tv[k].id <= w.stateID /\ Fits(tv[k], w)
               /\ w.shouldSend => tv[k].id < w.stateID
               /\ IsState(tv[k]) /\ tv[k].id = w.stateID => v.current < w.stateID
               /\ \A j \in 1..(k - 1) :
                     /\ tv[j].id <= tv[k].id
                     /\ IsState(tv[k]) => tv[j].id < tv[k].id
    <2>1. at(k) \in DOMAIN tu /\ tv[k] = tu[at(k)] BY <1>4
    <2>2. /\ tv[k].id <= w.stateID /\ Fits(tv[k], w)
          /\ w.shouldSend => tv[k].id < w.stateID
      BY <2>1 DEF Answered
    <2>3. IsState(tv[k]) /\ tv[k].id = w.stateID => v.current < w.stateID
      BY <1>5, <2>1 DEF Answered
    <2>4. ASSUME NEW j \in 1..(k - 1)
          PROVE  /\ tv[j].id <= tv[k].id
                 /\ IsState(tv[k]) => tv[j].id < tv[k].id
      <3>1. tv[j] = tu[at(j)] /\ at(j) \in 1..(at(k) - 1) BY <1>4
      <3> QED BY <2>1, <3>1 DEF Answered
    <2> QED BY <2>2, <2>3, <2>4
  <1>8. ASSUME sl # << >>
        PROVE  /\ sl[1].id <= w.stateID /\ Fits(sl[1], w)
               /\ w.shouldSend => sl[1].id < w.stateID
               /\ sl[1].id = w.stateID =>
                    /\ v.current < w.stateID
                    /\ \A k \in DOMAIN tv : IsState(tv[k]) => tv[k].id < w.stateID
    BY <1>4, <1>8 DEF Answered
  <1> QED BY <1>6, <1>7, <1>8, Zenon DEF Answered

(* The state that the wait got arrives, or the wait gives up.              *)
LEMMA AnsweredTakes ==
    ASSUME NEW u \in UIState, NEW w \in WebState, NEW tu \in Seq(UIMessage), NEW sl, SlotOK(sl),
           Answered(u, w, tu, sl), sl # << >>,
           NEW v, v.current = sl[1].id, v.store # << >> => Len(v.store) = sl[1].info.size
    PROVE  Answered(v, w, tu, << >>)
  <1>0. w.stateID \in Nat BY WebFields
  <1>1. \A k \in DOMAIN tu : tu[k].id \in Nat BY MessageFields
  <1>2. sl[1].id \in Nat BY SlotMessage, MessageFields
  <1>3. /\ v.current <= w.stateID
        /\ w.shouldSend => v.current < w.stateID
        /\ v.current = w.stateID /\ v.store # << >> => Len(v.store) = w.size
    BY DEF Answered, Fits
  <1>4. \A k \in DOMAIN tu : IsState(tu[k]) /\ tu[k].id = w.stateID => v.current < w.stateID
    BY <1>0, <1>1, <1>2, <1>3 DEF Answered
  <1> QED BY <1>3, <1>4 DEF Answered

LEMMA AnsweredGivesUp ==
    ASSUME NEW u, NEW w, NEW tu, NEW sl, Answered(u, w, tu, sl)
    PROVE  Answered(u, w, tu, << >>)
  BY DEF Answered

(* The oldest message, an Update, is handled.                              *)
LEMMA AnsweredUpdates ==
    ASSUME NEW u \in UIState, NEW w \in WebState, NEW tu \in Seq(UIMessage), NEW sl, SlotOK(sl),
           Answered(u, w, tu, sl), tu # << >>, NEW tv, Without(tv, tu, 1),
           NEW v, v.current = u.current,
           \/ v.store = u.store
           \/ /\ tu[1].id >= u.current
              /\ Len(v.store) = IF u.store # << >> THEN Len(u.store) ELSE tu[1].info.size
    PROVE  Answered(v, w, tv, sl)
  <1>0. w.stateID \in Nat /\ u.current \in Nat /\ 1 \in DOMAIN tu BY WebFields, UIFields
  <1>1. tu[1].id \in Nat BY <1>0, MessageFields
  <1>2. tv \in Seq(UIMessage) /\ DOMAIN tv = 1..(Len(tu) - 1) BY DEF Without
  <1>3. \A k \in DOMAIN tv : /\ k + 1 \in DOMAIN tu /\ tv[k] = tu[k + 1]
                             /\ \A j \in 1..(k - 1) : j + 1 \in 1..((k + 1) - 1) /\ j \in DOMAIN tv
    BY <1>2 DEF Without
  <1>4. /\ v.current <= w.stateID
        /\ w.shouldSend => v.current < w.stateID
        /\ v.current = w.stateID /\ v.store # << >> => Len(v.store) = w.size
    <2>1. tu[1].id <= w.stateID /\ (tu[1].id = w.stateID => tu[1].info.size = w.size)
      BY <1>0 DEF Answered, Fits
    <2>2. /\ u.current <= w.stateID
          /\ w.shouldSend => u.current < w.stateID
          /\ u.current = w.stateID /\ u.store # << >> => Len(u.store) = w.size
      BY DEF Answered
    <2>3. tu[1].id >= u.current /\ u.current = w.stateID => tu[1].info.size = w.size
      BY <1>0, <1>1, <2>1
    <2> QED BY <2>2, <2>3
  <1>5. ASSUME NEW k \in DOMAIN tv
        PROVE  /\ tv[k].id <= w.stateID /\ Fits(tv[k], w)
               /\ w.shouldSend => tv[k].id < w.stateID
               /\ IsState(tv[k]) /\ tv[k].id = w.stateID => v.current < w.stateID
               /\ \A j \in 1..(k - 1) :
                     /\ tv[j].id <= tv[k].id
                     /\ IsState(tv[k]) => tv[j].id < tv[k].id
    <2>1. k + 1 \in DOMAIN tu /\ tv[k] = tu[k + 1] BY <1>3
    <2>2. /\ tv[k].id <= w.stateID /\ Fits(tv[k], w)
          /\ w.shouldSend => tv[k].id < w.stateID
          /\ IsState(tv[k]) /\ tv[k].id = w.stateID => v.current < w.stateID
      BY <2>1 DEF Answered
    <2>4. ASSUME NEW j \in 1..(k - 1)
          PROVE  /\ tv[j].id <= tv[k].id
                 /\ IsState(tv[k]) => tv[j].id < tv[k].id
      <3>1. tv[j] = tu[j + 1] /\ j + 1 \in 1..((k + 1) - 1) BY <1>3
      <3> QED BY <2>1, <3>1 DEF Answered
    <2> QED BY <2>2, <2>4
  <1>6. ASSUME sl # << >>
        PROVE  /\ sl[1].id <= w.stateID /\ Fits(sl[1], w)
               /\ w.shouldSend => sl[1].id < w.stateID
               /\ sl[1].id = w.stateID =>
                    /\ v.current < w.stateID
                    /\ \A k \in DOMAIN tv : IsState(tv[k]) => tv[k].id < w.stateID
    BY <1>3, <1>6 DEF Answered
  <1> QED BY <1>4, <1>5, <1>6, Zenon DEF Answered
-----------------------------------------------------------------------------
(* What the messages will draw, one elementary change at a time.           *)

LEMMA ScrolledAt ==
    ASSUME NEW n, NEW V \in Stores(n), NEW r, NEW k, NEW t \in 1..n
    PROVE  ScrollStore(V, r, k)[t] =
             IF t \notin r \/ t - k \notin r THEN V[t]
             ELSE IF t - k \in 1..n THEN V[t - k] ELSE Undefined
  BY DEF ScrollStore, Stores

LEMMA Constant ==
    ASSUME NEW a \in Nat, NEW b \in Nat, NEW h, \A j \in (a + 1)..b : h[j] = h[j - 1]
    PROVE  \A j \in a..b : h[j] = h[a]
  <1> DEFINE T == {j \in a..b : h[j] # h[a]}
  <1> SUFFICES ASSUME T # {} PROVE FALSE OBVIOUS
  <1>1. T \subseteq Nat OBVIOUS
  <1>2. PICK x \in T : \A y \in T : x <= y
    <2> HIDE DEF T
    <2> QED BY <1>1, LeastNumber
  <1>3. x \in (a + 1)..b /\ x - 1 \in a..b /\ ~(x <= x - 1) OBVIOUS
  <1>4. x - 1 \notin T BY <1>2, <1>3
  <1>5. h[x - 1] = h[a] BY <1>3, <1>4
  <1> QED BY <1>2, <1>3, <1>5

(* The runs are the same, and what they leave still matches.               *)
LEMMA CurrentSame ==
    ASSUME NEW u, NEW w, NEW tu, NEW sl, Current(u, w, tu, sl),
           NEW v, v.current = u.current, v.next = u.next, v.store = u.store,
           NEW x, x.stateID = w.stateID, x.size = w.size,
           \A V \in Stores(w.size) : Matches(V, w) => Matches(V, x),
           Len(tu) \in Nat
    PROVE  Current(v, x, tu, sl)
  <1> SUFFICES ASSUME u.next = w.stateID, NEW k \in 0..Len(tu),
                      NEW h \in [k..Len(tu) -> Stores(w.size)], Run(v, x, tu, sl, k, h)
               PROVE  Matches(h[Len(tu)], x)
    BY DEF Current
  <1>1. Run(u, w, tu, sl, k, h) BY DEF Run, Starts, Applies, Shown
  <1>2. Matches(h[Len(tu)], w) BY <1>1 DEF Current
  <1>3. h[Len(tu)] \in Stores(w.size) OBVIOUS
  <1> QED BY <1>2, <1>3

LEMMA CurrentNext ==
    ASSUME NEW u \in UIState, NEW w \in WebState, w.stateID <= u.next, NEW tu, NEW sl,
           NEW v, v.next = u.next + 1
    PROVE  Current(v, w, tu, sl)
  <1>1. u.next \in Nat /\ w.stateID \in Nat BY UIFields, WebFields
  <1>2. v.next # w.stateID BY <1>1
  <1> QED BY <1>2 DEF Current

LEMMA CurrentEnter ==
    ASSUME NEW u, NEW w, w.dirty = 1..w.size, NEW tu, NEW sl
    PROVE  Current(u, w, tu, sl)
  BY DEF Current, Matches

LEMMA DrawnMatches ==
    ASSUME NEW w \in WebState, NEW v, NEW i, Draws(w, v, i), v.size = w.size,
           v.content = w.content, NEW V \in Stores(w.size), Matches(V, w)
    PROVE  Matches(Painted(V, i), v)
  <1>0. w.size \in Nat BY WebFields
  <1>1. CASE i.rects = {} BY <1>1 DEF Painted, Draws, Matches
  <1>2. CASE i.rects # {}
    <2> DEFINE P == Painted(V, i)
    <2>1. P \in Stores(w.size)
      <3>1. V \in [1..w.size -> Int] /\ i \in Info BY DEF Stores, Draws
      <3> QED BY <1>0, <3>1, PaintedType DEF Stores
    <2>2. SUFFICES ASSUME NEW t \in 1..w.size, w.content[t] # 0
                   PROVE  ScrollStore(P, v.scrollRect, v.scrollOffset)[t]
                            \in {w.content[t], Stale}
      BY DEF Matches
    <2>3. v.scrollRect = {} /\ i.scrollRect = w.scrollRect /\ i.scrollOffset = w.scrollOffset
          /\ w.dirty \subseteq i.rects /\ \A s \in i.rects : i.bits[s] = w.content[s]
      BY <1>2 DEF Draws
    <2>4. P[t] = IF t \in i.rects THEN i.bits[t]
                 ELSE ScrollStore(V, i.scrollRect, i.scrollOffset)[t]
      BY <1>2 DEF Painted, Stores
    <2> HIDE DEF P
    <2>5. ScrollStore(P, v.scrollRect, v.scrollOffset)[t] = P[t] BY <2>1, <2>3, ScrolledAt
    <2>6. CASE t \in i.rects BY <2>3, <2>4, <2>5, <2>6
    <2>7. CASE t \notin i.rects
      <3>1. t \notin w.dirty BY <2>3, <2>7
      <3> QED BY <2>2, <2>3, <2>4, <2>5, <2>7, <3>1 DEF Matches
    <2> QED BY <2>6, <2>7
  <1> QED BY <1>1, <1>2

(* What is missed does not spoil the rest.                                 *)
LEMMA MissedMatches ==
    ASSUME NEW w \in WebState, NEW P \in Stores(w.size), Matches(P, w),
           NEW S \in Stores(w.size), Misses(S, P)
    PROVE  Matches(S, w)
  <1>0. DOMAIN P = 1..w.size BY DEF Stores
  <1>1. \A t \in 1..w.size : S[t] \in {P[t], Stale} BY <1>0 DEF Misses
  <1> SUFFICES ASSUME NEW t \in 1..w.size, t \notin w.dirty, w.content[t] # 0
               PROVE  ScrollStore(S, w.scrollRect, w.scrollOffset)[t] \in {w.content[t], Stale}
    BY DEF Matches
  <1>2. ScrollStore(P, w.scrollRect, w.scrollOffset)[t] \in {w.content[t], Stale}
    BY DEF Matches
  <1>3. ScrollStore(S, w.scrollRect, w.scrollOffset)[t]
          \in {ScrollStore(P, w.scrollRect, w.scrollOffset)[t], Stale}
    <2>1. ScrollStore(P, w.scrollRect, w.scrollOffset)[t] =
            IF t \notin w.scrollRect \/ t - w.scrollOffset \notin w.scrollRect THEN P[t]
            ELSE IF t - w.scrollOffset \in 1..w.size THEN P[t - w.scrollOffset] ELSE Undefined
      BY ScrolledAt
    <2>2. ScrollStore(S, w.scrollRect, w.scrollOffset)[t] =
            IF t \notin w.scrollRect \/ t - w.scrollOffset \notin w.scrollRect THEN S[t]
            ELSE IF t - w.scrollOffset \in 1..w.size THEN S[t - w.scrollOffset] ELSE Undefined
      BY ScrolledAt
    <2> QED BY <1>1, <2>1, <2>2
  <1> QED BY <1>2, <1>3

LEMMA CurrentSendsUpdate ==
    ASSUME NEW u, NEW w \in WebState, NEW tu \in Seq(UIMessage), NEW sl,
           Current(u, w, tu, sl), NEW m \in UIMessage, m.id = w.stateID, ~IsState(m),
           NEW v \in WebState, v.stateID = w.stateID, v.size = w.size,
           v.content = w.content, Draws(w, v, m.info)
    PROVE  Current(u, v, Append(tu, m), sl)
  <1> DEFINE tv == Append(tu, m)
             n == Len(tu)
  <1>0. w.stateID \in Nat /\ n \in Nat BY WebFields
  <1>1. /\ Len(tv) = n + 1 /\ tv[n + 1] = m /\ DOMAIN tv = 1..(n + 1) /\ DOMAIN tu = 1..n
        /\ \A k \in 1..n : tv[k] = tu[k]
    OBVIOUS
  <1> HIDE DEF tv
  <1> SUFFICES ASSUME u.next = w.stateID, NEW k \in 0..(n + 1),
                      NEW h \in [k..(n + 1) -> Stores(w.size)], Run(u, v, tv, sl, k, h)
               PROVE  Matches(h[n + 1], v)
    BY <1>1 DEF Current, tv
  <1>2. Starts(u, v, tv, sl, k, h[k]) BY DEF Run
  <1>3. k \in 0..n BY <1>0, <1>1, <1>2 DEF Starts
  <1> DEFINE g == [j \in k..n |-> h[j]]
  <1>4. g \in [k..n -> Stores(w.size)] /\ g[n] = h[n] BY <1>0, <1>3
  <1>5. Starts(u, w, tu, sl, k, g[k]) BY <1>1, <1>2, <1>3 DEF Starts
  <1>6. \A j \in (k + 1)..n : Applies(w, tu[j], g[j - 1], g[j])
    <2> SUFFICES ASSUME NEW j \in (k + 1)..n PROVE Applies(w, tu[j], g[j - 1], g[j])
      OBVIOUS
    <2>1. j \in (k + 1)..(n + 1) /\ j \in 1..n /\ j - 1 \in k..n /\ j \in k..n BY <1>0
    <2>2. Applies(v, tv[j], h[j - 1], h[j]) BY <1>1, <2>1 DEF Run
    <2> QED BY <1>1, <2>1, <2>2 DEF Applies
  <1> HIDE DEF g
  <1>7. Run(u, w, tu, sl, k, g) BY <1>4, <1>5, <1>6 DEF Run
  <1>8. Matches(h[n], w) BY <1>3, <1>4, <1>7 DEF Current
  <1>9. h[n] \in Stores(w.size) BY <1>0, <1>3
  <1>10. Misses(h[n + 1], Painted(h[n], m.info))
    <2>1. n + 1 \in (k + 1)..(n + 1) /\ (n + 1) - 1 = n BY <1>0, <1>3
    <2>2. Applies(v, m, h[n], h[n + 1]) BY <1>1, <2>1 DEF Run
    <2>3. ~(m.id < w.stateID) BY <1>0
    <2> QED BY <2>2, <2>3 DEF Applies
  <1>11. Matches(Painted(h[n], m.info), v) BY <1>8, <1>9, DrawnMatches
  <1>12. Painted(h[n], m.info) \in Stores(v.size) /\ h[n + 1] \in Stores(v.size)
    <2>1. w.size \in Nat /\ m.info \in Info BY WebFields DEF Draws
    <2>2. Painted(h[n], m.info) \in [1..w.size -> Int] BY <1>9, <2>1, PaintedType DEF Stores
    <2>3. n + 1 \in k..(n + 1) BY <1>0, <1>3
    <2> QED BY <2>2, <2>3 DEF Stores
  <1> QED BY <1>10, <1>11, <1>12, MissedMatches

(* The announcement of a state draws the whole page, or nothing of it.     *)
LEMMA LeftMatches ==
    ASSUME NEW w, WebOK(w), w.dirty = 1..w.size, NEW v, NEW m, Draws(w, v, m.info),
           v.size = w.size, v.content = w.content, NEW V \in Stores(w.size), Leaves(m, V)
    PROVE  Matches(V, v)
  <1>1. CASE m.info.rects = {} BY <1>1 DEF Draws, Matches
  <1>2. CASE m.info.rects # {}
    <2>1. \A t \in 1..w.size : V[t] \in {w.content[t], Stale} BY <1>2 DEF Leaves, Draws, Stores
    <2>2. v.scrollRect = {} BY <1>2 DEF Draws
    <2>3. \A t \in 1..w.size : ScrollStore(V, v.scrollRect, v.scrollOffset)[t] = V[t]
      BY <2>2, ScrolledAt
    <2> QED BY <2>1, <2>3 DEF Matches
  <1> QED BY <1>1, <1>2

LEMMA CurrentSendsState ==
    ASSUME NEW u, NEW w, WebOK(w), w.dirty = 1..w.size, NEW tu \in Seq(UIMessage), NEW sl,
           NEW m, IsState(m),
           NEW v, v.stateID = w.stateID, v.size = w.size, v.content = w.content,
           Draws(w, v, m.info)
    PROVE  Current(u, v, Append(tu, m), sl)
  <1> DEFINE tv == Append(tu, m)
             n == Len(tu)
  <1>0. n \in Nat OBVIOUS
  <1>1. Len(tv) = n + 1 /\ tv[n + 1] = m OBVIOUS
  <1> HIDE DEF tv
  <1> SUFFICES ASSUME NEW k \in 0..(n + 1),
                      NEW h \in [k..(n + 1) -> Stores(w.size)], Run(u, v, tv, sl, k, h)
               PROVE  Matches(h[n + 1], v)
    BY <1>1 DEF Current, tv
  <1>2. k = n + 1
    <2> SUFFICES ASSUME k # n + 1 PROVE FALSE OBVIOUS
    <2>1. n + 1 \in (k + 1)..(n + 1) BY <1>0
    <2>2. m.type = "Update" BY <1>1, <2>1 DEF Run, Applies
    <2> QED BY <2>2 DEF IsState
  <1>3. Leaves(m, h[n + 1]) BY <1>0, <1>1, <1>2 DEF Run, Starts
  <1>4. h[n + 1] \in Stores(w.size) BY <1>0, <1>2
  <1> QED BY <1>3, <1>4, LeftMatches

LEMMA CurrentFills ==
    ASSUME NEW u \in UIState, NEW w, WebOK(w), w.shouldSend, NEW tu \in Seq(UIMessage), NEW sl,
           Answered(u, w, tu, sl), NEW m,
           NEW v, v.stateID = w.stateID, v.size = w.size, v.content = w.content,
           Draws(w, v, m.info)
    PROVE  Current(u, v, tu, <<m>>)
  <1> DEFINE s == <<m>>
             n == Len(tu)
  <1>0. n \in Nat /\ w.stateID \in Nat /\ u.current \in Nat BY WebFields, UIFields DEF WebOK
  <1>1. s[1] = m OBVIOUS
  <1> HIDE DEF s
  <1> SUFFICES ASSUME NEW k \in 0..n, NEW h \in [k..n -> Stores(w.size)],
                      Run(u, v, tu, s, k, h)
               PROVE  Matches(h[n], v)
    BY DEF Current, s
  <1>2. \A j \in DOMAIN tu : tu[j].id \in Nat /\ tu[j].id < w.stateID
    BY MessageFields DEF Answered
  <1>3. u.current # w.stateID BY <1>0 DEF Answered
  <1>4. k = 0 /\ Leaves(m, h[k]) BY <1>0, <1>1, <1>2, <1>3 DEF Run, Starts
  <1>5. ASSUME NEW j \in (k + 1)..n PROVE h[j] = h[j - 1]
    <2>1. j \in DOMAIN tu BY <1>0
    <2>2. Applies(v, tu[j], h[j - 1], h[j]) BY DEF Run
    <2> QED BY <1>2, <2>1, <2>2 DEF Applies
  <1>6. h[n] = h[k]
    <2>1. k \in Nat /\ n \in k..n BY <1>0
    <2>2. \A j \in k..n : h[j] = h[k]
      <3>1. \A j \in (k + 1)..n : h[j] = h[j - 1] BY <1>5
      <3> HIDE DEF n
      <3> QED BY <1>0, <2>1, <3>1, Constant
    <2> QED BY <2>1, <2>2
  <1>7. h[n] \in Stores(w.size) /\ w.dirty = 1..w.size BY <1>0 DEF WebOK
  <1> QED BY <1>4, <1>6, <1>7, LeftMatches
LEMMA CurrentArrives ==
    ASSUME NEW u \in UIState, NEW w \in WebState, NEW tu \in Seq(UIMessage),
           Answered(u, w, tu, << >>), Current(u, w, tu, << >>),
           NEW p \in DOMAIN tu, IsState(tu[p]), \A k \in 1..(p - 1) : ~IsState(tu[k]),
           NEW tv, Without(tv, tu, p),
           NEW v, v.current = tu[p].id, v.next = u.next,
           tu[p].info.rects \in {{}, 1..tu[p].info.size} =>
             Leaves(tu[p], Shown(v, tu[p].info.size))
    PROVE  Current(v, w, tv, << >>)
  <1> DEFINE n == Len(tu)
  <1>0. n \in Nat /\ p \in 1..n /\ w.stateID \in Nat BY WebFields
  <1>1. Len(tv) = n - 1 /\ DOMAIN tv = 1..(n - 1) BY DEF Without
  <1>2. \A k \in 1..(n - 1) : tv[k] = tu[IF k < p THEN k ELSE k + 1] BY <1>1 DEF Without
  <1> SUFFICES ASSUME u.next = w.stateID, NEW k \in 0..(n - 1),
                      NEW h \in [k..(n - 1) -> Stores(w.size)], Run(v, w, tv, << >>, k, h)
               PROVE  Matches(h[n - 1], w)
    BY <1>1 DEF Current
  <1> DEFINE k2 == IF k = 0 THEN p ELSE k + 1
             g == [j \in k2..n |-> h[j - 1]]
  <1>3. Starts(v, w, tv, << >>, k, h[k]) BY DEF Run
  <1>4. k # 0 => /\ k \in 1..(n - 1) /\ k >= p /\ tv[k] = tu[k + 1]
                 /\ IsState(tu[k + 1]) /\ tu[k + 1].id = w.stateID /\ Leaves(tu[k + 1], h[k])
    <2> SUFFICES ASSUME k # 0
                 PROVE  /\ k \in 1..(n - 1) /\ k >= p /\ tv[k] = tu[k + 1]
                        /\ IsState(tu[k + 1]) /\ tu[k + 1].id = w.stateID
                        /\ Leaves(tu[k + 1], h[k])
      OBVIOUS
    <2>1. k \in 1..(n - 1) BY <1>0
    <2>2. IsState(tv[k]) /\ tv[k].id = w.stateID /\ Leaves(tv[k], h[k]) BY <1>3 DEF Starts
    <2>3. ~(k < p)
      <3> SUFFICES ASSUME k < p PROVE FALSE OBVIOUS
      <3>1. tv[k] = tu[k] /\ k \in 1..(p - 1) BY <1>0, <1>2, <2>1
      <3> QED BY <2>2, <3>1
    <2>4. tv[k] = tu[k + 1] BY <1>2, <2>1, <2>3
    <2> QED BY <1>0, <2>1, <2>2, <2>3, <2>4
  <1>5. k2 \in 1..n /\ k2 >= p /\ k2 - 1 \in k..(n - 1) BY <1>0, <1>4
  <1>6. \A j \in (k2 + 1)..n : /\ j \in k2..n /\ j - 1 \in k2..n /\ j - 1 \in (k + 1)..(n - 1)
                               /\ tv[j - 1] = tu[j] /\ (j - 1) - 1 \in k..(n - 1)
    <2> SUFFICES ASSUME NEW j \in (k2 + 1)..n
                 PROVE  /\ j \in k2..n /\ j - 1 \in k2..n /\ j - 1 \in (k + 1)..(n - 1)
                        /\ tv[j - 1] = tu[j] /\ (j - 1) - 1 \in k..(n - 1)
      OBVIOUS
    <2>1. j - 1 \in 1..(n - 1) /\ ~(j - 1 < p) /\ (j - 1) + 1 = j BY <1>0, <1>5
    <2>2. tv[j - 1] = tu[j] BY <1>2, <2>1
    <2> QED BY <1>0, <1>5, <2>1, <2>2
  <1>7. g \in [k2..n -> Stores(w.size)] BY <1>0, <1>5
  <1>8. \A j \in (k2 + 1)..n : Applies(w, tu[j], g[j - 1], g[j])
    <2> SUFFICES ASSUME NEW j \in (k2 + 1)..n PROVE Applies(w, tu[j], g[j - 1], g[j])
      OBVIOUS
    <2>1. Applies(w, tv[j - 1], h[(j - 1) - 1], h[j - 1]) BY <1>1, <1>6 DEF Run
    <2>2. g[j - 1] = h[(j - 1) - 1] /\ g[j] = h[j - 1] BY <1>6
    <2> QED BY <1>6, <2>1, <2>2
  <1>9. Starts(u, w, tu, << >>, k2, g[k2])
    <2>1. CASE k # 0
      <3>1. g[k2] = h[k] /\ k2 = k + 1 BY <1>0, <1>5, <2>1
      <3> QED BY <1>0, <1>4, <1>5, <2>1, <3>1 DEF Starts
    <2>2. CASE k = 0
      <3>1. v.current = w.stateID /\ h[0] = Shown(v, w.size)
        BY <1>1, <1>3, <2>2 DEF Starts
      <3>2. tu[p].info.size = w.size /\ tu[p].info.rects \in {{}, 1..w.size}
        BY <3>1 DEF Answered, Fits
      <3>3. Leaves(tu[p], h[0]) BY <3>1, <3>2
      <3>4. \A j \in (0 + 1)..(p - 1) : h[j] = h[j - 1]
        <4> SUFFICES ASSUME NEW j \in 1..(p - 1) PROVE h[j] = h[j - 1]
          OBVIOUS
        <4>1. j \in (k + 1)..(n - 1) /\ j \in 1..(n - 1) /\ j < p /\ j \in DOMAIN tu
          BY <1>0, <2>2
        <4>2. Applies(w, tv[j], h[j - 1], h[j]) /\ tv[j] = tu[j] BY <1>1, <1>2, <4>1 DEF Run
        <4>3. tu[j].id < w.stateID BY <3>1, <4>1 DEF Answered
        <4> QED BY <4>2, <4>3 DEF Applies
      <3>5. \A j \in 0..(p - 1) : h[j] = h[0]
        <4>1. p - 1 \in Nat /\ 0 \in Nat BY <1>0
        <4> QED BY <3>4, <4>1, Constant
      <3>6. g[k2] = h[0]
        <4>1. p - 1 \in 0..(p - 1) /\ k2 = p /\ p \in k2..n BY <1>0, <2>2
        <4> QED BY <3>5, <4>1
      <3> QED BY <1>0, <2>2, <3>1, <3>3, <3>6 DEF Starts
    <2> QED BY <2>1, <2>2
  <1>10. g[n] = h[n - 1] /\ k2 \in 0..n BY <1>0, <1>5
  <1> HIDE DEF g, k2
  <1>11. Run(u, w, tu, << >>, k2, g) BY <1>7, <1>8, <1>9 DEF Run
  <1> QED BY <1>7, <1>10, <1>11 DEF Current

LEMMA CurrentTakes ==
    ASSUME NEW u \in UIState, NEW w \in WebState, NEW tu \in Seq(UIMessage), NEW sl,
           Answered(u, w, tu, sl), Current(u, w, tu, sl), sl # << >>,
           NEW v, v.current = sl[1].id, v.next = u.next,
           sl[1].info.rects \in {{}, 1..sl[1].info.size} =>
             Leaves(sl[1], Shown(v, sl[1].info.size)),
           IsState(sl[1])
    PROVE  Current(v, w, tu, << >>)
  <1> SUFFICES ASSUME u.next = w.stateID, NEW k \in 0..Len(tu),
                      NEW h \in [k..Len(tu) -> Stores(w.size)], Run(v, w, tu, << >>, k, h)
               PROVE  Matches(h[Len(tu)], w)
    BY DEF Current
  <1>1. Starts(u, w, tu, sl, k, h[k])
    <2>1. Starts(v, w, tu, << >>, k, h[k]) BY DEF Run
    <2>2. CASE k = 0 /\ v.current = w.stateID /\ h[k] = Shown(v, w.size)
      <3>1. sl[1].info.size = w.size /\ sl[1].info.rects \in {{}, 1..w.size}
        BY <2>2 DEF Answered, Fits
      <3>2. Leaves(sl[1], h[k]) BY <2>2, <3>1
      <3> QED BY <2>2, <3>2 DEF Starts
    <2> QED BY <2>1, <2>2 DEF Starts
  <1>2. Run(u, w, tu, sl, k, h) BY <1>1 DEF Run
  <1> QED BY <1>2 DEF Current

LEMMA CurrentGivesUp ==
    ASSUME NEW u, NEW w, NEW tu, NEW sl, Current(u, w, tu, sl)
    PROVE  Current(u, w, tu, << >>)
  <1> SUFFICES ASSUME u.next = w.stateID, NEW k \in 0..Len(tu),
                      NEW h \in [k..Len(tu) -> Stores(w.size)], Run(u, w, tu, << >>, k, h)
               PROVE  Matches(h[Len(tu)], w)
    BY DEF Current
  <1>1. Run(u, w, tu, sl, k, h) BY DEF Run, Starts
  <1> QED BY <1>1 DEF Current

LEMMA CurrentUpdates ==
    ASSUME NEW u \in UIState, NEW w \in WebState, NEW tu \in Seq(UIMessage),
           Answered(u, w, tu, << >>), Current(u, w, tu, << >>),
           tu # << >>, ~IsState(tu[1]), NEW tv, Without(tv, tu, 1),
           NEW v, v.current = u.current, v.next = u.next,
           \/ tu[1].id < u.current /\ v.store = u.store
           \/ tu[1].id >= u.current /\ Incorporated(u, tu[1].info, v.store)
    PROVE  Current(v, w, tv, << >>)
  <1> DEFINE n == Len(tu)
  <1>0. n \in Nat /\ 1 \in 1..n /\ w.stateID \in Nat /\ u.current \in Nat /\ 1 \in DOMAIN tu
    BY WebFields, UIFields
  <1>m. tu[1] \in UIMessage /\ tu[1].id \in Nat /\ tu[1].type = "Update" BY <1>0, MessageFields
  <1>1. Len(tv) = n - 1 /\ DOMAIN tv = 1..(n - 1) BY DEF Without
  <1>2. \A k \in 1..(n - 1) : tv[k] = tu[k + 1] BY <1>1 DEF Without
  <1> SUFFICES ASSUME u.next = w.stateID, NEW k \in 0..(n - 1),
                      NEW h \in [k..(n - 1) -> Stores(w.size)], Run(v, w, tv, << >>, k, h)
               PROVE  Matches(h[n - 1], w)
    BY <1>1 DEF Current
  <1>3. Starts(v, w, tv, << >>, k, h[k]) BY DEF Run
  <1>4. CASE k # 0
    <2> DEFINE g == [j \in (k + 1)..n |-> h[j - 1]]
    <2>1. g \in [(k + 1)..n -> Stores(w.size)] /\ g[n] = h[n - 1] /\ g[k + 1] = h[k]
          /\ k + 1 \in 0..n
      BY <1>0
    <2>2. k \in 1..(n - 1) /\ k + 1 \in DOMAIN tu BY <1>0, <1>4
    <2>3. Starts(u, w, tu, << >>, k + 1, g[k + 1]) BY <1>2, <1>3, <2>1, <2>2 DEF Starts
    <2>4. ASSUME NEW j \in ((k + 1) + 1)..n PROVE Applies(w, tu[j], g[j - 1], g[j])
      <3>1. /\ j - 1 \in (k + 1)..(n - 1) /\ j \in (k + 1)..n /\ j - 1 \in (k + 1)..n
            /\ j - 1 \in 1..(n - 1) /\ (j - 1) + 1 = j
        BY <1>0, <2>2
      <3>2. Applies(w, tv[j - 1], h[(j - 1) - 1], h[j - 1]) BY <1>1, <3>1 DEF Run
      <3>3. tv[j - 1] = tu[j] BY <1>2, <3>1
      <3> QED BY <3>1, <3>2, <3>3
    <2> HIDE DEF g
    <2>5. Run(u, w, tu, << >>, k + 1, g) BY <2>1, <2>3, <2>4 DEF Run
    <2> QED BY <2>1, <2>5 DEF Current
  <1>5. CASE k = 0
    <2> DEFINE S == Shown(u, w.size)
               g == [j \in 0..n |-> IF j = 0 THEN S ELSE h[j - 1]]
    <2>1. v.current = w.stateID /\ h[0] = Shown(v, w.size) BY <1>1, <1>3, <1>5 DEF Starts
    <2>2. u.store # << >> => Len(u.store) = w.size BY <2>1 DEF Answered
    <2>9. w.size \in Nat BY WebFields
    <2>3. S \in Stores(w.size) /\ w.size \in Nat BY <2>2, <2>9, ShownType DEF Stores
    <2>4. Applies(w, tu[1], S, h[0])
      <3>1. CASE tu[1].id < u.current
        <4>1. v.store = u.store BY <1>0, <1>m, <3>1
        <4> QED BY <1>m, <2>1, <3>1, <4>1 DEF Applies, Shown
      <3>2. CASE tu[1].id >= u.current
        <4>1. Incorporated(u, tu[1].info, v.store) /\ ~(tu[1].id < w.stateID)
          BY <1>0, <1>m, <2>1, <3>2
        <4>2. tu[1].id = w.stateID BY <1>0, <1>m, <4>1 DEF Answered
        <4>3. tu[1].info.size = w.size BY <1>0, <4>2 DEF Answered, Fits
        <4>4. Misses(h[0], Painted(S, tu[1].info))
          <5>1. CASE tu[1].info.rects = {}
            <6>1. h[0] = S /\ Painted(S, tu[1].info) = S
              BY <2>1, <4>1, <5>1 DEF Incorporated, Painted, Shown
            <6> HIDE DEF S
            <6> QED BY <6>1 DEF Misses
          <5>2. CASE tu[1].info.rects # {}
            <6>1. Misses(v.store, Painted(S, tu[1].info)) BY <4>1, <4>3, <5>2 DEF Incorporated
            <6>2. DOMAIN v.store = 1..w.size
              <7>1. tu[1].info \in Info BY <1>m, MessageFields
              <7> HIDE DEF S
              <7>2. S \in [1..w.size -> Int] BY <2>3 DEF Stores
              <7>3. Painted(S, tu[1].info) \in [1..w.size -> Int]
                BY <2>9, <7>1, <7>2, PaintedType
              <7> QED BY <6>1, <7>3 DEF Misses
            <6>3. v.store # << >>
              <7>1. w.size # 0
                <8>1. tu[1].info.rects \subseteq 1..w.size BY <1>m, <4>3, MessageFields DEF Info
                <8> QED BY <5>2, <8>1
              <7>2. 1 \in DOMAIN v.store BY <2>9, <6>2, <7>1
              <7> QED BY <7>2
            <6> QED BY <2>1, <6>1, <6>3 DEF Shown
          <5> QED BY <5>1, <5>2
        <4> HIDE DEF S
        <4> QED BY <1>m, <4>1, <4>4 DEF Applies
      <3> QED BY <1>0, <1>m, <3>1, <3>2
    <2>5. Starts(u, w, tu, << >>, 0, S) BY <2>1 DEF Starts
    <2> HIDE DEF S
    <2>6. g \in [0..n -> Stores(w.size)] /\ g[0] = S /\ g[n] = h[n - 1] /\ 0 \in 0..n
      BY <1>0, <1>5, <2>3
    <2>7. ASSUME NEW j \in (0 + 1)..n PROVE Applies(w, tu[j], g[j - 1], g[j])
      <3>1. CASE j = 1
        <4>1. g[j - 1] = S /\ g[j] = h[0] BY <1>0, <3>1
        <4> QED BY <2>4, <3>1, <4>1
      <3>2. CASE j # 1
        <4>1. /\ j - 1 \in (k + 1)..(n - 1) /\ j \in 0..n /\ j - 1 \in 0..n
              /\ j - 1 \in 1..(n - 1) /\ (j - 1) + 1 = j /\ j # 0 /\ j - 1 # 0
          BY <1>0, <1>5, <3>2
        <4>2. Applies(w, tv[j - 1], h[(j - 1) - 1], h[j - 1]) BY <1>1, <4>1 DEF Run
        <4>3. tv[j - 1] = tu[j] BY <1>2, <4>1
        <4> QED BY <4>1, <4>2, <4>3
      <3> QED BY <3>1, <3>2
    <2> HIDE DEF g
    <2>8. Run(u, w, tu, << >>, 0, g) BY <2>5, <2>6, <2>7 DEF Run
    <2> QED BY <2>6, <2>8 DEF Current
  <1> QED BY <1>4, <1>5

(* More is dirty: what was drawn may have changed there.                   *)
LEMMA DirtierMatches ==
    ASSUME NEW w, NEW v, v.size = w.size, v.scrollRect = w.scrollRect,
           v.scrollOffset = w.scrollOffset, w.dirty \subseteq v.dirty,
           \A t \in 1..w.size : t \notin v.dirty => v.content[t] = w.content[t],
           NEW V, Matches(V, w)
    PROVE  Matches(V, v)
  BY DEF Matches

(* A frame scrolls: what the store will show moves as the page does.       *)
(* The content c is that of w, with r scrolled by k.                       *)
Scrolled(w, c, r, k) ==
    /\ \A t \in 1..w.size : t \notin r => c[t] = w.content[t]
    /\ \A t \in r : t - k \in r => c[t] = w.content[t - k]

LEMMA ScrolledMatches ==
    ASSUME NEW w, WebOK(w), NEW k \in Int, NEW r, InPage(r, k, w),
           NEW v, v.size = w.size, Scrolled(w, v.content, r, k), RecordsScroll(w, v, r, k),
           NEW V, V \in Stores(w.size), Matches(V, w)
    PROVE  Matches(V, v)
  <1>r. r \subseteq 1..w.size BY DEF InPage
  <1>0. w.size \in Nat /\ r \in SUBSET Int /\ w.scrollOffset \in Int
    BY <1>r, WebFields DEF WebOK
  <1>c. /\ \A t \in 1..w.size : t \notin r => v.content[t] = w.content[t]
        /\ \A t \in r : t - k \in r => v.content[t] = w.content[t - k]
    BY DEF Scrolled
  <1> SUFFICES ASSUME NEW t \in 1..w.size, t \notin v.dirty, v.content[t] # 0
               PROVE  ScrollStore(V, v.scrollRect, v.scrollOffset)[t]
                        \in {v.content[t], Stale}
    BY DEF Matches
  <1>1. \A s \in 1..w.size : s \notin w.dirty /\ w.content[s] # 0 =>
           ScrollStore(V, w.scrollRect, w.scrollOffset)[s] \in {w.content[s], Stale}
    BY DEF Matches
  <1>2. CASE /\ w.scrollRect \in {{}, r} /\ v.dirty = ScrolledDirt(w, r, k)
             /\ v.scrollRect = r /\ v.scrollOffset = w.scrollOffset + k
    <2> DEFINE o == w.scrollOffset
    <2>1. IF t \in r THEN t - k \in r /\ t - k \notin w.dirty ELSE t \notin w.dirty
      BY <1>0, <1>2, ScrolledDirtOf
    <2>2. CASE t \notin r
      <3>1. ScrollStore(V, r, v.scrollOffset)[t] = V[t] BY <2>2, ScrolledAt
      <3>2. ScrollStore(V, w.scrollRect, o)[t] = V[t] BY <1>2, <2>2, ScrolledAt
      <3> QED BY <1>c, <1>1, <1>2, <2>1, <2>2, <3>1, <3>2
    <2>3. CASE t \in r
      <3> DEFINE s == t - k
      <3>1. s \in r /\ s \in 1..w.size /\ s \notin w.dirty /\ v.content[t] = w.content[s]
        BY <1>r, <1>c, <2>1, <2>3
      <3>2. ScrollStore(V, w.scrollRect, o)[s] \in {w.content[s], Stale} BY <1>1, <3>1
      <3>3. t - v.scrollOffset = s - o /\ s - o \in Int BY <1>0, <1>2
      <3>4. CASE w.scrollRect = {}
        <4>1. o = 0 BY <3>4 DEF WebOK
        <4>2. t - v.scrollOffset = s BY <1>0, <3>3, <4>1
        <4> HIDE DEF s
        <4>3. ScrollStore(V, w.scrollRect, o)[s] = V[s] BY <3>1, <3>4, ScrolledAt
        <4>4. ScrollStore(V, r, v.scrollOffset)[t] = V[s] BY <2>3, <3>1, <4>2, ScrolledAt
        <4> QED BY <1>2, <3>1, <3>2, <4>3, <4>4
      <3>5. CASE w.scrollRect = r
        <4>1. s - o \in r
          <5>1. \A j \in w.scrollRect \cap (1..w.size) :
                  j - w.scrollOffset \notin w.scrollRect => j \in w.dirty
            BY DEF WebOK
          <5> HIDE DEF s
          <5> QED BY <3>1, <3>5, <5>1
        <4> HIDE DEF s, o
        <4>2. s - o \in 1..w.size BY <1>r, <4>1
        <4>3. ScrollStore(V, w.scrollRect, o)[s] = V[s - o] BY <3>1, <3>5, <4>1, <4>2, ScrolledAt
        <4>4. ScrollStore(V, r, v.scrollOffset)[t] = V[s - o]
          BY <2>3, <3>3, <4>1, <4>2, ScrolledAt
        <4> QED BY <1>2, <3>1, <3>2, <4>3, <4>4
      <3> QED BY <1>2, <3>4, <3>5
    <2> QED BY <2>2, <2>3
  <1>3. CASE /\ v.dirty = w.dirty \cup r
             /\ v.scrollRect = w.scrollRect /\ v.scrollOffset = w.scrollOffset
    BY <1>c, <1>1, <1>3
  <1>4. CASE \E x : /\ x.dirty = w.dirty \cup (w.scrollRect \cap (1..w.size))
                    /\ v.dirty = ScrolledDirt(x, r, k)
                    /\ v.scrollRect = r /\ v.scrollOffset = k
    <2>0. PICK x : /\ x.dirty = w.dirty \cup (w.scrollRect \cap (1..w.size))
                   /\ v.dirty = ScrolledDirt(x, r, k)
                   /\ v.scrollRect = r /\ v.scrollOffset = k
      BY <1>4
    <2>1. IF t \in r THEN t - k \in r /\ t - k \notin x.dirty ELSE t \notin x.dirty
      BY <1>0, <2>0, ScrolledDirtOf
    <2>2. CASE t \notin r
      <3>0. t \notin w.dirty /\ t \notin w.scrollRect BY <2>0, <2>1, <2>2
      <3>1. ScrollStore(V, r, k)[t] = V[t] BY <2>2, ScrolledAt
      <3>2. ScrollStore(V, w.scrollRect, w.scrollOffset)[t] = V[t] BY <3>0, ScrolledAt
      <3> QED BY <1>c, <1>1, <2>0, <2>2, <3>0, <3>1, <3>2
    <2>3. CASE t \in r
      <3> DEFINE s == t - k
      <3>1. s \in r /\ s \in 1..w.size /\ s \notin w.dirty /\ s \notin w.scrollRect
            /\ v.content[t] = w.content[s] /\ t - k = s
        BY <1>r, <1>c, <2>0, <2>1, <2>3
      <3> HIDE DEF s
      <3>2. ScrollStore(V, w.scrollRect, w.scrollOffset)[s] \in {w.content[s], Stale}
        BY <1>1, <3>1
      <3>3. ScrollStore(V, w.scrollRect, w.scrollOffset)[s] = V[s] BY <3>1, ScrolledAt
      <3>4. ScrollStore(V, r, k)[t] = V[s] BY <2>3, <3>1, ScrolledAt
      <3> QED BY <2>0, <3>1, <3>2, <3>3, <3>4
    <2> QED BY <2>2, <2>3
  <1> QED BY <1>2, <1>3, <1>4 DEF RecordsScroll
-----------------------------------------------------------------------------
(* What the two sides may rely on, one elementary change at a time.        *)

LEMMA PromisesSame ==
    ASSUME NEW u, NEW w, NEW tw, NEW tu, NEW sl, Promises(u, w, tw, tu, sl),
           NEW v, v.current = u.current, v.waiting = u.waiting,
           v.store = u.store \/ v.store = << >>,
           NEW x, x.stateID = w.stateID, x.shouldSend = w.shouldSend, x.waiting => w.waiting
    PROVE  Promises(v, x, tw, tu, sl)
  BY DEF Promises, Arrives, OneSize, UIWait, WebWait

(* One more message for the web process.                                   *)
LEMMA WebWaitMore ==
    ASSUME NEW w, NEW tw \in Seq(WebMessage), NEW tu, WebWait(w, tw, tu), NEW n \in WebMessage
    PROVE  WebWait(w, Append(tw, n), tu)
  <1>1. \A k \in DOMAIN tw : k \in DOMAIN Append(tw, n) /\ Append(tw, n)[k] = tw[k] OBVIOUS
  <1> QED BY <1>1 DEF WebWait

LEMMA UIWaitMore ==
    ASSUME NEW u, NEW w, NEW tw \in Seq(WebMessage), NEW tu, NEW sl, UIWait(u, w, tw, tu, sl),
           NEW n \in WebMessage
    PROVE  UIWait(u, w, Append(tw, n), tu, sl)
  <1>1. \A k \in DOMAIN tw : k \in DOMAIN Append(tw, n) /\ Append(tw, n)[k] = tw[k] OBVIOUS
  <1> QED BY <1>1 DEF UIWait

LEMMA PromisesMore ==
    ASSUME NEW u, NEW w, NEW tw \in Seq(WebMessage), NEW tu, NEW sl, Promises(u, w, tw, tu, sl),
           NEW n \in WebMessage
    PROVE  Promises(u, w, Append(tw, n), tu, sl)
  BY UIWaitMore, WebWaitMore DEF Promises

LEMMA PromisesAsk ==
    ASSUME NEW u \in UIState, NEW w \in WebState, NEW tw \in Seq(WebMessage), NEW tu, NEW sl,
           Promises(u, w, tw, tu, sl), w.stateID <= u.next, u.current < u.next,
           NEW q \in Request, q.id = u.next,
           NEW v, v.current = u.current, v.store = u.store, v.waiting = q.respondImmediately
    PROVE  Promises(v, w, Append(tw, q), tu, sl)
  <1>0. u.next \in Nat /\ w.stateID \in Nat /\ u.current \in Nat BY UIFields, WebFields
  <1>1. q \in WebMessage /\ IsRequest(q) BY DEF WebMessage, Request, IsRequest
  <1>2. Arrives(v, w, tu, sl) /\ OneSize(v, tu, sl) BY DEF Promises, Arrives, OneSize
  <1>3. WebWait(w, Append(tw, q), tu) BY <1>1, WebWaitMore DEF Promises
  <1>4. UIWait(v, w, Append(tw, q), tu, sl)
    <2> SUFFICES ASSUME v.waiting, sl = << >>, \A k \in DOMAIN tu : ~IsState(tu[k])
                 PROVE  \E k \in DOMAIN Append(tw, q) :
                           /\ IsRequest(Append(tw, q)[k]) /\ Append(tw, q)[k].respondImmediately
                           /\ Append(tw, q)[k].id > w.stateID \/ w.shouldSend
      BY DEF UIWait
    <2>1. w.shouldSend \/ u.current = w.stateID BY DEF Promises, Arrives
    <2>2. q.id > w.stateID \/ w.shouldSend BY <1>0, <2>1
    <2>3. Len(tw) + 1 \in DOMAIN Append(tw, q) /\ Append(tw, q)[Len(tw) + 1] = q OBVIOUS
    <2> QED BY <1>1, <2>2, <2>3
  <1> QED BY <1>2, <1>3, <1>4 DEF Promises

(* The web process takes its oldest message.                               *)
LEMMA TailOfRequests ==
    ASSUME NEW tw \in Seq(WebMessage), tw # << >>
    PROVE  /\ Head(tw) = tw[1] /\ 1 \in DOMAIN tw
           /\ \A k \in DOMAIN tw : k # 1 =>
                k - 1 \in DOMAIN Tail(tw) /\ Tail(tw)[k - 1] = tw[k]
  OBVIOUS

LEMMA UIWaitTail ==
    ASSUME NEW u, NEW w, NEW tw \in Seq(WebMessage), tw # << >>, NEW tu, NEW sl,
           UIWait(u, w, tw, tu, sl), NEW x,
           \/ ~IsRequest(tw[1]) /\ x.stateID = w.stateID /\ x.shouldSend = w.shouldSend
           \/ ~tw[1].respondImmediately /\ x.shouldSend
           \/ tw[1].id = w.stateID /\ ~w.shouldSend /\ w.stateID \in Nat /\ x = w
    PROVE  UIWait(u, x, Tail(tw), tu, sl)
  <1> SUFFICES ASSUME u.waiting, sl = << >>, \A k \in DOMAIN tu : ~IsState(tu[k])
               PROVE  \E k \in DOMAIN Tail(tw) :
                         /\ IsRequest(Tail(tw)[k]) /\ Tail(tw)[k].respondImmediately
                         /\ Tail(tw)[k].id > x.stateID \/ x.shouldSend
    BY DEF UIWait
  <1>1. PICK k \in DOMAIN tw : /\ IsRequest(tw[k]) /\ tw[k].respondImmediately
                               /\ tw[k].id > w.stateID \/ w.shouldSend
    BY DEF UIWait
  <1>2. k # 1 BY <1>1
  <1>3. k - 1 \in DOMAIN Tail(tw) /\ Tail(tw)[k - 1] = tw[k] BY <1>2, TailOfRequests
  <1> QED BY <1>1, <1>3

LEMMA WebWaitTail ==
    ASSUME NEW w, NEW tw \in Seq(WebMessage), tw # << >>, NEW tu, WebWait(w, tw, tu), NEW x,
           \/ ~x.waiting
           \/ /\ x.stateID = w.stateID /\ (x.waiting => w.waiting)
              /\ tw[1].type # "DidUpdate" /\ ~(IsRequest(tw[1]) /\ tw[1].id > w.stateID)
    PROVE  WebWait(x, Tail(tw), tu)
  <1>1. CASE ~x.waiting BY <1>1 DEF WebWait
  <1>2. CASE x.waiting
    <2> SUFFICES ASSUME NEW k \in DOMAIN tw,
                        tw[k].type = "DidUpdate" \/ (IsRequest(tw[k]) /\ tw[k].id > w.stateID)
                 PROVE  \E j \in DOMAIN Tail(tw) :
                           \/ Tail(tw)[j].type = "DidUpdate"
                           \/ IsRequest(Tail(tw)[j]) /\ Tail(tw)[j].id > x.stateID
      BY <1>2 DEF WebWait
    <2>1. k # 1 BY <1>2
    <2>2. k - 1 \in DOMAIN Tail(tw) /\ Tail(tw)[k - 1] = tw[k] BY <2>1, TailOfRequests
    <2> QED BY <1>2, <2>2
  <1> QED BY <1>1, <1>2

(* The web process announces its state to the queue.                       *)
LEMMA PromisesSendsState ==
    ASSUME NEW u \in UIState, NEW w \in WebState, NEW tw, NEW tu \in Seq(UIMessage),
           Answered(u, w, tu, << >>), Arrives(u, w, tu, << >>), OneSize(u, tu, << >>),
           WebWait(w, tw, tu), w.shouldSend, NEW m \in UIMessage, IsState(m), m.id = w.stateID,
           NEW v, v.stateID = w.stateID, ~v.shouldSend, v.waiting => w.waiting
    PROVE  Promises(u, v, tw, Append(tu, m), << >>)
  <1> DEFINE tv == Append(tu, m)
             n == Len(tu)
  <1>0. n \in Nat /\ w.stateID \in Nat /\ u.current \in Nat BY WebFields, UIFields
  <1>1. \A k \in DOMAIN tu : tu[k].id \in Nat BY MessageFields
  <1>2. /\ DOMAIN tv = 1..(n + 1) /\ DOMAIN tu = 1..n /\ tv[n + 1] = m
        /\ \A k \in 1..n : tv[k] = tu[k]
    OBVIOUS
  <1> HIDE DEF tv
  <1>3. u.current < w.stateID /\ \A k \in DOMAIN tu : tu[k].id < w.stateID BY DEF Answered
  <1>4. Arrives(u, v, tv, << >>)
    <2>1. \A k \in DOMAIN tv : IsState(tv[k]) => u.current < tv[k].id
      BY <1>0, <1>2, <1>3 DEF Arrives
    <2>2. IsState(tv[n + 1]) /\ tv[n + 1].id = w.stateID /\ n + 1 \in DOMAIN tv BY <1>0, <1>2
    <2>3. ASSUME NEW k \in DOMAIN tv
          PROVE  tv[k].id <= u.current \/ \E j \in 1..k : IsState(tv[j]) /\ tv[k].id <= tv[j].id
      <3>1. CASE k = n + 1 BY <1>0, <2>2, <3>1
      <3>2. CASE k \in 1..n
        <4>1. tu[k].id <= u.current \/ \E j \in 1..k : IsState(tu[j]) /\ tu[k].id <= tu[j].id
          BY <1>2, <3>2 DEF Arrives
        <4>2. \A j \in 1..k : tv[j] = tu[j] BY <1>0, <1>2, <3>2
        <4> QED BY <3>2, <4>1, <4>2
      <3> QED BY <1>0, <1>2, <3>1, <3>2
    <2> QED BY <2>1, <2>2, <2>3 DEF Arrives
  <1>5. OneSize(u, tv, << >>)
    <2>1. \A k \in DOMAIN tv : k = n + 1 \/ (k \in DOMAIN tu /\ tv[k] = tu[k]) BY <1>0, <1>2
    <2>2. m.id # u.current /\ \A k \in DOMAIN tu : tu[k].id # m.id BY <1>0, <1>1, <1>3
    <2> QED BY <1>2, <2>1, <2>2 DEF OneSize
  <1>6. UIWait(u, v, tw, tv, << >>)
    <2>1. n + 1 \in DOMAIN tv /\ IsState(tv[n + 1]) BY <1>0, <1>2
    <2> QED BY <2>1 DEF UIWait
  <1>7. WebWait(v, tw, tv)
    <2>1. \A k \in DOMAIN tu : k \in DOMAIN tv /\ tv[k] = tu[k] BY <1>0, <1>2
    <2> QED BY <2>1 DEF WebWait
  <1>8. Promises(u, v, tw, tv, << >>) BY <1>4, <1>5, <1>6, <1>7 DEF Promises
  <1> QED BY <1>8 DEF tv

(* And to the wait.                                                        *)
LEMMA PromisesFills ==
    ASSUME NEW u \in UIState, NEW w \in WebState, NEW tw, NEW tu \in Seq(UIMessage), NEW sl,
           SlotOK(sl), Answered(u, w, tu, sl), Arrives(u, w, tu, sl), OneSize(u, tu, sl),
           WebWait(w, tw, tu), \A k \in DOMAIN tu : ~IsState(tu[k]),
           w.shouldSend, NEW m \in UIMessage, IsState(m), m.id = w.stateID,
           NEW v, v.stateID = w.stateID, ~v.shouldSend, v.waiting => w.waiting
    PROVE  Promises(u, v, tw, tu, <<m>>)
  <1> DEFINE s == <<m>>
  <1>0. w.stateID \in Nat /\ u.current \in Nat BY WebFields, UIFields
  <1>1. \A k \in DOMAIN tu : tu[k].id \in Nat BY MessageFields
  <1>2. s[1] = m /\ s # << >> OBVIOUS
  <1> HIDE DEF s
  <1>3. u.current < w.stateID /\ \A k \in DOMAIN tu : tu[k].id < w.stateID BY DEF Answered
  <1>4. \A k \in DOMAIN tu : tu[k].id <= m.id /\ tu[k].id # m.id BY <1>0, <1>1, <1>3
  <1>5. Arrives(u, v, tu, s) BY <1>2, <1>3, <1>4 DEF Arrives
  <1>6. OneSize(u, tu, s) BY <1>2, <1>4 DEF OneSize
  <1>7. UIWait(u, v, tw, tu, s) /\ WebWait(v, tw, tu) BY <1>2 DEF UIWait, WebWait
  <1>8. Promises(u, v, tw, tu, s) BY <1>5, <1>6, <1>7 DEF Promises
  <1> QED BY <1>8 DEF s

(* The web process sends an Update.                                        *)
LEMMA PromisesSendsUpdate ==
    ASSUME NEW u \in UIState, NEW w \in WebState, NEW tw, NEW tu \in Seq(UIMessage), NEW sl,
           SlotOK(sl), Answered(u, w, tu, sl), Arrives(u, w, tu, sl), OneSize(u, tu, sl),
           UIWait(u, w, tw, tu, sl), ~w.shouldSend,
           NEW m \in UIMessage, ~IsState(m), m.id = w.stateID, m.info.size = w.size,
           NEW v, v.stateID = w.stateID, ~v.shouldSend
    PROVE  Promises(u, v, tw, Append(tu, m), sl)
  <1> DEFINE tv == Append(tu, m)
             n == Len(tu)
  <1>0. n \in Nat /\ w.stateID \in Nat /\ u.current \in Nat BY WebFields, UIFields
  <1>1. \A k \in DOMAIN tu : tu[k].id \in Nat BY MessageFields
  <1>2. /\ DOMAIN tv = 1..(n + 1) /\ DOMAIN tu = 1..n /\ tv[n + 1] = m
        /\ \A k \in 1..n : tv[k] = tu[k]
    OBVIOUS
  <1> HIDE DEF tv
  <1>m. m.type = "Update" /\ \A k \in DOMAIN tv : IsState(tv[k]) => k \in DOMAIN tu /\ tv[k] = tu[k]
    BY <1>0, <1>2, MessageFields
  <1>3. \A k \in DOMAIN tu : k \in DOMAIN tv /\ tv[k] = tu[k] BY <1>0, <1>2
  <1>4. Arrives(u, v, tv, sl)
    <2>1. \A k \in DOMAIN tv : IsState(tv[k]) => u.current < tv[k].id /\ sl = << >>
      BY <1>m DEF Arrives
    <2>2. \/ u.current = w.stateID
          \/ sl # << >> /\ sl[1].id = w.stateID
          \/ \E k \in DOMAIN tu : IsState(tu[k]) /\ tu[k].id = w.stateID
      BY DEF Arrives
    <2>3. ASSUME NEW k \in DOMAIN tv
          PROVE  \/ tv[k].id <= u.current
                 \/ sl # << >> /\ tv[k].id <= sl[1].id
                 \/ \E j \in 1..k : IsState(tv[j]) /\ tv[k].id <= tv[j].id
      <3>1. CASE k = n + 1
        <4>1. tv[k].id = w.stateID /\ w.stateID <= w.stateID BY <1>0, <1>2, <3>1
        <4>2. \A j \in DOMAIN tu : j \in 1..k BY <1>0, <1>2, <3>1
        <4> QED BY <1>3, <2>2, <4>1, <4>2
      <3>2. CASE k \in 1..n
        <4>1. \/ tu[k].id <= u.current
              \/ sl # << >> /\ tu[k].id <= sl[1].id
              \/ \E j \in 1..k : IsState(tu[j]) /\ tu[k].id <= tu[j].id
          BY <1>2, <3>2 DEF Arrives
        <4>2. \A j \in 1..k : tv[j] = tu[j] BY <1>0, <1>2, <3>2
        <4>3. tv[k] = tu[k] BY <1>2, <3>2
        <4> QED BY <4>1, <4>2, <4>3
      <3> QED BY <1>0, <1>2, <3>1, <3>2
    <2>4. sl # << >> => u.current < sl[1].id BY DEF Arrives
    <2>5. \/ u.current = v.stateID
          \/ sl # << >> /\ sl[1].id = v.stateID
          \/ \E k \in DOMAIN tv : IsState(tv[k]) /\ tv[k].id = v.stateID
      BY <1>3, <2>2
    <2> QED BY <2>1, <2>3, <2>4, <2>5, Zenon DEF Arrives
  <1>5. OneSize(u, tv, sl)
    <2>1. \A k \in DOMAIN tv : k = n + 1 \/ (k \in DOMAIN tu /\ tv[k] = tu[k]) BY <1>0, <1>2
    <2>2. \A k \in DOMAIN tu : tu[k].id = m.id => tu[k].info.size = m.info.size
      BY DEF Answered, Fits
    <2>3. m.id = u.current /\ u.store # << >> => m.info.size = Len(u.store)
      BY DEF Answered
    <2>4. sl # << >> /\ sl[1].id = m.id => sl[1].info.size = m.info.size
      BY DEF Answered, Fits
    <2> QED BY <1>2, <2>1, <2>2, <2>3, <2>4 DEF OneSize
  <1>6. UIWait(u, v, tw, tv, sl) BY <1>3 DEF UIWait
  <1>7. WebWait(v, tw, tv)
    <2>1. n + 1 \in DOMAIN tv BY <1>0, <1>2
    <2> QED BY <1>2, <1>m, <2>1 DEF WebWait
  <1>8. Promises(u, v, tw, tv, sl) BY <1>4, <1>5, <1>6, <1>7 DEF Promises
  <1> QED BY <1>8 DEF tv

(* tv and tu without its p-th message, index by index.                     *)
LEMMA WithoutIndex ==
    ASSUME NEW tu \in Seq(UIMessage), NEW p \in DOMAIN tu, NEW tv, Without(tv, tu, p)
    PROVE  /\ tv \in Seq(UIMessage)
           /\ \A j \in DOMAIN tu : j # p => \E k \in DOMAIN tv : tv[k] = tu[j]
           /\ \A k \in DOMAIN tv :
                \E i \in DOMAIN tu :
                   /\ i # p /\ tv[k] = tu[i]
                   /\ \A j \in 1..i : j # p => \E l \in 1..k : tv[l] = tu[j]
  <1> DEFINE n == Len(tu)
             back(j) == IF j < p THEN j ELSE j - 1
  <1>0. n \in Nat /\ p \in 1..n /\ DOMAIN tu = 1..n BY DEF Without
  <1>1. tv \in Seq(UIMessage) /\ DOMAIN tv = 1..(n - 1)
        /\ \A k \in 1..(n - 1) : tv[k] = tu[IF k < p THEN k ELSE k + 1]
    BY <1>0 DEF Without
  <1>2. ASSUME NEW j \in 1..n, j # p
        PROVE  back(j) \in 1..(n - 1) /\ tv[back(j)] = tu[j]
    <2>1. back(j) \in 1..(n - 1) BY <1>0, <1>2
    <2>2. (IF back(j) < p THEN back(j) ELSE back(j) + 1) = j BY <1>0, <1>2
    <2> HIDE DEF back
    <2> QED BY <1>1, <2>1, <2>2
  <1>3. ASSUME NEW k \in 1..(n - 1)
        PROVE  \E i \in 1..n :
                   /\ i # p /\ tv[k] = tu[i]
                   /\ \A j \in 1..i : j # p => \E l \in 1..k : tv[l] = tu[j]
    <2> DEFINE i == IF k < p THEN k ELSE k + 1
    <2>1. i \in 1..n /\ i # p /\ tv[k] = tu[i] BY <1>0, <1>1
    <2>2. ASSUME NEW j \in 1..i, j # p PROVE \E l \in 1..k : tv[l] = tu[j]
      <3>1. back(j) \in 1..k BY <1>0, <2>2
      <3>2. j \in 1..n BY <1>0, <2>1
      <3> HIDE DEF back
      <3> QED BY <1>2, <2>2, <3>1, <3>2
    <2> HIDE DEF i
    <2> QED BY <2>1, <2>2
  <1> QED BY <1>0, <1>1, <1>2, <1>3

(* A state arrives from the queue.                                         *)
LEMMA PromisesArrives ==
    ASSUME NEW u \in UIState, NEW w \in WebState, NEW tw, NEW tu \in Seq(UIMessage),
           Answered(u, w, tu, << >>), Promises(u, w, tw, tu, << >>),
           NEW p \in DOMAIN tu, IsState(tu[p]), \A k \in 1..(p - 1) : ~IsState(tu[k]),
           NEW tv, Without(tv, tu, p),
           NEW v, v.current = tu[p].id, ~v.waiting,
           v.store # << >> => Len(v.store) = tu[p].info.size
    PROVE  Promises(v, w, tw, tv, << >>)
  <1>0. w.stateID \in Nat /\ u.current \in Nat /\ p \in 1..Len(tu) /\ Len(tu) \in Nat
        /\ DOMAIN tu = 1..Len(tu)
    BY WebFields, UIFields
  <1>1. \A k \in DOMAIN tu : tu[k].id \in Nat BY MessageFields
  <1>2. /\ tv \in Seq(UIMessage)
        /\ \A j \in DOMAIN tu : j # p => \E k \in DOMAIN tv : tv[k] = tu[j]
        /\ \A k \in DOMAIN tv :
             \E i \in DOMAIN tu :
                /\ i # p /\ tv[k] = tu[i]
                /\ \A j \in 1..i : j # p => \E l \in 1..k : tv[l] = tu[j]
    BY WithoutIndex
  <1>3. u.current < tu[p].id /\ tu[p].id <= w.stateID BY DEF Promises, Arrives, Answered
  <1>4. \A k \in DOMAIN tu : IsState(tu[k]) /\ k # p => tu[p].id < tu[k].id
    <2> SUFFICES ASSUME NEW k \in DOMAIN tu, IsState(tu[k]), k # p PROVE tu[p].id < tu[k].id
      OBVIOUS
    <2>1. ~(k \in 1..(p - 1)) OBVIOUS
    <2>2. p \in 1..(k - 1) BY <1>0, <2>1
    <2> QED BY <2>2 DEF Answered
  <1>5. Arrives(v, w, tv, << >>)
    <2>1. \A k \in DOMAIN tv : IsState(tv[k]) => v.current < tv[k].id BY <1>2, <1>4
    <2>2. ~w.shouldSend => \/ v.current = w.stateID
                           \/ \E k \in DOMAIN tv : IsState(tv[k]) /\ tv[k].id = w.stateID
      <3> SUFFICES ASSUME ~w.shouldSend, v.current # w.stateID
                   PROVE  \E k \in DOMAIN tv : IsState(tv[k]) /\ tv[k].id = w.stateID
        OBVIOUS
      <3>1. u.current # w.stateID BY <1>0, <1>1, <1>3
      <3>2. PICK k \in DOMAIN tu : IsState(tu[k]) /\ tu[k].id = w.stateID
        BY <3>1 DEF Promises, Arrives
      <3>3. k # p BY <3>2
      <3> QED BY <1>2, <3>2, <3>3
    <2>3. ASSUME NEW k \in DOMAIN tv
          PROVE  tv[k].id <= v.current \/ \E j \in 1..k : IsState(tv[j]) /\ tv[k].id <= tv[j].id
      <3>1. PICK i \in DOMAIN tu :
                /\ i # p /\ tv[k] = tu[i]
                /\ \A j \in 1..i : j # p => \E l \in 1..k : tv[l] = tu[j]
        BY <1>2
      <3>2. tu[i].id <= u.current \/ \E j \in 1..i : IsState(tu[j]) /\ tu[i].id <= tu[j].id
        BY DEF Promises, Arrives
      <3>3. CASE tu[i].id <= u.current BY <1>0, <1>1, <1>3, <3>1, <3>3
      <3>4. CASE \E j \in 1..i : IsState(tu[j]) /\ tu[i].id <= tu[j].id
        <4>1. PICK j \in 1..i : IsState(tu[j]) /\ tu[i].id <= tu[j].id BY <3>4
        <4>2. CASE j = p BY <3>1, <4>1, <4>2
        <4>3. CASE j # p BY <3>1, <4>1, <4>3
        <4> QED BY <4>2, <4>3
      <3> QED BY <3>2, <3>3, <3>4
    <2> QED BY <2>1, <2>2, <2>3 DEF Arrives
  <1>6. OneSize(v, tv, << >>)
    <2>1. \A k \in DOMAIN tv : \E i \in DOMAIN tu : tv[k] = tu[i] BY <1>2
    <2>2. \A k \in DOMAIN tu : \A j \in DOMAIN tu :
             tu[j].id = tu[k].id => tu[j].info.size = tu[k].info.size
      BY DEF Promises, OneSize
    <2> QED BY <2>1, <2>2 DEF OneSize
  <1>7. UIWait(v, w, tw, tv, << >>) BY DEF UIWait
  <1>8. WebWait(w, tw, tv)
    <2>1. \A k \in DOMAIN tu : tu[k].type = "Update" => k # p BY DEF IsState
    <2>2. WebWait(w, tw, tu) BY DEF Promises
    <2>3. \A k \in DOMAIN tu : tu[k].type = "Update" => \E l \in DOMAIN tv : tv[l] = tu[k]
      BY <1>2, <2>1
    <2> QED BY <2>2, <2>3 DEF WebWait
  <1> QED BY <1>5, <1>6, <1>7, <1>8 DEF Promises

(* A state arrives through the wait.                                       *)
LEMMA PromisesTakes ==
    ASSUME NEW u \in UIState, NEW w \in WebState, NEW tw, NEW tu \in Seq(UIMessage), NEW sl,
           SlotOK(sl), Answered(u, w, tu, sl), Promises(u, w, tw, tu, sl), sl # << >>,
           NEW v, v.current = sl[1].id, ~v.waiting,
           v.store # << >> => Len(v.store) = sl[1].info.size
    PROVE  Promises(v, w, tw, tu, << >>)
  <1>0. w.stateID \in Nat /\ u.current \in Nat /\ sl[1].id \in Nat
    BY WebFields, UIFields, SlotMessage, MessageFields
  <1>1. \A k \in DOMAIN tu : tu[k].id \in Nat BY MessageFields
  <1>2. \A k \in DOMAIN tu : ~IsState(tu[k]) BY DEF Promises, Arrives
  <1>3. u.current < sl[1].id /\ sl[1].id <= w.stateID BY DEF Promises, Arrives, Answered
  <1>4. ~w.shouldSend => v.current = w.stateID
    <2>1. u.current # w.stateID BY <1>0, <1>3
    <2> QED BY <1>2, <2>1 DEF Promises, Arrives
  <1>5. ASSUME NEW k \in DOMAIN tu PROVE tu[k].id <= v.current
    <2>1. \/ tu[k].id <= u.current
          \/ tu[k].id <= sl[1].id
          \/ \E j \in 1..k : IsState(tu[j])
      BY DEF Promises, Arrives
    <2>2. \A j \in 1..k : j \in DOMAIN tu OBVIOUS
    <2> QED BY <1>0, <1>1, <1>2, <1>3, <2>1, <2>2
  <1>6. Arrives(v, w, tu, << >>) BY <1>2, <1>4, <1>5 DEF Arrives
  <1>7. OneSize(v, tu, << >>)
    <2>1. \A k \in DOMAIN tu : sl[1].id = tu[k].id => sl[1].info.size = tu[k].info.size
      BY DEF Promises, OneSize
    <2>2. \A k \in DOMAIN tu : \A j \in DOMAIN tu :
             tu[j].id = tu[k].id => tu[j].info.size = tu[k].info.size
      BY DEF Promises, OneSize
    <2> QED BY <2>1, <2>2 DEF OneSize
  <1>8. UIWait(v, w, tw, tu, << >>) /\ WebWait(w, tw, tu) BY DEF UIWait, Promises
  <1> QED BY <1>6, <1>7, <1>8 DEF Promises

(* The UI process handles an Update, and acknowledges it unless it ignores *)
(* it.                                                                     *)
LEMMA PromisesUpdates ==
    ASSUME NEW u \in UIState, NEW w \in WebState, NEW tw \in Seq(WebMessage),
           NEW tu \in Seq(UIMessage),
           Answered(u, w, tu, << >>), Promises(u, w, tw, tu, << >>),
           tu # << >>, ~IsState(tu[1]), NEW tv, Without(tv, tu, 1), NEW tx, NEW v,
           v.current = u.current, v.waiting = u.waiting,
           \/ tu[1].id < u.current /\ v.store = u.store /\ tx = tw
           \/ /\ tu[1].id >= u.current /\ tx = Append(tw, Plain("DidUpdate"))
              /\ \/ v.store = u.store
                 \/ Len(v.store) = IF u.store # << >> THEN Len(u.store) ELSE tu[1].info.size
    PROVE  Promises(v, w, tx, tv, << >>)
  <1>0. w.stateID \in Nat /\ u.current \in Nat /\ 1 \in DOMAIN tu BY WebFields, UIFields
  <1>1. \A k \in DOMAIN tu : tu[k].id \in Nat BY MessageFields
  <1>2. /\ tv \in Seq(UIMessage)
        /\ \A j \in DOMAIN tu : j # 1 => \E k \in DOMAIN tv : tv[k] = tu[j]
        /\ \A k \in DOMAIN tv :
             \E i \in DOMAIN tu :
                /\ i # 1 /\ tv[k] = tu[i]
                /\ \A j \in 1..i : j # 1 => \E l \in 1..k : tv[l] = tu[j]
    <2>1. PICK p : p = 1 OBVIOUS
    <2>2. p \in DOMAIN tu /\ Without(tv, tu, p) BY <1>0, <2>1
    <2>3. /\ tv \in Seq(UIMessage)
          /\ \A j \in DOMAIN tu : j # p => \E k \in DOMAIN tv : tv[k] = tu[j]
          /\ \A k \in DOMAIN tv :
               \E i \in DOMAIN tu :
                  /\ i # p /\ tv[k] = tu[i]
                  /\ \A j \in 1..i : j # p => \E l \in 1..k : tv[l] = tu[j]
      BY <2>2, WithoutIndex
    <2> QED BY <2>1, <2>3
  <1>3. tu[1].id <= u.current
    <2>1. \/ tu[1].id <= u.current
          \/ \E j \in 1..1 : IsState(tu[j])
      BY <1>0 DEF Promises, Arrives
    <2>2. \A j \in 1..1 : j = 1 OBVIOUS
    <2> QED BY <2>1, <2>2
  <1>4. Arrives(v, w, tv, << >>)
    <2>1. \A k \in DOMAIN tv : IsState(tv[k]) => v.current < tv[k].id
      BY <1>2 DEF Promises, Arrives
    <2>2. ~w.shouldSend => \/ v.current = w.stateID
                           \/ \E k \in DOMAIN tv : IsState(tv[k]) /\ tv[k].id = w.stateID
      <3> SUFFICES ASSUME ~w.shouldSend, v.current # w.stateID
                   PROVE  \E k \in DOMAIN tv : IsState(tv[k]) /\ tv[k].id = w.stateID
        OBVIOUS
      <3>2. PICK k \in DOMAIN tu : IsState(tu[k]) /\ tu[k].id = w.stateID
        BY DEF Promises, Arrives
      <3>3. k # 1 BY <3>2
      <3> QED BY <1>2, <3>2, <3>3
    <2>3. ASSUME NEW k \in DOMAIN tv
          PROVE  tv[k].id <= v.current \/ \E j \in 1..k : IsState(tv[j]) /\ tv[k].id <= tv[j].id
      <3>1. PICK i \in DOMAIN tu :
                /\ i # 1 /\ tv[k] = tu[i]
                /\ \A j \in 1..i : j # 1 => \E l \in 1..k : tv[l] = tu[j]
        BY <1>2
      <3>2. tu[i].id <= u.current \/ \E j \in 1..i : IsState(tu[j]) /\ tu[i].id <= tu[j].id
        BY DEF Promises, Arrives
      <3>3. CASE tu[i].id <= u.current BY <3>1, <3>3
      <3>4. CASE \E j \in 1..i : IsState(tu[j]) /\ tu[i].id <= tu[j].id
        <4>1. PICK j \in 1..i : IsState(tu[j]) /\ tu[i].id <= tu[j].id BY <3>4
        <4>2. j # 1 BY <4>1
        <4> QED BY <3>1, <4>1, <4>2
      <3> QED BY <3>2, <3>3, <3>4
    <2> QED BY <2>1, <2>2, <2>3 DEF Arrives
  <1>5. OneSize(v, tv, << >>)
    <2>1. \A k \in DOMAIN tv : \E i \in DOMAIN tu : tv[k] = tu[i] BY <1>2
    <2>2. \A k \in DOMAIN tu : \A j \in DOMAIN tu :
             tu[j].id = tu[k].id => tu[j].info.size = tu[k].info.size
      BY DEF Promises, OneSize
    <2>3. \A k \in DOMAIN tu : tu[k].id = u.current /\ u.store # << >> =>
             tu[k].info.size = Len(u.store)
      BY DEF Promises, OneSize
    <2>4. ASSUME NEW i \in DOMAIN tu, tu[i].id = v.current, v.store # << >>
          PROVE  tu[i].info.size = Len(v.store)
      <3>1. CASE v.store = u.store BY <2>3, <2>4, <3>1
      <3>2. CASE /\ tu[1].id >= u.current
                 /\ Len(v.store) = IF u.store # << >> THEN Len(u.store) ELSE tu[1].info.size
        <4>1. tu[1].id = u.current BY <1>0, <1>1, <1>3, <3>2
        <4> QED BY <1>0, <2>2, <2>3, <2>4, <3>2, <4>1
      <3> QED BY <3>1, <3>2
    <2> QED BY <2>1, <2>2, <2>4 DEF OneSize
  <1>6. tx \in Seq(WebMessage) /\ UIWait(u, w, tx, tu, << >>) /\ WebWait(w, tx, tu)
    <2> DEFINE n == Plain("DidUpdate")
    <2>1. n \in WebMessage BY DEF Plain, WebMessage, Notice
    <2>2. UIWait(u, w, tw, tu, << >>) /\ WebWait(w, tw, tu) BY DEF Promises
    <2>3. tx = tw \/ tx = Append(tw, n) OBVIOUS
    <2> HIDE DEF n
    <2> DEFINE e == << >>
    <2>4. UIWait(u, w, tw, tu, e) BY <2>2
    <2> HIDE DEF e
    <2>5. UIWait(u, w, Append(tw, n), tu, e) BY <2>1, <2>4, UIWaitMore
    <2>6. WebWait(w, Append(tw, n), tu) BY <2>1, <2>2, WebWaitMore
    <2>7. Append(tw, n) \in Seq(WebMessage) BY <2>1
    <2>8. UIWait(u, w, tx, tu, e) BY <2>3, <2>4, <2>5
    <2> QED BY <2>2, <2>3, <2>6, <2>7, <2>8 DEF e
  <1>7. UIWait(v, w, tx, tv, << >>)
    <2>1. \A k \in DOMAIN tu : IsState(tu[k]) => \E l \in DOMAIN tv : tv[l] = tu[k] BY <1>2
    <2> QED BY <1>6, <2>1 DEF UIWait
  <1>8. WebWait(w, tx, tv)
    <2> SUFFICES ASSUME w.waiting, NEW k \in DOMAIN tu, tu[k].type = "Update", tu[k].id = w.stateID
                 PROVE  \/ \E l \in DOMAIN tv : tv[l].type = "Update" /\ tv[l].id = w.stateID
                        \/ \E l \in DOMAIN tx : tx[l].type = "DidUpdate"
      BY <1>6 DEF WebWait
    <2>1. CASE k # 1 BY <1>2, <2>1
    <2>2. CASE k = 1
      <3>1. u.current <= w.stateID BY DEF Answered
      <3>2. ~(tu[1].id < u.current) BY <1>0, <2>2, <3>1
      <3>3. tx = Append(tw, Plain("DidUpdate")) BY <3>2
      <3>4. Len(tw) + 1 \in DOMAIN tx /\ tx[Len(tw) + 1] = Plain("DidUpdate") BY <3>3
      <3>5. Plain("DidUpdate").type = "DidUpdate" BY DEF Plain
      <3> QED BY <3>4, <3>5
    <2> QED BY <2>1, <2>2
  <1> QED BY <1>4, <1>5, <1>7, <1>8 DEF Promises
-----------------------------------------------------------------------------
(* The steps of the web process.                                           *)

(* A handler leaves: it made x of the drawing area, took its message if    *)
(* tw says so, and then displayed.                                         *)
LEMMA WebLeavesKeeps ==
    ASSUME TypeInv, NEW x, WebOK(x), x.sent = << >>, NEW tw \in Seq(WebMessage),
           Agree(ui, x, tw, toUI, slot),
           NEW v, WebOK(v), Displays(x, v), v.stateID = x.stateID, v.size = x.size,
           v.content = x.content, WebLeaves(v), toWeb' = tw, UNCHANGED <<ui, pc, rect, events>>
    PROVE  /\ QuietInv'
           /\ /\ WaitsOK /\ Arrives(ui, x, toUI, slot) /\ OneSize(ui, toUI, slot)
              /\ UIWait(ui, x, tw, toUI, slot) \/ (x.shouldSend /\ ~v.shouldSend)
              /\ WebWait(x, tw, toUI)
              => RaceFree'
           /\ ~(x.displayTimer /\ x.waiting) /\ TimerWhileWaiting' => SendsNothingDrawn
  <1>1. /\ WebOK(web') /\ web'.sent = << >> /\ web'.stateID = v.stateID /\ web'.size = v.size
        /\ web'.shouldSend = v.shouldSend /\ web'.waiting = v.waiting /\ web'.dirty = v.dirty
        /\ web'.scrollRect = v.scrollRect /\ web'.scrollOffset = v.scrollOffset
        /\ web'.displayTimer = v.displayTimer /\ web'.content = v.content
    BY WebSentEffect DEF WebLeaves
  <1>2. /\ ui' = ui /\ pc' = pc /\ rect' = rect /\ events' = events
        /\ UIOK(ui) /\ ui \in UIState /\ x \in WebState /\ v \in WebState
        /\ toUI \in Seq(UIMessage) /\ SlotOK(slot) /\ (pc # "blocked" => slot = << >>)
    BY DEF TypeInv, UIOK, WebOK
  <1>3. /\ slot' = IF Awaited(v.sent) THEN v.sent ELSE slot
        /\ toUI' = IF Awaited(v.sent) THEN toUI ELSE toUI \o v.sent
    BY DEF WebLeaves
  <1>4. Asked(ui, x, tw) /\ Answered(ui, x, toUI, slot) /\ Current(ui, x, toUI, slot)
    BY DEF Agree
  <1>5. Asked(ui', web', toWeb') BY <1>1, <1>2, <1>4 DEF Asked
  <1>6. SUFFICES /\ toUI' \in Seq(UIMessage) /\ SlotOK(slot') /\ (pc # "blocked" => slot' = << >>)
                 /\ Answered(ui, v, toUI', slot') /\ Current(ui, v, toUI', slot')
                 /\ /\ WaitsOK /\ Arrives(ui, x, toUI, slot) /\ OneSize(ui, toUI, slot)
                    /\ UIWait(ui, x, tw, toUI, slot) \/ (x.shouldSend /\ ~v.shouldSend)
                    /\ WebWait(x, tw, toUI)
                    => /\ pc = "blocked" => \A k \in DOMAIN toUI' : ~IsState(toUI'[k])
                       /\ Promises(ui, v, tw, toUI', slot')
                 /\ ~(x.displayTimer /\ x.waiting) /\ (v.displayTimer /\ v.waiting)
                      => SendsNothingDrawn
    <2>1. TypeInv' BY <1>1, <1>2, <1>6 DEF TypeInv
    <2>2. Answered(ui', web', toUI', slot') BY <1>1, <1>2, <1>6, AnsweredSame
    <2>3. Current(ui', web', toUI', slot')
      <3>1. \A V \in Stores(v.size) : Matches(V, v) => Matches(V, web') BY <1>1 DEF Matches
      <3>2. Len(toUI') \in Nat BY <1>6
      <3> QED BY <1>1, <1>2, <1>6, <3>1, <3>2, CurrentSame
    <2>4. Promises(ui, v, tw, toUI', slot') => Promises(ui', web', toWeb', toUI', slot')
      <3> SUFFICES ASSUME Promises(ui, v, tw, toUI', slot')
                   PROVE  Promises(ui', web', toWeb', toUI', slot')
        OBVIOUS
      <3> QED BY <1>1, <1>2, PromisesSame
    <2>5. QuietInv' BY <1>5, <2>1, <2>2, <2>3 DEF QuietInv, Agree
    <2>6. (v.displayTimer /\ v.waiting) <=> (web'.displayTimer /\ web'.waiting) BY <1>1
    <2>7. ~(x.displayTimer /\ x.waiting) /\ TimerWhileWaiting' => SendsNothingDrawn
      BY <1>6, <2>6 DEF TimerWhileWaiting
    <2>8. ASSUME WaitsOK, pc = "blocked" => \A k \in DOMAIN toUI' : ~IsState(toUI'[k])
          PROVE  WaitsOK'
      BY <1>2, <2>8 DEF WaitsOK
    <2> QED BY <1>6, <2>4, <2>5, <2>7, <2>8 DEF RaceFree
  <1>7. CASE v = x
    <2>1. v.sent = << >> /\ ~Awaited(v.sent) BY <1>7 DEF Awaited
    <2>2. slot' = slot /\ toUI' = toUI BY <1>2, <1>3, <2>1
    <2>3. WaitsOK => (pc = "blocked" => \A k \in DOMAIN toUI : ~IsState(toUI[k])) BY DEF WaitsOK
    <2> QED BY <1>2, <1>4, <1>7, <2>2, <2>3 DEF Promises
  <1>8. CASE v # x
    <2>1. PICK i \in Info :
            /\ Draws(x, v, i) /\ ~v.shouldSend
            /\ \/ /\ x.shouldSend /\ v.waiting = x.waiting
                  /\ v.displayTimer => x.displayTimer
                  /\ v.sent = <<DidUpdateBackingStoreStateMessage(x.stateID, i)>>
               \/ /\ ~x.shouldSend /\ v.waiting
                  /\ v.displayTimer => i.rects = {}
                  /\ v.sent = <<UpdateMessage(x.stateID, i)>>
      BY <1>8 DEF Displays
    <2>2. x.stateID \in Nat /\ i.size = x.size BY <1>2, <2>1, WebFields DEF Draws
    <2>3. CASE x.shouldSend
      <3> DEFINE m == DidUpdateBackingStoreStateMessage(x.stateID, i)
      <3>1. m \in UIMessage /\ IsState(m) /\ m.id = x.stateID /\ m.info = i
        BY <2>2 DEF DidUpdateBackingStoreStateMessage, UIMessage, IsState
      <3>2. v.sent = <<m>> /\ v.waiting = x.waiting /\ (v.displayTimer => x.displayTimer)
        BY <2>1, <2>3
      <3> HIDE DEF m
      <3>3. x.dirty = 1..x.size BY <2>3 DEF WebOK
      <3>4. i.rects \in {{}, 1..x.size}
        <4>1. i.rects \subseteq 1..x.size BY <2>2 DEF Info
        <4> QED BY <2>1, <3>3, <4>1 DEF Draws
      <3>5. Awaited(v.sent) <=> pc = "blocked" BY <3>1, <3>2 DEF Awaited, IsState
      <3>6. ~(x.displayTimer /\ x.waiting) => ~(v.displayTimer /\ v.waiting) BY <3>2
      <3>7. CASE pc = "blocked"
        <4>1. slot' = <<m>> /\ toUI' = toUI BY <1>3, <3>2, <3>5, <3>7
        <4>2. SlotOK(slot') BY <3>1, <4>1 DEF SlotOK
        <4>3. Answered(ui, v, toUI, <<m>>)
          BY <1>2, <1>4, <2>1, <2>2, <2>3, <3>1, <3>4, AnsweredFills
        <4>4. Current(ui, v, toUI, <<m>>)
          BY <1>2, <1>4, <2>1, <2>3, <3>1, CurrentFills
        <4>5. ASSUME WaitsOK, Arrives(ui, x, toUI, slot), OneSize(ui, toUI, slot),
                     WebWait(x, tw, toUI)
              PROVE  (\A k \in DOMAIN toUI : ~IsState(toUI[k])) /\ Promises(ui, v, tw, toUI, <<m>>)
          <5>1. \A k \in DOMAIN toUI : ~IsState(toUI[k]) BY <3>7, <4>5 DEF WaitsOK
          <5>2. v.waiting => x.waiting BY <3>2
          <5> QED BY <1>2, <1>4, <2>1, <2>3, <3>1, <4>5, <5>1, <5>2, PromisesFills
        <4> QED BY <1>2, <3>6, <3>7, <4>1, <4>2, <4>3, <4>4, <4>5
      <3>8. CASE pc # "blocked"
        <4>1. slot' = slot /\ toUI' = toUI \o <<m>> /\ slot = << >> BY <1>2, <1>3, <3>2, <3>5, <3>8
        <4>2. toUI' = Append(toUI, m) BY <1>2, <3>1, <4>1
        <4>3. toUI' \in Seq(UIMessage) BY <1>2, <3>1, <4>2
        <4>4. Answered(ui, v, Append(toUI, m), slot)
          BY <1>2, <1>4, <2>1, <2>2, <2>3, <3>1, <3>4, AnsweredSends
        <4>5. Current(ui, v, Append(toUI, m), slot)
          BY <1>2, <2>1, <3>1, <3>3, CurrentSendsState
        <4>6. ASSUME Arrives(ui, x, toUI, slot), OneSize(ui, toUI, slot), WebWait(x, tw, toUI)
              PROVE  Promises(ui, v, tw, Append(toUI, m), slot)
          <5>1. v.waiting => x.waiting BY <3>2
          <5>2. Promises(ui, v, tw, Append(toUI, m), << >>)
            BY <1>2, <1>4, <2>1, <2>3, <3>1, <4>1, <4>6, <5>1, PromisesSendsState
          <5> QED BY <4>1, <5>2
        <4> QED BY <1>2, <3>6, <3>8, <4>1, <4>2, <4>3, <4>4, <4>5, <4>6
      <3> QED BY <3>7, <3>8
    <2>4. CASE ~x.shouldSend
      <3> DEFINE m == UpdateMessage(x.stateID, i)
      <3>1. m \in UIMessage /\ ~IsState(m) /\ m.id = x.stateID /\ m.info = i
        BY <2>2 DEF UpdateMessage, UIMessage, IsState
      <3>2. v.sent = <<m>> /\ v.waiting /\ (v.displayTimer => i.rects = {}) BY <2>1, <2>4
      <3> HIDE DEF m
      <3>3. ~Awaited(v.sent) BY <3>1, <3>2 DEF Awaited, IsState
      <3>4. slot' = slot /\ toUI' = toUI \o <<m>> BY <1>3, <3>2, <3>3
      <3>5. toUI' = Append(toUI, m) BY <1>2, <3>1, <3>4
      <3>6. toUI' \in Seq(UIMessage) BY <1>2, <3>1, <3>5
      <3>7. Answered(ui, v, Append(toUI, m), slot)
        BY <1>2, <1>4, <2>1, <2>2, <2>4, <3>1, AnsweredSends
      <3>8. Current(ui, v, Append(toUI, m), slot)
        BY <1>2, <1>4, <2>1, <3>1, CurrentSendsUpdate
      <3>9. ASSUME WaitsOK, Arrives(ui, x, toUI, slot), OneSize(ui, toUI, slot),
                   UIWait(ui, x, tw, toUI, slot)
            PROVE  /\ pc = "blocked" => \A k \in DOMAIN toUI' : ~IsState(toUI'[k])
                   /\ Promises(ui, v, tw, Append(toUI, m), slot)
        <4>1. pc = "blocked" => \A k \in DOMAIN toUI' : ~IsState(toUI'[k])
          <5>1. \A k \in DOMAIN toUI' : toUI'[k] = m \/ (k \in DOMAIN toUI /\ toUI'[k] = toUI[k])
            BY <1>2, <3>5
          <5> QED BY <3>1, <3>9, <5>1 DEF WaitsOK
        <4>2. Promises(ui, v, tw, Append(toUI, m), slot)
          BY <1>2, <1>4, <2>1, <2>2, <2>4, <3>1, <3>9, PromisesSendsUpdate
        <4> QED BY <4>1, <4>2
      <3>10. v.displayTimer => SendsNothingDrawn
        <4>1. /\ Len(toUI') = Len(toUI) + 1 /\ Len(toUI) \in Nat
              /\ toUI'[Len(toUI')] = m
          BY <1>2, <3>1, <3>5
        <4>2. Len(toUI') > Len(toUI) BY <4>1
        <4> QED BY <3>1, <3>2, <4>1, <4>2 DEF SendsNothingDrawn, Last
      <3> QED BY <1>2, <2>4, <3>4, <3>5, <3>6, <3>7, <3>8, <3>9, <3>10
    <2> QED BY <2>3, <2>4
  <1> QED BY <1>7, <1>8

(* What every step keeps.                                                  *)
Keeps ==
    /\ QuietInv'
    /\ RaceFree => RaceFree'
    /\ TimerWhileWaiting' => TimerWhileWaiting \/ SendsNothingDrawn

(* A handler that stays in its state makes x of the drawing area.          *)
LEMMA WebChangesKeeps ==
    ASSUME QuietInv, NEW x, WebOK(x), x.sent = << >>, x.stateID = web.stateID,
           x.size = web.size, x.shouldSend = web.shouldSend,
           \A V \in Stores(web.size) : Matches(V, web) => Matches(V, x),
           x.displayTimer /\ x.waiting => web.displayTimer /\ web.waiting,
           NEW tw \in Seq(WebMessage), Asked(ui, web, tw),
           UIWait(ui, web, toWeb, toUI, slot) => UIWait(ui, web, tw, toUI, slot),
           WebWait(web, toWeb, toUI) => WebWait(x, tw, toUI),
           NEW v, WebOK(v), Displays(x, v), v.stateID = x.stateID,
           v.size = x.size, v.content = x.content, WebLeaves(v), toWeb' = tw,
           UNCHANGED <<ui, pc, rect, events>>
    PROVE  Keeps
  <1>2. TypeInv /\ Answered(ui, web, toUI, slot) /\ Current(ui, web, toUI, slot)
    BY DEF QuietInv, Agree
  <1>3. Answered(ui, x, toUI, slot) BY <1>2, AnsweredSame
  <1>4. Current(ui, x, toUI, slot)
    <2>1. Len(toUI) \in Nat BY <1>2 DEF TypeInv
    <2> QED BY <1>2, <2>1, CurrentSame
  <1>5. Asked(ui, x, tw) BY DEF Asked
  <1>6. Agree(ui, x, tw, toUI, slot) BY <1>3, <1>4, <1>5 DEF Agree
  <1>7. ASSUME RaceFree
        PROVE  /\ WaitsOK /\ Arrives(ui, x, toUI, slot) /\ OneSize(ui, toUI, slot)
               /\ UIWait(ui, x, tw, toUI, slot) /\ WebWait(x, tw, toUI)
    BY <1>7 DEF RaceFree, Promises, Arrives, UIWait
  <1>8. /\ QuietInv'
        /\ /\ WaitsOK /\ Arrives(ui, x, toUI, slot) /\ OneSize(ui, toUI, slot)
           /\ UIWait(ui, x, tw, toUI, slot) \/ (x.shouldSend /\ ~v.shouldSend)
           /\ WebWait(x, tw, toUI)
           => RaceFree'
        /\ ~(x.displayTimer /\ x.waiting) /\ TimerWhileWaiting' => SendsNothingDrawn
    BY <1>2, <1>6, WebLeavesKeeps
  <1> QED BY <1>7, <1>8 DEF Keeps, TimerWhileWaiting

LEMMA BitmapsAreBoolean == Bitmaps \subseteq BOOLEAN /\ Mappings \subseteq BOOLEAN
  BY DEF Bitmaps, Mappings

(* A change of the page, without a message.                                *)
LEMMA PageChangeKeeps ==
    ASSUME QuietInv, NEW x, WebOK(x), x.sent = << >>, x.stateID = web.stateID,
           x.size = web.size, x.shouldSend = web.shouldSend, x.waiting = web.waiting,
           \A V \in Stores(web.size) : Matches(V, web) => Matches(V, x),
           x.displayTimer /\ x.waiting => web.displayTimer,
           WebLeaves(x), UNCHANGED <<ui, toWeb, pc, rect, events>>
    PROVE  Keeps
  <1>1. toWeb \in Seq(WebMessage) /\ Asked(ui, web, toWeb) BY DEF QuietInv, TypeInv, Agree
  <1>3. Displays(x, x) BY DEF Displays
  <1>4. WebWait(web, toWeb, toUI) => WebWait(x, toWeb, toUI) BY DEF WebWait
  <1>5. toWeb' = toWeb /\ UNCHANGED <<ui, pc, rect, events>> OBVIOUS
  <1>6. x.displayTimer /\ x.waiting => web.displayTimer /\ web.waiting OBVIOUS
  <1> QED BY <1>1, <1>3, <1>4, <1>5, <1>6, WebChangesKeeps

LEMMA PageChangesKeeps ==
    ASSUME QuietInv, NEW t \in 1..web.size, PageChanges(t)
    PROVE  Keeps
  <1>0. WebOK(web) /\ web \in WebState /\ web.sent = << >> BY DEF QuietInv, TypeInv, WebOK
  <1> DEFINE n == web.version + 1
             c == [web.content EXCEPT ![t] = n]
             y == [web EXCEPT !.version = n, !.content = c]
             x == SetNeedsDisplay(y, {t})
  <1>1. WebLeaves(x) /\ UNCHANGED <<ui, toWeb, pc, rect, events>> BY DEF PageChanges
  <1>2. web.version \in Nat /\ web.content \in [Tiles -> Nat] /\ web.size \in 0..MaxSize
    BY <1>0, WebFields
  <1>11. n \in Nat BY <1>2
  <1> HIDE DEF n
  <1>3. n \in Nat /\ c \in [Tiles -> Nat] BY <1>2, <1>11
  <1>4. \A s \in 1..web.size : s # t => c[s] = web.content[s] BY <1>2, PageIsTiles
  <1> HIDE DEF c
  <1>5. /\ y \in WebState /\ y.content = c /\ y.dirty = web.dirty /\ y.sent = web.sent
        /\ y.stateID = web.stateID /\ y.size = web.size /\ y.shouldSend = web.shouldSend
        /\ y.waiting = web.waiting /\ y.displayTimer = web.displayTimer
        /\ y.scrollRect = web.scrollRect /\ y.scrollOffset = web.scrollOffset
    BY <1>0, <1>3 DEF WebState
  <1> HIDE DEF y
  <1>6. WebOK(y) BY <1>0, <1>5 DEF WebOK
  <1>7. Dirtied(x, y, y.dirty \cup ({t} \cap (1..y.size))) BY <1>5, NeedsDisplayEffect
  <1>8. WebOK(x) BY <1>6, NeedsDisplayOK
  <1> HIDE DEF x
  <1>9. /\ x.sent = << >> /\ x.stateID = web.stateID
        /\ x.size = web.size /\ x.shouldSend = web.shouldSend /\ x.waiting = web.waiting
        /\ x.scrollRect = web.scrollRect /\ x.scrollOffset = web.scrollOffset
        /\ x.dirty = web.dirty \cup {t} /\ x.content = c
        /\ x.displayTimer /\ x.waiting => web.displayTimer
    BY <1>0, <1>5, <1>7 DEF Dirtied
  <1>10. \A V \in Stores(web.size) : Matches(V, web) => Matches(V, x)
    <2>1. \A s \in 1..web.size : s \notin x.dirty => x.content[s] = web.content[s] BY <1>4, <1>9
    <2>2. web.dirty \subseteq x.dirty BY <1>9
    <2> QED BY <1>9, <2>1, <2>2, DirtierMatches
  <1> QED BY <1>1, <1>8, <1>9, <1>10, PageChangeKeeps

LEMMA PageScrollsKeeps ==
    ASSUME QuietInv, NEW a \in 1..web.size, NEW k \in ScrollOffsets,
           PageScrolls(a..web.size, k)
    PROVE  Keeps
  <1>0. WebOK(web) /\ web \in WebState /\ web.sent = << >> BY DEF QuietInv, TypeInv, WebOK
  <1> DEFINE r == a..web.size
             n == web.version + 1
             c == [t \in Tiles |-> IF t \notin r THEN web.content[t]
                                   ELSE IF t - k \in r THEN web.content[t - k]
                                   ELSE n]
             y == [web EXCEPT !.version = n, !.content = c]
             x == ScrollWeb(y, r, k)
  <1>1. WebLeaves(x) /\ UNCHANGED <<ui, toWeb, pc, rect, events>> BY DEF PageScrolls
  <1>2. web.version \in Nat /\ web.content \in [Tiles -> Nat] /\ web.size \in 0..MaxSize
        /\ web.size \in Nat
    BY <1>0, WebFields
  <1>3. r \subseteq 1..web.size /\ r \subseteq Tiles /\ k \in Int /\ \E t \in r : t - k \notin r
    <2>1. r \subseteq 1..web.size /\ a \in r /\ web.size \in r BY <1>2
    <2>2. 1..web.size \subseteq Tiles BY <1>2, PageIsTiles
    <2>3. k \in Int /\ k # 0 BY DrawingAreaAssumption
    <2>4. a - k \notin r \/ web.size - k \notin r BY <1>2, <2>3
    <2> QED BY <2>1, <2>2, <2>3, <2>4
  <1> HIDE DEF r
  <1>4. n \in Nat BY <1>2
  <1> HIDE DEF n
  <1>5. c \in [Tiles -> Nat] BY <1>2, <1>3, <1>4
  <1>6. Scrolled(web, c, r, k)
    <2>1. \A t \in 1..web.size : t \notin r => c[t] = web.content[t] BY <1>2, PageIsTiles
    <2>2. \A t \in r : t - k \in r => c[t] = web.content[t - k] BY <1>3
    <2> QED BY <2>1, <2>2 DEF Scrolled
  <1> HIDE DEF c
  <1>7. /\ y \in WebState /\ y.content = c /\ y.dirty = web.dirty /\ y.sent = web.sent
        /\ y.stateID = web.stateID /\ y.size = web.size /\ y.shouldSend = web.shouldSend
        /\ y.waiting = web.waiting /\ y.displayTimer = web.displayTimer
        /\ y.scrollRect = web.scrollRect /\ y.scrollOffset = web.scrollOffset
    BY <1>0, <1>4, <1>5 DEF WebState
  <1> HIDE DEF y
  <1>8. WebOK(y) BY <1>0, <1>7 DEF WebOK
  <1>9. InPage(r, k, y) /\ InPage(r, k, web) BY <1>3, <1>7 DEF InPage
  <1>x. x = ScrollWeb(y, r, k) OBVIOUS
  <1> HIDE DEF x
  <1>10. /\ WebOK(x)
         /\ x.stateID = y.stateID /\ x.size = y.size /\ x.shouldSend = y.shouldSend
         /\ x.waiting = y.waiting
         /\ x.content = y.content /\ x.sent = y.sent
         /\ x.displayTimer /\ x.waiting => y.displayTimer
         /\ RecordsScroll(y, x, r, k)
    <2>1. k \in Int BY <1>3
    <2> QED BY <1>8, <1>9, <1>x, <2>1, ScrollWebEffect
  <1>11. RecordsScroll(web, x, r, k)
    <2>1. ScrolledDirt(y, r, k) = ScrolledDirt(web, r, k) BY <1>7 DEF ScrolledDirt
    <2> QED BY <1>7, <1>10, <2>1 DEF RecordsScroll
  <1>13. x.size = web.size /\ Scrolled(web, x.content, r, k) BY <1>6, <1>7, <1>10
  <1>14. \A V \in Stores(web.size) : Matches(V, web) => Matches(V, x)
    <2>1. k \in Int BY <1>3
    <2> QED BY <1>0, <1>9, <1>11, <1>13, <2>1, ScrolledMatches
  <1> QED BY <1>0, <1>1, <1>7, <1>10, <1>14, PageChangeKeeps

(* A notice of the UI process is taken from the queue.                     *)
LEMMA NoticeTaken ==
    ASSUME QuietInv, NEW s, s # "UpdateBackingStoreState", WebReceives(s)
    PROVE  /\ toWeb # << >> /\ toWeb' = Tail(toWeb) /\ Tail(toWeb) \in Seq(WebMessage)
           /\ UNCHANGED <<ui, pc, rect, events>>
           /\ Asked(ui, web, Tail(toWeb))
           /\ UIWait(ui, web, toWeb, toUI, slot) => UIWait(ui, web, Tail(toWeb), toUI, slot)
           /\ ~IsRequest(toWeb[1]) /\ toWeb[1].type = s
  <1>1. /\ toWeb # << >> /\ Head(toWeb).type = s /\ toWeb' = Tail(toWeb)
        /\ UNCHANGED <<ui, pc, rect, events>>
    BY DEF WebReceives
  <1>2. toWeb \in Seq(WebMessage) /\ ui \in UIState /\ web \in WebState /\ Asked(ui, web, toWeb)
    BY DEF QuietInv, TypeInv, Agree, UIOK, WebOK
  <1>3. Tail(toWeb) \in Seq(WebMessage) BY <1>1, <1>2
  <1>4. Asked(ui, web, Tail(toWeb)) BY <1>1, <1>2, AskedTail
  <1>5. Head(toWeb) = toWeb[1] BY <1>1, <1>2, TailOfRequests
  <1>6. ~IsRequest(toWeb[1]) BY <1>1, <1>5 DEF IsRequest
  <1>7. ASSUME UIWait(ui, web, toWeb, toUI, slot)
        PROVE  UIWait(ui, web, Tail(toWeb), toUI, slot)
    BY <1>1, <1>2, <1>6, <1>7, UIWaitTail
  <1> QED BY <1>1, <1>3, <1>4, <1>5, <1>6, <1>7

LEMMA DisplayTimerFiresKeeps ==
    ASSUME QuietInv, DisplayTimerFires
    PROVE  Keeps
  <1>0. WebOK(web) /\ web \in WebState /\ web.sent = << >> BY DEF QuietInv, TypeInv, WebOK
  <1> DEFINE ff == FALSE
             x == [web EXCEPT !.displayTimer = ff]
  <1>1. PICK ok \in Bitmaps, rects \in Rects(web.dirty) : WebLeaves(Display(x, ok, rects))
    BY DEF DisplayTimerFires
  <1>2. ff \in BOOLEAN /\ ~ff OBVIOUS
  <1> HIDE DEF ff
  <1>3. /\ x \in WebState /\ x.content = web.content /\ x.dirty = web.dirty
        /\ x.sent = web.sent
        /\ x.stateID = web.stateID /\ x.size = web.size /\ x.shouldSend = web.shouldSend
        /\ x.waiting = web.waiting /\ x.displayTimer = ff
        /\ x.scrollRect = web.scrollRect /\ x.scrollOffset = web.scrollOffset
    BY <1>0, <1>2 DEF WebState
  <1> DEFINE v == Display(x, ok, rects)
  <1>v. v = Display(x, ok, rects) /\ WebLeaves(v) BY <1>1
  <1> HIDE DEF x, v
  <1>4. WebOK(x) BY <1>0, <1>3 DEF WebOK
  <1>5. ok \in BOOLEAN /\ rects \in Rects(x.dirty) BY <1>3, BitmapsAreBoolean
  <1>6. /\ WebOK(v) /\ Displays(x, v) /\ v.stateID = x.stateID /\ v.size = x.size
        /\ v.content = x.content
    BY <1>4, <1>5, <1>v, DisplayEffect
  <1>7. \A V \in Stores(web.size) : Matches(V, web) => Matches(V, x)
    BY <1>3 DEF Matches
  <1>8. toWeb \in Seq(WebMessage) /\ Asked(ui, web, toWeb) BY DEF QuietInv, TypeInv, Agree
  <1>9. WebWait(web, toWeb, toUI) => WebWait(x, toWeb, toUI) BY <1>3 DEF WebWait
  <1>10. toWeb' = toWeb /\ UNCHANGED <<ui, pc, rect, events>> BY DEF DisplayTimerFires
  <1>11. ~x.displayTimer /\ x.sent = << >> BY <1>0, <1>2, <1>3
  <1> QED BY <1>3, <1>4, <1>6, <1>7, <1>8, <1>9, <1>10, <1>11, <1>v, WebChangesKeeps

LEMMA DidUpdateKeeps ==
    ASSUME QuietInv, DidUpdate
    PROVE  Keeps
  <1>0. WebOK(web) /\ web \in WebState /\ web.sent = << >> BY DEF QuietInv, TypeInv, WebOK
  <1> DEFINE ff == FALSE
             x == [web EXCEPT !.waiting = ff]
  <1>1. PICK ok \in Bitmaps, rects \in Rects(web.dirty) : WebLeaves(Display(x, ok, rects))
    BY DEF DidUpdate
  <1>2. ff \in BOOLEAN /\ ~ff OBVIOUS
  <1> HIDE DEF ff
  <1>3. /\ x \in WebState /\ x.content = web.content /\ x.dirty = web.dirty
        /\ x.sent = web.sent
        /\ x.stateID = web.stateID /\ x.size = web.size /\ x.shouldSend = web.shouldSend
        /\ x.waiting = ff
        /\ x.scrollRect = web.scrollRect /\ x.scrollOffset = web.scrollOffset
    BY <1>0, <1>2 DEF WebState
  <1> DEFINE v == Display(x, ok, rects)
  <1>v. v = Display(x, ok, rects) /\ WebLeaves(v) BY <1>1
  <1> HIDE DEF x, v
  <1>4. WebOK(x) BY <1>0, <1>3 DEF WebOK
  <1>5. ok \in BOOLEAN /\ rects \in Rects(x.dirty) BY <1>3, BitmapsAreBoolean
  <1>6. /\ WebOK(v) /\ Displays(x, v) /\ v.stateID = x.stateID /\ v.size = x.size
        /\ v.content = x.content
    BY <1>4, <1>5, <1>v, DisplayEffect
  <1>7. \A V \in Stores(web.size) : Matches(V, web) => Matches(V, x)
    BY <1>3 DEF Matches
  <1> DEFINE s == "DidUpdate"
  <1>8. WebReceives(s) /\ s # "UpdateBackingStoreState" BY DEF DidUpdate
  <1> HIDE DEF s
  <1>9. /\ toWeb # << >> /\ toWeb' = Tail(toWeb) /\ Tail(toWeb) \in Seq(WebMessage)
        /\ UNCHANGED <<ui, pc, rect, events>>
        /\ Asked(ui, web, Tail(toWeb))
        /\ UIWait(ui, web, toWeb, toUI, slot) => UIWait(ui, web, Tail(toWeb), toUI, slot)
    BY <1>8, NoticeTaken
  <1>11. ~x.waiting /\ x.sent = << >> BY <1>0, <1>2, <1>3
  <1>10. WebWait(x, Tail(toWeb), toUI) BY <1>11 DEF WebWait
  <1> QED BY <1>3, <1>4, <1>6, <1>7, <1>9, <1>10, <1>11, <1>v, WebChangesKeeps

(* A notice that only changes the dirty region and the display timer.      *)
LEMMA NoticeKeeps ==
    ASSUME QuietInv, NEW s, s # "UpdateBackingStoreState", s # "DidUpdate", WebReceives(s),
           NEW x, WebOK(x), x.sent = << >>, x.stateID = web.stateID,
           x.size = web.size, x.shouldSend = web.shouldSend, x.waiting = web.waiting,
           x.scrollRect = web.scrollRect, x.scrollOffset = web.scrollOffset,
           x.content = web.content, web.dirty \subseteq x.dirty,
           x.displayTimer /\ x.waiting => web.displayTimer,
           WebLeaves(x)
    PROVE  Keeps
  <1>1. /\ toWeb # << >> /\ toWeb' = Tail(toWeb) /\ Tail(toWeb) \in Seq(WebMessage)
        /\ UNCHANGED <<ui, pc, rect, events>>
        /\ Asked(ui, web, Tail(toWeb))
        /\ UIWait(ui, web, toWeb, toUI, slot) => UIWait(ui, web, Tail(toWeb), toUI, slot)
        /\ ~IsRequest(toWeb[1]) /\ toWeb[1].type = s
    BY NoticeTaken
  <1>2. toWeb \in Seq(WebMessage) BY DEF QuietInv, TypeInv
  <1>3. ASSUME WebWait(web, toWeb, toUI) PROVE WebWait(x, Tail(toWeb), toUI)
    <2>1. x.waiting => web.waiting OBVIOUS
    <2>2. toWeb[1].type # "DidUpdate" BY <1>1
    <2> QED BY <1>1, <1>2, <1>3, <2>1, <2>2, WebWaitTail
  <1>4. \A V \in Stores(web.size) : Matches(V, web) => Matches(V, x)
    <2>1. \A t \in 1..web.size : t \notin x.dirty => x.content[t] = web.content[t] OBVIOUS
    <2> QED BY <2>1, DirtierMatches
  <1>6. Displays(x, x) BY DEF Displays
  <1>7. x.displayTimer /\ x.waiting => web.displayTimer /\ web.waiting OBVIOUS
  <1> QED BY <1>1, <1>3, <1>4, <1>6, <1>7, WebChangesKeeps

LEMMA SuspendPaintingKeeps ==
    ASSUME QuietInv, SuspendPainting
    PROVE  Keeps
  <1>0. WebOK(web) /\ web \in WebState /\ web.sent = << >> BY DEF QuietInv, TypeInv, WebOK
  <1> DEFINE tt == TRUE
             ff == FALSE
             s == "SuspendPainting"
             x == [web EXCEPT !.suspended = tt, !.displayTimer = ff]
  <1>1. WebLeaves(x) BY DEF SuspendPainting
  <1>2. /\ WebReceives(s) /\ s # "UpdateBackingStoreState" /\ s # "DidUpdate"
        /\ tt \in BOOLEAN /\ ff \in BOOLEAN /\ ~ff
    BY DEF SuspendPainting
  <1> HIDE DEF tt, ff, s
  <1>3. /\ x \in WebState /\ x.content = web.content /\ x.dirty = web.dirty
        /\ x.sent = web.sent
        /\ x.stateID = web.stateID /\ x.size = web.size /\ x.shouldSend = web.shouldSend
        /\ x.waiting = web.waiting /\ x.displayTimer = ff
        /\ x.scrollRect = web.scrollRect /\ x.scrollOffset = web.scrollOffset
    BY <1>0, <1>2 DEF WebState
  <1> HIDE DEF x
  <1>4. WebOK(x) BY <1>0, <1>3 DEF WebOK
  <1>5. x.sent = << >> /\ web.dirty \subseteq x.dirty /\ ~x.displayTimer BY <1>0, <1>2, <1>3
  <1> QED BY <1>1, <1>2, <1>3, <1>4, <1>5, NoticeKeeps

LEMMA ReceiveResumePaintingKeeps ==
    ASSUME QuietInv, ReceiveResumePainting
    PROVE  Keeps
  <1>0. WebOK(web) /\ web.sent = << >> BY DEF QuietInv, TypeInv
  <1> DEFINE s == "ResumePainting"
             x == ResumePainting(web)
  <1>1. WebLeaves(x) /\ x = ResumePainting(web) BY DEF ReceiveResumePainting
  <1>2. WebReceives(s) /\ s # "UpdateBackingStoreState" /\ s # "DidUpdate"
    BY DEF ReceiveResumePainting
  <1> HIDE DEF s, x
  <1>3. /\ WebOK(x) /\ web.dirty \subseteq x.dirty
        /\ x.stateID = web.stateID /\ x.size = web.size /\ x.shouldSend = web.shouldSend
        /\ x.waiting = web.waiting
        /\ x.scrollRect = web.scrollRect /\ x.scrollOffset = web.scrollOffset
        /\ x.content = web.content /\ x.sent = web.sent
        /\ x.displayTimer /\ x.waiting => web.displayTimer
    BY <1>0, <1>1, ResumeOK
  <1>4. x.sent = << >> BY <1>0, <1>3
  <1> QED BY <1>1, <1>2, <1>3, <1>4, NoticeKeeps

LEMMA ForceRepaintKeeps ==
    ASSUME QuietInv, ForceRepaint
    PROVE  Keeps
  <1>0. WebOK(web) /\ web \in WebState /\ web.sent = << >> BY DEF QuietInv, TypeInv, WebOK
  <1> DEFINE ff == FALSE
             s == "ForceRepaint"
             P == 1..web.size
             y == SetNeedsDisplay(web, P)
             x == [y EXCEPT !.waiting = ff]
  <1>1. PICK ok \in Bitmaps, rects \in Rects(x.dirty) : WebLeaves(Display(x, ok, rects))
    BY DEF ForceRepaint
  <1>2. /\ WebReceives(s) /\ s # "UpdateBackingStoreState" /\ ff \in BOOLEAN /\ ~ff
        /\ y = SetNeedsDisplay(web, P)
    BY DEF ForceRepaint
  <1> HIDE DEF ff, s, P, y
  <1>3. Dirtied(y, web, web.dirty \cup (P \cap (1..web.size))) BY <1>0, <1>2, NeedsDisplayEffect
  <1>4. WebOK(y) BY <1>0, <1>2, NeedsDisplayOK
  <1>5. /\ y \in WebState /\ y.content = web.content /\ web.dirty \subseteq y.dirty
        /\ y.sent = web.sent
        /\ y.stateID = web.stateID /\ y.size = web.size /\ y.shouldSend = web.shouldSend
        /\ y.scrollRect = web.scrollRect /\ y.scrollOffset = web.scrollOffset
    BY <1>3 DEF Dirtied
  <1>6. /\ x \in WebState /\ x.content = y.content /\ x.dirty = y.dirty
        /\ x.sent = y.sent
        /\ x.stateID = y.stateID /\ x.size = y.size /\ x.shouldSend = y.shouldSend
        /\ x.waiting = ff
        /\ x.scrollRect = y.scrollRect /\ x.scrollOffset = y.scrollOffset
    BY <1>2, <1>5 DEF WebState
  <1> DEFINE v == Display(x, ok, rects)
  <1>v. v = Display(x, ok, rects) /\ WebLeaves(v) BY <1>1
  <1>7. ok \in BOOLEAN /\ rects \in Rects(x.dirty) BY <1>1, BitmapsAreBoolean
  <1> HIDE DEF x, v
  <1>8. WebOK(x) BY <1>4, <1>6 DEF WebOK
  <1>9. /\ WebOK(v) /\ Displays(x, v) /\ v.stateID = x.stateID /\ v.size = x.size
        /\ v.content = x.content
    BY <1>7, <1>8, <1>v, DisplayEffect
  <1>10. /\ x.stateID = web.stateID /\ x.size = web.size /\ x.shouldSend = web.shouldSend
         /\ x.scrollRect = web.scrollRect /\ x.scrollOffset = web.scrollOffset
         /\ x.content = web.content /\ web.dirty \subseteq x.dirty
         /\ ~x.waiting /\ x.sent = << >>
    BY <1>0, <1>2, <1>5, <1>6
  <1>11. \A V \in Stores(web.size) : Matches(V, web) => Matches(V, x)
    <2>1. \A t \in 1..web.size : t \notin x.dirty => x.content[t] = web.content[t] BY <1>10
    <2> QED BY <1>10, <2>1, DirtierMatches
  <1>12. /\ toWeb # << >> /\ toWeb' = Tail(toWeb) /\ Tail(toWeb) \in Seq(WebMessage)
         /\ UNCHANGED <<ui, pc, rect, events>>
         /\ Asked(ui, web, Tail(toWeb))
         /\ UIWait(ui, web, toWeb, toUI, slot) => UIWait(ui, web, Tail(toWeb), toUI, slot)
    BY <1>2, NoticeTaken
  <1>13. WebWait(x, Tail(toWeb), toUI) BY <1>10 DEF WebWait
  <1> QED BY <1>8, <1>9, <1>10, <1>11, <1>12, <1>13, <1>v, WebChangesKeeps
LEMMA LeaveWaitEffect ==
    ASSUME NEW w, WebOK(w), NEW m, NEW v, v = LeaveWait(w, m)
    PROVE  /\ WebOK(v) /\ ~v.waiting
           /\ v.stateID = w.stateID /\ v.size = w.size /\ v.shouldSend = w.shouldSend
           /\ v.sent = w.sent
  <1>0. w \in WebState BY DEF WebOK
  <1> DEFINE ff == FALSE
             x == [w EXCEPT !.waiting = ff]
  <1>1. v = IF m.respondImmediately THEN ResumePainting(x) ELSE x BY DEF LeaveWait
  <1>2. ff \in BOOLEAN /\ ~ff OBVIOUS
  <1> HIDE DEF ff
  <1>3. /\ x \in WebState /\ x.content = w.content /\ x.dirty = w.dirty
        /\ x.sent = w.sent
        /\ x.stateID = w.stateID /\ x.size = w.size /\ x.shouldSend = w.shouldSend
        /\ x.waiting = ff
        /\ x.scrollRect = w.scrollRect /\ x.scrollOffset = w.scrollOffset
    BY <1>0, <1>2 DEF WebState
  <1> HIDE DEF x
  <1>4. WebOK(x) BY <1>3 DEF WebOK
  <1> DEFINE z == ResumePainting(x)
  <1>5. z = ResumePainting(x) OBVIOUS
  <1> HIDE DEF z
  <1>6. /\ WebOK(z) /\ z.stateID = x.stateID /\ z.size = x.size /\ z.shouldSend = x.shouldSend
        /\ z.waiting = x.waiting /\ z.sent = x.sent
    BY <1>4, <1>5, ResumeOK
  <1>7. CASE m.respondImmediately
    <2>1. v = z BY <1>1, <1>5, <1>7
    <2> QED BY <1>2, <1>3, <1>6, <2>1
  <1>8. CASE ~m.respondImmediately
    <2>1. v = x BY <1>1, <1>8
    <2> QED BY <1>2, <1>3, <1>4, <2>1
  <1> QED BY <1>7, <1>8

(* The part of updateBackingStoreState after its early return.             *)
LEMMA EnteredKeeps ==
    ASSUME QuietInv, toWeb # << >>, NEW m \in Request, m = Head(toWeb),
           NEW e, WebOK(e), e.shouldSend, e.sent = << >>,
           Asked(ui, e, Tail(toWeb)), Answered(ui, e, toUI, slot),
           Arrives(ui, web, toUI, slot) => Arrives(ui, e, toUI, slot),
           NEW x, x = LeaveWait(e, m),
           \/ ~m.respondImmediately /\ WebLeaves(x)
           \/ \E ok \in Bitmaps, rects \in Rects(x.dirty) :
                 WebLeaves(SendDidUpdateBackingStoreState(x, ok, rects)),
           toWeb' = Tail(toWeb), UNCHANGED <<ui, pc, rect, events>>
    PROVE  Keeps
  <1>1. /\ WebOK(x) /\ ~x.waiting /\ x.stateID = e.stateID /\ x.size = e.size
        /\ x.shouldSend = e.shouldSend /\ x.sent = e.sent
    BY LeaveWaitEffect, ZenonT(60)
  <1>2. x.sent = << >> /\ x.shouldSend /\ x.dirty = 1..x.size /\ x.dirty # {}
    <2>1. x.sent = << >> /\ x.shouldSend BY <1>1
    <2>2. x.dirty = 1..x.size /\ x.size > 0 /\ x.size \in Nat BY <1>1, <2>1, WebFields DEF WebOK
    <2>3. 1 \in 1..x.size BY <2>2
    <2> QED BY <2>1, <2>2, <2>3
  <1>3. TypeInv /\ toWeb \in Seq(WebMessage) BY DEF QuietInv, TypeInv
  <1>4. Tail(toWeb) \in Seq(WebMessage) BY <1>3
  <1>5. Agree(ui, x, Tail(toWeb), toUI, slot)
    <2>1. Asked(ui, x, Tail(toWeb)) BY <1>1 DEF Asked
    <2>2. Answered(ui, x, toUI, slot) BY <1>1, AnsweredSame
    <2>3. Current(ui, x, toUI, slot) BY <1>2, CurrentEnter
    <2> QED BY <2>1, <2>2, <2>3 DEF Agree
  <1>6. ASSUME RaceFree
        PROVE  /\ WaitsOK /\ Arrives(ui, x, toUI, slot) /\ OneSize(ui, toUI, slot)
               /\ WebWait(x, Tail(toWeb), toUI)
    <2>1. WaitsOK /\ Arrives(ui, e, toUI, slot) /\ OneSize(ui, toUI, slot)
      BY <1>6 DEF RaceFree, Promises
    <2>2. Arrives(ui, x, toUI, slot) BY <1>1, <2>1 DEF Arrives
    <2> QED BY <1>1, <2>1, <2>2 DEF WebWait
  <1>7. CASE ~m.respondImmediately /\ WebLeaves(x)
    <2>2. Displays(x, x) BY DEF Displays
    <2>3. ASSUME RaceFree PROVE UIWait(ui, x, Tail(toWeb), toUI, slot)
      <3>1. UIWait(ui, web, toWeb, toUI, slot) BY <2>3 DEF RaceFree, Promises
      <3>2. toWeb[1] = m BY <1>3, TailOfRequests
      <3>3. ~toWeb[1].respondImmediately /\ x.shouldSend BY <1>2, <1>7, <3>2
      <3> QED BY <1>3, <3>1, <3>3, UIWaitTail
    <2>4. /\ QuietInv'
          /\ /\ WaitsOK /\ Arrives(ui, x, toUI, slot) /\ OneSize(ui, toUI, slot)
             /\ UIWait(ui, x, Tail(toWeb), toUI, slot) \/ (x.shouldSend /\ ~x.shouldSend)
             /\ WebWait(x, Tail(toWeb), toUI)
             => RaceFree'
          /\ ~(x.displayTimer /\ x.waiting) /\ TimerWhileWaiting' => SendsNothingDrawn
      BY <1>1, <1>2, <1>3, <1>4, <1>5, <1>7, <2>2, WebLeavesKeeps
    <2> QED BY <1>1, <1>6, <2>3, <2>4 DEF Keeps
  <1>8. CASE \E ok \in Bitmaps, rects \in Rects(x.dirty) :
                 WebLeaves(SendDidUpdateBackingStoreState(x, ok, rects))
    <2>1. PICK ok \in Bitmaps, rects \in Rects(x.dirty) :
                 WebLeaves(SendDidUpdateBackingStoreState(x, ok, rects))
      BY <1>8
    <2> DEFINE v == SendDidUpdateBackingStoreState(x, ok, rects)
    <2>2. v = SendDidUpdateBackingStoreState(x, ok, rects) /\ WebLeaves(v) BY <2>1
    <2>3. ok \in BOOLEAN BY BitmapsAreBoolean
    <2> HIDE DEF v
    <2>4. /\ WebOK(v) /\ ~v.shouldSend
          /\ v.stateID = x.stateID /\ v.size = x.size
          /\ v.waiting = x.waiting /\ v.content = x.content
          /\ v.displayTimer => x.displayTimer
          /\ \E i \in Info : /\ Draws(x, v, i)
                             /\ v.sent = <<DidUpdateBackingStoreStateMessage(x.stateID, i)>>
      BY <1>1, <1>2, <2>2, <2>3, SendStateEffect
    <2>5. Displays(x, v) BY <1>2, <2>4 DEF Displays
    <2>6. /\ QuietInv'
          /\ /\ WaitsOK /\ Arrives(ui, x, toUI, slot) /\ OneSize(ui, toUI, slot)
             /\ UIWait(ui, x, Tail(toWeb), toUI, slot) \/ (x.shouldSend /\ ~v.shouldSend)
             /\ WebWait(x, Tail(toWeb), toUI)
             => RaceFree'
          /\ ~(x.displayTimer /\ x.waiting) /\ TimerWhileWaiting' => SendsNothingDrawn
      BY <1>1, <1>2, <1>3, <1>4, <1>5, <2>2, <2>3, <2>4, <2>5, WebLeavesKeeps
    <2> QED BY <1>1, <1>2, <1>6, <2>3, <2>4, <2>6 DEF Keeps
  <1> QED BY <1>7, <1>8

LEMMA UpdateBackingStoreStateKeeps ==
    ASSUME QuietInv, UpdateBackingStoreState
    PROVE  Keeps
  <1>0. /\ WebOK(web) /\ web \in WebState /\ web.sent = << >> /\ ui \in UIState
        /\ toWeb \in Seq(WebMessage) /\ toUI \in Seq(UIMessage) /\ SlotOK(slot)
        /\ Asked(ui, web, toWeb) /\ Answered(ui, web, toUI, slot)
    BY DEF QuietInv, TypeInv, WebOK, UIOK, Agree
  <1> DEFINE m == Head(toWeb)
             e == EnterState(web, m)
             x == LeaveWait(e, m)
  <1>1. /\ toWeb # << >> /\ m.type = "UpdateBackingStoreState" /\ toWeb' = Tail(toWeb)
        /\ UNCHANGED <<ui, pc, rect, events>>
    BY DEF UpdateBackingStoreState, WebReceives
  <1>2. \/ ~e.shouldSend /\ WebLeaves(web)
        \/ /\ e.shouldSend
           /\ \/ ~m.respondImmediately /\ WebLeaves(x)
              \/ \E ok \in Bitmaps, rects \in Rects(x.dirty) :
                   WebLeaves(SendDidUpdateBackingStoreState(x, ok, rects))
    BY DEF UpdateBackingStoreState
  <1>3. m \in Request /\ IsRequest(m) /\ m = toWeb[1] /\ Tail(toWeb) \in Seq(WebMessage)
    <2>1. m \in WebMessage /\ m = toWeb[1] /\ Tail(toWeb) \in Seq(WebMessage) BY <1>0, <1>1
    <2> QED BY <1>1, <2>1 DEF WebMessage, Notice, IsRequest
  <1>4. m = Head(toWeb) /\ e = EnterState(web, m) /\ x = LeaveWait(e, m) OBVIOUS
  <1>5. m.id = web.stateID => e = web BY DEF EnterState
  <1> HIDE DEF m, e, x
  <1>6. CASE m.id = web.stateID /\ ~web.shouldSend
    <2>1. WebLeaves(web) BY <1>2, <1>5, <1>6
    <2>3. Displays(web, web) BY DEF Displays
    <2>4. Asked(ui, web, Tail(toWeb)) BY <1>0, <1>1, AskedTail
    <2>5. UIWait(ui, web, toWeb, toUI, slot) => UIWait(ui, web, Tail(toWeb), toUI, slot)
      <3>1. toWeb[1].id = web.stateID /\ ~web.shouldSend /\ web.stateID \in Nat
        BY <1>0, <1>3, <1>6, WebFields
      <3> QED BY <1>0, <1>1, <3>1, UIWaitTail
    <2>6. WebWait(web, toWeb, toUI) => WebWait(web, Tail(toWeb), toUI)
      <3>1. toWeb[1].type # "DidUpdate" /\ ~(toWeb[1].id > web.stateID)
        BY <1>0, <1>1, <1>3, <1>6, WebFields
      <3> QED BY <1>0, <1>1, <3>1, WebWaitTail
    <2> QED BY <1>0, <1>1, <1>3, <2>1, <2>3, <2>4, <2>5, <2>6, WebChangesKeeps
  <1>7. CASE m.id = web.stateID /\ web.shouldSend
    <2>1. Asked(ui, web, Tail(toWeb)) BY <1>0, <1>1, AskedTail
    <2> QED BY <1>0, <1>1, <1>2, <1>3, <1>4, <1>5, <1>7, <2>1, EnteredKeeps
  <1>8. CASE m.id # web.stateID
    <2>1. /\ WebOK(e) /\ e.stateID = m.id /\ e.size = m.size /\ e.shouldSend
          /\ e.sent = web.sent
      BY <1>0, <1>3, <1>4, <1>8, EnterEffect
    <2>2. Asked(ui, e, Tail(toWeb)) /\ web.stateID <= e.stateID
      <3>1. IsRequest(Head(toWeb)) /\ e.stateID = Head(toWeb).id BY <1>3, <1>4, <2>1
      <3> QED BY <1>0, <1>1, <3>1, AskedEnter
    <2>3. e \in WebState /\ web.stateID < e.stateID /\ e.sent = << >>
      <3>1. e \in WebState BY <2>1 DEF WebOK
      <3>2. e.stateID \in Nat /\ web.stateID \in Nat BY <1>0, <3>1, WebFields
      <3> QED BY <1>0, <1>8, <2>1, <2>2, <3>1, <3>2
    <2>4. Answered(ui, e, toUI, slot) BY <1>0, <2>3, AnsweredEnter
    <2>5. Arrives(ui, web, toUI, slot) => Arrives(ui, e, toUI, slot) BY <2>1 DEF Arrives
    <2>6. \/ ~m.respondImmediately /\ WebLeaves(x)
          \/ \E ok \in Bitmaps, rects \in Rects(x.dirty) :
               WebLeaves(SendDidUpdateBackingStoreState(x, ok, rects))
      BY <1>2, <2>1
    <2> QED BY <1>1, <1>3, <1>4, <2>1, <2>2, <2>3, <2>4, <2>5, <2>6, EnteredKeeps
  <1> QED BY <1>6, <1>7, <1>8
-----------------------------------------------------------------------------
(* The steps of the UI process.                                            *)

(* Of u only what is sent and waited for has changed, and perhaps the next *)
(* state: what is asked for is not the current state.                      *)
Sends(u, v) ==
    \/ v.sent = u.sent /\ v.waiting = u.waiting
    \/ /\ v.current < v.next
       /\ \E q \in Request : /\ q.id = v.next /\ v.sent = Append(u.sent, q)
                             /\ v.waiting = q.respondImmediately

LEMMA JoinedSeq ==
    ASSUME NEW tw \in Seq(WebMessage), NEW s \in Seq(WebMessage), NEW q \in WebMessage
    PROVE  /\ tw \o s \in Seq(WebMessage)
           /\ tw \o Append(s, q) = Append(tw \o s, q)
           /\ tw \o << >> = tw
           /\ tw \o <<q>> = Append(tw, q)
  OBVIOUS

LEMMA UISends ==
    ASSUME NEW u \in UIState, NEW v \in UIState, NEW w \in WebState, NEW tw \in Seq(WebMessage),
           NEW tu, Len(tu) \in Nat, NEW sl,
           v.current = u.current, v.store = u.store, Sends(u, v),
           Asked(u, w, tw \o u.sent), Answered(u, w, tu, sl),
           (v.next = u.next /\ Current(u, w, tu, sl)) \/ v.next = u.next + 1
    PROVE  /\ Agree(v, w, tw \o v.sent, tu, sl)
           /\ Promises(u, w, tw \o u.sent, tu, sl) => Promises(v, w, tw \o v.sent, tu, sl)
  <1>0. u.sent \in Seq(WebMessage) /\ u.next \in Nat /\ w.stateID \in Nat BY UIFields, WebFields
  <1>t. tw \o u.sent \in Seq(WebMessage) BY <1>0
  <1>1. Asked(v, w, tw \o u.sent)
    <2>1. v.next \in {u.next, u.next + 1} OBVIOUS
    <2>2. PICK ts \in Seq(WebMessage) : ts = tw \o u.sent BY <1>t
    <2>3. Asked(u, w, ts) BY <2>2
    <2>4. Asked(v, w, ts) BY <2>1, <2>3, AskedNext
    <2> QED BY <2>2, <2>4
  <1>2. Answered(v, w, tu, sl) BY AnsweredSame
  <1>3. Current(v, w, tu, sl)
    <2>1. CASE v.next = u.next /\ Current(u, w, tu, sl) BY <2>1, CurrentSame
    <2>2. CASE v.next = u.next + 1
      <3>1. w.stateID <= u.next BY DEF Asked
      <3> QED BY <2>2, <3>1, CurrentNext
    <2> QED BY <2>1, <2>2
  <1>4. CASE v.sent = u.sent /\ v.waiting = u.waiting
    <2>1. Agree(v, w, tw \o v.sent, tu, sl) BY <1>1, <1>2, <1>3, <1>4 DEF Agree
    <2>2. ASSUME Promises(u, w, tw \o u.sent, tu, sl)
          PROVE  Promises(v, w, tw \o v.sent, tu, sl)
      <3> DEFINE ts == tw \o u.sent
      <3>1. Promises(u, w, ts, tu, sl) BY <2>2
      <3>2. ts = tw \o v.sent BY <1>4
      <3> HIDE DEF ts
      <3>3. v.waiting = u.waiting BY <1>4
      <3>4. Promises(v, w, ts, tu, sl) BY <3>1, <3>3, PromisesSame
      <3> QED BY <3>2, <3>4
    <2> QED BY <2>1, <2>2
  <1>5. CASE v.current < v.next /\ \E q \in Request : /\ q.id = v.next /\ v.sent = Append(u.sent, q)
                                                      /\ v.waiting = q.respondImmediately
    <2>1. PICK q \in Request : /\ q.id = v.next /\ v.sent = Append(u.sent, q)
                               /\ v.waiting = q.respondImmediately
      BY <1>5
    <2>2. q \in WebMessage BY DEF WebMessage
    <2> DEFINE ts == tw \o u.sent
    <2>3. tw \o v.sent = Append(ts, q) /\ ts \in Seq(WebMessage)
      <3>1. PICK s \in Seq(WebMessage) : s = u.sent BY <1>0
      <3>2. tw \o Append(s, q) = Append(tw \o s, q) BY <2>2, JoinedSeq
      <3> QED BY <1>t, <2>1, <3>1, <3>2
    <2>4. Asked(v, w, ts) BY <1>1
    <2>p. ASSUME Promises(u, w, tw \o u.sent, tu, sl) PROVE Promises(u, w, ts, tu, sl) BY <2>p
    <2> HIDE DEF ts
    <2>5. Asked(v, w, Append(ts, q)) BY <2>1, <2>3, <2>4, AskedRequest
    <2>6. Agree(v, w, tw \o v.sent, tu, sl) BY <1>2, <1>3, <2>3, <2>5 DEF Agree
    <2>7. ASSUME Promises(u, w, tw \o u.sent, tu, sl)
          PROVE  Promises(v, w, tw \o v.sent, tu, sl)
      <3> DEFINE n == v.next
                 y == [u EXCEPT !.next = n]
      <3>1. n \in Nat /\ n = v.next BY UIFields
      <3> HIDE DEF n
      <3>2. /\ y \in UIState /\ y.next = n /\ y.current = u.current /\ y.store = u.store
            /\ y.waiting = u.waiting
        BY <3>1 DEF UIState
      <3> HIDE DEF y
      <3>3. Promises(y, w, ts, tu, sl) BY <2>p, <2>7, <3>2, PromisesSame
      <3>4. w.stateID <= y.next /\ y.current < y.next BY <1>5, <2>4, <3>1, <3>2 DEF Asked
      <3>5. q.id = y.next /\ v.current = y.current /\ v.store = y.store BY <2>1, <3>1, <3>2
      <3>6. Promises(v, w, Append(ts, q), tu, sl)
        BY <2>1, <2>3, <3>2, <3>3, <3>4, <3>5, PromisesAsk
      <3> QED BY <2>3, <3>6
    <2> QED BY <2>6, <2>7
  <1> QED BY <1>4, <1>5 DEF Sends

(* The handler leaves v; the queue and the wait are tu and sl after it.    *)
LEMMA UILeavesKeeps ==
    ASSUME QuietInv, NEW v, UIOK(v), UILeaves(v),
           NEW tu \in Seq(UIMessage), NEW sl, SlotOK(sl), toUI' = tu, slot' = sl, web' = web,
           Agree(v, web, toWeb \o v.sent, tu, sl),
           pc' \in {"idle", "insert", "blocked"}, rect' \subseteq Tiles, events' \in Nat,
           pc' # "blocked" => sl = << >>,
           RaceFree => WaitsOK' /\ Promises(v, web, toWeb \o v.sent, tu, sl)
    PROVE  Keeps
  <1> DEFINE x == [v EXCEPT !.sent = << >>]
             ts == toWeb \o v.sent
  <1>1. ui' = x /\ toWeb' = ts /\ x = [v EXCEPT !.sent = << >>] BY DEF UILeaves
  <1>2. ts \in Seq(WebMessage)
    <2>1. toWeb \in Seq(WebMessage) /\ v.sent \in Seq(WebMessage)
      BY UIFields DEF QuietInv, TypeInv, UIOK
    <2> QED BY <2>1
  <1>3. Agree(v, web, ts, tu, sl) OBVIOUS
  <1>4. RaceFree => WaitsOK' /\ Promises(v, web, ts, tu, sl) OBVIOUS
  <1> HIDE DEF x, ts
  <1>5. /\ UIOK(x) /\ x.compositing = v.compositing /\ x.current = v.current
        /\ x.next = v.next /\ x.waiting = v.waiting /\ x.store = v.store /\ x.sent = << >>
    BY <1>1, UISentEffect
  <1>6. Agree(x, web, ts, tu, sl)
    <2>1. Asked(v, web, ts) /\ Answered(v, web, tu, sl) /\ Current(v, web, tu, sl)
      BY <1>3 DEF Agree
    <2>2. Asked(x, web, ts) BY <1>5, <2>1 DEF Asked
    <2>3. Answered(x, web, tu, sl) BY <1>5, <2>1, AnsweredSame
    <2>4. Len(tu) \in Nat OBVIOUS
    <2>5. Current(x, web, tu, sl) BY <1>5, <2>1, <2>4, CurrentSame
    <2> QED BY <2>2, <2>3, <2>5 DEF Agree
  <1>7. TypeInv'
    <2>1. WebOK(web) /\ web.sent = << >> BY DEF QuietInv, TypeInv
    <2> QED BY <1>1, <1>2, <1>5, <2>1 DEF TypeInv
  <1>8. QuietInv' BY <1>1, <1>6, <1>7 DEF QuietInv
  <1>9. ASSUME RaceFree PROVE RaceFree'
    <2>1. Promises(v, web, ts, tu, sl) /\ WaitsOK' BY <1>4, <1>9
    <2>2. Promises(x, web, ts, tu, sl) BY <1>5, <2>1, PromisesSame
    <2> QED BY <1>1, <2>1, <2>2 DEF RaceFree
  <1> QED BY <1>8, <1>9 DEF Keeps, TimerWhileWaiting

(* The UI process of the invariant.                                        *)
LEMMA UIStart ==
    ASSUME QuietInv
    PROVE  /\ UIOK(ui) /\ ui \in UIState /\ ui.sent = << >> /\ Len(ui.store) <= MaxSize
           /\ web \in WebState /\ toWeb \in Seq(WebMessage) /\ toUI \in Seq(UIMessage)
           /\ SlotOK(slot) /\ Len(toUI) \in Nat
           /\ Asked(ui, web, toWeb) /\ Answered(ui, web, toUI, slot)
           /\ Current(ui, web, toUI, slot)
           /\ web.stateID <= ui.next /\ ui.current <= web.stateID
           /\ pc # "blocked" => slot = << >>
           /\ pc \in {"idle", "insert", "blocked"} /\ rect \subseteq Tiles /\ events \in Nat
  <1>1. /\ UIOK(ui) /\ ui \in UIState /\ ui.sent = << >> /\ Len(ui.store) <= MaxSize
        /\ web \in WebState /\ toWeb \in Seq(WebMessage) /\ toUI \in Seq(UIMessage)
        /\ SlotOK(slot)
        /\ pc # "blocked" => slot = << >>
        /\ pc \in {"idle", "insert", "blocked"} /\ rect \subseteq Tiles /\ events \in Nat
    BY DEF QuietInv, TypeInv, UIOK, WebOK
  <1>2. /\ Asked(ui, web, toWeb) /\ Answered(ui, web, toUI, slot)
        /\ Current(ui, web, toUI, slot)
    BY DEF QuietInv, Agree
  <1>3. web.stateID <= ui.next /\ ui.current <= web.stateID BY <1>2 DEF Asked, Answered
  <1>4. Len(toUI) \in Nat BY <1>1
  <1> QED BY <1>1, <1>2, <1>3, <1>4

(* A handler that only sends: notices s, then perhaps a request.           *)
LEMMA UISendsKeeps ==
    ASSUME QuietInv, NEW u, UIOK(u), u.current = ui.current, u.next = ui.next,
           u.waiting = ui.waiting,
           u.sent = << >> \/ \E n \in Notice : u.sent = <<n>>,
           NEW v, UIOK(v), UILeaves(v), v.current = u.current, v.store = u.store, Sends(u, v),
           \/ v.next = u.next /\ u.store = ui.store
           \/ v.next = u.next + 1 /\ u.store \in {ui.store, << >>},
           UNCHANGED <<web, toUI, slot>>,
           pc' \in {"idle", "insert", "blocked"}, rect' \subseteq Tiles, events' \in Nat,
           pc' # "blocked" => slot = << >>, RaceFree => WaitsOK'
    PROVE  Keeps
  <1>0. /\ ui \in UIState /\ web \in WebState /\ toWeb \in Seq(WebMessage) /\ Len(toUI) \in Nat
        /\ Asked(ui, web, toWeb) /\ Answered(ui, web, toUI, slot)
        /\ Current(ui, web, toUI, slot) /\ toUI \in Seq(UIMessage) /\ SlotOK(slot)
    BY UIStart
  <1>1. u \in UIState /\ v \in UIState BY DEF UIOK
  <1>2. u.store = ui.store \/ u.store = << >> OBVIOUS
  <1>3. Answered(u, web, toUI, slot) BY <1>0, <1>2, AnsweredSame
  <1>4. Asked(u, web, toWeb \o u.sent) /\
        (Promises(ui, web, toWeb, toUI, slot) => Promises(u, web, toWeb \o u.sent, toUI, slot))
    <2>1. Asked(u, web, toWeb) BY <1>0 DEF Asked
    <2>2. ASSUME Promises(ui, web, toWeb, toUI, slot)
          PROVE  Promises(u, web, toWeb, toUI, slot)
      BY <1>2, <2>2, PromisesSame
    <2>3. CASE u.sent = << >>
      <3>1. toWeb \o u.sent = toWeb BY <1>0, <2>3
      <3> QED BY <2>1, <2>2, <3>1
    <2>4. CASE \E n \in Notice : u.sent = <<n>>
      <3>1. PICK n \in Notice : u.sent = <<n>> BY <2>4
      <3>2. n \in WebMessage BY DEF WebMessage
      <3>3. toWeb \o u.sent = Append(toWeb, n) BY <1>0, <3>1, <3>2
      <3>4. Asked(u, web, Append(toWeb, n)) BY <1>0, <1>1, <2>1, AskedNotice
      <3>5. ASSUME Promises(u, web, toWeb, toUI, slot)
            PROVE  Promises(u, web, Append(toWeb, n), toUI, slot)
        BY <1>0, <3>2, <3>5, PromisesMore
      <3> QED BY <2>2, <3>3, <3>4, <3>5
    <2> QED BY <2>3, <2>4
  <1>5. (v.next = u.next /\ Current(u, web, toUI, slot)) \/ v.next = u.next + 1
    <2>1. CASE v.next = u.next /\ u.store = ui.store
      <3>1. \A V \in Stores(web.size) : Matches(V, web) => Matches(V, web) OBVIOUS
      <3>2. Current(u, web, toUI, slot) BY <1>0, <2>1, <3>1, CurrentSame
      <3> QED BY <2>1, <3>2
    <2> QED BY <2>1
  <1>6. /\ Agree(v, web, toWeb \o v.sent, toUI, slot)
        /\ Promises(u, web, toWeb \o u.sent, toUI, slot) =>
             Promises(v, web, toWeb \o v.sent, toUI, slot)
    <2>1. Asked(u, web, toWeb \o u.sent) BY <1>4
    <2> QED BY <1>0, <1>1, <1>3, <1>5, <2>1, UISends
  <1>7. RaceFree => WaitsOK' /\ Promises(v, web, toWeb \o v.sent, toUI, slot)
    BY <1>4, <1>6 DEF RaceFree
  <1>8. toUI' = toUI /\ slot' = slot /\ web' = web OBVIOUS
  <1> QED BY <1>0, <1>6, <1>7, <1>8, UILeavesKeeps

(* Nothing that the wait depends on changes.                               *)
LEMMA WaitsSame ==
    ASSUME WaitsOK, UNCHANGED <<toUI, pc>>, ui'.compositing = ui.compositing
    PROVE  WaitsOK'
  BY DEF WaitsOK

LEMMA UILeavesCompositing ==
    ASSUME NEW v, UIOK(v), UILeaves(v), v.compositing = ui.compositing
    PROVE  ui'.compositing = ui.compositing
  <1>1. PICK x : x = [v EXCEPT !.sent = << >>] OBVIOUS
  <1>2. ui' = x BY <1>1 DEF UILeaves
  <1>3. x.compositing = v.compositing BY <1>1, UISentEffect
  <1> QED BY <1>2, <1>3

(* What happens to the view, or a timer, while the process is idle.        *)
LEMMA UIIdleKeeps ==
    ASSUME QuietInv, NEW u, UIOK(u), u.current = ui.current, u.next = ui.next,
           u.waiting = ui.waiting,
           u.sent = << >> \/ \E n \in Notice : u.sent = <<n>>,
           NEW v, UIOK(v), UILeaves(v), v.compositing = ui.compositing,
           v.current = u.current, v.store = u.store, Sends(u, v),
           \/ v.next = u.next /\ u.store = ui.store
           \/ v.next = u.next + 1 /\ u.store \in {ui.store, << >>},
           pc = "idle", UNCHANGED <<web, toUI, pc, rect, slot>>, events' \in {events, events + 1}
    PROVE  Keeps
  <1>1. /\ pc # "blocked" => slot = << >>
        /\ pc \in {"idle", "insert", "blocked"} /\ rect \subseteq Tiles /\ events \in Nat
    BY UIStart
  <1>2. ui'.compositing = ui.compositing BY UILeavesCompositing
  <1>3. RaceFree => WaitsOK' BY <1>2, WaitsSame DEF RaceFree
  <1>4. /\ pc' \in {"idle", "insert", "blocked"} /\ rect' \subseteq Tiles /\ events' \in Nat
        /\ pc' # "blocked" => slot = << >>
    BY <1>1
  <1>5. UNCHANGED <<web, toUI, slot>> OBVIOUS
  <1> QED BY <1>3, <1>4, <1>5, UISendsKeeps

(* backingStoreStateDidChange, called in u.                                *)
LEMMA DidChangeSends ==
    ASSUME QuietInv, NEW u, UIOK(u), u.current = ui.current, u.next = ui.next,
           NEW imm \in BOOLEAN, NEW v, v = BackingStoreStateDidChange(u, imm)
    PROVE  /\ UIOK(v) /\ v.compositing = u.compositing /\ v.current = u.current
           /\ v.next = u.next + 1 /\ v.store = u.store /\ Sends(u, v)
  <1>1. /\ UIOK(v)
        /\ v.compositing = u.compositing /\ v.current = u.current /\ v.next = u.next + 1
        /\ v.store = u.store
        /\ \/ v.sent = u.sent /\ v.waiting = u.waiting
           \/ \E q \in Request : /\ q.id = u.next + 1 /\ v.sent = Append(u.sent, q)
                                 /\ v.waiting = q.respondImmediately
    BY DidChangeEffect
  <1>2. v.current < v.next
    <2>1. web.stateID <= ui.next /\ ui.current <= web.stateID /\ ui \in UIState /\ web \in WebState
      BY UIStart
    <2>2. web.stateID \in Nat /\ ui.next \in Nat /\ ui.current \in Nat BY <2>1, UIFields, WebFields
    <2> QED BY <1>1, <2>1, <2>2
  <1>3. Sends(u, v) BY <1>1, <1>2 DEF Sends
  <1> QED BY <1>1, <1>3

LEMMA DiscardBackingStoreKeeps ==
    ASSUME QuietInv, DiscardBackingStore
    PROVE  Keeps
  <1>0. UIOK(ui) /\ ui \in UIState /\ ui.sent = << >> BY UIStart
  <1> DEFINE ff == FALSE
             e == << >>
             u == [ui EXCEPT !.discardTimer = ff, !.store = e]
             v == BackingStoreStateDidChange(u, ff)
  <1>1. /\ UILeaves(v) /\ v = BackingStoreStateDidChange(u, ff)
        /\ pc = "idle" /\ UNCHANGED <<web, toUI, pc, rect, slot>> /\ events' = events
    BY DEF DiscardBackingStore
  <1>2. ff \in BOOLEAN /\ e \in Seq(Int) /\ e = << >> /\ Len(e) = 0 OBVIOUS
  <1> HIDE DEF ff, e
  <1>3. /\ u \in UIState /\ u.store = e /\ u.current = ui.current /\ u.next = ui.next
        /\ u.compositing = ui.compositing /\ u.waiting = ui.waiting /\ u.sent = ui.sent
        /\ u.size = ui.size /\ u.invalid = ui.invalid
    BY <1>0, <1>2 DEF UIState
  <1> HIDE DEF u, v
  <1>4. UIOK(u) BY <1>0, <1>2, <1>3, DrawingAreaAssumption DEF UIOK
  <1>5. /\ UIOK(v) /\ v.compositing = u.compositing /\ v.current = u.current
        /\ v.next = u.next + 1 /\ v.store = u.store /\ Sends(u, v)
    BY <1>1, <1>2, <1>3, <1>4, DidChangeSends
  <1>6. u.sent = << >> /\ u.store \in {ui.store, << >>} /\ v.compositing = ui.compositing
    BY <1>0, <1>2, <1>3, <1>5
  <1>7. events' \in {events, events + 1} BY <1>1
  <1> QED BY <1>1, <1>3, <1>4, <1>5, <1>6, <1>7, UIIdleKeeps

LEMMA EventHappens ==
    ASSUME ViewEvent
    PROVE  /\ pc = "idle" /\ UNCHANGED <<web, toUI, pc, rect, slot>>
           /\ events' \in {events, events + 1}
  BY DEF ViewEvent, Happens

(* A view event that sends at most a notice.                               *)
LEMMA EventKeeps ==
    ASSUME QuietInv, ViewEvent, NEW u, UIOK(u), UILeaves(u), u.compositing = ui.compositing,
           u.current = ui.current, u.next = ui.next, u.waiting = ui.waiting,
           u.store = ui.store,
           u.sent = << >> \/ \E n \in Notice : u.sent = <<n>>
    PROVE  Keeps
  <1>1. Sends(u, u) BY DEF Sends
  <1>2. /\ pc = "idle" /\ UNCHANGED <<web, toUI, pc, rect, slot>>
        /\ events' \in {events, events + 1}
    BY EventHappens
  <1> QED BY <1>1, <1>2, UIIdleKeeps

(* A view event after which the next state is another one.                 *)
LEMMA EventChangesKeeps ==
    ASSUME QuietInv, ViewEvent, NEW u, UIOK(u), u.compositing = ui.compositing,
           u.current = ui.current, u.next = ui.next, u.waiting = ui.waiting,
           u.store = ui.store,
           u.sent = << >> \/ \E n \in Notice : u.sent = <<n>>,
           NEW imm \in BOOLEAN, UILeaves(BackingStoreStateDidChange(u, imm))
    PROVE  Keeps
  <1>1. PICK v : v = BackingStoreStateDidChange(u, imm) OBVIOUS
  <1>2. UILeaves(v) BY <1>1
  <1>3. /\ UIOK(v) /\ v.compositing = u.compositing /\ v.current = u.current
        /\ v.next = u.next + 1 /\ v.store = u.store /\ Sends(u, v)
    BY <1>1, DidChangeSends
  <1>4. /\ pc = "idle" /\ UNCHANGED <<web, toUI, pc, rect, slot>>
        /\ events' \in {events, events + 1}
    BY EventHappens
  <1>5. u.store \in {ui.store, << >>} /\ v.compositing = ui.compositing BY <1>3
  <1> QED BY <1>2, <1>3, <1>4, <1>5, UIIdleKeeps

LEMMA ExposeKeeps ==
    ASSUME QuietInv, Expose
    PROVE  Keeps
  <1>0. ui \in UIState /\ Len(ui.store) <= MaxSize /\ ui.sent = << >> BY UIStart
  <1>1. PICK u : u = Lost(ui) OBVIOUS
  <1>2. ViewEvent /\ UILeaves(u) BY <1>1 DEF Expose
  <1>3. Redraws(ui, u) BY <1>0, <1>1, LostEffect
  <1>4. /\ UIOK(u) /\ u.compositing = ui.compositing /\ u.current = ui.current
        /\ u.next = ui.next /\ u.waiting = ui.waiting /\ u.store = ui.store /\ u.sent = << >>
    BY <1>0, <1>3 DEF Redraws
  <1> QED BY <1>2, <1>4, EventKeeps

LEMMA SizeDidChangeKeeps ==
    ASSUME QuietInv, NEW n \in 0..MaxSize, SizeDidChange(n)
    PROVE  Keeps
  <1>0. ui \in UIState /\ Len(ui.store) <= MaxSize /\ ui.sent = << >> BY UIStart
  <1> DEFINE tt == TRUE
             y == [ui EXCEPT !.size = n]
             u == Lost(y)
  <1>1. ViewEvent /\ UILeaves(BackingStoreStateDidChange(u, tt)) /\ u = Lost(y)
    BY DEF SizeDidChange
  <1>2. tt \in BOOLEAN OBVIOUS
  <1> HIDE DEF tt
  <1>3. /\ y \in UIState /\ y.store = ui.store /\ y.current = ui.current /\ y.next = ui.next
        /\ y.compositing = ui.compositing /\ y.waiting = ui.waiting /\ y.sent = ui.sent
    BY <1>0 DEF UIState
  <1> HIDE DEF y, u
  <1>4. Redraws(y, u) BY <1>0, <1>1, <1>3, LostEffect
  <1>5. /\ UIOK(u) /\ u.compositing = ui.compositing /\ u.current = ui.current
        /\ u.next = ui.next /\ u.waiting = ui.waiting /\ u.store = ui.store /\ u.sent = << >>
    BY <1>0, <1>3, <1>4 DEF Redraws
  <1> QED BY <1>1, <1>2, <1>5, EventChangesKeeps

LEMMA PlainNotice ==
    ASSUME NEW s \in {"DidUpdate", "SuspendPainting", "ResumePainting", "ForceRepaint"}
    PROVE  Plain(s) \in Notice
  BY DEF Plain, Notice

LEMMA VisibilityDidChangeKeeps ==
    ASSUME QuietInv, VisibilityDidChange
    PROVE  Keeps
  <1>0. UIOK(ui) /\ ui \in UIState /\ Len(ui.store) <= MaxSize /\ ui.sent = << >> BY UIStart
  <1>1. ViewEvent BY DEF VisibilityDidChange
  <1> DEFINE tt == TRUE
             ff == FALSE
  <1>2. tt \in BOOLEAN /\ ff \in BOOLEAN OBVIOUS
  <1>3. CASE ui.visible
    <2> DEFINE n == Plain("SuspendPainting")
               s == <<n>>
               u == [ui EXCEPT !.visible = ff, !.sent = s]
    <2>1. UILeaves(u) BY <1>3 DEF VisibilityDidChange
    <2>2. n \in Notice /\ n \in WebMessage BY PlainNotice DEF WebMessage
    <2> HIDE DEF n
    <2>3. s \in Seq(WebMessage) /\ s = <<n>> BY <2>2
    <2> HIDE DEF ff, s
    <2>4. /\ u \in UIState /\ u.store = ui.store /\ u.current = ui.current /\ u.next = ui.next
          /\ u.compositing = ui.compositing /\ u.waiting = ui.waiting /\ u.sent = s
          /\ u.size = ui.size /\ u.invalid = ui.invalid
      BY <1>0, <1>2, <2>3 DEF UIState
    <2> HIDE DEF u
    <2>5. UIOK(u) BY <1>0, <2>4 DEF UIOK
    <2>6. \E k \in Notice : u.sent = <<k>> BY <2>2, <2>3, <2>4
    <2> QED BY <1>1, <2>1, <2>4, <2>5, <2>6, EventKeeps
  <1>4. CASE ~ui.visible
    <2> DEFINE n == Plain("ResumePainting")
               s == <<n>>
               y == [ui EXCEPT !.visible = tt, !.sent = s]
               u == Lost(y)
    <2>1. UILeaves(IF u.compositing /\ u.store = << >> THEN BackingStoreStateDidChange(u, ff) ELSE u)
      BY <1>4 DEF VisibilityDidChange
    <2>2. n \in Notice /\ n \in WebMessage BY PlainNotice DEF WebMessage
    <2> HIDE DEF n
    <2>3. s \in Seq(WebMessage) /\ s = <<n>> BY <2>2
    <2> HIDE DEF tt, ff, s
    <2>4. /\ y \in UIState /\ y.store = ui.store /\ y.current = ui.current /\ y.next = ui.next
          /\ y.compositing = ui.compositing /\ y.waiting = ui.waiting /\ y.sent = s
      BY <1>0, <1>2, <2>3 DEF UIState
    <2>u. u = Lost(y) OBVIOUS
    <2> HIDE DEF y, u
    <2>5. Redraws(y, u) BY <1>0, <2>4, <2>u, LostEffect
    <2>6. /\ UIOK(u) /\ u.compositing = ui.compositing /\ u.current = ui.current
          /\ u.next = ui.next /\ u.waiting = ui.waiting /\ u.store = ui.store /\ u.sent = s
      BY <2>4, <2>5 DEF Redraws
    <2>7. \E k \in Notice : u.sent = <<k>> BY <2>2, <2>3, <2>6
    <2>8. CASE u.compositing /\ u.store = << >>
      <3>1. UILeaves(BackingStoreStateDidChange(u, ff)) BY <2>1, <2>8
      <3> QED BY <1>1, <1>2, <2>6, <2>7, <3>1, EventChangesKeeps
    <2>9. CASE ~(u.compositing /\ u.store = << >>)
      <3>1. UILeaves(u) BY <2>1, <2>9
      <3> QED BY <1>1, <2>6, <2>7, <3>1, EventKeeps
    <2> QED BY <2>8, <2>9
  <1> QED BY <1>3, <1>4

LEMMA SetBackingStoreIsDiscardableKeeps ==
    ASSUME QuietInv, SetBackingStoreIsDiscardable
    PROVE  Keeps
  <1>0. UIOK(ui) /\ ui \in UIState /\ ui.sent = << >> BY UIStart
  <1>1. ViewEvent BY DEF SetBackingStoreIsDiscardable
  <1> DEFINE tt == TRUE
             ff == FALSE
             y == [ui EXCEPT !.discardable = ff, !.discardTimer = ff]
             z == [ui EXCEPT !.discardable = tt]
             v == DiscardBackingStoreSoon(z)
  <1>2. UILeaves(IF ui.discardable THEN y ELSE v) BY DEF SetBackingStoreIsDiscardable
  <1>3. tt \in BOOLEAN /\ ff \in BOOLEAN /\ v = DiscardBackingStoreSoon(z) OBVIOUS
  <1> HIDE DEF tt, ff, v
  <1>4. /\ y \in UIState /\ y.store = ui.store /\ y.current = ui.current /\ y.next = ui.next
        /\ y.compositing = ui.compositing /\ y.waiting = ui.waiting /\ y.sent = ui.sent
        /\ y.size = ui.size /\ y.invalid = ui.invalid
    BY <1>0, <1>3 DEF UIState
  <1>5. /\ z \in UIState /\ z.store = ui.store /\ z.current = ui.current /\ z.next = ui.next
        /\ z.compositing = ui.compositing /\ z.waiting = ui.waiting /\ z.sent = ui.sent
        /\ z.size = ui.size /\ z.invalid = ui.invalid
    BY <1>0, <1>3 DEF UIState
  <1> HIDE DEF y, z
  <1>6. UIOK(y) /\ y.sent = << >> BY <1>0, <1>4 DEF UIOK
  <1>7. UIOK(z) BY <1>0, <1>5 DEF UIOK
  <1>8. Redraws(z, v) BY <1>3, <1>7, DiscardSoonEffect
  <1>9. /\ UIOK(v) /\ v.compositing = ui.compositing /\ v.current = ui.current
        /\ v.next = ui.next /\ v.waiting = ui.waiting /\ v.store = ui.store /\ v.sent = << >>
    BY <1>0, <1>5, <1>8 DEF Redraws
  <1>10. CASE ui.discardable
    <2>1. UILeaves(y) BY <1>2, <1>10
    <2> QED BY <1>1, <1>4, <1>6, <2>1, EventKeeps
  <1>11. CASE ~ui.discardable
    <2>1. UILeaves(v) BY <1>2, <1>11
    <2> QED BY <1>1, <1>9, <2>1, EventKeeps
  <1> QED BY <1>10, <1>11

LEMMA WebPageProxyForceRepaintKeeps ==
    ASSUME QuietInv, WebPageProxyForceRepaint
    PROVE  Keeps
  <1>0. UIOK(ui) /\ ui \in UIState /\ ui.sent = << >> BY UIStart
  <1>1. ViewEvent BY DEF WebPageProxyForceRepaint
  <1> DEFINE tt == TRUE
             n == Plain("ForceRepaint")
             s == <<n>>
             u == [ui EXCEPT !.hasReceivedFirstUpdate = tt, !.sent = s]
  <1>2. UILeaves(u) BY DEF WebPageProxyForceRepaint
  <1>3. n \in Notice /\ n \in WebMessage /\ tt \in BOOLEAN BY PlainNotice DEF WebMessage
  <1> HIDE DEF n
  <1>4. s \in Seq(WebMessage) /\ s = <<n>> BY <1>3
  <1> HIDE DEF tt, s
  <1>5. /\ u \in UIState /\ u.store = ui.store /\ u.current = ui.current /\ u.next = ui.next
        /\ u.compositing = ui.compositing /\ u.waiting = ui.waiting /\ u.sent = s
        /\ u.size = ui.size /\ u.invalid = ui.invalid
    BY <1>0, <1>3, <1>4 DEF UIState
  <1> HIDE DEF u
  <1>6. UIOK(u) BY <1>0, <1>5 DEF UIOK
  <1>7. \E k \in Notice : u.sent = <<k>> BY <1>3, <1>4, <1>5
  <1> QED BY <1>1, <1>2, <1>5, <1>6, <1>7, EventKeeps

(* A message of the UI process's queue is handled: it has no wait.         *)
LEMMA MessageTaken ==
    ASSUME QuietInv, NEW s, UIReceives(s)
    PROVE  /\ pc = "idle" /\ toUI # << >> /\ toUI' = Tail(toUI) /\ slot = << >>
           /\ UNCHANGED <<web, pc, rect, slot, events>>
           /\ Without(Tail(toUI), toUI, 1) /\ Tail(toUI) \in Seq(UIMessage)
           /\ Head(toUI) = toUI[1] /\ 1 \in DOMAIN toUI /\ toUI[1] \in UIMessage
           /\ toUI[1].type = s
           /\ RaceFree /\ ui'.compositing = ui.compositing => WaitsOK'
  <1>1. /\ pc = "idle" /\ toUI # << >> /\ toUI' = Tail(toUI)
        /\ UNCHANGED <<web, pc, rect, slot, events>> /\ Head(toUI).type = s
    BY DEF UIReceives
  <1>2. toUI \in Seq(UIMessage) /\ slot = << >>
    <2>1. toUI \in Seq(UIMessage) /\ (pc # "blocked" => slot = << >>) BY UIStart
    <2> QED BY <1>1, <2>1
  <1>3. Without(Tail(toUI), toUI, 1) /\ Head(toUI) = toUI[1] /\ 1 \in DOMAIN toUI
    BY <1>1, <1>2, TailIsWithout
  <1>4. Tail(toUI) \in Seq(UIMessage) /\ toUI[1] \in UIMessage BY <1>1, <1>2
  <1>5. ASSUME RaceFree, ui'.compositing = ui.compositing PROVE WaitsOK'
    BY <1>1, <1>5 DEF RaceFree, WaitsOK
  <1> QED BY <1>1, <1>2, <1>3, <1>4, <1>5

LEMMA UpdateKeeps ==
    ASSUME QuietInv, Update
    PROVE  Keeps
  <1>0. /\ UIOK(ui) /\ ui \in UIState /\ ui.sent = << >> /\ web \in WebState
        /\ toWeb \in Seq(WebMessage) /\ toUI \in Seq(UIMessage)
        /\ Asked(ui, web, toWeb) /\ Answered(ui, web, toUI, slot)
        /\ Current(ui, web, toUI, slot)
        /\ pc \in {"idle", "insert", "blocked"} /\ rect \subseteq Tiles /\ events \in Nat
    BY UIStart
  <1> DEFINE s == "Update"
             tv == Tail(toUI)
  <1>1. UIReceives(s) /\ s = "Update" BY DEF Update
  <1> HIDE DEF s
  <1>2. /\ pc = "idle" /\ toUI # << >> /\ toUI' = tv /\ slot = << >>
        /\ UNCHANGED <<web, pc, rect, slot, events>>
        /\ Without(tv, toUI, 1) /\ tv \in Seq(UIMessage)
        /\ Head(toUI) = toUI[1] /\ 1 \in DOMAIN toUI /\ toUI[1] \in UIMessage
        /\ toUI[1].type = s
        /\ RaceFree /\ ui'.compositing = ui.compositing => WaitsOK'
    BY <1>1, MessageTaken
  <1> HIDE DEF tv
  <1>3. PICK m \in UIMessage : m = toUI[1] BY <1>2
  <1>b. PICK mapped \in Mappings : UILeaves(UpdateProxy(ui, m, mapped))
    BY <1>2, <1>3 DEF Update
  <1>4. PICK v : v = UpdateProxy(ui, m, mapped) OBVIOUS
  <1>5. UILeaves(v) /\ mapped \in BOOLEAN BY <1>b, <1>4, BitmapsAreBoolean
  <1>6. \/ m.id < ui.current /\ v = ui
        \/ /\ m.id >= ui.current /\ UIOK(v) /\ Incorporated(ui, m.info, v.store)
           /\ v.compositing = ui.compositing /\ v.current = ui.current /\ v.next = ui.next
           /\ v.waiting = ui.waiting /\ v.sent = Append(ui.sent, Plain("DidUpdate"))
           /\ m.info.rects # {} =>
                Len(v.store) = IF ui.store # << >> THEN Len(ui.store) ELSE m.info.size
    BY <1>0, <1>4, <1>5, UpdateEffect
  <1>7. /\ UIOK(v) /\ v.compositing = ui.compositing /\ v.current = ui.current
        /\ v.next = ui.next /\ v.waiting = ui.waiting
    BY <1>0, <1>6
  <1>8. ~IsState(toUI[1]) BY <1>1, <1>2 DEF IsState
  <1> DEFINE n == Plain("DidUpdate")
             ts == toWeb \o v.sent
  <1>9. n \in Notice /\ n \in WebMessage BY PlainNotice DEF WebMessage
  <1>10. \/ /\ m.id < ui.current /\ v.store = ui.store /\ ts = toWeb
         \/ /\ m.id >= ui.current /\ Incorporated(ui, m.info, v.store)
            /\ m.info.rects # {} =>
                 Len(v.store) = IF ui.store # << >> THEN Len(ui.store) ELSE m.info.size
            /\ ts = Append(toWeb, n)
    <2>1. CASE m.id < ui.current /\ v = ui
      <3>1. ts = toWeb BY <1>0, <2>1
      <3> QED BY <2>1, <3>1
    <2>2. CASE m.id >= ui.current /\ v.sent = Append(ui.sent, Plain("DidUpdate"))
      <3>1. v.sent = <<n>> BY <1>0, <2>2
      <3> HIDE DEF n
      <3>2. ts = Append(toWeb, n) BY <1>0, <1>9, <3>1
      <3>3. \/ m.id < ui.current
            \/ /\ Incorporated(ui, m.info, v.store)
               /\ m.info.rects # {} =>
                    Len(v.store) = IF ui.store # << >> THEN Len(ui.store) ELSE m.info.size
        BY <1>6
      <3>4. m.id \in Nat /\ ui.current \in Nat BY <1>0, UIFields, MessageFields
      <3> QED BY <2>2, <3>2, <3>3, <3>4
    <2> QED BY <1>6, <2>1, <2>2
  <1>11. \/ v.store = ui.store
         \/ /\ m.id >= ui.current
            /\ Len(v.store) = IF ui.store # << >> THEN Len(ui.store) ELSE m.info.size
    BY <1>10 DEF Incorporated
  <1>12. Asked(v, web, ts)
    <2>1. Asked(v, web, toWeb) BY <1>0, <1>7 DEF Asked
    <2>2. v \in UIState BY <1>7 DEF UIOK
    <2>3. CASE ts = toWeb BY <2>1, <2>3
    <2>4. CASE ts = Append(toWeb, n)
      <3> HIDE DEF n, ts
      <3>1. Asked(v, web, Append(toWeb, n)) BY <1>0, <1>9, <2>1, <2>2, AskedNotice
      <3> QED BY <2>4, <3>1
    <2> QED BY <1>10, <2>3, <2>4
  <1>13. /\ Answered(ui, web, toUI, << >>) /\ Current(ui, web, toUI, << >>) /\ SlotOK(<< >>)
    BY <1>0, <1>2 DEF SlotOK
  <1>14. Answered(v, web, tv, << >>)
    <2>1. PICK sl : sl = << >> OBVIOUS
    <2>2. Answered(ui, web, toUI, sl) /\ SlotOK(sl) BY <1>13, <2>1
    <2>3. \/ v.store = ui.store
          \/ /\ toUI[1].id >= ui.current
             /\ Len(v.store) = IF ui.store # << >> THEN Len(ui.store) ELSE toUI[1].info.size
      BY <1>3, <1>11
    <2>4. Answered(v, web, tv, sl) BY <1>0, <1>2, <1>7, <2>2, <2>3, AnsweredUpdates
    <2> QED BY <2>1, <2>4
  <1>15. Current(v, web, tv, << >>)
    <2>1. \/ toUI[1].id < ui.current /\ v.store = ui.store
          \/ toUI[1].id >= ui.current /\ Incorporated(ui, toUI[1].info, v.store)
      BY <1>3, <1>10
    <2> QED BY <1>0, <1>2, <1>7, <1>8, <1>13, <2>1, CurrentUpdates
  <1>16. Agree(v, web, ts, tv, << >>) BY <1>12, <1>14, <1>15 DEF Agree
  <1>17. ASSUME RaceFree PROVE WaitsOK' /\ Promises(v, web, ts, tv, << >>)
    <2>1. ui'.compositing = ui.compositing BY <1>5, <1>7, UILeavesCompositing
    <2>2. WaitsOK' BY <1>2, <1>17, <2>1
    <2>3. Promises(ui, web, toWeb, toUI, << >>) BY <1>2, <1>17 DEF RaceFree
    <2>4. \/ toUI[1].id < ui.current /\ v.store = ui.store /\ ts = toWeb
          \/ /\ toUI[1].id >= ui.current /\ ts = Append(toWeb, Plain("DidUpdate"))
             /\ \/ v.store = ui.store
                \/ Len(v.store) = IF ui.store # << >> THEN Len(ui.store) ELSE toUI[1].info.size
      BY <1>3, <1>10, <1>11
    <2> HIDE DEF ts
    <2>5. Promises(v, web, ts, tv, << >>)
      BY <1>0, <1>2, <1>7, <1>8, <1>13, <2>3, <2>4, PromisesUpdates
    <2> QED BY <2>2, <2>5
  <1>18. PICK sl : sl = << >> OBVIOUS
  <1>19. /\ Agree(v, web, toWeb \o v.sent, tv, sl) /\ SlotOK(sl)
         /\ RaceFree => WaitsOK' /\ Promises(v, web, toWeb \o v.sent, tv, sl)
    BY <1>13, <1>16, <1>17, <1>18
  <1>20. /\ pc' \in {"idle", "insert", "blocked"} /\ rect' \subseteq Tiles /\ events' \in Nat
         /\ slot' = sl /\ web' = web
    BY <1>0, <1>2, <1>18
  <1> QED BY <1>2, <1>5, <1>7, <1>18, <1>19, <1>20, UILeavesKeeps

(* didUpdateBackingStoreState in two steps: m is taken, then perhaps a new *)
(* state is asked for.                                                     *)
LEMMA StateInSteps ==
    ASSUME NEW u, UIOK(u), NEW m \in UIMessage, m.id <= u.next,
           NEW mapped \in BOOLEAN, NEW v, v = DidUpdateBackingStoreState(u, m, mapped)
    PROVE  /\ UIOK(v) /\ v.compositing = u.compositing /\ v.next = u.next
           /\ \E y \in UIState :
                /\ y.current = m.id /\ y.next = u.next /\ ~y.waiting /\ y.sent = u.sent
                /\ y.store # << >> => Len(y.store) = m.info.size
                /\ m.info.rects \in {{}, 1..m.info.size} => Leaves(m, Shown(y, m.info.size))
                /\ v.current = y.current /\ v.store = y.store /\ Sends(y, v)
  <1>1. /\ UIOK(v) /\ v.compositing = u.compositing /\ v.current = m.id /\ v.next = u.next
        /\ \/ v.sent = u.sent /\ v.waiting = FALSE
           \/ \E q \in Request : /\ q.id = u.next /\ u.next # m.id
                                 /\ v.sent = Append(u.sent, q)
                                 /\ v.waiting = q.respondImmediately
        /\ v.store # << >> => Len(v.store) = m.info.size
        /\ m.info.rects \in {{}, 1..m.info.size} => Leaves(m, Shown(v, m.info.size))
    <2>1. EntersState(u, m, v) BY StateEffect
    <2> QED BY <2>1 DEF EntersState
  <1>2. u \in UIState /\ v \in UIState BY <1>1 DEF UIOK
  <1> DEFINE ff == FALSE
             s == u.sent
             y == [v EXCEPT !.waiting = ff, !.sent = s]
  <1>3. ff \in BOOLEAN /\ ff = FALSE /\ s \in Seq(WebMessage) /\ s = u.sent BY <1>2, UIFields
  <1> HIDE DEF ff, s
  <1>4. /\ y \in UIState /\ y.current = v.current /\ y.next = v.next /\ y.waiting = ff
        /\ y.sent = s /\ y.store = v.store
    <2>1. v \in UIState /\ ff \in BOOLEAN /\ s \in Seq(WebMessage) BY <1>2, <1>3
    <2> QED BY <2>1 DEF UIState
  <1> HIDE DEF y
  <1>5. Shown(y, m.info.size) = Shown(v, m.info.size) BY <1>4 DEF Shown
  <1>6. Sends(y, v)
    <2>1. CASE v.sent = u.sent /\ v.waiting = FALSE BY <1>3, <1>4, <2>1 DEF Sends
    <2>2. CASE \E q \in Request : /\ q.id = u.next /\ u.next # m.id
                                 /\ v.sent = Append(u.sent, q)
                                 /\ v.waiting = q.respondImmediately
      <3>1. m.id \in Nat /\ u.next \in Nat BY <1>2, UIFields, MessageFields
      <3>2. v.current < v.next BY <1>1, <2>2, <3>1
      <3> QED BY <1>1, <1>3, <1>4, <2>2, <3>2 DEF Sends
    <2> QED BY <1>1, <2>1, <2>2
  <1>7. /\ y.current = m.id /\ y.next = u.next /\ ~y.waiting /\ y.sent = u.sent
        /\ y.store # << >> => Len(y.store) = m.info.size
        /\ m.info.rects \in {{}, 1..m.info.size} => Leaves(m, Shown(y, m.info.size))
        /\ v.current = y.current /\ v.store = y.store
    BY <1>1, <1>3, <1>4, <1>5
  <1> QED BY <1>1, <1>4, <1>6, <1>7

(* The state arrives in the p-th message, the first that announces one.    *)
LEMMA StateArrives ==
    ASSUME NEW u, UIOK(u), NEW w \in WebState, NEW tw \in Seq(WebMessage),
           NEW tu \in Seq(UIMessage), NEW sl, sl = << >>, Agree(u, w, tw \o u.sent, tu, sl),
           NEW p \in DOMAIN tu, IsState(tu[p]), \A k \in 1..(p - 1) : ~IsState(tu[k]),
           NEW tv, Without(tv, tu, p), NEW mapped \in BOOLEAN,
           NEW v, v = DidUpdateBackingStoreState(u, tu[p], mapped)
    PROVE  /\ UIOK(v) /\ v.compositing = u.compositing
           /\ Agree(v, w, tw \o v.sent, tv, sl)
           /\ Promises(u, w, tw \o u.sent, tu, sl) => Promises(v, w, tw \o v.sent, tv, sl)
  <1>0. u \in UIState BY DEF UIOK
  <1>1. Asked(u, w, tw \o u.sent) /\ Answered(u, w, tu, << >>) /\ Current(u, w, tu, << >>)
    BY DEF Agree
  <1>2. PICK m \in UIMessage : m = tu[p] OBVIOUS
  <1>3. m.id <= u.next
    <2>1. m.id <= w.stateID BY <1>1, <1>2 DEF Answered
    <2>2. w.stateID <= u.next BY <1>1 DEF Asked
    <2>3. m.id \in Nat /\ w.stateID \in Nat /\ u.next \in Nat
      BY <1>0, UIFields, WebFields, MessageFields
    <2> QED BY <2>1, <2>2, <2>3
  <1>4. /\ UIOK(v) /\ v.compositing = u.compositing /\ v.next = u.next
        /\ \E y \in UIState :
              /\ y.current = m.id /\ y.next = u.next /\ ~y.waiting /\ y.sent = u.sent
              /\ y.store # << >> => Len(y.store) = m.info.size
              /\ m.info.rects \in {{}, 1..m.info.size} => Leaves(m, Shown(y, m.info.size))
              /\ v.current = y.current /\ v.store = y.store /\ Sends(y, v)
    <2>1. v = DidUpdateBackingStoreState(u, m, mapped) BY <1>2
    <2> QED BY <1>3, <2>1, StateInSteps
  <1>5. PICK y \in UIState :
              /\ y.current = m.id /\ y.next = u.next /\ ~y.waiting /\ y.sent = u.sent
              /\ y.store # << >> => Len(y.store) = m.info.size
              /\ m.info.rects \in {{}, 1..m.info.size} => Leaves(m, Shown(y, m.info.size))
              /\ v.current = y.current /\ v.store = y.store /\ Sends(y, v)
    BY <1>4
  <1>6. v \in UIState /\ tv \in Seq(UIMessage) /\ Len(tv) \in Nat BY <1>4 DEF UIOK, Without
  <1>s. sl = << >> OBVIOUS
  <1>7. Answered(y, w, tv, sl)
    <2>1. Answered(u, w, tu, sl) /\ SlotOK(sl) BY <1>1, <1>s DEF SlotOK
    <2>2. y.current = tu[p].id /\ (y.store # << >> => Len(y.store) = tu[p].info.size)
      BY <1>2, <1>5
    <2> QED BY <1>0, <2>1, <2>2, AnsweredArrives
  <1>8. Current(y, w, tv, sl)
    <2>1. /\ y.current = tu[p].id /\ y.next = u.next
          /\ tu[p].info.rects \in {{}, 1..tu[p].info.size} =>
               Leaves(tu[p], Shown(y, tu[p].info.size))
      BY <1>2, <1>5
    <2>2. Current(y, w, tv, << >>) BY <1>0, <1>1, <2>1, CurrentArrives
    <2> QED BY <1>s, <2>2
  <1>9. Asked(y, w, tw \o y.sent) BY <1>1, <1>5 DEF Asked
  <1>10. /\ Agree(v, w, tw \o v.sent, tv, sl)
         /\ Promises(y, w, tw \o y.sent, tv, sl) => Promises(v, w, tw \o v.sent, tv, sl)
    <2>1. v.next = y.next BY <1>4, <1>5
    <2> QED BY <1>5, <1>6, <1>7, <1>8, <1>9, <2>1, UISends
  <1>11. ASSUME Promises(u, w, tw \o u.sent, tu, sl)
         PROVE  Promises(v, w, tw \o v.sent, tv, sl)
    <2>1. PICK ts : ts = tw \o u.sent OBVIOUS
    <2>2. Promises(u, w, ts, tu, << >>) BY <1>11, <2>1
    <2>3. /\ y.current = tu[p].id /\ ~y.waiting
          /\ y.store # << >> => Len(y.store) = tu[p].info.size
      BY <1>2, <1>5
    <2>4. Promises(y, w, ts, tv, << >>) BY <1>0, <1>1, <2>2, <2>3, PromisesArrives
    <2>5. Promises(y, w, tw \o y.sent, tv, sl) BY <1>5, <1>s, <2>1, <2>4
    <2> QED BY <1>10, <2>5
  <1> QED BY <1>4, <1>10, <1>11

(* The state arrives in the wait.                                          *)
LEMMA StateTaken ==
    ASSUME NEW u, UIOK(u), NEW w \in WebState, NEW tw \in Seq(WebMessage),
           NEW tu \in Seq(UIMessage), NEW sl, SlotOK(sl), sl # << >>,
           Agree(u, w, tw \o u.sent, tu, sl), NEW mapped \in BOOLEAN,
           NEW v, v = DidUpdateBackingStoreState(u, sl[1], mapped), NEW e, e = << >>
    PROVE  /\ UIOK(v) /\ v.compositing = u.compositing
           /\ Agree(v, w, tw \o v.sent, tu, e)
           /\ Promises(u, w, tw \o u.sent, tu, sl) => Promises(v, w, tw \o v.sent, tu, e)
  <1>0. u \in UIState BY DEF UIOK
  <1>1. Asked(u, w, tw \o u.sent) /\ Answered(u, w, tu, sl) /\ Current(u, w, tu, sl)
    BY DEF Agree
  <1>i. sl[1] \in UIMessage /\ IsState(sl[1]) BY SlotMessage
  <1>2. PICK m \in UIMessage : m = sl[1] BY <1>i
  <1>3. m.id <= u.next
    <2>1. m.id <= w.stateID BY <1>1, <1>2 DEF Answered
    <2>2. w.stateID <= u.next BY <1>1 DEF Asked
    <2>3. m.id \in Nat /\ w.stateID \in Nat /\ u.next \in Nat
      BY <1>0, UIFields, WebFields, MessageFields
    <2> QED BY <2>1, <2>2, <2>3
  <1>4. /\ UIOK(v) /\ v.compositing = u.compositing /\ v.next = u.next
        /\ \E y \in UIState :
              /\ y.current = m.id /\ y.next = u.next /\ ~y.waiting /\ y.sent = u.sent
              /\ y.store # << >> => Len(y.store) = m.info.size
              /\ m.info.rects \in {{}, 1..m.info.size} => Leaves(m, Shown(y, m.info.size))
              /\ v.current = y.current /\ v.store = y.store /\ Sends(y, v)
    <2>1. v = DidUpdateBackingStoreState(u, m, mapped) BY <1>2
    <2> QED BY <1>3, <2>1, StateInSteps
  <1>5. PICK y \in UIState :
              /\ y.current = m.id /\ y.next = u.next /\ ~y.waiting /\ y.sent = u.sent
              /\ y.store # << >> => Len(y.store) = m.info.size
              /\ m.info.rects \in {{}, 1..m.info.size} => Leaves(m, Shown(y, m.info.size))
              /\ v.current = y.current /\ v.store = y.store /\ Sends(y, v)
    BY <1>4
  <1>6. v \in UIState /\ Len(tu) \in Nat BY <1>4 DEF UIOK
  <1>7. /\ y.current = sl[1].id /\ y.next = u.next /\ ~y.waiting
        /\ y.store # << >> => Len(y.store) = sl[1].info.size
        /\ sl[1].info.rects \in {{}, 1..sl[1].info.size} =>
             Leaves(sl[1], Shown(y, sl[1].info.size))
    BY <1>2, <1>5
  <1>8. Answered(y, w, tu, << >>) BY <1>0, <1>1, <1>7, AnsweredTakes
  <1>9. Current(y, w, tu, << >>) BY <1>0, <1>1, <1>i, <1>7, CurrentTakes
  <1>10. Asked(y, w, tw \o y.sent) BY <1>1, <1>5 DEF Asked
  <1>11. e = << >> OBVIOUS
  <1>12. /\ Agree(v, w, tw \o v.sent, tu, e)
         /\ Promises(y, w, tw \o y.sent, tu, e) => Promises(v, w, tw \o v.sent, tu, e)
    <2>1. v.next = y.next BY <1>4, <1>5
    <2>2. Answered(y, w, tu, e) /\ Current(y, w, tu, e) BY <1>8, <1>9, <1>11
    <2> QED BY <1>5, <1>6, <1>10, <2>1, <2>2, UISends
  <1>13. ASSUME Promises(u, w, tw \o u.sent, tu, sl)
         PROVE  Promises(v, w, tw \o v.sent, tu, e)
    <2>1. PICK ts : ts = tw \o u.sent OBVIOUS
    <2>2. Promises(u, w, ts, tu, sl) BY <1>13, <2>1
    <2>3. Promises(y, w, ts, tu, << >>) BY <1>0, <1>1, <1>7, <2>2, PromisesTakes
    <2>4. Promises(y, w, tw \o y.sent, tu, e) BY <1>5, <1>11, <2>1, <2>3
    <2> QED BY <1>12, <2>4
  <1> QED BY <1>4, <1>12, <1>13

(* What is painted last changes nothing that matters here.                 *)
LEMMA RedrawsSame ==
    ASSUME NEW u, NEW v, Redraws(u, v), NEW w, NEW tw, NEW tu, Len(tu) \in Nat, NEW sl,
           Agree(u, w, tw \o u.sent, tu, sl)
    PROVE  /\ UIOK(v) /\ v.compositing = u.compositing
           /\ Agree(v, w, tw \o v.sent, tu, sl)
           /\ Promises(u, w, tw \o u.sent, tu, sl) => Promises(v, w, tw \o v.sent, tu, sl)
  <1>1. /\ UIOK(v) /\ v.compositing = u.compositing /\ v.current = u.current /\ v.next = u.next
        /\ v.waiting = u.waiting /\ v.store = u.store /\ v.sent = u.sent
    BY DEF Redraws
  <1>2. PICK ts : ts = tw \o u.sent OBVIOUS
  <1>3. Asked(u, w, ts) /\ Answered(u, w, tu, sl) /\ Current(u, w, tu, sl) BY <1>2 DEF Agree
  <1>4. Asked(v, w, ts) BY <1>1, <1>3 DEF Asked
  <1>5. Answered(v, w, tu, sl) BY <1>1, <1>3, AnsweredSame
  <1>6. Current(v, w, tu, sl) BY <1>1, <1>3, CurrentSame
  <1>7. Agree(v, w, ts, tu, sl) BY <1>4, <1>5, <1>6 DEF Agree
  <1>8. ASSUME Promises(u, w, ts, tu, sl) PROVE Promises(v, w, ts, tu, sl)
    BY <1>1, <1>8, PromisesSame
  <1> QED BY <1>1, <1>2, <1>7, <1>8

LEMMA ReceiveDidUpdateBackingStoreStateKeeps ==
    ASSUME QuietInv, ReceiveDidUpdateBackingStoreState
    PROVE  Keeps
  <1>0. /\ UIOK(ui) /\ ui.sent = << >> /\ web \in WebState
        /\ toWeb \in Seq(WebMessage) /\ toUI \in Seq(UIMessage)
        /\ pc \in {"idle", "insert", "blocked"} /\ rect \subseteq Tiles /\ events \in Nat
    BY UIStart
  <1> DEFINE s == "DidUpdateBackingStoreState"
             tv == Tail(toUI)
  <1>1. UIReceives(s) /\ s = "DidUpdateBackingStoreState"
    BY DEF ReceiveDidUpdateBackingStoreState
  <1> HIDE DEF s
  <1>2. /\ pc = "idle" /\ toUI # << >> /\ toUI' = tv /\ slot = << >>
        /\ UNCHANGED <<web, pc, rect, slot, events>>
        /\ Without(tv, toUI, 1) /\ tv \in Seq(UIMessage)
        /\ Head(toUI) = toUI[1] /\ 1 \in DOMAIN toUI /\ toUI[1] \in UIMessage
        /\ toUI[1].type = s
        /\ RaceFree /\ ui'.compositing = ui.compositing => WaitsOK'
    BY <1>1, MessageTaken
  <1> HIDE DEF tv
  <1>3. PICK p \in DOMAIN toUI : p = 1 BY <1>2
  <1>b. PICK mapped \in Mappings : UILeaves(DidUpdateBackingStoreState(ui, toUI[p], mapped))
    BY <1>2, <1>3 DEF ReceiveDidUpdateBackingStoreState
  <1>4. PICK v : v = DidUpdateBackingStoreState(ui, toUI[p], mapped) OBVIOUS
  <1>5. UILeaves(v) /\ mapped \in BOOLEAN BY <1>b, <1>4, BitmapsAreBoolean
  <1>6. toWeb \o ui.sent = toWeb BY <1>0
  <1>11. PICK sl : sl = << >> OBVIOUS
  <1>7. Agree(ui, web, toWeb \o ui.sent, toUI, sl) BY <1>2, <1>6, <1>11 DEF QuietInv
  <1>8. IsState(toUI[p]) /\ Without(tv, toUI, p) /\ \A k \in 1..(p - 1) : ~IsState(toUI[k])
    BY <1>1, <1>2, <1>3 DEF IsState
  <1>9. /\ UIOK(v) /\ v.compositing = ui.compositing
        /\ Agree(v, web, toWeb \o v.sent, tv, sl)
        /\ Promises(ui, web, toWeb \o ui.sent, toUI, sl) =>
             Promises(v, web, toWeb \o v.sent, tv, sl)
    <2>1. /\ UIOK(ui) /\ web \in WebState
          /\ toWeb \in Seq(WebMessage) /\ toUI \in Seq(UIMessage)
      BY <1>0
    <2> QED BY <2>1, <1>4, <1>5, <1>7, <1>8, <1>11, StateArrives
  <1>10. ASSUME RaceFree PROVE WaitsOK' /\ Promises(v, web, toWeb \o v.sent, tv, sl)
    <2>1. ui'.compositing = ui.compositing BY <1>5, <1>9, UILeavesCompositing
    <2>2. WaitsOK' BY <1>2, <1>10, <2>1
    <2>3. Promises(ui, web, toWeb \o ui.sent, toUI, sl) BY <1>2, <1>6, <1>10, <1>11 DEF RaceFree
    <2> QED BY <1>9, <2>2, <2>3
  <1>12. SlotOK(sl) BY <1>11 DEF SlotOK
  <1>13. /\ pc' \in {"idle", "insert", "blocked"} /\ rect' \subseteq Tiles /\ events' \in Nat
         /\ slot' = sl /\ web' = web
    BY <1>0, <1>2, <1>11
  <1> QED BY <1>2, <1>5, <1>9, <1>10, <1>11, <1>12, <1>13, UILeavesKeeps

LEMMA WaitInsertsKeeps ==
    ASSUME QuietInv, WaitInserts
    PROVE  Keeps
  <1>1. /\ UNCHANGED <<ui, web, toWeb, toUI, rect, slot, events>> /\ pc = "insert"
        /\ pc' = "blocked"
    BY DEF WaitInserts
  <1>2. TypeInv' BY <1>1 DEF QuietInv, TypeInv
  <1>3. QuietInv' BY <1>1, <1>2 DEF QuietInv
  <1>4. ~RaceFree BY <1>1 DEF RaceFree, WaitsOK
  <1> QED BY <1>1, <1>3, <1>4 DEF Keeps, TimerWhileWaiting

(* paint returns from its wait and has painted v.                          *)
LEMMA ReturnKeeps ==
    ASSUME QuietInv, NEW v, UIOK(v), UILeaves(v), PaintReturns, v.compositing = ui.compositing,
           Agree(v, web, toWeb \o v.sent, toUI, << >>),
           RaceFree => Promises(v, web, toWeb \o v.sent, toUI, << >>)
    PROVE  Keeps
  <1>0. toUI \in Seq(UIMessage) /\ events \in Nat BY UIStart
  <1>1. /\ pc' = "idle" /\ rect' = {} /\ slot' = << >> /\ web' = web /\ toUI' = toUI
        /\ events' = events
    BY DEF PaintReturns
  <1>2. ui'.compositing = ui.compositing BY UILeavesCompositing
  <1>3. RaceFree => WaitsOK' BY <1>1, <1>2 DEF RaceFree, WaitsOK
  <1>4. PICK sl : sl = << >> OBVIOUS
  <1>5. /\ Agree(v, web, toWeb \o v.sent, toUI, sl) /\ SlotOK(sl) /\ slot' = sl
        /\ RaceFree => WaitsOK' /\ Promises(v, web, toWeb \o v.sent, toUI, sl)
    BY <1>1, <1>3, <1>4 DEF SlotOK
  <1>6. /\ pc' \in {"idle", "insert", "blocked"} /\ rect' \subseteq Tiles /\ events' \in Nat
    BY <1>0, <1>1
  <1> QED BY <1>0, <1>1, <1>4, <1>5, <1>6, UILeavesKeeps

LEMMA WaitGetsMessageKeeps ==
    ASSUME QuietInv, WaitGetsMessage
    PROVE  Keeps
  <1>0. /\ UIOK(ui) /\ ui.sent = << >> /\ web \in WebState /\ SlotOK(slot)
        /\ toWeb \in Seq(WebMessage) /\ toUI \in Seq(UIMessage) /\ Len(toUI) \in Nat
    BY UIStart
  <1>b. PICK mapped \in Mappings :
          UILeaves(PaintStore(DidUpdateBackingStoreState(ui, slot[1], mapped), rect))
    BY DEF WaitGetsMessage
  <1>1. PICK u : u = DidUpdateBackingStoreState(ui, slot[1], mapped) OBVIOUS
  <1>2. PICK v : v = PaintStore(u, rect) OBVIOUS
  <1>3. UILeaves(v) /\ PaintReturns /\ slot # << >> /\ mapped \in BOOLEAN
    BY <1>b, <1>1, <1>2, BitmapsAreBoolean DEF WaitGetsMessage
  <1>4. toWeb \o ui.sent = toWeb BY <1>0
  <1>5. Agree(ui, web, toWeb \o ui.sent, toUI, slot) BY <1>4 DEF QuietInv
  <1>s. PICK sl : sl = << >> OBVIOUS
  <1>6. /\ UIOK(u) /\ u.compositing = ui.compositing
        /\ Agree(u, web, toWeb \o u.sent, toUI, sl)
        /\ Promises(ui, web, toWeb \o ui.sent, toUI, slot) =>
             Promises(u, web, toWeb \o u.sent, toUI, sl)
    <2>1. /\ UIOK(ui) /\ web \in WebState /\ SlotOK(slot) /\ slot # << >>
          /\ toWeb \in Seq(WebMessage) /\ toUI \in Seq(UIMessage)
      BY <1>0, <1>3
    <2> QED BY <2>1, <1>1, <1>3, <1>5, <1>s, StateTaken
  <1>7. Redraws(u, v) BY <1>2, <1>6, PaintStoreEffect
  <1>8. /\ UIOK(v) /\ v.compositing = u.compositing
        /\ Agree(v, web, toWeb \o v.sent, toUI, sl)
        /\ Promises(u, web, toWeb \o u.sent, toUI, sl) =>
             Promises(v, web, toWeb \o v.sent, toUI, sl)
    BY <1>0, <1>6, <1>7, RedrawsSame
  <1>9. RaceFree => Promises(v, web, toWeb \o v.sent, toUI, << >>)
    BY <1>4, <1>6, <1>8, <1>s DEF RaceFree
  <1>10. v.compositing = ui.compositing /\ Agree(v, web, toWeb \o v.sent, toUI, << >>)
    BY <1>6, <1>8, <1>s
  <1> QED BY <1>3, <1>8, <1>9, <1>10, ReturnKeeps

LEMMA WaitTimesOutKeeps ==
    ASSUME QuietInv, WaitTimesOut
    PROVE  Keeps
  <1>0. /\ UIOK(ui) /\ ui.sent = << >> /\ Len(toUI) \in Nat /\ toWeb \in Seq(WebMessage)
        /\ Asked(ui, web, toWeb) /\ Answered(ui, web, toUI, slot)
        /\ Current(ui, web, toUI, slot)
    BY UIStart
  <1>1. PICK v : v = PaintStore(ui, rect) OBVIOUS
  <1>2. UILeaves(v) /\ PaintReturns /\ pc = "blocked" /\ (slot = << >> \/ LateTimeout)
    BY <1>1 DEF WaitTimesOut
  <1>3. Redraws(ui, v) BY <1>0, <1>1, PaintStoreEffect
  <1>4. toWeb \o ui.sent = toWeb BY <1>0
  <1>s. PICK sl : sl = << >> OBVIOUS
  <1>5. Agree(ui, web, toWeb \o ui.sent, toUI, sl)
    <2>1. Answered(ui, web, toUI, << >>) BY <1>0, AnsweredGivesUp
    <2>2. Current(ui, web, toUI, << >>) BY <1>0, CurrentGivesUp
    <2> QED BY <1>0, <1>4, <1>s, <2>1, <2>2 DEF Agree
  <1>6. /\ UIOK(v) /\ v.compositing = ui.compositing
        /\ Agree(v, web, toWeb \o v.sent, toUI, sl)
        /\ Promises(ui, web, toWeb \o ui.sent, toUI, sl) =>
             Promises(v, web, toWeb \o v.sent, toUI, sl)
    BY <1>0, <1>3, <1>5, RedrawsSame
  <1>7. ASSUME RaceFree PROVE Promises(v, web, toWeb \o v.sent, toUI, << >>)
    <2>1. ui.compositing /\ ~LateTimeout BY <1>2, <1>7 DEF RaceFree, WaitsOK
    <2>2. slot = << >> BY <1>2, <2>1
    <2>3. Promises(ui, web, toWeb \o ui.sent, toUI, sl) BY <1>4, <1>7, <1>s, <2>2 DEF RaceFree
    <2> QED BY <1>6, <1>s, <2>3
  <1>8. Agree(v, web, toWeb \o v.sent, toUI, << >>) BY <1>6, <1>s
  <1> QED BY <1>2, <1>6, <1>7, <1>8, ReturnKeeps

(* sendUpdateBackingStoreState while the current state is not the next.    *)
LEMMA AskSends ==
    ASSUME NEW u, UIOK(u), u.current < u.next, NEW w \in WebState, NEW tw \in Seq(WebMessage),
           NEW tu, Len(tu) \in Nat, NEW sl, Agree(u, w, tw \o u.sent, tu, sl),
           NEW imm \in BOOLEAN, NEW v, v = SendUpdateBackingStoreState(u, imm)
    PROVE  /\ UIOK(v) /\ v.compositing = u.compositing
           /\ Agree(v, w, tw \o v.sent, tu, sl)
           /\ Promises(u, w, tw \o u.sent, tu, sl) => Promises(v, w, tw \o v.sent, tu, sl)
  <1>1. /\ UIOK(v) /\ Asks(u, v)
        /\ v.compositing = u.compositing /\ v.current = u.current /\ v.next = u.next
        /\ v.store = u.store
    BY AskEffect
  <1>2. u \in UIState /\ v \in UIState BY <1>1 DEF UIOK
  <1>3. Sends(u, v) BY <1>1 DEF Asks, Sends
  <1>4. Asked(u, w, tw \o u.sent) /\ Answered(u, w, tu, sl) /\ Current(u, w, tu, sl)
    BY DEF Agree
  <1>5. (v.next = u.next /\ Current(u, w, tu, sl)) \/ v.next = u.next + 1 BY <1>1, <1>4
  <1>6. /\ Agree(v, w, tw \o v.sent, tu, sl)
        /\ Promises(u, w, tw \o u.sent, tu, sl) => Promises(v, w, tw \o v.sent, tu, sl)
    <2>1. v.current = u.current /\ v.store = u.store BY <1>1
    <2>2. Asked(u, w, tw \o u.sent) /\ Answered(u, w, tu, sl) BY <1>4
    <2> QED BY <1>2, <1>3, <1>5, <2>1, <2>2, UISends
  <1> QED BY <1>1, <1>6

(* paint paints v of u, without waiting.                                   *)
LEMMA PaintedKeeps ==
    ASSUME QuietInv, NEW u, u.compositing = ui.compositing,
           Agree(u, web, toWeb \o u.sent, toUI, slot),
           Promises(ui, web, toWeb, toUI, slot) =>
             Promises(u, web, toWeb \o u.sent, toUI, slot),
           NEW v, Redraws(u, v), UILeaves(v),
           UNCHANGED <<web, toUI, pc, rect, slot, events>>
    PROVE  Keeps
  <1>0. /\ Len(toUI) \in Nat /\ toUI \in Seq(UIMessage) /\ SlotOK(slot)
        /\ pc # "blocked" => slot = << >>
        /\ pc \in {"idle", "insert", "blocked"} /\ rect \subseteq Tiles /\ events \in Nat
    BY UIStart
  <1>1. /\ UIOK(v) /\ v.compositing = u.compositing
        /\ Agree(v, web, toWeb \o v.sent, toUI, slot)
        /\ Promises(u, web, toWeb \o u.sent, toUI, slot) =>
             Promises(v, web, toWeb \o v.sent, toUI, slot)
    BY <1>0, RedrawsSame
  <1>2. v.compositing = ui.compositing BY <1>1
  <1>3. ui'.compositing = ui.compositing BY <1>1, <1>2, UILeavesCompositing
  <1>4. RaceFree => WaitsOK' BY <1>3, WaitsSame DEF RaceFree
  <1>5. RaceFree => WaitsOK' /\ Promises(v, web, toWeb \o v.sent, toUI, slot)
    BY <1>1, <1>4 DEF RaceFree
  <1>6. /\ toUI' = toUI /\ slot' = slot /\ web' = web
        /\ pc' \in {"idle", "insert", "blocked"} /\ rect' \subseteq Tiles /\ events' \in Nat
        /\ pc' # "blocked" => slot = << >>
    BY <1>0
  <1> QED BY <1>0, <1>1, <1>5, <1>6, UILeavesKeeps

LEMMA PaintKeeps ==
    ASSUME QuietInv, Paint
    PROVE  Keeps
  <1>0. /\ UIOK(ui) /\ ui \in UIState /\ ui.sent = << >> /\ web \in WebState
        /\ toWeb \in Seq(WebMessage) /\ toUI \in Seq(UIMessage) /\ Len(toUI) \in Nat
        /\ SlotOK(slot) /\ (pc # "blocked" => slot = << >>)
        /\ pc \in {"idle", "insert", "blocked"} /\ rect \subseteq Tiles /\ events \in Nat
    BY UIStart
  <1> DEFINE r == ui.invalid
             e == {}
             tt == TRUE
             u == [ui EXCEPT !.invalid = e]
             x == SendUpdateBackingStoreState(u, tt)
             p == IncomingState(toUI)
             y(mapped) == DidUpdateBackingStoreState(x, toUI[p], mapped)
  <1>1. pc = "idle" /\ UNCHANGED <<web, slot, events>> BY DEF Paint
  <1>2. \/ /\ u.current = u.next
           /\ UILeaves(PaintStore(u, r))
           /\ UNCHANGED <<toUI, pc, rect>>
        \/ /\ u.current < u.next
           /\ UILeaves(PaintNothing(x, r)) \/ UILeaves(PaintStore(x, r))
           /\ UNCHANGED <<toUI, pc, rect>>
        \/ /\ u.current < u.next /\ p # 0
           /\ \E mapped \in Mappings : UILeaves(PaintStore(y(mapped), r))
           /\ toUI' = RemoveAt(toUI, p) /\ UNCHANGED <<pc, rect>>
        \/ /\ u.current < u.next /\ u.compositing /\ p = 0
           /\ UILeaves(x)
           /\ pc' = (IF LateInsert THEN "insert" ELSE "blocked")
           /\ rect' = r
           /\ UNCHANGED toUI
    BY DEF Paint
  <1>3. /\ e \in SUBSET Tiles /\ e = {} /\ tt \in BOOLEAN
        /\ x = SendUpdateBackingStoreState(u, tt) /\ p = IncomingState(toUI)
        /\ \A b \in Mappings : y(b) = DidUpdateBackingStoreState(x, toUI[p], b)
    OBVIOUS
  <1>4. r \subseteq Tiles BY <1>0, UIFields
  <1> HIDE DEF r, e, tt, x, p, y
  <1>5. /\ u \in UIState /\ u.store = ui.store /\ u.current = ui.current /\ u.next = ui.next
        /\ u.compositing = ui.compositing /\ u.waiting = ui.waiting /\ u.sent = ui.sent
        /\ u.size = ui.size /\ u.invalid = e
    BY <1>0, <1>3 DEF UIState
  <1> HIDE DEF u
  <1>6. UIOK(u) BY <1>0, <1>3, <1>5 DEF UIOK
  <1>7. toWeb \o u.sent = toWeb BY <1>0, <1>5
  <1>8. Agree(u, web, toWeb \o u.sent, toUI, slot) /\
        (Promises(ui, web, toWeb, toUI, slot) => Promises(u, web, toWeb \o u.sent, toUI, slot))
    <2>1. Redraws(ui, u) BY <1>5, <1>6 DEF Redraws
    <2>2. toWeb \o ui.sent = toWeb BY <1>0
    <2>3. Agree(ui, web, toWeb \o ui.sent, toUI, slot) BY <2>2 DEF QuietInv
    <2>4. Len(toUI) \in Nat BY <1>0
    <2>5. /\ Agree(u, web, toWeb \o u.sent, toUI, slot)
          /\ Promises(ui, web, toWeb \o ui.sent, toUI, slot) =>
               Promises(u, web, toWeb \o u.sent, toUI, slot)
      BY <2>1, <2>3, <2>4, RedrawsSame
    <2> QED BY <2>2, <2>5
  <1>9. CASE /\ u.current = u.next
             /\ UILeaves(PaintStore(u, r))
             /\ UNCHANGED <<toUI, pc, rect>>
    <2>1. PICK v : v = PaintStore(u, r) OBVIOUS
    <2>2. Redraws(u, v) /\ UILeaves(v) BY <1>6, <1>9, <2>1, PaintStoreEffect
    <2>3. UNCHANGED <<web, toUI, pc, rect, slot, events>> BY <1>1, <1>9
    <2>4. u.compositing = ui.compositing BY <1>5
    <2> QED BY <1>8, <2>2, <2>3, <2>4, PaintedKeeps
  <1>10. ASSUME u.current < u.next
         PROVE  /\ UIOK(x) /\ x.compositing = ui.compositing
                /\ Agree(x, web, toWeb \o x.sent, toUI, slot)
                /\ Promises(ui, web, toWeb, toUI, slot) =>
                     Promises(x, web, toWeb \o x.sent, toUI, slot)
    <2>1. /\ web \in WebState /\ toWeb \in Seq(WebMessage) /\ Len(toUI) \in Nat
      BY <1>0
    <2>2. Agree(u, web, toWeb \o u.sent, toUI, slot) BY <1>8
    <2>3. tt \in BOOLEAN /\ x = SendUpdateBackingStoreState(u, tt) BY <1>3
    <2>4. /\ UIOK(x) /\ x.compositing = u.compositing
          /\ Agree(x, web, toWeb \o x.sent, toUI, slot)
          /\ Promises(u, web, toWeb \o u.sent, toUI, slot) =>
               Promises(x, web, toWeb \o x.sent, toUI, slot)
      BY <1>6, <1>10, <2>1, <2>2, <2>3, AskSends
    <2> QED BY <1>5, <1>8, <2>4
  <1>11. CASE /\ u.current < u.next
              /\ UILeaves(PaintNothing(x, r)) \/ UILeaves(PaintStore(x, r))
              /\ UNCHANGED <<toUI, pc, rect>>
    <2>1. PICK v \in {PaintNothing(x, r), PaintStore(x, r)} : UILeaves(v) BY <1>11
    <2>2. UIOK(x) BY <1>10, <1>11
    <2>3. Redraws(x, v) BY <2>1, <2>2, PaintStoreEffect, PaintNothingEffect
    <2>4. UNCHANGED <<web, toUI, pc, rect, slot, events>> BY <1>1, <1>11
    <2> QED BY <1>10, <1>11, <2>1, <2>3, <2>4, PaintedKeeps
  <1>12. CASE /\ u.current < u.next /\ p # 0
              /\ \E mapped \in Mappings : UILeaves(PaintStore(y(mapped), r))
              /\ toUI' = RemoveAt(toUI, p) /\ UNCHANGED <<pc, rect>>
    <2>a. PICK mapped \in Mappings : UILeaves(PaintStore(y(mapped), r)) BY <1>12
    <2>b. PICK z : z = y(mapped) OBVIOUS
    <2>1. p \in DOMAIN toUI /\ IsState(toUI[p]) /\ \A k \in 1..(p - 1) : ~IsState(toUI[k])
      BY <1>0, <1>3, <1>12, IncomingEffect
    <2>2. PICK tv : tv = RemoveAt(toUI, p) OBVIOUS
    <2>3. Without(tv, toUI, p) BY <1>0, <2>1, <2>2, RemoveAtIsWithout
    <2>4. PICK sl : sl = << >> OBVIOUS
    <2>5. slot = sl BY <1>0, <1>1, <2>4
    <2>6. Agree(x, web, toWeb \o x.sent, toUI, sl) /\ UIOK(x) BY <1>10, <1>12, <2>5
    <2>7. /\ UIOK(z) /\ z.compositing = x.compositing
          /\ Agree(z, web, toWeb \o z.sent, tv, sl)
          /\ Promises(x, web, toWeb \o x.sent, toUI, sl) =>
               Promises(z, web, toWeb \o z.sent, tv, sl)
      <3>1. /\ web \in WebState /\ toWeb \in Seq(WebMessage) /\ toUI \in Seq(UIMessage)
        BY <1>0
      <3>2. z = DidUpdateBackingStoreState(x, toUI[p], mapped) /\ mapped \in BOOLEAN
        BY <1>3, <2>b, BitmapsAreBoolean
      <3> QED BY <2>1, <2>3, <2>4, <2>6, <3>1, <3>2, StateArrives
    <2>8. PICK v : v = PaintStore(z, r) OBVIOUS
    <2>9. Redraws(z, v) /\ UILeaves(v) BY <2>a, <2>b, <2>7, <2>8, PaintStoreEffect
    <2>10. tv \in Seq(UIMessage) /\ Len(tv) \in Nat BY <2>3 DEF Without
    <2>11. /\ UIOK(v) /\ v.compositing = z.compositing
           /\ Agree(v, web, toWeb \o v.sent, tv, sl)
           /\ Promises(z, web, toWeb \o z.sent, tv, sl) =>
                Promises(v, web, toWeb \o v.sent, tv, sl)
      <3>1. Agree(z, web, toWeb \o z.sent, tv, sl) BY <2>7
      <3> QED BY <2>9, <2>10, <3>1, RedrawsSame
    <2>12. ui'.compositing = ui.compositing
      <3>1. v.compositing = ui.compositing BY <1>10, <1>12, <2>7, <2>11
      <3> QED BY <2>9, <2>11, <3>1, UILeavesCompositing
    <2>13. RaceFree => WaitsOK'
      BY <1>1, <1>12, <2>12 DEF RaceFree, WaitsOK
    <2>14. RaceFree => WaitsOK' /\ Promises(v, web, toWeb \o v.sent, tv, sl)
      BY <1>10, <1>12, <2>5, <2>7, <2>11, <2>13 DEF RaceFree
    <2>15. /\ toUI' = tv /\ slot' = sl /\ web' = web /\ SlotOK(sl)
           /\ pc' \in {"idle", "insert", "blocked"} /\ rect' \subseteq Tiles /\ events' \in Nat
      BY <1>0, <1>1, <1>12, <2>2, <2>5
    <2> QED BY <2>4, <2>9, <2>10, <2>11, <2>14, <2>15, UILeavesKeeps
  <1>13. CASE /\ u.current < u.next /\ u.compositing /\ p = 0
              /\ UILeaves(x)
              /\ pc' = (IF LateInsert THEN "insert" ELSE "blocked")
              /\ rect' = r
              /\ UNCHANGED toUI
    <2>1. \A k \in DOMAIN toUI : ~IsState(toUI[k])
      <3>1. 0 \notin DOMAIN toUI BY <1>0
      <3> QED BY <1>0, <1>3, <1>13, <3>1, IncomingEffect
    <2>2. /\ UIOK(x) /\ x.compositing = ui.compositing
          /\ Agree(x, web, toWeb \o x.sent, toUI, slot)
          /\ Promises(ui, web, toWeb, toUI, slot) =>
               Promises(x, web, toWeb \o x.sent, toUI, slot)
      BY <1>10, <1>13
    <2>3. ui'.compositing = ui.compositing BY <1>13, <2>2, UILeavesCompositing
    <2>4. ASSUME RaceFree PROVE WaitsOK'
      <3>1. LateTimeout \/ LateInsert => ~ui.compositing BY <2>4 DEF RaceFree, WaitsOK
      <3>2. ui.compositing BY <1>5, <1>13
      <3>3. pc' = "blocked" BY <1>13, <3>1, <3>2
      <3> QED BY <1>13, <2>1, <2>3, <3>1, <3>2, <3>3 DEF WaitsOK
    <2>5. RaceFree => WaitsOK' /\ Promises(x, web, toWeb \o x.sent, toUI, slot)
      BY <2>2, <2>4 DEF RaceFree
    <2>6. /\ toUI' = toUI /\ slot' = slot /\ web' = web
          /\ pc' \in {"idle", "insert", "blocked"} /\ rect' \subseteq Tiles /\ events' \in Nat
          /\ slot = << >>
      BY <1>0, <1>1, <1>4, <1>13
    <2>7. toUI \in Seq(UIMessage) /\ SlotOK(slot) BY <1>0
    <2> QED BY <1>13, <2>2, <2>5, <2>6, <2>7, UILeavesKeeps
  <1> QED BY <1>2, <1>9, <1>11, <1>12, <1>13
-----------------------------------------------------------------------------
(* The invariants hold at first, and every step keeps them.                *)

LEMMA NextKeeps ==
    ASSUME QuietInv, Next
    PROVE  Keeps
  <1>1. CASE WebStep
    BY <1>1, DisplayTimerFiresKeeps, UpdateBackingStoreStateKeeps, DidUpdateKeeps,
       SuspendPaintingKeeps, ReceiveResumePaintingKeeps, ForceRepaintKeeps
       DEF WebStep
  <1>2. CASE UIStep
    BY <1>2, PaintKeeps, WaitInsertsKeeps, WaitGetsMessageKeeps, WaitTimesOutKeeps,
       UpdateKeeps, ReceiveDidUpdateBackingStoreStateKeeps
       DEF UIStep
  <1>3. CASE DiscardBackingStore BY <1>3, DiscardBackingStoreKeeps
  <1>4. CASE Environment
    BY <1>4, PageChangesKeeps, PageScrollsKeeps, SizeDidChangeKeeps, ExposeKeeps,
       VisibilityDidChangeKeeps, SetBackingStoreIsDiscardableKeeps,
       WebPageProxyForceRepaintKeeps
       DEF Environment
  <1> QED BY <1>1, <1>2, <1>3, <1>4 DEF Next

LEMMA StutterKeeps ==
    ASSUME QuietInv, UNCHANGED vars
    PROVE  Keeps
  <1>1. UNCHANGED <<ui, web, toWeb, toUI, pc, rect, slot, events>> BY DEF vars
  <1>2. QuietInv' BY <1>1 DEF QuietInv, TypeInv
  <1>3. ASSUME RaceFree PROVE RaceFree' BY <1>1, <1>3 DEF RaceFree, WaitsOK
  <1>4. ASSUME TimerWhileWaiting' PROVE TimerWhileWaiting
    BY <1>1, <1>4 DEF TimerWhileWaiting
  <1> QED BY <1>2, <1>3, <1>4 DEF Keeps

LEMMA InitHolds ==
    ASSUME Init
    PROVE  QuietInv /\ (NoRace => RaceFree)
  <1>1. PICK n \in 0..MaxSize, visible \in BOOLEAN, compositing \in Compositing :
          /\ ui = [compositing |-> compositing, current |-> 0, next |-> 0, waiting |-> FALSE,
                   hasReceivedFirstUpdate |-> FALSE, store |-> << >>,
                   discardable |-> TRUE, discardTimer |-> FALSE, size |-> n,
                   visible |-> visible, invalid |-> 1..n,
                   screen |-> [t \in Tiles |-> Undefined], sent |-> << >>]
          /\ web = [stateID |-> 0, size |-> n, shouldSend |-> FALSE,
                    waiting |-> FALSE, suspended |-> ~visible, dirty |-> {},
                    scrollRect |-> {}, scrollOffset |-> 0, displayTimer |-> FALSE,
                    content |-> [t \in Tiles |-> 0], version |-> 0, sent |-> << >>]
          /\ toWeb = << >> /\ toUI = << >>
          /\ pc = "idle" /\ rect = {} /\ slot = << >> /\ events = 0
    BY DEF Init
  <1>2. n \in Nat /\ 1..n \subseteq Tiles /\ compositing \in BOOLEAN
    BY PageIsTiles, DrawingAreaAssumption
  <1>3. /\ ui.compositing = compositing /\ ui.current = 0 /\ ui.next = 0 /\ ui.waiting = FALSE
        /\ ui.hasReceivedFirstUpdate = FALSE /\ ui.store = << >> /\ ui.discardable = TRUE
        /\ ui.discardTimer = FALSE /\ ui.size = n /\ ui.visible = visible
        /\ ui.invalid = 1..n /\ ui.screen = [t \in Tiles |-> Undefined] /\ ui.sent = << >>
    BY <1>1
  <1>4. /\ web.stateID = 0 /\ web.size = n /\ web.shouldSend = FALSE /\ web.waiting = FALSE
        /\ web.suspended = ~visible /\ web.dirty = {} /\ web.scrollRect = {}
        /\ web.scrollOffset = 0 /\ web.displayTimer = FALSE
        /\ web.content = [t \in Tiles |-> 0] /\ web.version = 0 /\ web.sent = << >>
    BY <1>1
  <1>5. UIOK(ui)
    <2>1. [t \in Tiles |-> Undefined] \in [Tiles -> Int] BY DEF Undefined
    <2>2. << >> \in Seq(Int) /\ << >> \in Seq(WebMessage) OBVIOUS
    <2>3. ui \in UIState BY <1>1, <1>2, <2>1, <2>2 DEF UIState
    <2>4. Len(ui.store) <= MaxSize BY <1>3, DrawingAreaAssumption
    <2> QED BY <1>3, <2>3, <2>4 DEF UIOK
  <1>6. WebOK(web)
    <2>1. [t \in Tiles |-> 0] \in [Tiles -> Nat] OBVIOUS
    <2>2. << >> \in Seq(UIMessage) OBVIOUS
    <2>3. web \in WebState BY <1>1, <1>2, <2>1, <2>2 DEF WebState
    <2> QED BY <1>4, <2>3 DEF WebOK
  <1>7. TypeInv BY <1>1, <1>3, <1>4, <1>5, <1>6 DEF TypeInv, SlotOK
  <1>8. Asked(ui, web, toWeb) BY <1>1, <1>3, <1>4 DEF Asked
  <1>9. Answered(ui, web, toUI, slot) BY <1>1, <1>3, <1>4 DEF Answered
  <1>10. Current(ui, web, toUI, slot)
    <2> SUFFICES ASSUME NEW k \in 0..Len(toUI), NEW h \in [k..Len(toUI) -> Stores(web.size)]
                 PROVE  Matches(h[Len(toUI)], web)
      BY DEF Current
    <2>1. \A t \in 1..web.size : web.content[t] = 0 BY <1>2, <1>4
    <2> QED BY <2>1 DEF Matches
  <1>11. QuietInv BY <1>7, <1>8, <1>9, <1>10 DEF QuietInv, Agree
  <1>12. ASSUME NoRace PROVE RaceFree
    <2>1. WaitsOK
      <3>1. LateTimeout \/ LateInsert => ~ui.compositing BY <1>2, <1>3, <1>12 DEF NoRace
      <3> QED BY <1>1, <3>1 DEF WaitsOK
    <2>2. Promises(ui, web, toWeb, toUI, slot)
      BY <1>1, <1>3, <1>4 DEF Promises, Arrives, OneSize, UIWait, WebWait
    <2> QED BY <2>1, <2>2 DEF RaceFree
  <1> QED BY <1>11, <1>12
-----------------------------------------------------------------------------
(* The inductive invariant of both drawing areas and of the messages       *)
(* between them, for every build, with a bitmap or without, and whatever   *)
(* the timed wait loses: states are asked for and answered in their order, *)
(* and the messages under way bring the backing store up to what is drawn. *)
THEOREM AgreementHolds == Spec => []QuietInv
  <1>1. Init => QuietInv BY InitHolds
  <1>2. QuietInv /\ [Next]_vars => QuietInv' BY NextKeeps, StutterKeeps DEF Keeps
  <1> QED BY <1>1, <1>2, PTL DEF Spec

(* The inductive invariant of a wait that nothing races with: every state  *)
(* arrives, once and in its order, and whoever waits will be answered.     *)
THEOREM PromisesHold ==
    ASSUME NoRace
    PROVE  Spec => [](QuietInv /\ RaceFree)
  <1>1. Init => QuietInv /\ RaceFree BY InitHolds
  <1>2. QuietInv /\ RaceFree /\ [Next]_vars => QuietInv' /\ RaceFree'
    BY NextKeeps, StutterKeeps DEF Keeps
  <1> QED BY <1>1, <1>2, PTL DEF Spec

(* Every variable of both drawing areas keeps its type; the dirty region   *)
(* and what a message draws stay within the page, as display asserts.      *)
THEOREM TypeCorrect == Spec => []TypeOK
  <1>1. QuietInv => TypeOK
    <2> SUFFICES ASSUME QuietInv PROVE TypeOK OBVIOUS
    <2>1. /\ UIOK(ui) /\ ui.sent = << >> /\ WebOK(web) /\ web.sent = << >>
          /\ toWeb \in Seq(WebMessage) /\ toUI \in Seq(UIMessage) /\ SlotOK(slot)
          /\ pc \in {"idle", "insert", "blocked"} /\ rect \subseteq Tiles /\ events \in Nat
      BY DEF QuietInv, TypeInv
    <2>2. ui \in UIState /\ ui.invalid \subseteq 1..ui.size /\ Len(ui.store) <= MaxSize
      BY <2>1 DEF UIOK
    <2>3. web \in WebState /\ web.dirty \subseteq 1..web.size BY <2>1 DEF WebOK
    <2>4. /\ ui.current \in Nat /\ ui.next \in Nat /\ ui.size \in 0..MaxSize
          /\ ui.store \in Seq(Int) /\ ui.screen \in [Tiles -> Int]
          /\ Len(ui.store) \in 0..MaxSize
      <3>1. Len(ui.store) \in Nat /\ ui.store \in Seq(Int) BY <2>2, UIFields
      <3> QED BY <2>2, <3>1, UIFields, DrawingAreaAssumption
    <2>5. \A b \in {ui.compositing, ui.waiting, ui.hasReceivedFirstUpdate, ui.discardable,
                    ui.discardTimer, ui.visible} : b \in BOOLEAN
      BY <2>2, UIFields
    <2>6. /\ web.stateID \in Nat /\ web.version \in Nat /\ web.size \in 0..MaxSize
          /\ web.scrollRect \subseteq Tiles /\ web.scrollOffset \in Int
          /\ web.content \in [Tiles -> Nat]
          /\ \A b \in {web.shouldSend, web.waiting, web.suspended,
                       web.displayTimer} : b \in BOOLEAN
      BY <2>3, WebFields
    <2>7. ASSUME NEW m \in UIMessage
          PROVE  /\ m.type \in {"Update", "DidUpdateBackingStoreState"}
                 /\ m.id \in Nat /\ IsUpdateInfo(m.info)
      <3>1. m.info \in Info /\ m.id \in Nat
            /\ m.type \in {"Update", "DidUpdateBackingStoreState"}
        BY MessageFields
      <3>2. PICK i \in Info : i = m.info BY <3>1
      <3>3. /\ i.size \in 0..MaxSize /\ i.scrollRect \subseteq Tiles /\ i.scrollOffset \in Int
            /\ i.rects \subseteq 1..i.size /\ DOMAIN i.bits = i.rects
            /\ i.bits \in UNION {[R -> Nat] : R \in SUBSET Tiles}
        BY DEF Info
      <3>4. \A t \in i.rects : i.bits[t] \in Nat BY <3>3
      <3> QED BY <3>1, <3>2, <3>3, <3>4 DEF IsUpdateInfo
    <2>8. InFlight \subseteq UIMessage /\ Len(slot) <= 1
      <3>1. ToSet(toUI) \subseteq UIMessage BY <2>1 DEF ToSet
      <3>2. ToSet(slot) \subseteq UIMessage /\ Len(slot) <= 1
        <4>1. CASE slot = << >> BY <4>1 DEF ToSet
        <4>2. CASE slot # << >>
          <5>1. PICK m \in UIMessage : slot = <<m>> BY <2>1, <4>2, SlotMessage
          <5> QED BY <5>1 DEF ToSet
        <4> QED BY <4>1, <4>2
      <3> QED BY <3>1, <3>2 DEF InFlight
    <2>9. ASSUME NEW m \in Requested
          PROVE  \/ /\ m.type = "UpdateBackingStoreState"
                    /\ m.id \in Nat /\ m.size \in 1..MaxSize
                    /\ m.respondImmediately \in BOOLEAN
                 \/ m.type \in {"DidUpdate", "SuspendPainting", "ResumePainting",
                                "ForceRepaint"}
      <3>1. m \in WebMessage BY <2>1 DEF Requested, ToSet
      <3>2. CASE m \in Request BY <3>2 DEF Request
      <3>3. CASE m \in Notice BY <3>3 DEF Notice
      <3> QED BY <3>1, <3>2, <3>3 DEF WebMessage
    <2>10. \A m \in InFlight :
              /\ m.type \in {"Update", "DidUpdateBackingStoreState"}
              /\ m.id \in Nat /\ IsUpdateInfo(m.info)
      BY <2>7, <2>8
    <2> QED BY <2>1, <2>2, <2>3, <2>4, <2>5, <2>6, <2>8, <2>9, <2>10 DEF TypeOK
  <1> QED BY <1>1, AgreementHolds, PTL

(* When both sides agree on the state, nothing is under way and nothing is *)
(* left to draw, the backing store holds the page: for every view size and *)
(* scroll, whether bitmaps fail, stores are discarded or the timed wait    *)
(* loses the answer it waited for.  Only a tile that missed an update,     *)
(* whose bitmap the UI process could not map, may be out of date.          *)
THEOREM QuietStoreIsCurrent == Spec => []QuietMeansCurrent
  <1>1. QuietInv => QuietMeansCurrent
    <2> SUFFICES ASSUME QuietInv, pc = "idle", toUI = << >>, web.dirty = {},
                        ui.store # << >>, ui.current = web.stateID, ui.next = web.stateID,
                        NEW t \in 1..web.size, web.content[t] # 0
                 PROVE  ui.store[t] \in {web.content[t], Stale}
      BY DEF QuietMeansCurrent
    <2>1. /\ ui \in UIState /\ Answered(ui, web, toUI, slot) /\ Current(ui, web, toUI, slot)
      BY UIStart
    <2>2. WebOK(web) /\ web \in WebState BY DEF QuietInv, TypeInv, WebOK
    <2>3. Len(ui.store) = web.size BY <2>1 DEF Answered
    <2>4. ui.store \in [1..web.size -> Int] BY <2>1, <2>3, UIFields
    <2>5. web.scrollRect = {} BY <2>2 DEF WebOK
    <2> DEFINE k == 0
               V == ui.store
               h == [j \in 0..0 |-> V]
    <2>6. V \in Stores(web.size) BY <2>4 DEF Stores
    <2>7. Len(toUI) = 0 OBVIOUS
    <2>8. h \in [k..Len(toUI) -> Stores(web.size)] /\ h[k] = V /\ k \in 0..Len(toUI)
          /\ h[Len(toUI)] = V
      BY <2>6, <2>7
    <2>9. Run(ui, web, toUI, slot, k, h)
      <3>1. Starts(ui, web, toUI, slot, k, h[k]) BY <2>8 DEF Starts, Shown
      <3>2. (k + 1)..Len(toUI) = {} BY <2>7
      <3> HIDE DEF k, h
      <3> QED BY <2>8, <3>1, <3>2 DEF Run
    <2> HIDE DEF k, h
    <2>10. Matches(h[Len(toUI)], web) BY <2>1, <2>8, <2>9 DEF Current
    <2>11. ScrollStore(V, web.scrollRect, web.scrollOffset)[t] \in {web.content[t], Stale}
      BY <2>8, <2>10 DEF Matches
    <2>12. ScrollStore(V, web.scrollRect, web.scrollOffset)[t] = V[t] BY <2>4, <2>5 DEF ScrollStore
    <2> QED BY <2>11, <2>12
  <1> QED BY <1>1, AgreementHolds, PTL

(* display's assertion: the display timer comes to run while the web       *)
(* process waits for a DidUpdate in one way only, a display that got no    *)
(* bitmap and sent an Update of nothing.                                   *)
THEOREM TimerIsOffWhileWaiting == Spec => NoTimerWhileWaiting
  <1>1. QuietInv /\ [Next]_vars =>
          [TimerWhileWaiting' => TimerWhileWaiting \/ SendsNothingDrawn]_vars
    BY NextKeeps DEF Keeps
  <1> QED BY <1>1, AgreementHolds, PTL DEF Spec, NoTimerWhileWaiting

(* update's assertion: without a race in the wait, an Update is never for  *)
(* a state later than the current one.                                     *)
THEOREM UpdateComesAfterItsState ==
    ASSUME NoRace
    PROVE  Spec => []UpdateIsNotAhead
  <1>1. QuietInv /\ RaceFree => UpdateIsNotAhead
    <2> SUFFICES ASSUME QuietInv, RaceFree, pc = "idle", toUI # << >>,
                        Head(toUI).type = "Update"
                 PROVE  Head(toUI).id <= ui.current
      BY DEF UpdateIsNotAhead
    <2>1. toUI \in Seq(UIMessage) /\ slot = << >>
      <3>1. toUI \in Seq(UIMessage) /\ (pc # "blocked" => slot = << >>) BY UIStart
      <3> QED BY <3>1
    <2>2. 1 \in DOMAIN toUI /\ Head(toUI) = toUI[1] BY <2>1, TailIsWithout
    <2>3. ~IsState(toUI[1]) BY <2>2 DEF IsState
    <2>4. \/ toUI[1].id <= ui.current
          \/ \E j \in 1..1 : IsState(toUI[j]) /\ toUI[1].id <= toUI[j].id
      BY <2>1, <2>2 DEF RaceFree, Promises, Arrives
    <2> QED BY <2>2, <2>3, <2>4
  <1> QED BY <1>1, PromisesHold, PTL

(* didUpdateBackingStoreState's assertions: without a race in the wait,    *)
(* every state that arrives is newer than the current one and was asked    *)
(* for.                                                                    *)
THEOREM StatesArriveInOrder ==
    ASSUME NoRace
    PROVE  Spec => []StateIsNewer
  <1>1. QuietInv /\ RaceFree => StateIsNewer
    <2> SUFFICES ASSUME QuietInv, RaceFree, NEW i \in DOMAIN ArrivingState,
                        ArrivingState[i].type = "DidUpdateBackingStoreState"
                 PROVE  ui.current < ArrivingState[i].id /\ ArrivingState[i].id <= ui.next
      BY DEF StateIsNewer
    <2>1. /\ toUI \in Seq(UIMessage) /\ SlotOK(slot) /\ ui \in UIState /\ web \in WebState
          /\ web.stateID <= ui.next /\ Answered(ui, web, toUI, slot)
      BY UIStart
    <2>2. Arrives(ui, web, toUI, slot) BY DEF RaceFree, Promises
    <2>3. \/ slot # << >> /\ ArrivingState[i] = slot[1]
          \/ 1 \in DOMAIN toUI /\ ArrivingState[i] = toUI[1]
      <3>1. CASE pc = "blocked"
        <4>1. ArrivingState = slot BY <3>1 DEF ArrivingState
        <4>2. slot # << >> BY <4>1
        <4>3. slot = <<slot[1]>> BY <2>1, <4>2, SlotMessage
        <4>4. i = 1 BY <4>1, <4>3
        <4> QED BY <4>1, <4>2, <4>4
      <3>2. CASE pc # "blocked"
        <4>1. toUI # << >> /\ ArrivingState = <<Head(toUI)>> BY <3>2 DEF ArrivingState
        <4>2. i = 1 BY <4>1
        <4> QED BY <2>1, <4>1, <4>2
      <3> QED BY <3>1, <3>2
    <2>4. CASE slot # << >> /\ ArrivingState[i] = slot[1]
      <3>1. slot[1] \in UIMessage BY <2>1, <2>4, SlotMessage
      <3>2. ui.current < slot[1].id BY <2>2, <2>4 DEF Arrives
      <3>3. slot[1].id <= web.stateID BY <2>1, <2>4 DEF Answered
      <3>4. slot[1].id \in Nat /\ web.stateID \in Nat /\ ui.next \in Nat
        BY <2>1, <3>1, MessageFields, UIFields, WebFields
      <3> QED BY <2>1, <2>4, <3>2, <3>3, <3>4
    <2>5. CASE 1 \in DOMAIN toUI /\ ArrivingState[i] = toUI[1]
      <3>1. toUI[1] \in UIMessage BY <2>1, <2>5
      <3>2. ui.current < toUI[1].id BY <2>2, <2>5 DEF Arrives, IsState
      <3>3. toUI[1].id <= web.stateID BY <2>1, <2>5 DEF Answered
      <3>4. toUI[1].id \in Nat /\ web.stateID \in Nat /\ ui.next \in Nat
        BY <2>1, <3>1, MessageFields, UIFields, WebFields
      <3> QED BY <2>1, <2>5, <3>2, <3>3, <3>4
    <2> QED BY <2>3, <2>4, <2>5
  <1> QED BY <1>1, PromisesHold, PTL

(* Without a race in the wait, the UI process never waits for a state that *)
(* nobody will announce: an answer, or a request that will be answered, is *)
(* under way.                                                              *)
THEOREM UIWaitEnds ==
    ASSUME NoRace
    PROVE  Spec => []UIWaitIsAnswered
  <1>1. QuietInv /\ RaceFree => UIWaitIsAnswered
    <2> SUFFICES ASSUME QuietInv, RaceFree, ui.waiting
                 PROVE  \/ \E m \in InFlight : m.type = "DidUpdateBackingStoreState"
                        \/ \E m \in Requested : /\ m.type = "UpdateBackingStoreState"
                                                /\ m.respondImmediately
                                                /\ m.id > web.stateID \/ web.shouldSend
      BY DEF UIWaitIsAnswered
    <2>1. \A k \in DOMAIN toUI : toUI[k] \in InFlight BY DEF InFlight, ToSet
    <2>2. \A k \in DOMAIN toWeb : toWeb[k] \in Requested BY DEF Requested, ToSet
    <2>3. slot # << >> => slot[1] \in InFlight /\ IsState(slot[1])
      <3> SUFFICES ASSUME slot # << >> PROVE slot[1] \in InFlight /\ IsState(slot[1]) OBVIOUS
      <3>1. SlotOK(slot) BY UIStart
      <3>2. IsState(slot[1]) /\ slot = <<slot[1]>> BY <3>1, SlotMessage
      <3>3. 1 \in DOMAIN slot BY <3>2
      <3>4. slot[1] \in ToSet(slot) BY <3>3 DEF ToSet
      <3> QED BY <3>2, <3>4 DEF InFlight
    <2>4. UIWait(ui, web, toWeb, toUI, slot) BY DEF RaceFree, Promises
    <2> QED BY <2>1, <2>2, <2>3, <2>4 DEF UIWait, IsState, IsRequest
  <1> QED BY <1>1, PromisesHold, PTL

(* Without a race in the wait, the web process never waits for a DidUpdate *)
(* that nobody will send: the Update, its acknowledgement or a new state   *)
(* is under way.                                                           *)
THEOREM WebWaitEnds ==
    ASSUME NoRace
    PROVE  Spec => []WebWaitIsAnswered
  <1>1. QuietInv /\ RaceFree => WebWaitIsAnswered
    <2> SUFFICES ASSUME QuietInv, RaceFree, web.waiting
                 PROVE  \/ \E m \in InFlight : m.type = "Update" /\ m.id = web.stateID
                        \/ \E m \in Requested : \/ m.type = "DidUpdate"
                                                \/ /\ m.type = "UpdateBackingStoreState"
                                                   /\ m.id > web.stateID
      BY DEF WebWaitIsAnswered
    <2>1. \A k \in DOMAIN toUI : toUI[k] \in InFlight BY DEF InFlight, ToSet
    <2>2. \A k \in DOMAIN toWeb : toWeb[k] \in Requested BY DEF Requested, ToSet
    <2>3. WebWait(web, toWeb, toUI) BY DEF RaceFree, Promises
    <2> QED BY <2>1, <2>2, <2>3 DEF WebWait, IsRequest
  <1> QED BY <1>1, PromisesHold, PTL

(* incorporateUpdate's assertion: without a race in the wait, the bits of  *)
(* an Update that is not ignored fit the backing store there is.           *)
THEOREM UpdatesFitTheStore ==
    ASSUME NoRace
    PROVE  Spec => []UpdateFitsStore
  <1>1. QuietInv /\ RaceFree /\ UpdateIsNotAhead => UpdateFitsStore
    <2> SUFFICES ASSUME QuietInv, RaceFree, UpdateIsNotAhead, pc = "idle", toUI # << >>,
                        Head(toUI).type = "Update", Head(toUI).id >= ui.current,
                        ui.store # << >>
                 PROVE  Head(toUI).info.size = Len(ui.store)
      BY DEF UpdateFitsStore
    <2>1. toUI \in Seq(UIMessage) /\ ui \in UIState BY UIStart
    <2>2. 1 \in DOMAIN toUI /\ Head(toUI) = toUI[1] /\ toUI[1] \in UIMessage
      BY <2>1, TailIsWithout
    <2>3. Head(toUI).id <= ui.current BY DEF UpdateIsNotAhead
    <2>4. toUI[1].id \in Nat /\ ui.current \in Nat BY <2>1, <2>2, MessageFields, UIFields
    <2>5. toUI[1].id = ui.current BY <2>2, <2>3, <2>4
    <2>6. OneSize(ui, toUI, slot) BY DEF RaceFree, Promises
    <2> QED BY <2>2, <2>5, <2>6 DEF OneSize
  <1> QED BY <1>1, PromisesHold, UpdateComesAfterItsState, PTL
=============================================================================
