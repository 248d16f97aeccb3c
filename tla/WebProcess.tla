----------------------------- MODULE WebProcess -----------------------------
(***************************************************************************)
(* The web process of a context: how it is launched, used by several       *)
(* pages, found unresponsive, asked to end, lost and launched again.       *)
(*                                                                         *)
(*   UI process    WebContext, WebProcessProxy, ResponsivenessTimer, and   *)
(*                 of WebPageProxy what depends on the process: validity,  *)
(*                 attachment and the events it waits to be answered       *)
(*   web process   WebProcess, ChildProcess, WebPage, EventDispatcher      *)
(*                                                                         *)
(* A WebProcessProxy lives as long as its process; the n-th one is n, and  *)
(* 0 is none.  Connections keep the order of messages (module Connection), *)
(* but wheel events go round their queue (Takes, below).                   *)
(***************************************************************************)
EXTENDS Integers, Sequences, FiniteSets, SequencesExt

CONSTANTS
    Page,            \* pages of the context
    NoPage,          \* no page
    MaxProcess,      \* bound: processes launched
    MaxEvents,       \* bound: events, requests and hidings of views
    WebMayDie        \* web processes may crash, be killed, or not be spawned

ASSUME WebAssumption ==
    /\ NoPage \notin Page
    /\ MaxProcess \in Nat \ {0} /\ MaxEvents \in Nat
    /\ WebMayDie \in BOOLEAN

Proc == 1..MaxProcess
NoProcess == 0

VARIABLES
    \* UI process
    current,         \* WebContext::m_process
    launched,        \* proxies made so far
    proxy,           \* each WebProcessProxy with its ResponsivenessTimer
    page,            \* each WebPageProxy
    crashed,         \* pages didClose has yet to tell, or is telling
    inClient,        \* the page whose crash callback runs
    events,          \* events, requests and hidings so far
    \* the line between the processes
    toWeb, toUI,
    \* web process
    web

vars == <<current, launched, proxy, page, crashed, inClient, events, toWeb,
          toUI, web>>

-----------------------------------------------------------------------------
(* Data.                                                                   *)

(* pages is m_pageMap, which keeps its entries when the process is gone.   *)
NoProxy == [state |-> "none", pending |-> << >>, pages |-> {},
            timer |-> FALSE, responsive |-> TRUE]

(* m_keyEventQueue, m_currentlyProcessedWheelEvents and m_wheelEventQueue   *)
(* as numbers of events, m_processingMouseMoveEvent, m_nextMouseMoveEvent.  *)
NoEvents == [keys |-> 0, wheel |-> 0, wheelQueue |-> 0, moving |-> FALSE,
             nextMove |-> FALSE]
NewPage == [state |-> "none", valid |-> FALSE, process |-> NoProcess,
            waits |-> NoEvents]

(* timer is m_terminationTimer; m_terminationCounter counts the pages.      *)
NoWeb == [state |-> "none", initialized |-> FALSE, pages |-> {}, timer |-> FALSE]

(* Messages to the web process.  A request is any that starts the timer and *)
(* is answered by StopResponsivenessTimer or another answer that stops it.  *)
InitializeWebProcess == [op |-> "initialize", page |-> NoPage]
Message(op, p) == [op |-> op, page |-> p]
TimedOps == {"key", "wheel", "request", "tryClose"}

-----------------------------------------------------------------------------
(* WebProcessProxy and ResponsivenessTimer, as functions of the part u of   *)
(* the state that an operation of the UI process changes.                   *)

Now == [current |-> current, launched |-> launched, proxy |-> proxy,
        page |-> page, toWeb |-> toWeb]

Becomes(u) ==
    /\ current' = u.current /\ launched' = u.launched /\ proxy' = u.proxy
    /\ page' = u.page /\ toWeb' = u.toWeb

(* Kept until the process is launched; dropped when there is no connection. *)
Send(u, n, m) ==
    IF u.proxy[n].state = "launching"
    THEN [u EXCEPT !.proxy[n].pending = Append(@, m)]
    ELSE IF u.proxy[n].state = "open" /\ web[n].state # "gone"
    THEN [u EXCEPT !.toWeb[n] = Append(@, m)]
    ELSE u

TimerStart(u, n) == [u EXCEPT !.proxy[n].timer = @ \/ u.proxy[n].responsive]

(* Mutant of TimerStop: the timer goes on.                                  *)
TimerStopOnly(u, n) == [u EXCEPT !.proxy[n].responsive = TRUE]

TimerStop(u, n) ==
    [u EXCEPT !.proxy[n].timer = FALSE, !.proxy[n].responsive = TRUE]

SendTimed(u, p, op) ==
    LET n == u.page[p].process IN TimerStart(Send(u, n, Message(op, p)), n)

(* WebContext::ensureWebProcess: a new proxy starts to launch its process,  *)
(* and the first message it keeps initialises it.                           *)
EnsureWebProcess(u) ==
    IF u.current # NoProcess THEN u
    ELSE [u EXCEPT !.current = u.launched + 1,
                   !.launched = @ + 1,
                   !.proxy[u.launched + 1] =
                       [NoProxy EXCEPT !.state = "launching",
                                       !.pending = <<InitializeWebProcess>>]]

MayLaunch == current # NoProcess \/ launched < MaxProcess

(* A page joins the current process: createWebPage, reattachToWebProcess.   *)
Attach(u, p) ==
    LET v == EnsureWebProcess(u)
        joined == [v EXCEPT !.proxy[v.current].pages = @ \cup {p},
                            !.page[p].state = "open",
                            !.page[p].valid = TRUE,
                            !.page[p].process = v.current]
    IN  Send(joined, v.current, Message("create", p))

IsValid(p) == page[p].state = "open" /\ page[p].valid

(* WebPageProxy::close.                                                     *)
Closed(u, p) ==
    LET n == u.page[p].process IN
    [Send(u, n, Message("close", p)) EXCEPT !.page[p].state = "closed",
                                            !.proxy[n].pages = @ \ {p}]

(* Mutant of Disconnected: the timer is left running.                       *)
DisconnectedOnly(u, n) ==
    [u EXCEPT !.proxy[n].state = "closed", !.current = NoProcess]

(* WebProcessProxy::disconnect, with WebContext::disconnectProcess.         *)
Disconnected(u, n) ==
    [TimerStop(u, n) EXCEPT !.proxy[n].state = "closed", !.current = NoProcess]

-----------------------------------------------------------------------------
(* What the application and the user do.                                   *)

Idle == crashed = {}
CountEvent == events < MaxEvents /\ events' = events + 1

CreateWebPage(p) ==
    /\ Idle /\ page[p].state = "none" /\ MayLaunch
    /\ Becomes(Attach(Now, p))
    /\ UNCHANGED <<crashed, inClient, events, toUI, web>>

(* Loads, reloads and navigation: a page whose process is gone is attached  *)
(* to the current one, or to a new one.  The only operation the             *)
(* application's crash callback calls, for the page that crashed and for    *)
(* any other.                                                               *)
Load(p) ==
    /\ Idle \/ inClient # NoPage
    /\ page[p].state = "open" /\ MayLaunch
    /\ CountEvent
    /\ Becomes(SendTimed(IF page[p].valid THEN Now ELSE Attach(Now, p), p, "request"))
    /\ UNCHANGED <<crashed, inClient, toUI, web>>

Close(p) ==
    /\ Idle /\ IsValid(p)
    /\ Becomes(Closed(Now, p))
    /\ UNCHANGED <<crashed, inClient, events, toUI, web>>

TryClose(p) ==
    /\ Idle /\ IsValid(p)
    /\ CountEvent
    /\ Becomes(SendTimed(Now, p, "tryClose"))
    /\ UNCHANGED <<crashed, inClient, toUI, web>>

HandleKeyboardEvent(p) ==
    /\ Idle /\ IsValid(p)
    /\ CountEvent
    /\ Becomes(SendTimed([Now EXCEPT !.page[p].waits.keys = @ + 1], p, "key"))
    /\ UNCHANGED <<crashed, inClient, toUI, web>>

(* One wheel event is sent at a time; the others wait for its answer.       *)
HandleWheelEvent(p) ==
    /\ Idle /\ IsValid(p)
    /\ CountEvent
    /\ IF page[p].waits.wheel > 0
       THEN Becomes([Now EXCEPT !.page[p].waits.wheelQueue = @ + 1])
       ELSE Becomes(SendTimed([Now EXCEPT !.page[p].waits.wheel = 1], p, "wheel"))
    /\ UNCHANGED <<crashed, inClient, toUI, web>>

(* One mouse move is sent at a time; the last of the others is kept.  The   *)
(* timer is not started.                                                    *)
SendMouseMove(u, p) ==
    Send([u EXCEPT !.page[p].waits.moving = TRUE], u.page[p].process,
         Message("move", p))

HandleMouseMove(p) ==
    /\ Idle /\ IsValid(p)
    /\ CountEvent
    /\ Becomes(IF page[p].waits.moving
               THEN [Now EXCEPT !.page[p].waits.nextMove = TRUE]
               ELSE SendMouseMove(Now, p))
    /\ UNCHANGED <<crashed, inClient, toUI, web>>

(* viewStateDidChange when the view is hidden.                              *)
HideView(p) ==
    /\ Idle /\ IsValid(p)
    /\ CountEvent
    /\ Becomes(TimerStop(Now, page[p].process))
    /\ UNCHANGED <<crashed, inClient, toUI, web>>

-----------------------------------------------------------------------------
(* UI process: launching, messages, timers, crashes.                       *)

LaunchProcess(n) ==
    /\ proxy[n].state = "launching" /\ web[n].state = "none"
    /\ \E s \in {"running"} \cup (IF WebMayDie THEN {"gone"} ELSE {}) :
          web' = [web EXCEPT ![n].state = s]
    /\ UNCHANGED <<current, launched, proxy, page, crashed, inClient, events,
                   toWeb, toUI>>

DidFinishLaunching(n) ==
    /\ Idle /\ proxy[n].state = "launching" /\ web[n].state # "none"
    /\ proxy' = [proxy EXCEPT ![n].state = "open", ![n].pending = << >>]
    /\ toWeb' = IF web[n].state = "gone" THEN toWeb
                ELSE [toWeb EXCEPT ![n] = proxy[n].pending]
    /\ UNCHANGED <<current, launched, page, crashed, inClient, events, toUI, web>>

(* Mutant of DidReceiveWheel: what waited is not sent.                      *)
DidReceiveWheelOnly(u, p) == [u EXCEPT !.page[p].waits.wheel = 0]

(* The wheel events that waited are coalesced and sent as one.              *)
DidReceiveWheel(u, p) ==
    LET queued == u.page[p].waits.wheelQueue
        moved == [u EXCEPT !.page[p].waits = [@ EXCEPT !.wheel = queued,
                                                       !.wheelQueue = 0]]
    IN  IF queued = 0 THEN moved ELSE SendTimed(moved, p, "wheel")

(* WebPageProxy::didReceiveEvent, stopResponsivenessTimer, closePage, for a *)
(* page of the proxy that received it; others are dropped.                  *)
DidReceive(u, n, m) ==
    LET p == m.page
        stopped == TimerStop(u, n)
        settled == [u EXCEPT !.page[p].waits = [@ EXCEPT !.moving = FALSE,
                                                         !.nextMove = FALSE]]
    IN  CASE m.op = "key" -> [stopped EXCEPT !.page[p].waits.keys = @ - 1]
          [] m.op = "wheel" -> DidReceiveWheel(stopped, p)
          [] m.op = "move" -> IF u.page[p].waits.nextMove
                              THEN SendMouseMove(settled, p) ELSE settled
          [] m.op = "stopTimer" -> stopped
          [] m.op = "closePage" -> Closed(stopped, p)

ReceiveFromWeb(n) ==
    /\ Idle /\ proxy[n].state = "open" /\ toUI[n] # << >>
    /\ Head(toUI[n]).op # "shouldTerminate"
    /\ toUI' = [toUI EXCEPT ![n] = Tail(@)]
    /\ Becomes(IF Head(toUI[n]).page \in proxy[n].pages
               THEN DidReceive(Now, n, Head(toUI[n])) ELSE Now)
    /\ UNCHANGED <<crashed, inClient, events, web>>

(* Mutant of ShouldTerminate: only the context is asked.                    *)
ShouldTerminateAlways(n) ==
    /\ Idle /\ proxy[n].state = "open" /\ toUI[n] # << >>
    /\ Head(toUI[n]).op = "shouldTerminate"
    /\ toUI' = [toUI EXCEPT ![n] = Tail(@)]
    /\ Becomes(Disconnected(Now, n))
    /\ UNCHANGED <<crashed, inClient, events, web>>

(* WebProcessProxy::shouldTerminate.  The context refuses for reasons of    *)
(* its own (downloads, requests not answered).  A process that may go is    *)
(* disconnected at once, and the reply with it: the wait ends without one.  *)
ShouldTerminate(n) ==
    /\ Idle /\ proxy[n].state = "open" /\ toUI[n] # << >>
    /\ Head(toUI[n]).op = "shouldTerminate"
    /\ toUI' = [toUI EXCEPT ![n] = Tail(@)]
    /\ \/ /\ Becomes(Now)
          /\ web' = IF web[n].state = "asking"
                    THEN [web EXCEPT ![n].state = "running"] ELSE web
       \/ /\ proxy[n].pages = {}
          /\ Becomes(Disconnected(Now, n))
          /\ UNCHANGED web
    /\ UNCHANGED <<crashed, inClient, events>>

ResponsivenessTimerFires(n) ==
    /\ Idle /\ proxy[n].timer
    /\ proxy' = [proxy EXCEPT ![n].timer = FALSE, ![n].responsive = FALSE]
    /\ UNCHANGED <<current, launched, page, crashed, inClient, events, toWeb,
                   toUI, web>>

(* WebProcessProxy::didClose up to its loop over the pages.                 *)
DidClose(n) ==
    /\ Idle /\ proxy[n].state = "open" /\ web[n].state = "gone"
    /\ Becomes(Disconnected(Now, n))
    /\ crashed' = proxy[n].pages
    /\ toUI' = [toUI EXCEPT ![n] = << >>]
    /\ UNCHANGED <<inClient, events, web>>

(* WebPageProxy::processDidCrash up to the call of the client, ...          *)
ProcessDidCrash(p) ==
    /\ p \in crashed /\ inClient = NoPage
    /\ page' = [page EXCEPT ![p].valid = FALSE]
    /\ inClient' = p
    /\ UNCHANGED <<current, launched, proxy, crashed, events, toWeb, toUI, web>>

(* Mutant of ClientReturns: the events are not forgotten.                   *)
ClientReturnsOnly ==
    /\ inClient # NoPage
    /\ inClient' = NoPage /\ crashed' = crashed \ {inClient}
    /\ UNCHANGED <<current, launched, proxy, page, events, toWeb, toUI, web>>

(* ... and after it.                                                        *)
ClientReturns ==
    /\ inClient # NoPage
    /\ page' = [page EXCEPT ![inClient].waits = NoEvents]
    /\ inClient' = NoPage /\ crashed' = crashed \ {inClient}
    /\ UNCHANGED <<current, launched, proxy, events, toWeb, toUI, web>>

-----------------------------------------------------------------------------
(* Web process.                                                            *)

WebUnchanged == UNCHANGED <<current, launched, proxy, page, crashed, inClient, events>>

Runs(n) == web[n].state = "running" /\ proxy[n].state = "open"

(* What WebPage sends back: each event is answered, each request stops the  *)
(* timer, tryClose may close the page first.                                *)
Answers(m) ==
    LET answer(op) == Message(op, m.page) IN
    IF m.op \in {"key", "wheel", "move"} THEN {<<answer(m.op)>>}
    ELSE IF m.op = "request" THEN {<<answer("stopTimer")>>}
    ELSE {<<answer("stopTimer"), answer("stopTimer")>>,
          <<answer("closePage"), answer("stopTimer")>>}

(* Mutant of Takes: a wheel event is dispatched on the connection's queue.  *)
TakesWheelsFirst(n, k) ==
    \A j \in 1..(k - 1) : toWeb[n][k].op = "wheel" /\ toWeb[n][j].op # "wheel"

(* A wheel event is received on the connection's queue and given to the     *)
(* main run loop as a function of its own (EventDispatcher::wheelEvent);    *)
(* other messages wait in m_incomingMessages, which any dispatchMessages    *)
(* empties, whichever message posted it.  So other messages overtake wheel  *)
(* events.  A wheel event overtakes nothing: the dispatchMessages posted    *)
(* for what was before it runs first.                                       *)
Takes(n, k) ==
    \/ k = 1
    \/ /\ toWeb[n][k].op # "wheel"
       /\ \A j \in 1..(k - 1) : toWeb[n][j].op = "wheel"

(* A message to a page there is none of is dropped, without an answer.      *)
HandleInPage(n) ==
    \E k \in DOMAIN toWeb[n] :
    LET m == toWeb[n][k] IN
    /\ Runs(n) /\ Takes(n, k) /\ m.op \in TimedOps \cup {"move"}
    /\ toWeb' = [toWeb EXCEPT ![n] = RemoveAt(@, k)]
    /\ IF m.page \in web[n].pages
       THEN \E a \in Answers(m) : toUI' = [toUI EXCEPT ![n] = @ \o a]
       ELSE UNCHANGED toUI
    /\ UNCHANGED web /\ WebUnchanged

(* createWebPage disables termination, the last page removed enables it.    *)
HandleInProcess(n) ==
    \E k \in DOMAIN toWeb[n] :
    LET m == toWeb[n][k] IN
    /\ Runs(n) /\ Takes(n, k) /\ m.op \in {"initialize", "create", "close"}
    /\ toWeb' = [toWeb EXCEPT ![n] = RemoveAt(@, k)]
    /\ web' = CASE m.op = "initialize" -> [web EXCEPT ![n].initialized = TRUE]
                [] m.op = "create" -> [web EXCEPT ![n].pages = @ \cup {m.page},
                                                  ![n].timer = FALSE]
                [] m.op = "close" -> [web EXCEPT ![n].pages = @ \ {m.page},
                                                 ![n].timer = web[n].pages = {m.page}]
    /\ UNCHANGED toUI /\ WebUnchanged

(* WebProcess::shouldTerminate asks and waits for the answer.               *)
TerminationTimerFires(n) ==
    /\ Runs(n) /\ web[n].timer
    /\ web' = [web EXCEPT ![n].state = "asking", ![n].timer = FALSE]
    /\ toUI' = [toUI EXCEPT ![n] = Append(@, Message("shouldTerminate", NoPage))]
    /\ UNCHANGED toWeb /\ WebUnchanged

(* The connection was closed by the UI process: the wait ends, the process  *)
(* with it.                                                                 *)
Exits(n) ==
    /\ proxy[n].state = "closed" /\ web[n].state \in {"running", "asking"}
    /\ web' = [web EXCEPT ![n].state = "gone"]
    /\ toWeb' = [toWeb EXCEPT ![n] = << >>]
    /\ toUI' = [toUI EXCEPT ![n] = << >>]
    /\ WebUnchanged

(* It crashes or is killed.  The UI process may read what it had sent.      *)
Dies(n) ==
    /\ WebMayDie /\ web[n].state \in {"running", "asking"}
    /\ web' = [web EXCEPT ![n].state = "gone"]
    /\ toWeb' = [toWeb EXCEPT ![n] = << >>]
    /\ UNCHANGED toUI /\ WebUnchanged

-----------------------------------------------------------------------------

Init ==
    /\ current = NoProcess
    /\ launched = 0
    /\ proxy = [n \in Proc |-> NoProxy]
    /\ page = [p \in Page |-> NewPage]
    /\ crashed = {}
    /\ inClient = NoPage
    /\ events = 0
    /\ toWeb = [n \in Proc |-> << >>]
    /\ toUI = [n \in Proc |-> << >>]
    /\ web = [n \in Proc |-> NoWeb]

Application ==
    \E p \in Page :
        \/ CreateWebPage(p) \/ Load(p) \/ Close(p) \/ TryClose(p)
        \/ HandleKeyboardEvent(p) \/ HandleWheelEvent(p) \/ HandleMouseMove(p)
        \/ HideView(p)

Launcher == \E n \in Proc : LaunchProcess(n)

UIProcess ==
    \/ \E n \in Proc : \/ DidFinishLaunching(n) \/ ReceiveFromWeb(n)
                       \/ ShouldTerminate(n) \/ DidClose(n)
    \/ \E p \in Page : ProcessDidCrash(p)
    \/ ClientReturns

WebProcessRuns(n) == HandleInPage(n) \/ HandleInProcess(n) \/ Exits(n)

Timers == \E n \in Proc : ResponsivenessTimerFires(n) \/ TerminationTimerFires(n)

Next ==
    \/ Application
    \/ Launcher
    \/ UIProcess
    \/ \E n \in Proc : WebProcessRuns(n)
    \/ Timers
    \/ \E n \in Proc : Dies(n)

Spec == Init /\ [][Next]_vars

(* The launcher queue, the UI process's run loop (whose client callbacks    *)
(* return) and each web process's main thread keep running.                 *)
Fairness ==
    /\ WF_vars(Launcher)
    /\ WF_vars(UIProcess)
    /\ \A n \in Proc : WF_vars(WebProcessRuns(n))

FairSpec == Spec /\ Fairness

-----------------------------------------------------------------------------
(* Properties.                                                             *)

(* The values of the variables, for the proofs.                             *)
WebMessage ==
    [op : {"initialize", "create", "close", "key", "wheel", "move", "request",
           "tryClose"},
     page : Page \cup {NoPage}]
UIMessage ==
    [op : {"key", "wheel", "move", "stopTimer", "closePage", "shouldTerminate"},
     page : Page \cup {NoPage}]
ProxyState ==
    [state : {"none", "launching", "open", "closed"}, pending : Seq(WebMessage),
     pages : SUBSET Page, timer : BOOLEAN, responsive : BOOLEAN]
PageState ==
    [state : {"none", "open", "closed"}, valid : BOOLEAN,
     process : 0..MaxProcess,
     waits : [keys : Int, wheel : Nat, wheelQueue : Nat, moving : BOOLEAN,
              nextMove : BOOLEAN]]
WebState ==
    [state : {"none", "running", "asking", "gone"}, initialized : BOOLEAN,
     pages : SUBSET Page, timer : BOOLEAN]

TypeOK ==
    /\ current \in 0..MaxProcess /\ launched \in 0..MaxProcess
    /\ proxy \in [Proc -> ProxyState]
    /\ page \in [Page -> PageState]
    /\ crashed \in SUBSET Page /\ inClient \in Page \cup {NoPage}
    /\ events \in Nat
    /\ toWeb \in [Proc -> Seq(WebMessage)]
    /\ toUI \in [Proc -> Seq(UIMessage)]
    /\ web \in [Proc -> WebState]

(* Everything under way between page p and its process.                     *)
Line(n) == proxy[n].pending \o toWeb[n] \o toUI[n]
UnderWay(p, op) ==
    LET line == Line(page[p].process) IN
    Cardinality({k \in DOMAIN line : line[k] = Message(op, p)})

Connected(n) == proxy[n].state \in {"launching", "open"} /\ web[n].state # "gone"

(* The current process's map names exactly the valid pages attached to it,  *)
(* and outside didClose there are no others: no page is left behind with a  *)
(* process that was told to end or that was lost, whoever relaunched it,    *)
(* and none is found by the messages of a process it has left.              *)
PagesAreAttached ==
    /\ current # NoProcess =>
          proxy[current].pages = {p \in Page : IsValid(p) /\ page[p].process = current}
    /\ crashed = {} =>
          \A p \in Page : IsValid(p) => current # NoProcess /\ page[p].process = current

(* didReceiveEvent finds the event it answers: m_keyEventQueue.first() has  *)
(* one, m_currentlyProcessedWheelEvents is not empty, and no wheel event or *)
(* mouse move is kept back for an answer that will not come.  So it is      *)
(* across crashes, relaunches from the crash callback and late answers.     *)
EventsMatchAnswers ==
    \A p \in Page : IsValid(p) /\ p # inClient /\ Connected(page[p].process) =>
        LET w == page[p].waits IN
        /\ w.keys = UnderWay(p, "key")
        /\ UnderWay(p, "wheel") = IF w.wheel > 0 THEN 1 ELSE 0
        /\ UnderWay(p, "move") = IF w.moving THEN 1 ELSE 0
        /\ w.wheelQueue > 0 => w.wheel > 0
        /\ w.nextMove => w.moving

(* The web process dispatches nothing before it is initialised, and no      *)
(* message for a page it does not have, whether it was sent before, during  *)
(* or after the launch.  The one exception is a wheel event which the       *)
(* page's own Close has overtaken: EventDispatcher drops it, and no open    *)
(* page waits for its answer.  A wheel event that overtook the creation of  *)
(* its page would be dropped too, and the page would never scroll again.    *)
MessageFindsItsPage ==
    \A n \in Proc : Runs(n) =>
        \A k \in DOMAIN toWeb[n] : Takes(n, k) =>
            LET m == toWeb[n][k] IN
            /\ m.op = "initialize" <=> ~web[n].initialized
            /\ m.op = "create" => m.page \notin web[n].pages
            /\ m.op \notin {"initialize", "create"} =>
                  \/ m.page \in web[n].pages
                  \/ m.op = "wheel" /\ page[m.page].state = "closed"

(* One timer serves all that is sent, and any answer, or a hidden view,     *)
(* stops it for all.  Still it never runs, and the process is never         *)
(* reported unresponsive, with nothing left that would take it back, unless *)
(* a page was closed whose answer nobody receives any more.                 *)
AlarmHasReason ==
    \A n \in Proc :
        /\ proxy[n].timer \/ ~proxy[n].responsive
        /\ Connected(n)
        /\ \A p \in Page : page[p].state # "closed"
        => LET line == Line(n) IN
           \E k \in DOMAIN line : line[k].op \in TimedOps \cup {"stopTimer", "closePage"}

(* The timer of a disconnected process is off, so that pages that moved on  *)
(* to the next process never hear that the last one does not respond.  It   *)
(* is not left running by any way of being disconnected, and one thing      *)
(* alone starts it again: a crash callback that loads another page of the   *)
(* same process, which has not been told of the crash.                      *)
OldTimer(n) == proxy[n].state = "closed" /\ (proxy[n].timer \/ ~proxy[n].responsive)

LoadsAnother(n) ==
    \E p \in crashed \ {inClient} :
        inClient # NoPage /\ page[p].process = n /\ Load(p)

OldTimerIsSilent ==
    [][\A n \in Proc : OldTimer(n)' => OldTimer(n) \/ LoadsAnother(n)]_vars

(* Every event is answered, or forgotten with the process or the page:      *)
(* scrolling and mouse moves never stall.                                   *)
Waiting(p) == IsValid(p) /\ page[p].waits # NoEvents

EventsGetDone == \A p \in Page : Waiting(p) ~> ~Waiting(p)
=============================================================================
