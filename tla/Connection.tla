----------------------------- MODULE Connection -----------------------------
(***************************************************************************)
(* CoreIPC::Connection (WebKit2/Platform/CoreIPC/Connection.cpp) together  *)
(* with the pieces it blocks on: SyncMessageState, BinarySemaphore, the    *)
(* client RunLoop and the connection's WorkQueue, for any set of processes *)
(* joined by socket pairs.                                                 *)
(*                                                                         *)
(* A process p has one client run loop thread.  What that thread is doing  *)
(* is stack[p], innermost call first: the functions of Connection.cpp that *)
(* can be on the stack while something else happens are the frames below.  *)
(* Every connection end e has a work queue thread of its own, which reads  *)
(* the socket, sends, and tears the connection down.                       *)
(*                                                                         *)
(* The client code behind Connection::Client is not modelled: whenever it  *)
(* runs (from the run loop, or inside a message handler) it may send       *)
(* asynchronous and synchronous messages on any connection of its process, *)
(* answer a delayed reply, or invalidate a connection.                     *)
(***************************************************************************)
EXTENDS Integers, Sequences, FiniteSets

CONSTANTS
    Proc,            \* processes (UI process, web process, plug-in process)
    Endpoint,        \* connection ends, one Connection object each
    ProcOf,          \* the process whose run loop is m_clientRunLoop of an end
    PeerOf,          \* the other end of the socket pair
    OnlySendMarked,  \* ends with m_onlySendMessagesAsDispatchWhenWaiting...
    ExitOnFailure,   \* ends with m_shouldExitOnSyncMessageSendFailure
    HasTimeout,      \* ends with a m_defaultSyncMessageTimeout
    Delayed,         \* ends whose client may answer a sync message later
    Invalidates,     \* ends whose client may call invalidate()
    Mortal,          \* processes that may be killed at any moment
    CrashNotified,   \* ends that are told of a peer crash by a third process
    MaxSync,         \* bound: sync requests an end creates
    MaxAsync,        \* bound: asynchronous messages an end sends
    SocketCapacity   \* messages the socket buffer to an end holds

ASSUME TopologyAssumption ==
    /\ ProcOf \in [Endpoint -> Proc]
    /\ PeerOf \in [Endpoint -> Endpoint]
    /\ \A e \in Endpoint : PeerOf[PeerOf[e]] = e /\ ProcOf[PeerOf[e]] # ProcOf[e]

ASSUME FlagAssumption ==
    /\ OnlySendMarked \subseteq Endpoint
    /\ ExitOnFailure \subseteq Endpoint
    /\ HasTimeout \subseteq Endpoint
    /\ Delayed \subseteq Endpoint
    /\ Invalidates \subseteq Endpoint
    /\ CrashNotified \subseteq Endpoint
    /\ Mortal \subseteq Proc

ASSUME BoundAssumption ==
    /\ MaxSync \in [Endpoint -> Nat]
    /\ MaxAsync \in [Endpoint -> Nat]
    /\ SocketCapacity \in Nat

VARIABLES
    \* One Connection object each.
    client,          \* m_client is not null, i.e. isValid()
    connected,       \* m_isConnected
    outgoing,        \* m_outgoingMessages
    incoming,        \* m_incomingMessages
    pending,         \* m_pendingSyncReplies
    shouldWait,      \* m_shouldWaitForSyncReplies
    syncRequestID,   \* m_syncRequestID
    marked,          \* m_inDispatchMessageMarked...Count
    tasks,           \* functions dispatched to m_connectionQueue
    signalling,      \* work queue thread: message stored, semaphore not yet set
    wire,            \* socket buffer this end reads from
    owed,            \* sync messages whose reply encoder the client took
    requests,        \* history: sync requests sent, the identity of a request
    asyncs,          \* asynchronous messages sent (bounds the model)
    noticed,         \* the crash notice for this end was posted
    \* One client run loop each.
    alive,
    sem,             \* BinarySemaphore m_isSet of the SyncMessageState
    toDispatch,      \* m_messagesToDispatchWhileWaitingForSyncReply
    didSchedule,     \* m_didScheduleDispatchMessagesWork
    runQueue,        \* RunLoop m_functionQueue
    stack            \* the run loop thread's calls, innermost first

endVars == <<client, connected, outgoing, incoming, pending, shouldWait,
             syncRequestID, marked, tasks, signalling, wire, owed, requests,
             asyncs, noticed>>
loopVars == <<alive, sem, toDispatch, didSchedule, runQueue, stack>>
vars == <<client, connected, outgoing, incoming, pending, shouldWait,
          syncRequestID, marked, tasks, signalling, wire, owed, requests,
          asyncs, noticed, alive, sem, toDispatch, didSchedule, runQueue,
          stack>>

-----------------------------------------------------------------------------
(* Messages.  id is the sync request id carried by a sync message and used  *)
(* as destination id by its reply; request identifies the sendSync call     *)
(* that caused the message (0 for an asynchronous one) and is read by no    *)
(* action.  dispatch is the DispatchMessageWhenWaitingForSyncReply flag.    *)

NoReply == 0

Message == [kind : {"async", "sync", "reply"}, id : Nat, request : Nat,
            dispatch : BOOLEAN]

Delivery == [e : Endpoint, m : Message]

PendingSyncReply == [id : Nat, request : Nat, reply : Nat]

Task == {"sendOutgoingMessages", "platformInvalidate", "connectionDidClose"}

Work == [fn : {"dispatchMessages", "dispatchConnectionDidClose"}, e : Endpoint]
          \cup [fn : {"dispatchMessageAndReset"}]

(* Calls that can be on the run loop thread's stack.  encoder says that      *)
(* dispatchSyncMessage still holds the reply encoder it will send.          *)
DispatchFrame(e) == [fn |-> "dispatchMessages", e |-> e]
SwapFrame        == [fn |-> "swap"]
BatchFrame(b)    == [fn |-> "batch", batch |-> b]
HandlerFrame(d, encoder) == [fn |-> "dispatchMessage", d |-> d, encoder |-> encoder]
WaitFrame(e, id, pc) == [fn |-> "waitForSyncReply", e |-> e, id |-> id, pc |-> pc]

Frame ==
    [fn : {"dispatchMessages"}, e : Endpoint]
      \cup [fn : {"swap"}]
      \cup [fn : {"batch"}, batch : Seq(Delivery) \ {<< >>}]
      \cup [fn : {"dispatchMessage"}, d : Delivery, encoder : BOOLEAN]
      \cup [fn : {"waitForSyncReply"}, e : Endpoint, id : Nat, pc : {"check", "wait"}]

-----------------------------------------------------------------------------

EndsOf(p) == {e \in Endpoint : ProcOf[e] = p}

Running(p, fn) == alive[p] /\ stack[p] # << >> /\ Head(stack[p]).fn = fn

(* Mutants of PeerClosed: the work queue watches for only one of the two.   *)
PeerClosedByDeath(e) == ~alive[ProcOf[PeerOf[e]]]
PeerClosedByInvalidate(e) == ~connected[PeerOf[e]]

(* The peer's socket is closed: its Connection was torn down or its process *)
(* is gone.  This end's work queue sees G_IO_HUP or end of file.            *)
PeerClosed(e) == ~connected[PeerOf[e]] \/ ~alive[ProcOf[PeerOf[e]]]

(* Client code is running: from an event of the run loop, or in a handler.  *)
ClientRuns(p) ==
    alive[p] /\ (stack[p] # << >> => Head(stack[p]).fn = "dispatchMessage")

Init ==
    /\ client = [e \in Endpoint |-> TRUE]
    /\ connected = [e \in Endpoint |-> TRUE]
    /\ outgoing = [e \in Endpoint |-> << >>]
    /\ incoming = [e \in Endpoint |-> << >>]
    /\ pending = [e \in Endpoint |-> << >>]
    /\ shouldWait = [e \in Endpoint |-> TRUE]
    /\ syncRequestID = [e \in Endpoint |-> 0]
    /\ marked = [e \in Endpoint |-> 0]
    /\ tasks = [e \in Endpoint |-> << >>]
    /\ signalling = [e \in Endpoint |-> FALSE]
    /\ wire = [e \in Endpoint |-> << >>]
    /\ owed = [e \in Endpoint |-> {}]
    /\ requests = [e \in Endpoint |-> 0]
    /\ asyncs = [e \in Endpoint |-> 0]
    /\ noticed = [e \in Endpoint |-> FALSE]
    /\ alive = [p \in Proc |-> TRUE]
    /\ sem = [p \in Proc |-> FALSE]
    /\ toDispatch = [p \in Proc |-> << >>]
    /\ didSchedule = [p \in Proc |-> FALSE]
    /\ runQueue = [p \in Proc |-> << >>]
    /\ stack = [p \in Proc |-> << >>]

-----------------------------------------------------------------------------
(* Mutant of MayMark: the flag is never passed on.                          *)
MayMarkNever(e) == FALSE

(* Connection::sendMessage on the client thread.  wanted says that the      *)
(* caller passed DispatchMessageEvenWhenWaitingForSyncReply.                *)
MayMark(e) == e \notin OnlySendMarked \/ marked[e] > 0

SendMessage(e, m, wanted) ==
    IF client[e]
    THEN /\ outgoing' = [outgoing EXCEPT ![e] =
               Append(@, [m EXCEPT !.dispatch = wanted /\ MayMark(e)])]
         /\ tasks' = [tasks EXCEPT ![e] = Append(@, "sendOutgoingMessages")]
    ELSE UNCHANGED <<outgoing, tasks>>

AsyncMessage == [kind |-> "async", id |-> 0, request |-> 0, dispatch |-> FALSE]
SyncMessage(id, r) == [kind |-> "sync", id |-> id, request |-> r, dispatch |-> FALSE]
SyncMessageReply(m) == [m EXCEPT !.kind = "reply", !.dispatch = FALSE]

(* didFailToSendSyncMessage: some ends end the process.                     *)
DidFailToSendSyncMessage(e) ==
    alive' = [alive EXCEPT ![ProcOf[e]] = @ /\ e \notin ExitOnFailure]

-----------------------------------------------------------------------------
(* What the client of a Connection does with it.                            *)

SendAsync(e, wanted) ==
    /\ ClientRuns(ProcOf[e])
    /\ client[e]
    /\ asyncs[e] < MaxAsync[e]
    /\ asyncs' = [asyncs EXCEPT ![e] = @ + 1]
    /\ SendMessage(e, AsyncMessage, wanted)
    /\ UNCHANGED <<client, connected, incoming, pending, shouldWait,
                   syncRequestID, marked, signalling, wire, owed, requests,
                   noticed, loopVars>>

(* Mutant of NextSyncRequestID: the counter is read but not advanced.        *)
NextSyncRequestIDStuck(e) == 1

(* createSyncMessageArgumentEncoder: the id the next request is given.      *)
NextSyncRequestID(e) == syncRequestID[e] + 1

(* sendSyncMessage up to the wait: waitForSyncReply starts by calling       *)
(* SyncMessageState::dispatchMessages.                                      *)
SendSync(e) ==
    LET p == ProcOf[e]
        id == NextSyncRequestID(e)
    IN  /\ ClientRuns(p)
        /\ client[e] /\ shouldWait[e]
        /\ requests[e] < MaxSync[e]
        /\ syncRequestID' = [syncRequestID EXCEPT ![e] = id]
        /\ requests' = [requests EXCEPT ![e] = @ + 1]
        /\ pending' = [pending EXCEPT ![e] =
              Append(@, [id |-> id, request |-> requests[e] + 1, reply |-> NoReply])]
        /\ SendMessage(e, SyncMessage(id, requests[e] + 1), TRUE)
        /\ stack' = [stack EXCEPT ![p] = <<SwapFrame, WaitFrame(e, id, "check")>> \o @]
        /\ UNCHANGED <<client, connected, incoming, shouldWait, marked,
                       signalling, wire, owed, asyncs, noticed, alive, sem,
                       toDispatch, didSchedule, runQueue>>

(* sendSyncMessage on an invalid or closed connection.                      *)
SendSyncFails(e) ==
    /\ ClientRuns(ProcOf[e])
    /\ ~client[e] \/ ~shouldWait[e]
    /\ requests[e] < MaxSync[e]
    /\ syncRequestID' = [syncRequestID EXCEPT ![e] = NextSyncRequestID(e)]
    /\ requests' = [requests EXCEPT ![e] = @ + 1]
    /\ DidFailToSendSyncMessage(e)
    /\ UNCHANGED <<client, connected, outgoing, incoming, pending, shouldWait,
                   marked, tasks, signalling, wire, owed, asyncs, noticed, sem,
                   toDispatch, didSchedule, runQueue, stack>>

(* Mutant of SendDelayedReply: the client keeps the encoder it used.         *)
SendDelayedReplyTwice(e) ==
    /\ ClientRuns(ProcOf[e])
    /\ \E m \in owed[e] : SendMessage(e, SyncMessageReply(m), FALSE)
    /\ UNCHANGED <<client, connected, incoming, pending, shouldWait,
                   syncRequestID, marked, signalling, wire, owed, requests,
                   asyncs, noticed, loopVars>>

(* The client answers a sync message whose reply encoder it took, while its *)
(* handler still runs or at any later time.                                 *)
SendDelayedReply(e) ==
    /\ ClientRuns(ProcOf[e])
    /\ \E m \in owed[e] :
         /\ owed' = [owed EXCEPT ![e] = @ \ {m}]
         /\ SendMessage(e, SyncMessageReply(m), FALSE)
    /\ UNCHANGED <<client, connected, incoming, pending, shouldWait,
                   syncRequestID, marked, signalling, wire, requests, asyncs,
                   noticed, loopVars>>

Invalidate(e) ==
    /\ ClientRuns(ProcOf[e])
    /\ e \in Invalidates
    /\ client[e]
    /\ client' = [client EXCEPT ![e] = FALSE]
    /\ tasks' = [tasks EXCEPT ![e] = Append(@, "platformInvalidate")]
    /\ UNCHANGED <<connected, outgoing, incoming, pending, shouldWait,
                   syncRequestID, marked, signalling, wire, owed, requests,
                   asyncs, noticed, loopVars>>

-----------------------------------------------------------------------------
(* The client run loop thread.                                              *)

(* RunLoop::performWork: functions run in the order they were dispatched,   *)
(* and only when the thread is back in its loop.                            *)
NextWork(p, fn) ==
    /\ alive[p] /\ stack[p] = << >>
    /\ runQueue[p] # << >> /\ Head(runQueue[p]).fn = fn
    /\ runQueue' = [runQueue EXCEPT ![p] = Tail(@)]

CallDispatchMessages(p) ==
    /\ NextWork(p, "dispatchMessages")
    /\ stack' = [stack EXCEPT ![p] = <<DispatchFrame(Head(runQueue[p]).e)>>]
    /\ UNCHANGED <<endVars, alive, sem, toDispatch, didSchedule>>

(* Mutant: m_didScheduleDispatchMessagesWork is not reset.                   *)
DispatchMessageWithoutReset(p) ==
    /\ NextWork(p, "dispatchMessageAndReset")
    /\ stack' = [stack EXCEPT ![p] = <<SwapFrame>>]
    /\ UNCHANGED <<endVars, alive, sem, toDispatch, didSchedule>>

DispatchMessageAndResetDidSchedule(p) ==
    /\ NextWork(p, "dispatchMessageAndReset")
    /\ didSchedule' = [didSchedule EXCEPT ![p] = FALSE]
    /\ stack' = [stack EXCEPT ![p] = <<SwapFrame>>]
    /\ UNCHANGED <<endVars, alive, sem, toDispatch>>

DispatchConnectionDidClose(p) ==
    /\ NextWork(p, "dispatchConnectionDidClose")
    /\ client' = [client EXCEPT ![Head(runQueue[p]).e] = FALSE]
    /\ UNCHANGED <<connected, outgoing, incoming, pending, shouldWait,
                   syncRequestID, marked, tasks, signalling, wire, owed,
                   requests, asyncs, noticed, alive, sem, toDispatch,
                   didSchedule, stack>>

(* Connection::dispatchMessage: rest is the stack the handler returns to.   *)
(* The handler of a sync message declared Delayed starts by taking the      *)
(* reply encoder.                                                           *)
Encoder(d) == {d.m.kind = "sync"}
                \cup (IF d.e \in Delayed THEN {FALSE} ELSE {})

DispatchMessage(p, d, rest) ==
    IF client[d.e]
    THEN \E encoder \in Encoder(d) :
         /\ stack' = [stack EXCEPT ![p] = <<HandlerFrame(d, encoder)>> \o rest]
         /\ marked' = [marked EXCEPT ![d.e] = IF d.m.dispatch THEN @ + 1 ELSE @]
         /\ owed' = [owed EXCEPT ![d.e] =
               IF d.m.kind = "sync" /\ ~encoder THEN @ \cup {d.m} ELSE @]
    ELSE /\ stack' = [stack EXCEPT ![p] = rest]
         /\ UNCHANGED <<marked, owed>>

(* One turn of the loop in Connection::dispatchMessages.                    *)
DispatchMessages(p) ==
    /\ Running(p, "dispatchMessages")
    /\ LET e == Head(stack[p]).e
       IN  \/ /\ incoming[e] = << >>
              /\ stack' = [stack EXCEPT ![p] = Tail(@)]
              /\ UNCHANGED <<incoming, marked, owed>>
           \/ /\ incoming[e] # << >>
              /\ incoming' = [incoming EXCEPT ![e] = Tail(@)]
              /\ DispatchMessage(p, [e |-> e, m |-> Head(incoming[e])], stack[p])
    /\ UNCHANGED <<client, connected, outgoing, pending, shouldWait,
                   syncRequestID, tasks, signalling, wire, requests, asyncs,
                   noticed, alive, sem, toDispatch, didSchedule, runQueue>>

(* Mutant of SwapMessages: a batch is dispatched when nothing was stored.    *)
SwapMessagesAlways(p) ==
    /\ Running(p, "swap")
    /\ toDispatch' = [toDispatch EXCEPT ![p] = << >>]
    /\ stack' = [stack EXCEPT ![p] = <<BatchFrame(toDispatch[p])>> \o Tail(@)]
    /\ UNCHANGED <<endVars, alive, sem, didSchedule, runQueue>>

(* SyncMessageState::dispatchMessages takes the stored messages ...         *)
SwapMessages(p) ==
    /\ Running(p, "swap")
    /\ toDispatch' = [toDispatch EXCEPT ![p] = << >>]
    /\ stack' = [stack EXCEPT ![p] =
          IF toDispatch[p] = << >> THEN Tail(@)
          ELSE <<BatchFrame(toDispatch[p])>> \o Tail(@)]
    /\ UNCHANGED <<endVars, alive, sem, didSchedule, runQueue>>

(* ... and dispatches them one after the other.                             *)
DispatchBatch(p) ==
    /\ Running(p, "batch")
    /\ LET b == Head(stack[p]).batch
           rest == IF Len(b) = 1 THEN Tail(stack[p])
                   ELSE <<BatchFrame(Tail(b))>> \o Tail(stack[p])
       IN  DispatchMessage(p, Head(b), rest)
    /\ UNCHANGED <<client, connected, outgoing, incoming, pending, shouldWait,
                   syncRequestID, tasks, signalling, wire, requests, asyncs,
                   noticed, alive, sem, toDispatch, didSchedule, runQueue>>

(* Mutant of HandlerReturns: the count of marked messages is not taken back. *)
HandlerReturnsStillMarked(p) ==
    /\ Running(p, "dispatchMessage")
    /\ LET d == Head(stack[p]).d
       IN  IF Head(stack[p]).encoder
           THEN SendMessage(d.e, SyncMessageReply(d.m), FALSE)
           ELSE UNCHANGED <<outgoing, tasks>>
    /\ stack' = [stack EXCEPT ![p] = Tail(@)]
    /\ UNCHANGED <<client, connected, incoming, pending, shouldWait, marked,
                   syncRequestID, signalling, wire, owed, requests, asyncs,
                   noticed, alive, sem, toDispatch, didSchedule, runQueue>>

(* The handler returns to dispatchMessage; dispatchSyncMessage then sends   *)
(* the reply unless the client took the encoder.                            *)
HandlerReturns(p) ==
    /\ Running(p, "dispatchMessage")
    /\ LET d == Head(stack[p]).d
       IN  /\ marked' = [marked EXCEPT ![d.e] = IF d.m.dispatch THEN @ - 1 ELSE @]
           /\ IF Head(stack[p]).encoder
              THEN SendMessage(d.e, SyncMessageReply(d.m), FALSE)
              ELSE UNCHANGED <<outgoing, tasks>>
    /\ stack' = [stack EXCEPT ![p] = Tail(@)]
    /\ UNCHANGED <<client, connected, incoming, pending, shouldWait,
                   syncRequestID, signalling, wire, owed, requests, asyncs,
                   noticed, alive, sem, toDispatch, didSchedule, runQueue>>

(* Mutants: the oldest pending reply is popped instead of the last, and the  *)
(* loop of waitForSyncReply does not look for a reply.                       *)
AllButFirst(s) == Tail(s)
StopsWaitingWhenClosed(e) == ~shouldWait[e] \/ ~client[e]

(* The top of waitForSyncReply's loop, after the messages were dispatched.  *)
LastOf(s) == s[Len(s)]
AllButLast(s) == SubSeq(s, 1, Len(s) - 1)

StopsWaiting(e) ==
    LastOf(pending[e]).reply # NoReply \/ ~shouldWait[e] \/ ~client[e]

Waiting(p, pc) == Running(p, "waitForSyncReply") /\ Head(stack[p]).pc = pc

(* waitForSyncReply returns and sendSyncMessage pops its pending reply.     *)
ReturnFromSendSync(p, e, gotReply) ==
    /\ pending' = [pending EXCEPT ![e] = AllButLast(@)]
    /\ stack' = [stack EXCEPT ![p] = Tail(@)]
    /\ IF gotReply THEN UNCHANGED alive ELSE DidFailToSendSyncMessage(e)
    /\ UNCHANGED <<client, connected, outgoing, incoming, shouldWait,
                   syncRequestID, marked, tasks, signalling, wire, owed,
                   requests, asyncs, noticed, sem, toDispatch, didSchedule,
                   runQueue>>

WaitReturns(p) ==
    /\ Waiting(p, "check")
    /\ LET e == Head(stack[p]).e
       IN  /\ StopsWaiting(e)
           /\ ReturnFromSendSync(p, e, LastOf(pending[e]).reply # NoReply)

WaitBlocks(p) ==
    /\ Waiting(p, "check")
    /\ ~StopsWaiting(Head(stack[p]).e)
    /\ stack' = [stack EXCEPT ![p] = <<[Head(@) EXCEPT !.pc = "wait"]>> \o Tail(@)]
    /\ UNCHANGED <<endVars, alive, sem, toDispatch, didSchedule, runQueue>>

(* BinarySemaphore::wait returns true: back to the top of the loop.         *)
WaitWakes(p) ==
    /\ Waiting(p, "wait")
    /\ sem[p]
    /\ sem' = [sem EXCEPT ![p] = FALSE]
    /\ stack' = [stack EXCEPT ![p] =
          <<SwapFrame, [Head(@) EXCEPT !.pc = "check"]>> \o Tail(@)]
    /\ UNCHANGED <<endVars, alive, toDispatch, didSchedule, runQueue>>

(* BinarySemaphore::wait returns false: the loop is left without a look at  *)
(* the pending replies.                                                     *)
WaitTimesOut(p) ==
    /\ Waiting(p, "wait")
    /\ ~sem[p]
    /\ Head(stack[p]).e \in HasTimeout
    /\ ReturnFromSendSync(p, Head(stack[p]).e, FALSE)

-----------------------------------------------------------------------------
(* The work queue thread of a connection end.                               *)

QueueRuns(e) == alive[ProcOf[e]] /\ ~signalling[e]

NextTask(e, task) ==
    /\ QueueRuns(e)
    /\ tasks[e] # << >> /\ Head(tasks[e]) = task
    /\ tasks' = [tasks EXCEPT ![e] = Tail(@)]

(* sendOutgoingMessages: a send that fails (the peer is gone, or the        *)
(* non-blocking socket is full) loses the message it was given and leaves   *)
(* the rest for the next call.                                              *)
Fits(e) ==
    LET room == IF PeerClosed(e) \/ SocketCapacity < Len(wire[PeerOf[e]]) THEN 0
                ELSE SocketCapacity - Len(wire[PeerOf[e]])
    IN  IF Len(outgoing[e]) <= room THEN Len(outgoing[e]) ELSE room

SendOutgoingMessages(e) ==
    /\ NextTask(e, "sendOutgoingMessages")
    /\ LET n == Fits(e)
       IN  IF connected[e]
           THEN /\ wire' = [wire EXCEPT ![PeerOf[e]] = @ \o SubSeq(outgoing[e], 1, n)]
                /\ outgoing' = [outgoing EXCEPT ![e] =
                      IF n = Len(@) THEN << >> ELSE SubSeq(@, n + 2, Len(@))]
           ELSE UNCHANGED <<wire, outgoing>>
    /\ UNCHANGED <<client, connected, incoming, pending, shouldWait,
                   syncRequestID, marked, signalling, owed, requests, asyncs,
                   noticed, loopVars>>

PlatformInvalidate(e) ==
    /\ connected' = [connected EXCEPT ![e] = FALSE]
    /\ wire' = [wire EXCEPT ![e] = << >>]

InvalidateOnWorkQueue(e) ==
    /\ NextTask(e, "platformInvalidate")
    /\ PlatformInvalidate(e)
    /\ UNCHANGED <<client, outgoing, incoming, pending, shouldWait,
                   syncRequestID, marked, signalling, owed, requests, asyncs,
                   noticed, loopVars>>

(* connectionDidClose: nobody will answer any more, so a waiting client     *)
(* thread is woken up.                                                      *)
ConnectionDidClose(e) ==
    LET p == ProcOf[e]
    IN  /\ PlatformInvalidate(e)
        /\ shouldWait' = [shouldWait EXCEPT ![e] = FALSE]
        /\ sem' = [sem EXCEPT ![p] = @ \/ pending[e] # << >>]
        /\ runQueue' = [runQueue EXCEPT ![p] =
              Append(@, [fn |-> "dispatchConnectionDidClose", e |-> e])]
        /\ UNCHANGED <<client, outgoing, incoming, pending, syncRequestID,
                       marked, signalling, owed, requests, asyncs, noticed,
                       alive, toDispatch, didSchedule, stack>>

(* G_IO_HUP, or end of file in readyReadHandler.  The hang-up source was    *)
(* registered first: data the peer sent before may still be unread.         *)
Hangup(e) ==
    /\ QueueRuns(e)
    /\ connected[e]
    /\ PeerClosed(e)
    /\ ConnectionDidClose(e)
    /\ UNCHANGED tasks

(* postConnectionDidCloseOnConnectionWorkQueue was called.                  *)
ConnectionDidCloseOnWorkQueue(e) ==
    /\ NextTask(e, "connectionDidClose")
    /\ ConnectionDidClose(e)

(* readyReadHandler and processMessage hand the next message on.            *)
ReadMessage(e) ==
    /\ QueueRuns(e)
    /\ connected[e]
    /\ wire[e] # << >>
    /\ wire' = [wire EXCEPT ![e] = Tail(@)]

(* processIncomingSyncReply: search the pending replies from the last one.  *)
IsReplyFor(e, i, id) ==
    /\ pending[e][i].id = id
    /\ \A j \in DOMAIN pending[e] : j > i => pending[e][j].id # id

ReceiveSyncReply(e) ==
    /\ ReadMessage(e)
    /\ LET m == Head(wire[e])
       IN  /\ m.kind = "reply"
           /\ \/ \E i \in DOMAIN pending[e] :
                   /\ IsReplyFor(e, i, m.id)
                   /\ pending' = [pending EXCEPT ![e][i].reply = m.request]
                   /\ sem' = [sem EXCEPT ![ProcOf[e]] = @ \/ i = Len(pending[e])]
              \/ /\ \A i \in DOMAIN pending[e] : pending[e][i].id # m.id
                 /\ UNCHANGED <<pending, sem>>
    /\ UNCHANGED <<client, connected, outgoing, incoming, shouldWait,
                   syncRequestID, marked, tasks, signalling, owed, requests,
                   asyncs, noticed, alive, toDispatch, didSchedule, runQueue,
                   stack>>

(* SyncMessageState::processIncomingMessage up to the unlock; the thread    *)
(* still has to signal the semaphore.                                       *)
ReceiveDispatchWhileWaiting(e) ==
    LET p == ProcOf[e]
    IN  /\ ReadMessage(e)
        /\ Head(wire[e]).kind # "reply" /\ Head(wire[e]).dispatch
        /\ toDispatch' = [toDispatch EXCEPT ![p] =
              Append(@, [e |-> e, m |-> Head(wire[e])])]
        /\ runQueue' = [runQueue EXCEPT ![p] =
              IF didSchedule[p] THEN @
              ELSE Append(@, [fn |-> "dispatchMessageAndReset"])]
        /\ didSchedule' = [didSchedule EXCEPT ![p] = TRUE]
        /\ signalling' = [signalling EXCEPT ![e] = TRUE]
        /\ UNCHANGED <<client, connected, outgoing, incoming, pending,
                       shouldWait, syncRequestID, marked, tasks, owed, requests,
                       asyncs, noticed, alive, sem, stack>>

(* wakeUpClientRunLoop at the end of processIncomingMessage.                *)
WakeUpClientRunLoop(e) ==
    /\ alive[ProcOf[e]] /\ signalling[e]
    /\ signalling' = [signalling EXCEPT ![e] = FALSE]
    /\ sem' = [sem EXCEPT ![ProcOf[e]] = TRUE]
    /\ UNCHANGED <<client, connected, outgoing, incoming, pending, shouldWait,
                   syncRequestID, marked, tasks, wire, owed, requests, asyncs,
                   noticed, alive, toDispatch, didSchedule, runQueue, stack>>

(* enqueueIncomingMessage.                                                  *)
EnqueueIncomingMessage(e) ==
    LET p == ProcOf[e]
    IN  /\ ReadMessage(e)
        /\ Head(wire[e]).kind # "reply" /\ ~Head(wire[e]).dispatch
        /\ incoming' = [incoming EXCEPT ![e] = Append(@, Head(wire[e]))]
        /\ runQueue' = [runQueue EXCEPT ![p] =
              Append(@, [fn |-> "dispatchMessages", e |-> e])]
        /\ UNCHANGED <<client, connected, outgoing, pending, shouldWait,
                       syncRequestID, marked, tasks, signalling, owed, requests,
                       asyncs, noticed, alive, sem, toDispatch, didSchedule,
                       stack>>

-----------------------------------------------------------------------------
(* The environment.                                                         *)

Killed(p) ==
    /\ p \in Mortal /\ alive[p]
    /\ alive' = [alive EXCEPT ![p] = FALSE]
    /\ UNCHANGED <<endVars, sem, toDispatch, didSchedule, runQueue, stack>>

(* The UI process tells this process that the peer crashed, and             *)
(* PluginProcessConnectionManager::pluginProcessCrashed posts the close.    *)
PluginProcessCrashed(e) ==
    /\ e \in CrashNotified /\ ~noticed[e]
    /\ alive[ProcOf[e]] /\ ~alive[ProcOf[PeerOf[e]]]
    /\ noticed' = [noticed EXCEPT ![e] = TRUE]
    /\ tasks' = [tasks EXCEPT ![e] = Append(@, "connectionDidClose")]
    /\ UNCHANGED <<client, connected, outgoing, incoming, pending, shouldWait,
                   syncRequestID, marked, signalling, wire, owed, requests,
                   asyncs, loopVars>>

ClientStep(e) ==
    \/ \E wanted \in BOOLEAN : SendAsync(e, wanted)
    \/ SendSync(e) \/ SendSyncFails(e) \/ SendDelayedReply(e) \/ Invalidate(e)

RunLoopStep(p) ==
    \/ CallDispatchMessages(p) \/ DispatchMessageAndResetDidSchedule(p)
    \/ DispatchConnectionDidClose(p) \/ DispatchMessages(p) \/ SwapMessages(p)
    \/ DispatchBatch(p) \/ HandlerReturns(p) \/ WaitReturns(p) \/ WaitBlocks(p)
    \/ WaitWakes(p)

WorkQueueStep(e) ==
    \/ SendOutgoingMessages(e) \/ InvalidateOnWorkQueue(e) \/ Hangup(e)
    \/ ConnectionDidCloseOnWorkQueue(e) \/ ReceiveSyncReply(e)
    \/ ReceiveDispatchWhileWaiting(e) \/ WakeUpClientRunLoop(e)
    \/ EnqueueIncomingMessage(e)

Next ==
    \/ \E e \in Endpoint :
         ClientStep(e) \/ WorkQueueStep(e) \/ PluginProcessCrashed(e)
    \/ \E p \in Proc : RunLoopStep(p) \/ WaitTimesOut(p) \/ Killed(p)

Spec == Init /\ [][Next]_vars

(* The threads of a live process keep running, a wait with a timeout ends,  *)
(* and a client that took a reply encoder uses it in the end.  Nobody has   *)
(* to send, invalidate or die.                                              *)
Fairness ==
    /\ \A p \in Proc : WF_vars(RunLoopStep(p))
    /\ \A e \in Endpoint : WF_vars(WorkQueueStep(e))
    /\ \A e \in HasTimeout : WF_vars(WaitTimesOut(ProcOf[e]))
    /\ \A e \in Delayed : WF_vars(SendDelayedReply(e))

FairSpec == Spec /\ Fairness

-----------------------------------------------------------------------------
(* Properties.                                                              *)

(* Every variable keeps its type: the one type invariant of this module.    *)
TypeOK ==
    /\ client \in [Endpoint -> BOOLEAN]
    /\ connected \in [Endpoint -> BOOLEAN]
    /\ outgoing \in [Endpoint -> Seq(Message)]
    /\ incoming \in [Endpoint -> Seq(Message)]
    /\ pending \in [Endpoint -> Seq(PendingSyncReply)]
    /\ shouldWait \in [Endpoint -> BOOLEAN]
    /\ syncRequestID \in [Endpoint -> Nat]
    /\ marked \in [Endpoint -> Int]
    /\ tasks \in [Endpoint -> Seq(Task)]
    /\ signalling \in [Endpoint -> BOOLEAN]
    /\ wire \in [Endpoint -> Seq(Message)]
    /\ owed \in [Endpoint -> SUBSET Message]
    /\ requests \in [Endpoint -> Nat]
    /\ asyncs \in [Endpoint -> Nat]
    /\ noticed \in [Endpoint -> BOOLEAN]
    /\ alive \in [Proc -> BOOLEAN]
    /\ sem \in [Proc -> BOOLEAN]
    /\ toDispatch \in [Proc -> Seq(Delivery)]
    /\ didSchedule \in [Proc -> BOOLEAN]
    /\ runQueue \in [Proc -> Seq(Work)]
    /\ stack \in [Proc -> Seq(Frame)]

(* A client thread blocked in BinarySemaphore::wait with the semaphore      *)
(* clear has nothing to wake up for: no message it should dispatch while    *)
(* waiting is stored without a signal on its way, its own reply has not     *)
(* come, and the connection was not closed.  The semaphore is shared by all *)
(* connections of the run loop and by nested waits, so a signal meant for   *)
(* an outer wait may be consumed by an inner one.                           *)
NoLostWakeup ==
    \A p \in Proc :
      Waiting(p, "wait") /\ ~sem[p] =>
        LET e == Head(stack[p]).e
        IN  /\ toDispatch[p] # << >> => \E f \in EndsOf(p) : signalling[f]
            /\ LastOf(pending[e]).reply = NoReply
            /\ shouldWait[e]

(* waitForSyncReply and sendSyncMessage assert that the last pending reply  *)
(* is their own.  The innermost sendSyncMessage call on each connection     *)
(* finds it so, however calls on this and other connections are nested.     *)
IsWait(f) == f.fn = "waitForSyncReply"
WaitsOn(f, e) == IsWait(f) /\ f.e = e

PendingReplyIsMine ==
    \A p \in Proc : \A k \in DOMAIN stack[p] : \A e \in Endpoint :
      /\ WaitsOn(stack[p][k], e)
      /\ \A j \in DOMAIN stack[p] : j < k => ~WaitsOn(stack[p][j], e)
      => /\ pending[e] # << >>
         /\ LastOf(pending[e]).id = stack[p][k].id

(* A reply is only ever stored for the sendSyncMessage call it answers: a   *)
(* reply that arrives after its request timed out is not mistaken for the   *)
(* answer to a later request.                                               *)
ReplyAnswersRequest ==
    \A e \in Endpoint : \A i \in DOMAIN pending[e] :
      pending[e][i].reply \in {NoReply, pending[e][i].request}

(* processIncomingSyncReply asserts that a request has no reply yet when    *)
(* one arrives, delayed replies and dispatch while waiting included.        *)
AtMostOneReply ==
    \A e \in Endpoint : \A k \in DOMAIN wire[e] : \A i \in DOMAIN pending[e] :
      wire[e][k].kind = "reply" /\ wire[e][k].id = pending[e][i].id
        => pending[e][i].reply = NoReply

(* A message stored to be dispatched while waiting is dispatched even when  *)
(* nobody waits: the run loop has, or is executing, a call for it, and      *)
(* never more than one (dispatchMessageAndReset... asserts the flag).       *)
NothingStranded ==
    \A p \in Proc :
      LET scheduled == {k \in DOMAIN runQueue[p] :
                          runQueue[p][k].fn = "dispatchMessageAndReset"}
      IN  /\ Cardinality(scheduled) = IF didSchedule[p] THEN 1 ELSE 0
          /\ toDispatch[p] # << >> /\ alive[p] =>
               didSchedule[p] \/ Running(p, "swap")

(* The counter that lets an end mark its messages is the number of marked   *)
(* messages it is really in the middle of dispatching.                      *)
MarkedCountMatchesStack ==
    \A e \in Endpoint :
      LET p == ProcOf[e]
      IN  marked[e] = Cardinality({k \in DOMAIN stack[p] :
                         /\ stack[p][k].fn = "dispatchMessage"
                         /\ stack[p][k].d.e = e /\ stack[p][k].d.m.dispatch})

(* connectionDidClose asserts m_shouldWaitForSyncReplies: it runs at most   *)
(* once for a connection.                                                   *)
DidCloseOnce ==
    [][\A p \in Proc : \A e \in Endpoint :
         runQueue'[p] = Append(runQueue[p], [fn |-> "dispatchConnectionDidClose", e |-> e])
           => shouldWait[e]]_vars

(* Every sendSyncMessage call returns, unless its process ends: with a      *)
(* reply, or because the connection was closed or invalidated.  Two ends    *)
(* that wait for each other dispatch each other's messages.                 *)
InSendSync(e, id) ==
    /\ alive[ProcOf[e]]
    /\ \E k \in DOMAIN stack[ProcOf[e]] :
         WaitsOn(stack[ProcOf[e]][k], e) /\ stack[ProcOf[e]][k].id = id

SendSyncReturns ==
    \A e \in Endpoint : \A id \in 1..MaxSync[e] :
      InSendSync(e, id) ~> ~InSendSync(e, id)

(* When the process at the other end is gone, the client is told (or has    *)
(* invalidated the connection itself), even if its thread was blocked in a  *)
(* synchronous send to that process or to another one.                      *)
CloseIsNoticed ==
    \A e \in Endpoint :
      ~alive[ProcOf[PeerOf[e]]] ~> ~client[e] \/ ~alive[ProcOf[e]]

-----------------------------------------------------------------------------
(* The inductive invariant behind NoLostWakeup and PendingReplyIsMine.      *)

(* A call waits on a connection of its own process, and only the innermost  *)
(* call can be blocked on the semaphore.                                    *)
Calls(s, p) ==
    \A k \in DOMAIN s : IsWait(s[k]) =>
      /\ ProcOf[s[k].e] = p
      /\ (k # 1 => s[k].pc = "check")

CallsInv == \A p \in Proc : Calls(stack[p], p)

(* The sendSyncMessage calls on a connection (in the stack s) and its       *)
(* pending replies (q) have the same ids, none larger than the last id n    *)
(* given out, and both grow towards the innermost call.                     *)
Matches(s, q, n, e) ==
    /\ \A k \in DOMAIN s : WaitsOn(s[k], e) => \E i \in DOMAIN q : q[i].id = s[k].id
    /\ \A i \in DOMAIN q : \E k \in DOMAIN s : WaitsOn(s[k], e) /\ q[i].id = s[k].id
    /\ \A i \in DOMAIN q : q[i].id <= n
    /\ \A i, j \in DOMAIN q : i < j => q[i].id < q[j].id
    /\ \A j, k \in DOMAIN s :
         WaitsOn(s[j], e) /\ WaitsOn(s[k], e) /\ j < k => s[j].id > s[k].id

MatchInv ==
    \A e \in Endpoint :
      Matches(stack[ProcOf[e]], pending[e], syncRequestID[e], e)

(* A stored message is about to be taken by the client thread, or the       *)
(* semaphore is set or about to be.                                         *)
WakeInv ==
    \A p \in Proc : toDispatch[p] # << >> =>
      \/ sem[p]
      \/ stack[p] # << >> /\ Head(stack[p]).fn = "swap"
      \/ \E f \in EndsOf(p) : signalling[f]

(* A blocked call has no reply, and its connection is open, unless the      *)
(* semaphore is set.                                                        *)
BlockInv ==
    \A p \in Proc :
      /\ stack[p] # << >>
      /\ IsWait(Head(stack[p])) /\ Head(stack[p]).pc = "wait"
      /\ ~sem[p]
      => /\ LastOf(pending[Head(stack[p]).e]).reply = NoReply
         /\ shouldWait[Head(stack[p]).e]

IInv == TypeOK /\ CallsInv /\ MatchInv /\ WakeInv /\ BlockInv

=============================================================================
