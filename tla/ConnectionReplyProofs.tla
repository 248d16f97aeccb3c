----------------------- MODULE ConnectionReplyProofs -----------------------
(***************************************************************************)
(* What becomes of the messages of Connection: replies are stored for the  *)
(* requests they answer, and once; stored messages are dispatched; marked  *)
(* messages are counted.                                                   *)
(***************************************************************************)
EXTENDS ConnectionProofs, Counting

-----------------------------------------------------------------------------
(* Sharper types.  Sync messages and replies carry the number of their      *)
(* request as id, only replies are kept from the client thread, and what a  *)
(* run loop handles belongs to a connection of its own process.             *)

Proper == {m \in Message : m.kind # "async" => m.id = m.request}

Request == {m \in Proper : m.kind # "reply"}

Expected == {x \in PendingSyncReply : x.id = x.request /\ x.reply \in {NoReply, x.request}}

HomeDelivery(p) == [e : EndsOf(p), m : Request]

HomeWork(p) ==
    [fn : {"dispatchMessages", "dispatchConnectionDidClose"}, e : EndsOf(p)]
      \cup [fn : {"dispatchMessageAndReset"}]

HomeFrame(p) ==
    [fn : {"dispatchMessages"}, e : EndsOf(p)]
      \cup [fn : {"swap"}]
      \cup [fn : {"batch"}, batch : Seq(HomeDelivery(p)) \ {<< >>}]
      \cup {f \in [fn : {"dispatchMessage"}, d : HomeDelivery(p), encoder : BOOLEAN] :
              f.encoder => f.d.m.kind = "sync"}
      \cup [fn : {"waitForSyncReply"}, e : EndsOf(p), id : Nat, pc : {"check", "wait"}]

(* The state of the connection ends, and of the run loops.                  *)
EndTypes ==
    /\ requests = syncRequestID
    /\ outgoing \in [Endpoint -> Seq(Proper)]
    /\ wire \in [Endpoint -> Seq(Proper)]
    /\ incoming \in [Endpoint -> Seq(Request)]
    /\ owed \in [Endpoint -> SUBSET {m \in Request : m.kind = "sync"}]
    /\ pending \in [Endpoint -> Seq(Expected)]

HomeTypes ==
    \A p \in Proc :
      /\ toDispatch[p] \in Seq(HomeDelivery(p))
      /\ runQueue[p] \in Seq(HomeWork(p))
      /\ stack[p] \in Seq(HomeFrame(p))

Sharp == TypeOK /\ EndTypes /\ HomeTypes

-----------------------------------------------------------------------------
(* Where the client thread is in the middle of dispatching a marked message *)
(* of e, and where its run loop is to take the stored messages.             *)
MarkedFrame(e) ==
    {f \in Frame : f.fn = "dispatchMessage" /\ f.d.e = e /\ f.d.m.dispatch}

TakeStored == {w \in Work : w.fn = "dispatchMessageAndReset"}

MarkedInv ==
    \A e \in Endpoint : marked[e] = Count(stack[ProcOf[e]], MarkedFrame(e))

TopIs(s, fn) == s # << >> /\ Head(s).fn = fn

StoredInv ==
    \A p \in Proc :
      /\ Count(runQueue[p], TakeStored) = IF didSchedule[p] THEN 1 ELSE 0
      /\ toDispatch[p] # << >> /\ alive[p] => didSchedule[p] \/ TopIs(stack[p], "swap")

-----------------------------------------------------------------------------
(* The places where request number id of the end e, or its reply, can be.   *)

Sync(id) == {m \in Message : m.kind = "sync" /\ m.id = id}
Reply(id) == {m \in Message : m.kind = "reply" /\ m.id = id}
Arrived(e, id) == {d \in Delivery : d.e = e /\ d.m \in Sync(id)}
Answered(id) == {x \in PendingSyncReply : x.id = id /\ x.reply # NoReply}

(* Messages of M on the way from e to its peer.                             *)
Channel(e, M) == Count(outgoing[e], M) + Count(wire[PeerOf[e]], M)

(* How many deliveries of D a call on the stack is responsible for, and the *)
(* calls responsible for some and for several.                              *)
Load(f, D) ==
    CASE f.fn = "batch" -> Count(f.batch, D)
      [] f.fn = "dispatchMessage" -> IF f.encoder /\ f.d \in D THEN 1 ELSE 0
      [] OTHER -> 0

Loaded(D) == {f \in Frame : Load(f, D) > 0}
Overloaded(D) == {f \in Frame : Load(f, D) > 1}

(* A call or a set that has a request several times counts twice.           *)
Held(s, D) == Count(s, Loaded(D)) + Count(s, Overloaded(D))

Debt(o, id) ==
    IF o \cap Sync(id) = {} THEN 0
    ELSE IF \A m, n \in o \cap Sync(id) : m = n THEN 1 ELSE 2

(* Request id, received by e and not yet answered.                          *)
Accept(inc, kept, s, o, e, id) ==
    Count(inc, Sync(id)) + Count(kept, Arrived(e, id)) + Held(s, Arrived(e, id))
      + Debt(o, id)

Accepted(e, id) ==
    Accept(incoming[e], toDispatch[ProcOf[e]], stack[ProcOf[e]], owed[e], e, id)

Copies(e, id) ==
    Channel(e, Sync(id)) + Accepted(PeerOf[e], id) + Channel(PeerOf[e], Reply(id))
      + Count(pending[e], Answered(id))

(* A request, or its reply, is in one place at most, and a request that was *)
(* not made is nowhere.                                                     *)
OnceInv ==
    \A e \in Endpoint : \A id \in Nat :
      Copies(e, id) <= IF id <= syncRequestID[e] THEN 1 ELSE 0

-----------------------------------------------------------------------------
(* The sharper types are kept.                                              *)

(* The messages the actions build are proper.                               *)
LEMMA ProperTypes ==
    /\ AsyncMessage \in Proper
    /\ \A id \in Nat : SyncMessage(id, id) \in Proper
    /\ \A m \in Request : m.kind = "sync" => SyncMessageReply(m) \in Proper
    /\ \A m \in Proper, b \in BOOLEAN : [m EXCEPT !.dispatch = b] \in Proper
    /\ Request \subseteq Proper /\ Proper \subseteq Message
  BY DEF AsyncMessage, SyncMessage, SyncMessageReply, Message, Proper, Request

(* The frames the actions push on the stack of p.                           *)
LEMMA HomeFrames ==
    ASSUME NEW p \in Proc
    PROVE  /\ \A e \in EndsOf(p) : DispatchFrame(e) \in HomeFrame(p)
           /\ SwapFrame \in HomeFrame(p)
           /\ \A b \in Seq(HomeDelivery(p)) \ {<< >>} : BatchFrame(b) \in HomeFrame(p)
           /\ \A d \in HomeDelivery(p), x \in BOOLEAN :
                (x => d.m.kind = "sync") => HandlerFrame(d, x) \in HomeFrame(p)
           /\ \A e \in EndsOf(p), id \in Nat, pc \in {"check", "wait"} :
                WaitFrame(e, id, pc) \in HomeFrame(p)
  BY DEF DispatchFrame, SwapFrame, BatchFrame, HandlerFrame, WaitFrame, HomeFrame

(* What the fields of a frame of p are.                                     *)
LEMMA HomeFields ==
    ASSUME NEW p \in Proc, NEW f \in HomeFrame(p)
    PROVE  /\ f.fn = "dispatchMessages" => f.e \in EndsOf(p)
           /\ f.fn = "batch" => f.batch \in Seq(HomeDelivery(p)) /\ f.batch # << >>
           /\ f.fn = "dispatchMessage" =>
                f.d \in HomeDelivery(p) /\ f.encoder \in BOOLEAN
                  /\ (f.encoder => f.d.m.kind = "sync")
           /\ f.fn = "waitForSyncReply" =>
                /\ f.e \in EndsOf(p) /\ f.id \in Nat /\ f.pc \in {"check", "wait"}
                /\ \A pc : [f EXCEPT !.pc = pc] = WaitFrame(f.e, f.id, pc)
  BY DEF HomeFrame, WaitFrame

LEMMA HomeSubset ==
    ASSUME NEW p \in Proc
    PROVE  /\ HomeDelivery(p) \subseteq Delivery
           /\ HomeWork(p) \subseteq Work
           /\ EndsOf(p) \subseteq Endpoint
  <1>1. EndsOf(p) \subseteq Endpoint /\ Request \subseteq Message
    BY ProperTypes DEF EndsOf
  <1> QED BY <1>1 DEF HomeDelivery, Delivery, HomeWork, Work

(* A step of one process leaves the others alone.                           *)
LEMMA HomeStep ==
    ASSUME HomeTypes, NEW p \in Proc,
           toDispatch'[p] \in Seq(HomeDelivery(p)), runQueue'[p] \in Seq(HomeWork(p)),
           stack'[p] \in Seq(HomeFrame(p)),
           \A r \in Proc \ {p} : /\ toDispatch'[r] = toDispatch[r]
                                 /\ runQueue'[r] = runQueue[r] /\ stack'[r] = stack[r]
    PROVE  HomeTypes'
  <1> SUFFICES ASSUME NEW r \in Proc
               PROVE  /\ toDispatch'[r] \in Seq(HomeDelivery(r))
                      /\ runQueue'[r] \in Seq(HomeWork(r))
                      /\ stack'[r] \in Seq(HomeFrame(r))
    BY DEF HomeTypes, HomeDelivery, HomeWork, HomeFrame, EndsOf
  <1>1. CASE r = p BY <1>1
  <1>2. CASE r # p BY <1>2 DEF HomeTypes
  <1> QED BY <1>1, <1>2

(* sendMessage appends a proper message, or nothing.                        *)
LEMMA SendProper ==
    ASSUME Sharp, NEW e \in Endpoint, NEW m \in Proper, NEW w \in BOOLEAN,
           SendMessage(e, m, w)
    PROVE  outgoing' \in [Endpoint -> Seq(Proper)]
  <1>1. outgoing \in [Endpoint -> Seq(Proper)] BY DEF Sharp, EndTypes
  <1>2. [m EXCEPT !.dispatch = w /\ MayMark(e)] \in Proper BY ProperTypes DEF MayMark
  <1>3. CASE client[e]
    <2>1. outgoing' = [outgoing EXCEPT ![e] = Append(@, [m EXCEPT !.dispatch = w /\ MayMark(e)])]
      BY <1>3 DEF SendMessage
    <2> QED BY <1>1, <1>2, <2>1, SeqUpdate
  <1>4. CASE ~client[e] BY <1>1, <1>4 DEF SendMessage
  <1> QED BY <1>3, <1>4

(* A message dispatched on p's thread is one of p's.                        *)
LEMMA DispatchHome ==
    ASSUME Sharp, NEW p \in Proc, NEW d \in HomeDelivery(p),
           NEW rest \in Seq(HomeFrame(p)), DispatchMessage(p, d, rest)
    PROVE  /\ stack'[p] \in Seq(HomeFrame(p))
           /\ \A r \in Proc \ {p} : stack'[r] = stack[r]
           /\ owed' \in [Endpoint -> SUBSET {m \in Request : m.kind = "sync"}]
  <1> DEFINE S == {m \in Request : m.kind = "sync"}
  <1>0. owed \in [Endpoint -> SUBSET S] BY DEF Sharp, EndTypes
  <1>1. stack \in [Proc -> Seq(Frame)] BY DEF Sharp, TypeOK
  <1>2. d.m \in Request BY DEF HomeDelivery
  <1>3. CASE client[d.e]
    <2>1. PICK encoder \in Encoder(d) :
            /\ stack' = [stack EXCEPT ![p] = <<HandlerFrame(d, encoder)>> \o rest]
            /\ owed' = [owed EXCEPT ![d.e] =
                  IF d.m.kind = "sync" /\ ~encoder THEN @ \cup {d.m} ELSE @]
      BY <1>3 DEF DispatchMessage
    <2>2. encoder \in BOOLEAN /\ (encoder => d.m.kind = "sync")
      BY DEF Encoder
    <2>3. HandlerFrame(d, encoder) \in HomeFrame(p) BY <2>2, HomeFrames
    <2>4. <<HandlerFrame(d, encoder)>> \o rest \in Seq(HomeFrame(p)) BY <2>3, PushType
    <2>5. /\ stack'[p] = <<HandlerFrame(d, encoder)>> \o rest
          /\ \A r \in Proc \ {p} : stack'[r] = stack[r]
      BY <1>1, <2>1
    <2>6. owed' \in [Endpoint -> SUBSET S]
      <3>1. CASE d.m.kind = "sync" /\ ~encoder
        <4>1. d.m \in S BY <1>2, <3>1
        <4>2. owed' = [owed EXCEPT ![d.e] = @ \cup {d.m}] BY <2>1, <3>1
        <4> HIDE DEF S
        <4> QED BY <1>0, <4>1, <4>2
      <3>2. CASE ~(d.m.kind = "sync" /\ ~encoder)
        <4>1. owed' = [owed EXCEPT ![d.e] = @] BY <2>1, <3>2
        <4> HIDE DEF S
        <4> QED BY <1>0, <4>1
      <3> QED BY <3>1, <3>2
    <2> QED BY <2>4, <2>5, <2>6
  <1>4. CASE ~client[d.e]
    <2>1. stack' = [stack EXCEPT ![p] = rest] /\ owed' = owed
      BY <1>4 DEF DispatchMessage
    <2> QED BY <1>0, <1>1, <2>1
  <1> QED BY <1>3, <1>4

(* The pending reply of a call is taken off.                                *)
LEMMA ReturnSharp ==
    ASSUME Sharp, TypeOK', NEW p \in Proc, NEW e \in Endpoint, NEW got,
           stack[p] # << >>, ReturnFromSendSync(p, e, got)
    PROVE  Sharp'
  <1>1. pending \in [Endpoint -> Seq(Expected)] /\ stack \in [Proc -> Seq(Frame)]
    BY DEF Sharp, TypeOK, EndTypes
  <1>2. AllButLast(pending[e]) \in Seq(Expected) BY <1>1 DEF AllButLast
  <1>3. pending' \in [Endpoint -> Seq(Expected)]
    BY <1>1, <1>2, SeqUpdate DEF ReturnFromSendSync
  <1>4. EndTypes' BY <1>3 DEF Sharp, EndTypes, ReturnFromSendSync
  <1>5. stack[p] \in Seq(HomeFrame(p)) BY DEF Sharp, HomeTypes
  <1>6. Tail(stack[p]) \in Seq(HomeFrame(p)) BY <1>5, HeadTailType
  <1>7. stack'[p] \in Seq(HomeFrame(p)) /\ \A r \in Proc \ {p} : stack'[r] = stack[r]
    BY <1>1, <1>6 DEF ReturnFromSendSync
  <1>8. UNCHANGED <<toDispatch, runQueue>> BY DEF ReturnFromSendSync
  <1>9. HomeTypes' BY <1>7, <1>8, HomeStep DEF Sharp, HomeTypes
  <1> QED BY <1>4, <1>9 DEF Sharp
(* What the client does with a connection.                                  *)
LEMMA SharpClient ==
    ASSUME Sharp, TypeOK', NEW e \in Endpoint, ClientStep(e)
    PROVE  Sharp'
  <1> DEFINE p == ProcOf[e]
  <1>1. /\ p \in Proc /\ e \in EndsOf(p) /\ stack \in [Proc -> Seq(Frame)]
        /\ stack[p] \in Seq(HomeFrame(p)) /\ HomeTypes /\ EndTypes
    BY TopologyAssumption DEF Sharp, TypeOK, HomeTypes, EndsOf
  <1>2. ASSUME NEW w \in BOOLEAN, SendAsync(e, w) PROVE Sharp'
    <2>1. outgoing' \in [Endpoint -> Seq(Proper)]
      BY <1>2, ProperTypes, SendProper DEF SendAsync
    <2>2. EndTypes' BY <1>1, <1>2, <2>1 DEF SendAsync, EndTypes
    <2>3. HomeTypes' BY <1>1, <1>2 DEF SendAsync, HomeTypes, loopVars
    <2> QED BY <2>2, <2>3 DEF Sharp
  <1>3. CASE SendSync(e)
    <2> DEFINE n == syncRequestID[e] + 1
               x == [id |-> n, request |-> n, reply |-> NoReply]
    <2>1. n \in Nat /\ requests[e] + 1 = n
      <3>1. syncRequestID \in [Endpoint -> Nat] BY DEF Sharp, TypeOK
      <3>2. requests = syncRequestID BY <1>1 DEF EndTypes
      <3> QED BY <3>1, <3>2
    <2>2. SyncMessage(n, n) \in Proper BY <2>1, ProperTypes
    <2>3. /\ SendMessage(e, SyncMessage(n, n), TRUE)
          /\ pending' = [pending EXCEPT ![e] = Append(@, x)]
          /\ syncRequestID' = [syncRequestID EXCEPT ![e] = n]
          /\ requests' = [requests EXCEPT ![e] = requests[e] + 1]
          /\ stack' = [stack EXCEPT ![p] = <<SwapFrame, WaitFrame(e, n, "check")>> \o @]
      BY <1>3, <2>1 DEF SendSync, NextSyncRequestID
    <2>4. outgoing' \in [Endpoint -> Seq(Proper)] BY <2>2, <2>3, SendProper
    <2>5. x \in Expected BY <2>1 DEF Expected, PendingSyncReply, NoReply
    <2>6. pending' \in [Endpoint -> Seq(Expected)]
      <3>1. pending \in [Endpoint -> Seq(Expected)] BY <1>1 DEF EndTypes
      <3> HIDE DEF x
      <3> QED BY <2>3, <2>5, <3>1, SeqUpdate
    <2>7. requests' = syncRequestID' BY <1>1, <2>1, <2>3 DEF EndTypes
    <2>8. EndTypes' BY <1>1, <1>3, <2>4, <2>6, <2>7 DEF SendSync, EndTypes
    <2>9. SwapFrame \in HomeFrame(p) /\ WaitFrame(e, n, "check") \in HomeFrame(p)
      BY <1>1, <2>1, HomeFrames
    <2>10. <<SwapFrame, WaitFrame(e, n, "check")>> \o stack[p] \in Seq(HomeFrame(p))
      BY <1>1, <2>9, PushType
    <2>11. stack'[p] \in Seq(HomeFrame(p)) /\ \A r \in Proc \ {p} : stack'[r] = stack[r]
      BY <1>1, <2>3, <2>10
    <2>12. UNCHANGED <<toDispatch, runQueue>> BY <1>3 DEF SendSync
    <2>13. HomeTypes'
      <3> HIDE DEF p
      <3> QED BY <1>1, <2>11, <2>12, HomeStep DEF HomeTypes
    <2> QED BY <2>8, <2>13 DEF Sharp
  <1>4. CASE SendSyncFails(e)
    <2>1. requests' = syncRequestID'
      BY <1>1, <1>4 DEF SendSyncFails, NextSyncRequestID, EndTypes
    <2>2. EndTypes' BY <1>1, <1>4, <2>1 DEF SendSyncFails, EndTypes
    <2>3. HomeTypes' BY <1>1, <1>4 DEF SendSyncFails, HomeTypes
    <2> QED BY <2>2, <2>3 DEF Sharp
  <1>5. CASE SendDelayedReply(e)
    <2> DEFINE S == {m \in Request : m.kind = "sync"}
    <2>1. PICK m \in owed[e] : /\ owed' = [owed EXCEPT ![e] = @ \ {m}]
                               /\ SendMessage(e, SyncMessageReply(m), FALSE)
      BY <1>5 DEF SendDelayedReply
    <2>2. owed \in [Endpoint -> SUBSET S] /\ m \in S BY <1>1 DEF EndTypes
    <2>3. SyncMessageReply(m) \in Proper BY <2>2, ProperTypes
    <2>4. outgoing' \in [Endpoint -> Seq(Proper)] BY <2>1, <2>3, SendProper
    <2>5. owed' \in [Endpoint -> SUBSET S]
      <3> HIDE DEF S
      <3> QED BY <2>1, <2>2
    <2>6. EndTypes' BY <1>1, <1>5, <2>4, <2>5 DEF SendDelayedReply, EndTypes
    <2>7. HomeTypes' BY <1>1, <1>5 DEF SendDelayedReply, HomeTypes, loopVars
    <2> QED BY <2>6, <2>7 DEF Sharp
  <1>6. CASE Invalidate(e)
    BY <1>1, <1>6 DEF Invalidate, EndTypes, HomeTypes, loopVars, Sharp
  <1> QED BY <1>2, <1>3, <1>4, <1>5, <1>6 DEF ClientStep

(* The client run loop thread.                                              *)
LEMMA SharpRunLoop ==
    ASSUME Sharp, TypeOK', NEW p \in Proc, RunLoopStep(p) \/ WaitTimesOut(p)
    PROVE  Sharp'
  <1>1. /\ stack \in [Proc -> Seq(Frame)] /\ runQueue \in [Proc -> Seq(Work)]
        /\ toDispatch \in [Proc -> Seq(Delivery)]
        /\ stack[p] \in Seq(HomeFrame(p)) /\ runQueue[p] \in Seq(HomeWork(p))
        /\ toDispatch[p] \in Seq(HomeDelivery(p))
        /\ HomeTypes /\ EndTypes
    BY DEF Sharp, TypeOK, HomeTypes
  <1>2. ASSUME NEW fn, NEW s \in Seq(HomeFrame(p)), NextWork(p, fn),
               stack' = [stack EXCEPT ![p] = s], UNCHANGED toDispatch
        PROVE  HomeTypes'
    <2>1. /\ runQueue'[p] = Tail(runQueue[p]) /\ runQueue[p] # << >>
          /\ \A r \in Proc \ {p} : runQueue'[r] = runQueue[r]
      BY <1>1, <1>2 DEF NextWork
    <2>2. runQueue'[p] \in Seq(HomeWork(p)) BY <1>1, <2>1, HeadTailType
    <2>3. stack'[p] = s /\ \A r \in Proc \ {p} : stack'[r] = stack[r] BY <1>1, <1>2
    <2> QED BY <1>1, <1>2, <2>1, <2>2, <2>3, HomeStep
  <1>3. CASE CallDispatchMessages(p)
    <2>1. NextWork(p, "dispatchMessages") BY <1>3 DEF CallDispatchMessages
    <2>2. Head(runQueue[p]) \in HomeWork(p) /\ Head(runQueue[p]).fn = "dispatchMessages"
      BY <1>1, <2>1 DEF NextWork
    <2>3. Head(runQueue[p]).e \in EndsOf(p) BY <2>2 DEF HomeWork
    <2>4. <<DispatchFrame(Head(runQueue[p]).e)>> \in Seq(HomeFrame(p))
      BY <2>3, HomeFrames
    <2>5. HomeTypes' BY <1>2, <1>3, <2>1, <2>4 DEF CallDispatchMessages
    <2>6. EndTypes' BY <1>1, <1>3 DEF CallDispatchMessages, EndTypes, endVars
    <2> QED BY <2>5, <2>6 DEF Sharp
  <1>4. CASE DispatchMessageAndResetDidSchedule(p)
    <2>1. NextWork(p, "dispatchMessageAndReset") BY <1>4 DEF DispatchMessageAndResetDidSchedule
    <2>2. <<SwapFrame>> \in Seq(HomeFrame(p)) BY HomeFrames
    <2>3. HomeTypes' BY <1>2, <1>4, <2>1, <2>2 DEF DispatchMessageAndResetDidSchedule
    <2>4. EndTypes' BY <1>1, <1>4 DEF DispatchMessageAndResetDidSchedule, EndTypes, endVars
    <2> QED BY <2>3, <2>4 DEF Sharp
  <1>5. CASE DispatchConnectionDidClose(p)
    <2>1. NextWork(p, "dispatchConnectionDidClose") BY <1>5 DEF DispatchConnectionDidClose
    <2>2. stack' = [stack EXCEPT ![p] = stack[p]]
      BY <1>1, <1>5 DEF DispatchConnectionDidClose
    <2>3. HomeTypes' BY <1>1, <1>2, <1>5, <2>1, <2>2 DEF DispatchConnectionDidClose
    <2>4. EndTypes' BY <1>1, <1>5 DEF DispatchConnectionDidClose, EndTypes
    <2> QED BY <2>3, <2>4 DEF Sharp
  <1>6. ASSUME NEW fn, Running(p, fn)
        PROVE  /\ stack[p] # << >> /\ Head(stack[p]) \in HomeFrame(p)
               /\ Head(stack[p]).fn = fn /\ Tail(stack[p]) \in Seq(HomeFrame(p))
    BY <1>1, <1>6, HeadTailType DEF Running
  <1>7. ASSUME stack'[p] \in Seq(HomeFrame(p)), \A r \in Proc \ {p} : stack'[r] = stack[r],
               UNCHANGED <<toDispatch, runQueue>>
        PROVE  HomeTypes'
    BY <1>1, <1>7, HomeStep
  <1>8. ASSUME NEW s \in Seq(HomeFrame(p)), stack' = [stack EXCEPT ![p] = s],
               UNCHANGED <<toDispatch, runQueue>>
        PROVE  HomeTypes'
    BY <1>1, <1>7, <1>8
  <1>9. CASE DispatchMessages(p)
    <2> DEFINE e == Head(stack[p]).e
    <2>1. Running(p, "dispatchMessages") /\ UNCHANGED <<toDispatch, runQueue>>
      BY <1>9 DEF DispatchMessages
    <2>2. e \in EndsOf(p) /\ Tail(stack[p]) \in Seq(HomeFrame(p)) BY <1>6, <2>1, HomeFields
    <2>3. e \in Endpoint /\ incoming \in [Endpoint -> Seq(Request)]
      BY <1>1, <2>2 DEF EndsOf, EndTypes
    <2>4. CASE /\ incoming[e] = << >> /\ stack' = [stack EXCEPT ![p] = Tail(@)]
               /\ UNCHANGED <<incoming, marked, owed>>
      <3>1. HomeTypes' BY <1>8, <2>1, <2>2, <2>4
      <3>2. EndTypes' BY <1>1, <1>9, <2>4 DEF DispatchMessages, EndTypes
      <3> QED BY <3>1, <3>2 DEF Sharp
    <2>5. CASE /\ incoming[e] # << >>
               /\ incoming' = [incoming EXCEPT ![e] = Tail(@)]
               /\ DispatchMessage(p, [e |-> e, m |-> Head(incoming[e])], stack[p])
      <3>1. Head(incoming[e]) \in Request /\ incoming' \in [Endpoint -> Seq(Request)]
        BY <2>3, <2>5, SeqUpdate
      <3>2. [e |-> e, m |-> Head(incoming[e])] \in HomeDelivery(p)
        BY <2>2, <3>1 DEF HomeDelivery
      <3>3. /\ stack'[p] \in Seq(HomeFrame(p))
            /\ \A r \in Proc \ {p} : stack'[r] = stack[r]
            /\ owed' \in [Endpoint -> SUBSET {m \in Request : m.kind = "sync"}]
        BY <1>1, <2>5, <3>2, DispatchHome
      <3>4. HomeTypes' BY <1>7, <2>1, <3>3
      <3>5. EndTypes' BY <1>1, <1>9, <3>1, <3>3 DEF DispatchMessages, EndTypes
      <3> QED BY <3>4, <3>5 DEF Sharp
    <2> QED BY <1>9, <2>4, <2>5 DEF DispatchMessages
  <1>10. CASE SwapMessages(p)
    <2>1. Tail(stack[p]) \in Seq(HomeFrame(p)) BY <1>6, <1>10 DEF SwapMessages
    <2> DEFINE s == IF toDispatch[p] = << >> THEN Tail(stack[p])
                    ELSE <<BatchFrame(toDispatch[p])>> \o Tail(stack[p])
    <2>2. s \in Seq(HomeFrame(p))
      <3>1. toDispatch[p] # << >> => BatchFrame(toDispatch[p]) \in HomeFrame(p)
        BY <1>1, HomeFrames
      <3> QED BY <2>1, <3>1, PushType
    <2>3. stack' = [stack EXCEPT ![p] = s] /\ toDispatch' = [toDispatch EXCEPT ![p] = << >>]
      BY <1>10 DEF SwapMessages
    <2>4. /\ stack'[p] = s /\ toDispatch'[p] \in Seq(HomeDelivery(p))
          /\ \A r \in Proc \ {p} : stack'[r] = stack[r] /\ toDispatch'[r] = toDispatch[r]
      <3> HIDE DEF s
      <3> QED BY <1>1, <2>3
    <2>5. UNCHANGED runQueue BY <1>10 DEF SwapMessages
    <2> HIDE DEF s
    <2>6. HomeTypes' BY <1>1, <2>2, <2>4, <2>5, HomeStep
    <2>7. EndTypes' BY <1>1, <1>10 DEF SwapMessages, EndTypes, endVars
    <2> QED BY <2>6, <2>7 DEF Sharp
  <1>11. CASE DispatchBatch(p)
    <2> DEFINE b == Head(stack[p]).batch
               rest == IF Len(b) = 1 THEN Tail(stack[p])
                       ELSE <<BatchFrame(Tail(b))>> \o Tail(stack[p])
    <2>1. /\ Tail(stack[p]) \in Seq(HomeFrame(p))
          /\ b \in Seq(HomeDelivery(p)) /\ b # << >>
      BY <1>6, <1>11, HomeFields DEF DispatchBatch
    <2>2. /\ Head(b) \in HomeDelivery(p) /\ Tail(b) \in Seq(HomeDelivery(p))
          /\ Len(b) # 1 => Tail(b) # << >>
      BY <2>1, HeadTailType
    <2>3. rest \in Seq(HomeFrame(p))
      <3>1. Len(b) # 1 => BatchFrame(Tail(b)) \in HomeFrame(p) BY <2>2, HomeFrames
      <3> QED BY <2>1, <3>1, PushType
    <2>4. DispatchMessage(p, Head(b), rest) BY <1>11 DEF DispatchBatch
    <2>5. /\ stack'[p] \in Seq(HomeFrame(p))
          /\ \A r \in Proc \ {p} : stack'[r] = stack[r]
          /\ owed' \in [Endpoint -> SUBSET {m \in Request : m.kind = "sync"}]
      BY <2>2, <2>3, <2>4, DispatchHome
    <2>6. HomeTypes' BY <1>7, <1>11, <2>5 DEF DispatchBatch
    <2>7. EndTypes' BY <1>1, <1>11, <2>5 DEF DispatchBatch, EndTypes
    <2> QED BY <2>6, <2>7 DEF Sharp
  <1>12. CASE HandlerReturns(p)
    <2> DEFINE d == Head(stack[p]).d
    <2>1. /\ Tail(stack[p]) \in Seq(HomeFrame(p)) /\ d \in HomeDelivery(p)
          /\ Head(stack[p]).encoder \in BOOLEAN
          /\ Head(stack[p]).encoder => d.m.kind = "sync"
      BY <1>6, <1>12, HomeFields DEF HandlerReturns
    <2>2. d.e \in Endpoint /\ d.m \in Request BY <2>1 DEF HomeDelivery, EndsOf
    <2>3. outgoing' \in [Endpoint -> Seq(Proper)]
      <3>1. CASE Head(stack[p]).encoder
        <4>1. SyncMessageReply(d.m) \in Proper BY <2>1, <2>2, <3>1, ProperTypes
        <4>2. SendMessage(d.e, SyncMessageReply(d.m), FALSE)
          BY <1>12, <3>1 DEF HandlerReturns
        <4> QED BY <2>2, <4>1, <4>2, SendProper
      <3>2. CASE ~Head(stack[p]).encoder
        BY <1>1, <1>12, <3>2 DEF HandlerReturns, EndTypes
      <3> QED BY <3>1, <3>2
    <2>4. HomeTypes' BY <1>8, <1>12, <2>1 DEF HandlerReturns
    <2>5. EndTypes' BY <1>1, <1>12, <2>3 DEF HandlerReturns, EndTypes
    <2> QED BY <2>4, <2>5 DEF Sharp
  <1>13. CASE WaitReturns(p) \/ WaitTimesOut(p)
    <2>1. Running(p, "waitForSyncReply") BY <1>13 DEF WaitReturns, WaitTimesOut, Waiting
    <2>2. Head(stack[p]).e \in Endpoint /\ stack[p] # << >>
      BY <1>6, <2>1, HomeFields DEF EndsOf
    <2>3. PICK got : ReturnFromSendSync(p, Head(stack[p]).e, got)
      BY <1>13 DEF WaitReturns, WaitTimesOut
    <2> QED BY <2>2, <2>3, ReturnSharp
  <1>14. CASE WaitBlocks(p) \/ WaitWakes(p)
    <2> DEFINE f == Head(stack[p])
    <2>1. Running(p, "waitForSyncReply") BY <1>14 DEF WaitBlocks, WaitWakes, Waiting
    <2>2. /\ f.e \in EndsOf(p) /\ f.id \in Nat /\ Tail(stack[p]) \in Seq(HomeFrame(p))
          /\ \A pc : [f EXCEPT !.pc = pc] = WaitFrame(f.e, f.id, pc)
      BY <1>6, <2>1, HomeFields
    <2>3. /\ [f EXCEPT !.pc = "wait"] \in HomeFrame(p)
          /\ [f EXCEPT !.pc = "check"] \in HomeFrame(p) /\ SwapFrame \in HomeFrame(p)
      BY <2>2, HomeFrames
    <2>4. /\ <<[f EXCEPT !.pc = "wait"]>> \o Tail(stack[p]) \in Seq(HomeFrame(p))
          /\ <<SwapFrame, [f EXCEPT !.pc = "check"]>> \o Tail(stack[p]) \in Seq(HomeFrame(p))
      BY <2>2, <2>3, PushType
    <2>5. PICK s \in Seq(HomeFrame(p)) : stack' = [stack EXCEPT ![p] = s]
      BY <1>14, <2>4 DEF WaitBlocks, WaitWakes
    <2>6. UNCHANGED <<endVars, toDispatch, runQueue>>
      BY <1>14 DEF WaitBlocks, WaitWakes
    <2>7. HomeTypes' BY <1>8, <2>5, <2>6
    <2>8. EndTypes' BY <1>1, <2>6 DEF EndTypes, endVars
    <2> QED BY <2>7, <2>8 DEF Sharp
  <1> QED BY <1>3, <1>4, <1>5, <1>9, <1>10, <1>11, <1>12, <1>13, <1>14 DEF RunLoopStep
(* The work queue thread of a connection end.                               *)
LEMMA SharpQueue ==
    ASSUME Sharp, TypeOK', NEW e \in Endpoint, WorkQueueStep(e) \/ PluginProcessCrashed(e)
    PROVE  Sharp'
  <1> DEFINE p == ProcOf[e]
  <1>1. /\ p \in Proc /\ e \in EndsOf(p) /\ PeerOf[e] \in Endpoint
        /\ runQueue \in [Proc -> Seq(Work)] /\ toDispatch \in [Proc -> Seq(Delivery)]
        /\ stack[p] \in Seq(HomeFrame(p)) /\ runQueue[p] \in Seq(HomeWork(p))
        /\ toDispatch[p] \in Seq(HomeDelivery(p))
        /\ HomeTypes /\ EndTypes
    BY TopologyAssumption DEF Sharp, TypeOK, HomeTypes, EndsOf
  <1>2. /\ outgoing \in [Endpoint -> Seq(Proper)] /\ wire \in [Endpoint -> Seq(Proper)]
        /\ incoming \in [Endpoint -> Seq(Request)] /\ pending \in [Endpoint -> Seq(Expected)]
    BY <1>1 DEF EndTypes
  <1>3. CASE SendOutgoingMessages(e)
    <2> DEFINE n == Fits(e)
    <2>1. n \in Nat /\ n <= Len(outgoing[e])
      <3>1. /\ Len(outgoing[e]) \in Nat /\ Len(wire[PeerOf[e]]) \in Nat
            /\ SocketCapacity \in Nat
        BY <1>1, <1>2, BoundAssumption
      <3> QED BY <3>1 DEF Fits
    <2> HIDE DEF n
    <2>2. /\ SubSeq(outgoing[e], 1, n) \in Seq(Proper)
          /\ n # Len(outgoing[e]) => SubSeq(outgoing[e], n + 2, Len(outgoing[e])) \in Seq(Proper)
      BY <1>2, <2>1
    <2>3. wire[PeerOf[e]] \o SubSeq(outgoing[e], 1, n) \in Seq(Proper)
      BY <1>1, <1>2, <2>2
    <2>4. wire' \in [Endpoint -> Seq(Proper)]
      <3>1. wire' = wire
              \/ wire' = [wire EXCEPT ![PeerOf[e]] = wire[PeerOf[e]] \o SubSeq(outgoing[e], 1, n)]
        BY <1>1, <1>2, <1>3 DEF SendOutgoingMessages, n
      <3> QED BY <1>1, <1>2, <2>3, <3>1
    <2>5. outgoing' \in [Endpoint -> Seq(Proper)]
      <3> DEFINE rest == IF n = Len(outgoing[e]) THEN << >>
                         ELSE SubSeq(outgoing[e], n + 2, Len(outgoing[e]))
      <3>1. rest \in Seq(Proper) BY <2>2
      <3>2. outgoing' = outgoing \/ outgoing' = [outgoing EXCEPT ![e] = rest]
        BY <1>3 DEF SendOutgoingMessages, n
      <3> QED BY <1>2, <3>1, <3>2
    <2>6. EndTypes' BY <1>1, <1>3, <2>4, <2>5 DEF SendOutgoingMessages, EndTypes
    <2>7. HomeTypes' BY <1>1, <1>3 DEF SendOutgoingMessages, HomeTypes, loopVars
    <2> QED BY <2>6, <2>7 DEF Sharp
  <1>4. CASE InvalidateOnWorkQueue(e)
    <2>1. wire' \in [Endpoint -> Seq(Proper)]
      BY <1>2, <1>4 DEF InvalidateOnWorkQueue, PlatformInvalidate
    <2>2. EndTypes' BY <1>1, <1>4, <2>1 DEF InvalidateOnWorkQueue, EndTypes
    <2>3. HomeTypes' BY <1>1, <1>4 DEF InvalidateOnWorkQueue, HomeTypes, loopVars
    <2> QED BY <2>2, <2>3 DEF Sharp
  <1>5. ASSUME NEW w \in HomeWork(p),
               runQueue' = [runQueue EXCEPT ![p] = Append(@, w)],
               UNCHANGED <<stack, toDispatch>>
        PROVE  HomeTypes'
    <2> HIDE DEF p
    <2>0. Append(runQueue[p], w) \in Seq(HomeWork(p)) BY <1>1, <1>5
    <2>1. /\ runQueue'[p] \in Seq(HomeWork(p))
          /\ \A r \in Proc \ {p} : runQueue'[r] = runQueue[r]
      BY <1>1, <1>5, <2>0
    <2> QED BY <1>1, <1>5, <2>1, HomeStep
  <1>6. CASE Hangup(e) \/ ConnectionDidCloseOnWorkQueue(e)
    <2>1. ConnectionDidClose(e) BY <1>6 DEF Hangup, ConnectionDidCloseOnWorkQueue
    <2>2. wire' \in [Endpoint -> Seq(Proper)]
      BY <1>2, <2>1 DEF ConnectionDidClose, PlatformInvalidate
    <2>3. EndTypes' BY <1>1, <2>1, <2>2 DEF ConnectionDidClose, EndTypes
    <2>4. [fn |-> "dispatchConnectionDidClose", e |-> e] \in HomeWork(p)
      BY <1>1 DEF HomeWork
    <2>5. HomeTypes' BY <1>5, <2>1, <2>4 DEF ConnectionDidClose
    <2> QED BY <2>3, <2>5 DEF Sharp
  <1>7. ASSUME ReadMessage(e)
        PROVE  Head(wire[e]) \in Proper /\ wire' \in [Endpoint -> Seq(Proper)]
    BY <1>2, <1>7, SeqUpdate DEF ReadMessage
  <1>8. CASE ReceiveSyncReply(e)
    <2> DEFINE m == Head(wire[e])
    <2>1. m \in Proper /\ wire' \in [Endpoint -> Seq(Proper)] /\ m.kind = "reply"
      BY <1>7, <1>8 DEF ReceiveSyncReply
    <2>2. m.id = m.request /\ m.request \in Nat BY <2>1 DEF Proper, Message
    <2>3. pending' \in [Endpoint -> Seq(Expected)]
      <3>1. CASE UNCHANGED <<pending, sem>> BY <1>2, <3>1
      <3>2. ASSUME NEW i \in DOMAIN pending[e], IsReplyFor(e, i, m.id),
                   pending' = [pending EXCEPT ![e][i].reply = m.request]
            PROVE  pending' \in [Endpoint -> Seq(Expected)]
        <4>1. pending[e] \in Seq(Expected) /\ pending[e][i] \in Expected BY <1>2
        <4>2. pending[e][i].id = m.request BY <2>2, <3>2 DEF IsReplyFor
        <4>3. [pending[e][i] EXCEPT !.reply = m.request] \in Expected
          BY <2>2, <4>1, <4>2 DEF Expected, PendingSyncReply
        <4>4. [pending[e] EXCEPT ![i].reply = m.request] \in Seq(Expected)
          BY <4>1, <4>3
        <4>5. pending' = [pending EXCEPT ![e] = [pending[e] EXCEPT ![i].reply = m.request]]
          BY <3>2
        <4> QED BY <1>2, <4>4, <4>5, SeqUpdate
      <3> QED BY <1>8, <3>1, <3>2 DEF ReceiveSyncReply
    <2>4. EndTypes' BY <1>1, <1>8, <2>1, <2>3 DEF ReceiveSyncReply, EndTypes
    <2>5. HomeTypes' BY <1>1, <1>8 DEF ReceiveSyncReply, HomeTypes
    <2> QED BY <2>4, <2>5 DEF Sharp
  <1>9. CASE ReceiveDispatchWhileWaiting(e)
    <2>1. /\ Head(wire[e]) \in Request /\ wire' \in [Endpoint -> Seq(Proper)]
      BY <1>7, <1>9 DEF ReceiveDispatchWhileWaiting, Request
    <2>2. /\ [e |-> e, m |-> Head(wire[e])] \in HomeDelivery(p)
          /\ [fn |-> "dispatchMessageAndReset"] \in HomeWork(p)
      BY <1>1, <2>1 DEF HomeDelivery, HomeWork
    <2> DEFINE d == [e |-> e, m |-> Head(wire[e])]
               q == IF didSchedule[p] THEN runQueue[p]
                    ELSE Append(runQueue[p], [fn |-> "dispatchMessageAndReset"])
    <2>21. /\ toDispatch' = [toDispatch EXCEPT ![p] = Append(toDispatch[p], d)]
           /\ runQueue' = [runQueue EXCEPT ![p] = q]
      BY <1>9 DEF ReceiveDispatchWhileWaiting
    <2>22. Append(toDispatch[p], d) \in Seq(HomeDelivery(p))
      <3>1. d \in HomeDelivery(p) BY <2>2
      <3> HIDE DEF d, p
      <3> QED BY <1>1, <3>1
    <2>23. q \in Seq(HomeWork(p))
      <3> HIDE DEF p
      <3> QED BY <1>1, <2>2
    <2>3. /\ toDispatch'[p] \in Seq(HomeDelivery(p))
          /\ \A r \in Proc \ {p} : toDispatch'[r] = toDispatch[r]
      <3> HIDE DEF d, q, p
      <3> QED BY <1>1, <2>21, <2>22, <2>23
    <2>4. /\ runQueue'[p] \in Seq(HomeWork(p))
          /\ \A r \in Proc \ {p} : runQueue'[r] = runQueue[r]
      <3> HIDE DEF d, q, p
      <3> QED BY <1>1, <2>21, <2>22, <2>23
    <2>5. UNCHANGED stack BY <1>9 DEF ReceiveDispatchWhileWaiting
    <2>6. EndTypes' BY <1>1, <1>9, <2>1 DEF ReceiveDispatchWhileWaiting, EndTypes
    <2> HIDE DEF p
    <2>7. HomeTypes' BY <1>1, <2>3, <2>4, <2>5, HomeStep
    <2> QED BY <2>6, <2>7 DEF Sharp
  <1>10. CASE WakeUpClientRunLoop(e)
    <2>1. EndTypes' BY <1>1, <1>10 DEF WakeUpClientRunLoop, EndTypes
    <2>2. HomeTypes' BY <1>1, <1>10 DEF WakeUpClientRunLoop, HomeTypes
    <2> QED BY <2>1, <2>2 DEF Sharp
  <1>11. CASE EnqueueIncomingMessage(e)
    <2>1. /\ Head(wire[e]) \in Request /\ wire' \in [Endpoint -> Seq(Proper)]
      BY <1>7, <1>11 DEF EnqueueIncomingMessage, Request
    <2>2. incoming' \in [Endpoint -> Seq(Request)]
      BY <1>2, <1>11, <2>1, SeqUpdate DEF EnqueueIncomingMessage
    <2>3. [fn |-> "dispatchMessages", e |-> e] \in HomeWork(p) BY <1>1 DEF HomeWork
    <2>4. HomeTypes' BY <1>5, <1>11, <2>3 DEF EnqueueIncomingMessage
    <2>5. EndTypes' BY <1>1, <1>11, <2>1, <2>2 DEF EnqueueIncomingMessage, EndTypes
    <2> QED BY <2>4, <2>5 DEF Sharp
  <1>12. CASE PluginProcessCrashed(e)
    <2>1. EndTypes' BY <1>1, <1>12 DEF PluginProcessCrashed, EndTypes
    <2>2. HomeTypes' BY <1>1, <1>12 DEF PluginProcessCrashed, HomeTypes, loopVars
    <2> QED BY <2>1, <2>2 DEF Sharp
  <1> QED BY <1>3, <1>4, <1>6, <1>8, <1>9, <1>10, <1>11, <1>12 DEF WorkQueueStep

LEMMA SharpStep == Sharp /\ [Next]_vars => Sharp'
  <1> SUFFICES ASSUME Sharp, [Next]_vars PROVE Sharp' OBVIOUS
  <1>1. TypeOK' BY TypeStep DEF Sharp
  <1>2. CASE UNCHANGED vars
    BY <1>1, <1>2 DEF vars, Sharp, EndTypes, HomeTypes
  <1>3. ASSUME NEW p \in Proc, Killed(p) PROVE Sharp'
    BY <1>1, <1>3 DEF Killed, endVars, Sharp, EndTypes, HomeTypes
  <1> QED BY <1>1, <1>2, <1>3, SharpClient, SharpRunLoop, SharpQueue DEF Next

LEMMA SharpInit == Init => Sharp
  <1> SUFFICES ASSUME Init PROVE Sharp OBVIOUS
  <1>1. TypeOK BY DEF Init, TypeOK
  <1>2. EndTypes BY DEF Init, EndTypes
  <1>3. HomeTypes BY DEF Init, HomeTypes
  <1> QED BY <1>1, <1>2, <1>3 DEF Sharp

(* A reply is stored for the sendSyncMessage call it answers, and for no    *)
(* other, however late it comes.                                            *)
THEOREM RepliesAnswerRequests == Spec => []ReplyAnswersRequest
  <1>1. ASSUME Sharp PROVE ReplyAnswersRequest
    <2> SUFFICES ASSUME NEW e \in Endpoint, NEW i \in DOMAIN pending[e]
                 PROVE  pending[e][i].reply \in {NoReply, pending[e][i].request}
      BY DEF ReplyAnswersRequest
    <2>1. pending[e] \in Seq(Expected) BY <1>1 DEF Sharp, EndTypes
    <2>2. pending[e][i] \in Expected BY <2>1
    <2> QED BY <2>2 DEF Expected
  <1> QED BY <1>1, SharpInit, SharpStep, PTL DEF Spec
-----------------------------------------------------------------------------
(* The stack of a thread, seen as a count of its calls.                     *)

(* Calls that dispatch nothing themselves.                                  *)
Idle == {f \in Frame : f.fn \in {"dispatchMessages", "swap", "waitForSyncReply"}}

LEMMA HomeStack ==
    ASSUME NEW p \in Proc, NEW s \in Seq(HomeFrame(p))
    PROVE  /\ s \in Seq(Frame)
           /\ s # << >> => Head(s) \in Frame /\ Tail(s) \in Seq(Frame)
  <1>1. HomeFrame(p) \subseteq Frame
    <2> SUFFICES ASSUME NEW f \in HomeFrame(p) PROVE f \in Frame OBVIOUS
    <2>1. /\ EndsOf(p) \subseteq Endpoint /\ HomeDelivery(p) \subseteq Delivery
      BY HomeSubset
    <2>2. Seq(HomeDelivery(p)) \subseteq Seq(Delivery) BY <2>1
    <2> QED BY <2>1, <2>2 DEF HomeFrame, Frame
  <1>2. Seq(HomeFrame(p)) \subseteq Seq(Frame) BY <1>1
  <1>3. s \in Seq(Frame) BY <1>2
  <1> QED BY <1>3, HeadTailType

LEMMA IdleFrames ==
    /\ \A e \in Endpoint : DispatchFrame(e) \in Idle
    /\ SwapFrame \in Idle
    /\ \A e \in Endpoint, id \in Nat, pc \in {"check", "wait"} : WaitFrame(e, id, pc) \in Idle
  BY DEF DispatchFrame, SwapFrame, WaitFrame, Idle, Frame

(* Pushing or popping an idle call counts for nothing.                      *)
LEMMA IdlePush ==
    ASSUME NEW s \in Seq(Frame), NEW f \in Idle, NEW M, M \cap Idle = {}
    PROVE  Count(<<f>> \o s, M) = Count(s, M)
  <1>1. f \in Frame /\ f \notin M BY DEF Idle
  <1>2. Count(s, M) \in Nat BY CountType
  <1>3. Count(<<f>> \o s, M) = Count(s, M) + (IF f \in M THEN 1 ELSE 0)
    BY <1>1, CountPush
  <1> QED BY <1>1, <1>2, <1>3

LEMMA IdleTail ==
    ASSUME NEW s \in Seq(Frame), s # << >>, Head(s) \in Idle, NEW M, M \cap Idle = {}
    PROVE  Count(Tail(s), M) = Count(s, M)
  <1>1. Head(s) \notin M OBVIOUS
  <1>2. Count(s, M) \in Nat BY CountType
  <1>3. Count(Tail(s), M) = Count(s, M) - (IF Head(s) \in M THEN 1 ELSE 0) BY CountTail
  <1> QED BY <1>1, <1>2, <1>3

(* The steps that push and pop idle calls only.                             *)
IdleMove(p) ==
    \/ CallDispatchMessages(p) \/ DispatchMessageAndResetDidSchedule(p)
    \/ DispatchMessages(p) /\ UNCHANGED <<incoming, marked, owed>>
         /\ stack' = [stack EXCEPT ![p] = Tail(@)]
    \/ WaitReturns(p) \/ WaitTimesOut(p) \/ WaitBlocks(p) \/ WaitWakes(p)
    \/ \E e \in EndsOf(p) : SendSync(e)

LEMMA IdleMoves ==
    ASSUME Sharp, NEW p \in Proc, IdleMove(p)
    PROVE  /\ \A r \in Proc \ {p} : stack'[r] = stack[r]
           /\ \A M : M \cap Idle = {} => Count(stack'[p], M) = Count(stack[p], M)
           /\ UNCHANGED <<marked, owed, incoming, wire>>
  <1> DEFINE s == stack[p]
             Same(t) == \A M : M \cap Idle = {} => Count(t, M) = Count(s, M)
  <1>1. stack \in [Proc -> Seq(Frame)] /\ s \in Seq(HomeFrame(p)) /\ s \in Seq(Frame)
    BY DEF Sharp, TypeOK, HomeTypes
  <1>2. s # << >> => /\ Head(s) \in Frame /\ Tail(s) \in Seq(Frame)
                     /\ Head(s) \in HomeFrame(p)
    <2> HIDE DEF s
    <2> QED BY <1>1, HomeStack, HeadTailType
  <1>3. ASSUME NEW t, stack' = [stack EXCEPT ![p] = t], Same(t)
        PROVE  /\ \A r \in Proc \ {p} : stack'[r] = stack[r]
               /\ \A M : M \cap Idle = {} => Count(stack'[p], M) = Count(stack[p], M)
    <2>1. stack'[p] = t /\ \A r \in Proc \ {p} : stack'[r] = stack[r] BY <1>1, <1>3
    <2> QED BY <1>3, <2>1
  <1>4. ASSUME NEW f \in Idle PROVE Same(<<f>> \o s)
    BY <1>1, IdlePush
  <1>5. ASSUME NEW f \in Idle, s # << >>, Head(s) \in Idle PROVE Same(<<f>> \o Tail(s))
    <2> SUFFICES ASSUME NEW M, M \cap Idle = {}
                 PROVE  Count(<<f>> \o Tail(s), M) = Count(s, M)
      OBVIOUS
    <2> HIDE DEF s
    <2>1. Tail(s) \in Seq(Frame) BY <1>2, <1>5
    <2>2. Count(<<f>> \o Tail(s), M) = Count(Tail(s), M) BY <2>1, IdlePush
    <2>3. Count(Tail(s), M) = Count(s, M) BY <1>1, <1>5, IdleTail
    <2> QED BY <2>2, <2>3
  <1>6. CASE CallDispatchMessages(p)
    <2> DEFINE f == DispatchFrame(Head(runQueue[p]).e)
    <2>1. /\ s = << >> /\ stack' = [stack EXCEPT ![p] = <<f>>]
          /\ runQueue[p] # << >> /\ Head(runQueue[p]).fn = "dispatchMessages"
          /\ UNCHANGED <<marked, owed, incoming, wire>>
      BY <1>6 DEF CallDispatchMessages, NextWork, endVars
    <2>2. f \in Idle
      <3>1. Head(runQueue[p]) \in Work BY <2>1, HeadTailType DEF Sharp, TypeOK
      <3>2. Head(runQueue[p]).e \in Endpoint BY <2>1, <3>1 DEF Work
      <3> QED BY <3>2, IdleFrames
    <2> HIDE DEF f
    <2>3. <<f>> = <<f>> \o s BY <2>1
    <2>4. Same(<<f>>) BY <1>4, <2>2, <2>3
    <2> QED BY <1>3, <2>1, <2>4
  <1>7. CASE DispatchMessageAndResetDidSchedule(p)
    <2>1. /\ s = << >> /\ stack' = [stack EXCEPT ![p] = <<SwapFrame>>]
          /\ UNCHANGED <<marked, owed, incoming, wire>>
      BY <1>7 DEF DispatchMessageAndResetDidSchedule, NextWork, endVars
    <2>2. <<SwapFrame>> = <<SwapFrame>> \o s BY <2>1
    <2>3. Same(<<SwapFrame>>) BY <1>4, <2>2, IdleFrames
    <2> QED BY <1>3, <2>1, <2>3
  <1>8. ASSUME s # << >>, Head(s) \in Idle, stack' = [stack EXCEPT ![p] = Tail(@)]
        PROVE  /\ \A r \in Proc \ {p} : stack'[r] = stack[r]
               /\ \A M : M \cap Idle = {} => Count(stack'[p], M) = Count(stack[p], M)
    <2>1. Same(Tail(s)) BY <1>1, <1>8, IdleTail
    <2> QED BY <1>3, <1>8, <2>1
  <1>9. CASE /\ DispatchMessages(p) /\ UNCHANGED <<incoming, marked, owed>>
             /\ stack' = [stack EXCEPT ![p] = Tail(@)]
    <2>1. s # << >> /\ Head(s).fn = "dispatchMessages" BY <1>9 DEF DispatchMessages, Running
    <2>2. Head(s) \in Idle BY <1>2, <2>1 DEF Idle
    <2>3. UNCHANGED wire BY <1>9 DEF DispatchMessages
    <2> QED BY <1>8, <1>9, <2>1, <2>2, <2>3
  <1>10. CASE WaitReturns(p) \/ WaitTimesOut(p)
    <2>1. s # << >> /\ Head(s).fn = "waitForSyncReply"
      BY <1>10 DEF WaitReturns, WaitTimesOut, Waiting, Running
    <2>2. Head(s) \in Idle BY <1>2, <2>1 DEF Idle
    <2>3. /\ stack' = [stack EXCEPT ![p] = Tail(@)]
          /\ UNCHANGED <<marked, owed, incoming, wire>>
      BY <1>10 DEF WaitReturns, WaitTimesOut, ReturnFromSendSync
    <2> QED BY <1>8, <2>1, <2>2, <2>3
  <1>11. CASE WaitBlocks(p) \/ WaitWakes(p)
    <2> DEFINE f == Head(s)
    <2>1. s # << >> /\ f.fn = "waitForSyncReply"
      BY <1>11 DEF WaitBlocks, WaitWakes, Waiting, Running
    <2>2. f \in Idle BY <1>2, <2>1 DEF Idle
    <2>3. /\ f.e \in Endpoint /\ f.id \in Nat
          /\ \A pc : [f EXCEPT !.pc = pc] = WaitFrame(f.e, f.id, pc)
      BY <1>2, <2>1, HomeFields DEF EndsOf
    <2>4. /\ [f EXCEPT !.pc = "wait"] \in Idle /\ [f EXCEPT !.pc = "check"] \in Idle
      BY <2>3, IdleFrames
    <2>5. UNCHANGED <<marked, owed, incoming, wire>>
      BY <1>11 DEF WaitBlocks, WaitWakes, endVars
    <2>6. CASE WaitBlocks(p)
      <3>1. stack' = [stack EXCEPT ![p] = <<[f EXCEPT !.pc = "wait"]>> \o Tail(s)]
        BY <2>6 DEF WaitBlocks
      <3>2. Same(<<[f EXCEPT !.pc = "wait"]>> \o Tail(s)) BY <1>5, <2>1, <2>2, <2>4
      <3> QED BY <1>3, <2>5, <3>1, <3>2
    <2>7. CASE WaitWakes(p)
      <3> DEFINE w == [f EXCEPT !.pc = "check"]
                 u == <<w>> \o Tail(s)
      <3>1. stack' = [stack EXCEPT ![p] = <<SwapFrame, w>> \o Tail(s)] BY <2>7 DEF WaitWakes
      <3>2. Same(u) BY <1>5, <2>1, <2>2, <2>4
      <3>3. w \in Frame BY <2>4 DEF Idle
      <3>4. Tail(s) \in Seq(Frame) BY <1>2, <2>1
      <3> HIDE DEF w
      <3>5. u \in Seq(Frame) /\ <<SwapFrame, w>> \o Tail(s) = <<SwapFrame>> \o u
        BY <3>3, <3>4
      <3>6. Same(<<SwapFrame>> \o u)
        <4> HIDE DEF u
        <4> QED BY <3>2, <3>5, IdlePush, IdleFrames
      <3>7. Same(<<SwapFrame, w>> \o Tail(s)) BY <3>5, <3>6
      <3> QED BY <1>3, <2>5, <3>1, <3>7
    <2> QED BY <1>11, <2>6, <2>7
  <1>12. ASSUME NEW e \in EndsOf(p), SendSync(e)
         PROVE  /\ \A r \in Proc \ {p} : stack'[r] = stack[r]
                /\ \A M : M \cap Idle = {} => Count(stack'[p], M) = Count(stack[p], M)
                /\ UNCHANGED <<marked, owed, incoming, wire>>
    <2> DEFINE w == WaitFrame(e, syncRequestID[e] + 1, "check")
               u == <<w>> \o s
    <2>1. e \in Endpoint /\ ProcOf[e] = p BY DEF EndsOf
    <2>2. /\ stack' = [stack EXCEPT ![p] = <<SwapFrame, w>> \o s]
          /\ UNCHANGED <<marked, owed, incoming, wire>>
      BY <1>12, <2>1 DEF SendSync, NextSyncRequestID
    <2>3. w \in Idle
      <3>1. syncRequestID \in [Endpoint -> Nat] BY DEF Sharp, TypeOK
      <3>2. syncRequestID[e] + 1 \in Nat BY <2>1, <3>1
      <3> QED BY <2>1, <3>2, IdleFrames
    <2>4. w \in Frame BY <2>3 DEF Idle
    <2> HIDE DEF w
    <2>5. Same(u) BY <1>4, <2>3
    <2>6. u \in Seq(Frame) /\ <<SwapFrame, w>> \o s = <<SwapFrame>> \o u
      BY <1>1, <2>4
    <2>7. Same(<<SwapFrame>> \o u)
      <3> HIDE DEF u
      <3> QED BY <2>5, <2>6, IdlePush, IdleFrames
    <2>8. Same(<<SwapFrame, w>> \o s) BY <2>6, <2>7
    <2> QED BY <1>3, <2>2, <2>8
  <1> QED BY <1>6, <1>7, <1>9, <1>10, <1>11, <1>12 DEF IdleMove
-----------------------------------------------------------------------------
(* The count of marked messages.                                            *)

LEMMA MarkedFrames ==
    ASSUME NEW e
    PROVE  /\ MarkedFrame(e) \cap Idle = {}
           /\ \A b : BatchFrame(b) \notin MarkedFrame(e)
           /\ \A f : f.fn # "dispatchMessage" => f \notin MarkedFrame(e)
           /\ \A d \in Delivery, x \in BOOLEAN :
                HandlerFrame(d, x) \in MarkedFrame(e) <=> d.e = e /\ d.m.dispatch
  <1>1. \A d \in Delivery, x \in BOOLEAN :
          HandlerFrame(d, x) \in MarkedFrame(e) <=> d.e = e /\ d.m.dispatch
    <2> TAKE d \in Delivery, x \in BOOLEAN
    <2>1. HandlerFrame(d, x) \in Frame BY FrameTypes
    <2>2. HandlerFrame(d, x).fn = "dispatchMessage" /\ HandlerFrame(d, x).d = d
      BY DEF HandlerFrame
    <2> QED BY <2>1, <2>2 DEF MarkedFrame
  <1>2. \A b : BatchFrame(b).fn = "batch" BY DEF BatchFrame
  <1>3. \A f : f.fn # "dispatchMessage" => f \notin MarkedFrame(e) BY DEF MarkedFrame
  <1>4. MarkedFrame(e) \cap Idle = {} BY DEF MarkedFrame, Idle
  <1>5. \A b : BatchFrame(b) \notin MarkedFrame(e) BY <1>2, <1>3
  <1> QED BY <1>1, <1>3, <1>4, <1>5

(* A thread counts for the connections of its own process only.             *)
LEMMA MarkedStep ==
    ASSUME MarkedInv, NEW p \in Proc,
           \A r \in Proc \ {p} : stack'[r] = stack[r],
           \A e \in EndsOf(p) : marked'[e] = Count(stack'[p], MarkedFrame(e)),
           \A e \in Endpoint \ EndsOf(p) : marked'[e] = marked[e]
    PROVE  MarkedInv'
  <1> SUFFICES ASSUME NEW e \in Endpoint
               PROVE  marked'[e] = Count(stack'[ProcOf[e]], MarkedFrame(e))
    BY DEF MarkedInv, MarkedFrame, Frame, Delivery, Message
  <1>1. CASE ProcOf[e] = p BY <1>1 DEF EndsOf
  <1>2. CASE ProcOf[e] # p
    <2>1. ProcOf[e] \in Proc BY TopologyAssumption
    <2>2. marked'[e] = marked[e] BY <1>2 DEF EndsOf
    <2> QED BY <1>2, <2>1, <2>2 DEF MarkedInv
  <1> QED BY <1>1, <1>2

(* The same, when the count does not change.                                *)
LEMMA MarkedSame ==
    ASSUME MarkedInv, NEW p \in Proc, UNCHANGED marked,
           \A r \in Proc \ {p} : stack'[r] = stack[r],
           \A e \in EndsOf(p) : Count(stack'[p], MarkedFrame(e)) = Count(stack[p], MarkedFrame(e))
    PROVE  MarkedInv'
  <1>1. \A e \in EndsOf(p) : marked'[e] = Count(stack'[p], MarkedFrame(e))
    BY DEF MarkedInv, EndsOf
  <1> QED BY <1>1, MarkedStep

(* dispatchMessage counts a marked message before it calls the handler.     *)
LEMMA MarkedDispatch ==
    ASSUME Sharp, MarkedInv, NEW p \in Proc, NEW d \in HomeDelivery(p),
           NEW rest \in Seq(Frame), DispatchMessage(p, d, rest),
           \A e \in EndsOf(p) : Count(rest, MarkedFrame(e)) = Count(stack[p], MarkedFrame(e))
    PROVE  MarkedInv'
  <1>1. /\ stack \in [Proc -> Seq(Frame)] /\ marked \in [Endpoint -> Int]
        /\ d \in Delivery /\ d.e \in EndsOf(p) /\ d.e \in Endpoint /\ d.m \in Message
    BY HomeSubset DEF Sharp, TypeOK, HomeDelivery, Delivery
  <1>2. \A e \in EndsOf(p) : marked[e] = Count(stack[p], MarkedFrame(e)) /\ e \in Endpoint
    BY DEF MarkedInv, EndsOf
  <1>3. CASE client[d.e]
    <2>1. PICK x \in Encoder(d) :
            /\ stack' = [stack EXCEPT ![p] = <<HandlerFrame(d, x)>> \o rest]
            /\ marked' = [marked EXCEPT ![d.e] = IF d.m.dispatch THEN @ + 1 ELSE @]
      BY <1>3 DEF DispatchMessage
    <2>2. x \in BOOLEAN BY DEF Encoder
    <2> DEFINE h == HandlerFrame(d, x)
    <2>3. /\ h \in Frame
          /\ \A e : h \in MarkedFrame(e) <=> d.e = e /\ d.m.dispatch
      BY <1>1, <2>2, FrameTypes, MarkedFrames
    <2>4. stack'[p] = <<h>> \o rest /\ \A r \in Proc \ {p} : stack'[r] = stack[r]
      BY <1>1, <2>1
    <2> HIDE DEF h
    <2>5. ASSUME NEW e \in EndsOf(p) PROVE marked'[e] = Count(stack'[p], MarkedFrame(e))
      <3>1. Count(<<h>> \o rest, MarkedFrame(e))
              = Count(rest, MarkedFrame(e)) + (IF h \in MarkedFrame(e) THEN 1 ELSE 0)
        BY <2>3, CountPush
      <3>2. Count(rest, MarkedFrame(e)) = marked[e] /\ marked[e] \in Int /\ e \in Endpoint
        BY <1>1, <1>2
      <3>3. CASE d.e = e /\ d.m.dispatch
        <4>1. marked'[e] = marked[e] + 1 BY <1>1, <2>1, <3>3
        <4> QED BY <2>3, <2>4, <3>1, <3>2, <3>3, <4>1
      <3>4. CASE ~(d.e = e /\ d.m.dispatch)
        <4>1. marked'[e] = marked[e] BY <1>1, <2>1, <3>2, <3>4
        <4> QED BY <2>3, <2>4, <3>1, <3>2, <3>4, <4>1
      <3> QED BY <3>3, <3>4
    <2>6. \A e \in Endpoint \ EndsOf(p) : marked'[e] = marked[e] BY <1>1, <2>1
    <2> QED BY <2>4, <2>5, <2>6, MarkedStep
  <1>4. CASE ~client[d.e]
    <2>1. stack' = [stack EXCEPT ![p] = rest] /\ UNCHANGED marked
      BY <1>4 DEF DispatchMessage
    <2>2. stack'[p] = rest /\ \A r \in Proc \ {p} : stack'[r] = stack[r] BY <1>1, <2>1
    <2> QED BY <2>1, <2>2, MarkedSame
  <1> QED BY <1>3, <1>4

(* The client run loop thread.                                              *)
LEMMA MarkedRunLoop ==
    ASSUME Sharp, MarkedInv, NEW p \in Proc, RunLoopStep(p) \/ WaitTimesOut(p)
    PROVE  MarkedInv'
  <1> DEFINE s == stack[p]
  <1>1. /\ stack \in [Proc -> Seq(Frame)] /\ marked \in [Endpoint -> Int]
        /\ s \in Seq(HomeFrame(p)) /\ s \in Seq(Frame)
        /\ toDispatch[p] \in Seq(HomeDelivery(p)) /\ toDispatch[p] \in Seq(Delivery)
    BY DEF Sharp, TypeOK, HomeTypes
  <1>2. s # << >> => /\ Head(s) \in Frame /\ Tail(s) \in Seq(Frame)
                     /\ Head(s) \in HomeFrame(p)
    <2> HIDE DEF s
    <2> QED BY <1>1, HomeStack, HeadTailType
  <1>3. ASSUME IdleMove(p) PROVE MarkedInv'
    BY <1>3, IdleMoves, MarkedFrames, MarkedSame
  <1>4. ASSUME s # << >>, Head(s).fn = "batch" \/ Head(s).fn = "swap", NEW e
        PROVE  /\ Count(Tail(s), MarkedFrame(e)) = Count(s, MarkedFrame(e))
               /\ \A b \in Seq(Delivery) \ {<< >>} :
                    Count(<<BatchFrame(b)>> \o Tail(s), MarkedFrame(e))
                      = Count(s, MarkedFrame(e))
    <2>1. Head(s) \notin MarkedFrame(e)
      <3>1. Head(s).fn # "dispatchMessage" BY <1>4
      <3> QED BY <3>1, MarkedFrames
    <2>2. Count(s, MarkedFrame(e)) \in Nat BY <1>1, CountType
    <2> HIDE DEF s
    <2>3. Count(Tail(s), MarkedFrame(e))
            = Count(s, MarkedFrame(e)) - (IF Head(s) \in MarkedFrame(e) THEN 1 ELSE 0)
      BY <1>1, <1>4, CountTail
    <2>4. Count(Tail(s), MarkedFrame(e)) = Count(s, MarkedFrame(e)) BY <2>1, <2>2, <2>3
    <2>5. ASSUME NEW b \in Seq(Delivery) \ {<< >>}
          PROVE  Count(<<BatchFrame(b)>> \o Tail(s), MarkedFrame(e)) = Count(s, MarkedFrame(e))
      <3>1. BatchFrame(b) \in Frame /\ BatchFrame(b) \notin MarkedFrame(e)
        BY FrameTypes, MarkedFrames
      <3>2. Tail(s) \in Seq(Frame) BY <1>2, <1>4
      <3>3. Count(<<BatchFrame(b)>> \o Tail(s), MarkedFrame(e))
              = Count(Tail(s), MarkedFrame(e))
                  + (IF BatchFrame(b) \in MarkedFrame(e) THEN 1 ELSE 0)
        BY <3>1, <3>2, CountPush
      <3> QED BY <2>2, <2>4, <3>1, <3>3
    <2> QED BY <2>4, <2>5
  <1>5. CASE DispatchConnectionDidClose(p)
    <2>1. UNCHANGED <<marked, stack>> BY <1>5 DEF DispatchConnectionDidClose
    <2> QED BY <2>1, MarkedSame
  <1>6. CASE DispatchMessages(p)
    <2> DEFINE e == Head(s).e
    <2>1. s # << >> /\ Head(s).fn = "dispatchMessages"
      BY <1>6 DEF DispatchMessages, Running
    <2>2. e \in EndsOf(p) BY <1>2, <2>1, HomeFields
    <2>3. CASE /\ UNCHANGED <<incoming, marked, owed>>
               /\ stack' = [stack EXCEPT ![p] = Tail(@)]
      BY <1>3, <1>6, <2>3 DEF IdleMove
    <2>4. CASE /\ incoming[e] # << >>
               /\ DispatchMessage(p, [e |-> e, m |-> Head(incoming[e])], stack[p])
      <3>1. incoming \in [Endpoint -> Seq(Request)] /\ e \in Endpoint
        BY <2>2 DEF Sharp, EndTypes, EndsOf
      <3>2. Head(incoming[e]) \in Request BY <2>4, <3>1, SeqUpdate
      <3>3. [e |-> e, m |-> Head(incoming[e])] \in HomeDelivery(p)
        BY <2>2, <3>2 DEF HomeDelivery
      <3> QED BY <1>1, <2>4, <3>3, MarkedDispatch
    <2> QED BY <1>6, <2>3, <2>4 DEF DispatchMessages
  <1>7. CASE SwapMessages(p)
    <2> DEFINE t == IF toDispatch[p] = << >> THEN Tail(s)
                    ELSE <<BatchFrame(toDispatch[p])>> \o Tail(s)
    <2>1. s # << >> /\ Head(s).fn = "swap" BY <1>7 DEF SwapMessages, Running
    <2>2. stack' = [stack EXCEPT ![p] = t] /\ UNCHANGED marked
      BY <1>7 DEF SwapMessages, endVars
    <2>3. \A e : Count(t, MarkedFrame(e)) = Count(s, MarkedFrame(e))
      BY <1>1, <1>4, <2>1
    <2> HIDE DEF t
    <2>4. stack'[p] = t /\ \A r \in Proc \ {p} : stack'[r] = stack[r] BY <1>1, <2>2
    <2> QED BY <2>2, <2>3, <2>4, MarkedSame
  <1>8. CASE DispatchBatch(p)
    <2> DEFINE b == Head(s).batch
               rest == IF Len(b) = 1 THEN Tail(s) ELSE <<BatchFrame(Tail(b))>> \o Tail(s)
    <2>1. s # << >> /\ Head(s).fn = "batch" BY <1>8 DEF DispatchBatch, Running
    <2>2. /\ b \in Seq(HomeDelivery(p)) /\ b # << >> /\ b \in Seq(Delivery)
      BY <1>2, <2>1, HomeFields, FrameFields
    <2>3. /\ Head(b) \in HomeDelivery(p) /\ Tail(b) \in Seq(Delivery)
          /\ Len(b) # 1 => Tail(b) # << >>
      BY <2>2, HeadTailType
    <2>4. rest \in Seq(Frame)
      <3>1. Tail(s) \in Seq(Frame) BY <1>2, <2>1
      <3>2. Len(b) # 1 => BatchFrame(Tail(b)) \in Frame BY <2>3, FrameTypes
      <3> QED BY <3>1, <3>2, PushType
    <2>5. \A e : Count(rest, MarkedFrame(e)) = Count(s, MarkedFrame(e))
      BY <1>4, <2>1, <2>3
    <2>6. DispatchMessage(p, Head(b), rest) BY <1>8 DEF DispatchBatch
    <2> HIDE DEF rest, b
    <2> QED BY <2>3, <2>4, <2>5, <2>6, MarkedDispatch
  <1>9. CASE HandlerReturns(p)
    <2> DEFINE f == Head(s)
    <2>1. s # << >> /\ f.fn = "dispatchMessage" BY <1>9 DEF HandlerReturns, Running
    <2>2. f \in Frame /\ f.d \in Delivery /\ f.d.e \in EndsOf(p) /\ f.d.e \in Endpoint
      BY <1>2, <2>1, HomeFields, FrameFields DEF HomeDelivery, EndsOf
    <2>3. /\ marked' = [marked EXCEPT ![f.d.e] = IF f.d.m.dispatch THEN @ - 1 ELSE @]
          /\ stack' = [stack EXCEPT ![p] = Tail(@)]
      BY <1>9 DEF HandlerReturns
    <2>4. stack'[p] = Tail(s) /\ \A r \in Proc \ {p} : stack'[r] = stack[r]
      BY <1>1, <2>3
    <2>5. \A e : f \in MarkedFrame(e) <=> f.d.e = e /\ f.d.m.dispatch
      BY <2>1, <2>2 DEF MarkedFrame
    <2>6. ASSUME NEW e \in EndsOf(p) PROVE marked'[e] = Count(stack'[p], MarkedFrame(e))
      <3>1. Count(Tail(s), MarkedFrame(e))
              = Count(s, MarkedFrame(e)) - (IF f \in MarkedFrame(e) THEN 1 ELSE 0)
        BY <1>1, <2>1, CountTail
      <3>2. Count(s, MarkedFrame(e)) = marked[e] /\ marked[e] \in Int /\ e \in Endpoint
        BY <1>1 DEF MarkedInv, EndsOf
      <3>3. CASE f.d.e = e /\ f.d.m.dispatch
        <4>1. marked'[e] = marked[e] - 1 BY <1>1, <2>2, <2>3, <3>3
        <4>2. f \in MarkedFrame(e) BY <2>5, <3>3
        <4> QED BY <2>4, <3>1, <3>2, <4>1, <4>2
      <3>4. CASE ~(f.d.e = e /\ f.d.m.dispatch)
        <4>1. marked'[e] = marked[e] BY <1>1, <2>2, <2>3, <3>2, <3>4
        <4>2. f \notin MarkedFrame(e) BY <2>5, <3>4
        <4> QED BY <2>4, <3>1, <3>2, <4>1, <4>2
      <3> QED BY <3>3, <3>4
    <2>7. \A e \in Endpoint \ EndsOf(p) : marked'[e] = marked[e] BY <1>1, <2>2, <2>3
    <2> QED BY <2>4, <2>6, <2>7, MarkedStep
  <1> QED BY <1>3, <1>5, <1>6, <1>7, <1>8, <1>9 DEF RunLoopStep, IdleMove

LEMMA MarkedNext == Sharp /\ MarkedInv /\ [Next]_vars => MarkedInv'
  <1> SUFFICES ASSUME Sharp, MarkedInv, [Next]_vars PROVE MarkedInv' OBVIOUS
  <1>1. ASSUME UNCHANGED <<marked, stack>> PROVE MarkedInv' BY <1>1 DEF MarkedInv, MarkedFrame
  <1>2. CASE UNCHANGED vars BY <1>1, <1>2 DEF vars
  <1>3. ASSUME NEW p \in Proc, Killed(p) PROVE MarkedInv' BY <1>1, <1>3 DEF Killed, endVars
  <1>4. ASSUME NEW e \in Endpoint, ClientStep(e) PROVE MarkedInv'
    <2>1. CASE SendSync(e)
      <3>1. ProcOf[e] \in Proc /\ e \in EndsOf(ProcOf[e]) BY TopologyAssumption DEF EndsOf
      <3>2. IdleMove(ProcOf[e]) BY <2>1, <3>1 DEF IdleMove
      <3> QED BY <3>1, <3>2, IdleMoves, MarkedFrames, MarkedSame
    <2>2. CASE ~SendSync(e)
      BY <1>1, <1>4, <2>2 DEF ClientStep, SendAsync, SendSyncFails, SendDelayedReply,
                              Invalidate, loopVars
    <2> QED BY <2>1, <2>2
  <1>5. ASSUME NEW e \in Endpoint, WorkQueueStep(e) \/ PluginProcessCrashed(e)
        PROVE  MarkedInv'
    BY <1>1, <1>5 DEF WorkQueueStep, SendOutgoingMessages, InvalidateOnWorkQueue, Hangup,
         ConnectionDidCloseOnWorkQueue, ConnectionDidClose, ReceiveSyncReply,
         ReceiveDispatchWhileWaiting, WakeUpClientRunLoop, EnqueueIncomingMessage,
         PluginProcessCrashed, loopVars
  <1> QED BY <1>2, <1>3, <1>4, <1>5, MarkedRunLoop DEF Next

(* The counter behind m_inDispatchMessageMarked... is the number of marked  *)
(* messages the client thread is really in the middle of dispatching, so    *)
(* it is zero again when the last of them returns.                          *)
THEOREM MarkedCountIsExact == Spec => []MarkedCountMatchesStack
  <1>1. Init => MarkedInv
    <2> SUFFICES ASSUME Init, NEW e \in Endpoint
                 PROVE  marked[e] = Count(stack[ProcOf[e]], MarkedFrame(e))
      BY DEF MarkedInv
    <2>1. marked[e] = 0 /\ stack[ProcOf[e]] = << >> BY TopologyAssumption DEF Init
    <2> QED BY <2>1, CountEmpty
  <1>2. ASSUME Sharp, MarkedInv PROVE MarkedCountMatchesStack
    <2> SUFFICES ASSUME NEW e \in Endpoint
                 PROVE  marked[e] = Cardinality({k \in DOMAIN stack[ProcOf[e]] :
                          /\ stack[ProcOf[e]][k].fn = "dispatchMessage"
                          /\ stack[ProcOf[e]][k].d.e = e
                          /\ stack[ProcOf[e]][k].d.m.dispatch})
      BY DEF MarkedCountMatchesStack
    <2> DEFINE s == stack[ProcOf[e]]
    <2>1. s \in Seq(Frame) BY <1>2, TopologyAssumption DEF Sharp, TypeOK
    <2>2. Places(s, MarkedFrame(e)) = {k \in DOMAIN s : /\ s[k].fn = "dispatchMessage"
                                                     /\ s[k].d.e = e /\ s[k].d.m.dispatch}
      BY <2>1 DEF Places, MarkedFrame
    <2> QED BY <1>2, <2>2 DEF MarkedInv, Count
  <1> QED BY <1>1, <1>2, SharpInit, SharpStep, MarkedNext, PTL DEF Spec
-----------------------------------------------------------------------------
(* The messages stored for dispatch while waiting.                          *)

Stored(q, scheduled, kept, up, s) ==
    /\ Count(q, TakeStored) = IF scheduled THEN 1 ELSE 0
    /\ kept # << >> /\ up => scheduled \/ TopIs(s, "swap")

LEMMA StoredIs ==
    /\ StoredInv <=> \A p \in Proc :
         Stored(runQueue[p], didSchedule[p], toDispatch[p], alive[p], stack[p])
    /\ StoredInv' <=> \A p \in Proc :
         Stored(runQueue'[p], didSchedule'[p], toDispatch'[p], alive'[p], stack'[p])
  <1>1. StoredInv <=> \A p \in Proc :
          Stored(runQueue[p], didSchedule[p], toDispatch[p], alive[p], stack[p])
    BY DEF StoredInv, Stored
  <1>2. StoredInv' <=> \A p \in Proc :
          Stored(runQueue'[p], didSchedule'[p], toDispatch'[p], alive'[p], stack'[p])
    BY DEF StoredInv, Stored, TakeStored, Work, TopIs, Count, Places
  <1> QED BY <1>1, <1>2

(* A step of one process leaves the others alone.                           *)
LEMMA StoredStep ==
    ASSUME StoredInv, NEW p \in Proc,
           Stored(runQueue'[p], didSchedule'[p], toDispatch'[p], alive'[p], stack'[p]),
           \A r \in Proc \ {p} :
             /\ runQueue'[r] = runQueue[r] /\ didSchedule'[r] = didSchedule[r]
             /\ toDispatch'[r] = toDispatch[r] /\ stack'[r] = stack[r]
             /\ (alive'[r] => alive[r])
    PROVE  StoredInv'
  <1> SUFFICES ASSUME NEW r \in Proc
               PROVE  Stored(runQueue'[r], didSchedule'[r], toDispatch'[r], alive'[r], stack'[r])
    BY StoredIs
  <1>1. CASE r = p BY <1>1
  <1>2. CASE r # p
    <2>1. Stored(runQueue[r], didSchedule[r], toDispatch[r], alive[r], stack[r]) BY StoredIs
    <2> QED BY <1>2, <2>1 DEF Stored
  <1> QED BY <1>1, <1>2

(* Steps that only move the calls of a thread: one that is about to take    *)
(* the stored messages takes them first.                                    *)
LEMMA StoredMove ==
    ASSUME StoredInv, NEW p \in Proc, UNCHANGED <<runQueue, didSchedule, toDispatch>>,
           \A r \in Proc : alive'[r] => alive[r],
           \A r \in Proc \ {p} : stack'[r] = stack[r],
           TopIs(stack[p], "swap") => TopIs(stack'[p], "swap")
    PROVE  StoredInv'
  <1>1. Stored(runQueue[p], didSchedule[p], toDispatch[p], alive[p], stack[p]) BY StoredIs
  <1>2. Stored(runQueue'[p], didSchedule'[p], toDispatch'[p], alive'[p], stack'[p])
    BY <1>1 DEF Stored
  <1> QED BY <1>2, StoredStep

LEMMA StoredQuiet ==
    ASSUME StoredInv, UNCHANGED <<runQueue, didSchedule, toDispatch, stack>>,
           \A r \in Proc : alive'[r] => alive[r]
    PROVE  StoredInv'
  <1> SUFFICES ASSUME NEW r \in Proc
               PROVE  Stored(runQueue'[r], didSchedule'[r], toDispatch'[r], alive'[r], stack'[r])
    BY StoredIs
  <1>1. Stored(runQueue[r], didSchedule[r], toDispatch[r], alive[r], stack[r]) BY StoredIs
  <1> QED BY <1>1 DEF Stored

(* Only the failure of a synchronous send ends a process from inside.       *)
LEMMA NobodyRevives ==
    ASSUME TypeOK, NEW e \in Endpoint, DidFailToSendSyncMessage(e)
    PROVE  \A r \in Proc : alive'[r] => alive[r]
  <1>1. alive \in [Proc -> BOOLEAN] BY DEF TypeOK
  <1>2. alive' = [alive EXCEPT ![ProcOf[e]] = alive[ProcOf[e]] /\ e \notin ExitOnFailure]
    BY DEF DidFailToSendSyncMessage
  <1> QED BY <1>1, <1>2

(* The run loop starts the next function.                                   *)
LEMMA StoredWork ==
    ASSUME Sharp, StoredInv, NEW p \in Proc, NEW fn, NextWork(p, fn)
    PROVE  /\ Count(runQueue'[p], TakeStored) = Count(runQueue[p], TakeStored)
                - (IF fn = "dispatchMessageAndReset" THEN 1 ELSE 0)
           /\ \A r \in Proc \ {p} : runQueue'[r] = runQueue[r]
           /\ ~TopIs(stack[p], "swap")
           /\ Count(runQueue[p], TakeStored) = IF didSchedule[p] THEN 1 ELSE 0
           /\ Count(runQueue'[p], TakeStored) \in Nat
  <1>1. /\ runQueue \in [Proc -> Seq(Work)] /\ runQueue[p] # << >> /\ stack[p] = << >>
        /\ Head(runQueue[p]).fn = fn /\ runQueue' = [runQueue EXCEPT ![p] = Tail(@)]
    BY DEF Sharp, TypeOK, NextWork
  <1>2. runQueue'[p] = Tail(runQueue[p]) /\ \A r \in Proc \ {p} : runQueue'[r] = runQueue[r]
    BY <1>1
  <1>3. runQueue[p] \in Seq(Work) /\ Head(runQueue[p]) \in Work /\ Tail(runQueue[p]) \in Seq(Work)
    BY <1>1, HeadTailType
  <1>4. Head(runQueue[p]) \in TakeStored <=> fn = "dispatchMessageAndReset"
    BY <1>1, <1>3 DEF TakeStored
  <1>5. Count(Tail(runQueue[p]), TakeStored) = Count(runQueue[p], TakeStored)
          - (IF Head(runQueue[p]) \in TakeStored THEN 1 ELSE 0)
    BY <1>1, <1>3, CountTail
  <1>6. Count(Tail(runQueue[p]), TakeStored) \in Nat BY <1>3, CountType
  <1>7. ~TopIs(stack[p], "swap") BY <1>1 DEF TopIs
  <1>8. Count(runQueue[p], TakeStored) = IF didSchedule[p] THEN 1 ELSE 0 BY DEF StoredInv
  <1> QED BY <1>2, <1>4, <1>5, <1>6, <1>7, <1>8

(* The client run loop thread.                                              *)
LEMMA StoredRunLoop ==
    ASSUME Sharp, StoredInv, NEW p \in Proc, RunLoopStep(p) \/ WaitTimesOut(p)
    PROVE  StoredInv'
  <1>1. /\ stack \in [Proc -> Seq(Frame)] /\ toDispatch \in [Proc -> Seq(Delivery)]
        /\ didSchedule \in [Proc -> BOOLEAN]
    BY DEF Sharp, TypeOK
  <1>2. Stored(runQueue[p], didSchedule[p], toDispatch[p], alive[p], stack[p])
    BY StoredIs
  <1>3. CASE CallDispatchMessages(p)
    <2>1. /\ NextWork(p, "dispatchMessages") /\ UNCHANGED <<didSchedule, toDispatch, alive>>
          /\ \A r \in Proc \ {p} : stack'[r] = stack[r]
      BY <1>1, <1>3 DEF CallDispatchMessages
    <2>2. /\ Count(runQueue'[p], TakeStored) = IF didSchedule[p] THEN 1 ELSE 0
          /\ \A r \in Proc \ {p} : runQueue'[r] = runQueue[r]
          /\ ~TopIs(stack[p], "swap")
      BY <2>1, StoredWork
    <2>3. Stored(runQueue'[p], didSchedule'[p], toDispatch'[p], alive'[p], stack'[p])
      BY <1>2, <2>1, <2>2 DEF Stored
    <2> QED BY <2>1, <2>2, <2>3, StoredStep
  <1>4. CASE DispatchConnectionDidClose(p)
    <2>1. /\ NextWork(p, "dispatchConnectionDidClose")
          /\ UNCHANGED <<didSchedule, toDispatch, alive, stack>>
      BY <1>4 DEF DispatchConnectionDidClose
    <2>2. /\ Count(runQueue'[p], TakeStored) = IF didSchedule[p] THEN 1 ELSE 0
          /\ \A r \in Proc \ {p} : runQueue'[r] = runQueue[r]
      BY <2>1, StoredWork
    <2>3. Stored(runQueue'[p], didSchedule'[p], toDispatch'[p], alive'[p], stack'[p])
      BY <1>2, <2>1, <2>2 DEF Stored
    <2> QED BY <2>1, <2>2, <2>3, StoredStep
  <1>5. CASE DispatchMessageAndResetDidSchedule(p)
    <2>1. /\ NextWork(p, "dispatchMessageAndReset") /\ UNCHANGED <<toDispatch, alive>>
          /\ stack' = [stack EXCEPT ![p] = <<SwapFrame>>]
          /\ didSchedule' = [didSchedule EXCEPT ![p] = FALSE]
      BY <1>5 DEF DispatchMessageAndResetDidSchedule
    <2>2. /\ stack'[p] = <<SwapFrame>> /\ ~didSchedule'[p]
          /\ \A r \in Proc \ {p} : stack'[r] = stack[r] /\ didSchedule'[r] = didSchedule[r]
      BY <1>1, <2>1
    <2>3. /\ Count(runQueue'[p], TakeStored) = 0
          /\ \A r \in Proc \ {p} : runQueue'[r] = runQueue[r]
      <3>1. /\ Count(runQueue'[p], TakeStored) = Count(runQueue[p], TakeStored) - 1
            /\ Count(runQueue[p], TakeStored) \in {0, 1}
            /\ Count(runQueue'[p], TakeStored) \in Nat
            /\ \A r \in Proc \ {p} : runQueue'[r] = runQueue[r]
        BY <2>1, StoredWork
      <3> QED BY <3>1
    <2>4. TopIs(stack'[p], "swap") BY <2>2 DEF TopIs, SwapFrame
    <2>5. Stored(runQueue'[p], didSchedule'[p], toDispatch'[p], alive'[p], stack'[p])
      BY <2>2, <2>3, <2>4 DEF Stored
    <2> QED BY <2>1, <2>2, <2>3, <2>5, StoredStep
  <1>6. CASE SwapMessages(p)
    <2>1. /\ toDispatch' = [toDispatch EXCEPT ![p] = << >>]
          /\ UNCHANGED <<runQueue, didSchedule, alive>>
          /\ \A r \in Proc \ {p} : stack'[r] = stack[r]
      BY <1>1, <1>6 DEF SwapMessages
    <2>2. toDispatch'[p] = << >> /\ \A r \in Proc \ {p} : toDispatch'[r] = toDispatch[r]
      BY <1>1, <2>1
    <2>3. Stored(runQueue'[p], didSchedule'[p], toDispatch'[p], alive'[p], stack'[p])
      BY <1>2, <2>1, <2>2 DEF Stored
    <2> QED BY <2>1, <2>2, <2>3, StoredStep
  <1>7. ASSUME UNCHANGED <<runQueue, didSchedule, toDispatch>>,
               \A r \in Proc : alive'[r] => alive[r],
               NEW t, stack' = [stack EXCEPT ![p] = t], ~TopIs(stack[p], "swap")
        PROVE  StoredInv'
    <2>1. \A r \in Proc \ {p} : stack'[r] = stack[r] BY <1>1, <1>7
    <2> QED BY <1>7, <2>1, StoredMove
  <1>8. ASSUME NEW fn, Running(p, fn), fn # "swap" PROVE ~TopIs(stack[p], "swap")
    BY <1>8 DEF Running, TopIs
  <1>9. ASSUME NEW d, NEW rest, DispatchMessage(p, d, rest)
        PROVE  \E t : stack' = [stack EXCEPT ![p] = t]
    BY <1>9 DEF DispatchMessage
  <1>10. CASE DispatchMessages(p) \/ DispatchBatch(p) \/ HandlerReturns(p)
    <2>1. ~TopIs(stack[p], "swap") BY <1>8, <1>10 DEF DispatchMessages, DispatchBatch, HandlerReturns
    <2>2. UNCHANGED <<runQueue, didSchedule, toDispatch, alive>>
      BY <1>10 DEF DispatchMessages, DispatchBatch, HandlerReturns
    <2>3. \E t : stack' = [stack EXCEPT ![p] = t]
      BY <1>9, <1>10 DEF DispatchMessages, DispatchBatch, HandlerReturns
    <2> QED BY <1>7, <2>1, <2>2, <2>3
  <1>11. CASE WaitReturns(p) \/ WaitTimesOut(p)
    <2>1. Running(p, "waitForSyncReply") BY <1>11 DEF WaitReturns, WaitTimesOut, Waiting
    <2>2. Head(stack[p]).e \in Endpoint
      <3>1. Head(stack[p]) \in Frame /\ Head(stack[p]).fn = "waitForSyncReply"
        BY <1>1, <2>1, HeadTailType DEF Running
      <3> QED BY <3>1, FrameFields
    <2>3. PICK got : ReturnFromSendSync(p, Head(stack[p]).e, got)
      BY <1>11 DEF WaitReturns, WaitTimesOut
    <2>4. /\ UNCHANGED <<runQueue, didSchedule, toDispatch>>
          /\ stack' = [stack EXCEPT ![p] = Tail(stack[p])]
          /\ UNCHANGED alive \/ DidFailToSendSyncMessage(Head(stack[p]).e)
      BY <2>3 DEF ReturnFromSendSync
    <2>5. \A r \in Proc : alive'[r] => alive[r] BY <2>2, <2>4, NobodyRevives DEF Sharp
    <2>6. ~TopIs(stack[p], "swap") BY <1>8, <2>1
    <2> QED BY <1>7, <2>4, <2>5, <2>6
  <1>12. CASE WaitBlocks(p) \/ WaitWakes(p)
    <2>1. ~TopIs(stack[p], "swap") BY <1>8, <1>12 DEF WaitBlocks, WaitWakes, Waiting
    <2>2. UNCHANGED <<runQueue, didSchedule, toDispatch, alive>>
      BY <1>12 DEF WaitBlocks, WaitWakes
    <2>3. \E t : stack' = [stack EXCEPT ![p] = t] BY <1>12 DEF WaitBlocks, WaitWakes
    <2> QED BY <1>7, <2>1, <2>2, <2>3
  <1> QED BY <1>3, <1>4, <1>5, <1>6, <1>10, <1>11, <1>12 DEF RunLoopStep

(* The client, and the work queue thread of a connection end.               *)
LEMMA StoredEndpoint ==
    ASSUME Sharp, StoredInv, NEW e \in Endpoint,
           ClientStep(e) \/ WorkQueueStep(e) \/ PluginProcessCrashed(e)
    PROVE  StoredInv'
  <1> DEFINE p == ProcOf[e]
  <1>1. /\ p \in Proc /\ e \in Endpoint
        /\ stack \in [Proc -> Seq(Frame)] /\ toDispatch \in [Proc -> Seq(Delivery)]
        /\ didSchedule \in [Proc -> BOOLEAN] /\ runQueue \in [Proc -> Seq(Work)]
    BY TopologyAssumption DEF Sharp, TypeOK
  <1>2. Stored(runQueue[p], didSchedule[p], toDispatch[p], alive[p], stack[p])
    BY <1>1, StoredIs
  <1>3. CASE (\E w \in BOOLEAN : SendAsync(e, w)) \/ SendDelayedReply(e) \/ Invalidate(e)
               \/ SendOutgoingMessages(e) \/ InvalidateOnWorkQueue(e) \/ ReceiveSyncReply(e)
               \/ WakeUpClientRunLoop(e) \/ PluginProcessCrashed(e)
    <2>1. UNCHANGED <<runQueue, didSchedule, toDispatch, stack, alive>>
      BY <1>3 DEF SendAsync, SendDelayedReply, Invalidate, SendOutgoingMessages,
           InvalidateOnWorkQueue, ReceiveSyncReply, WakeUpClientRunLoop,
           PluginProcessCrashed, loopVars
    <2> QED BY <2>1, StoredQuiet
  <1>4. CASE SendSyncFails(e)
    <2>1. UNCHANGED <<runQueue, didSchedule, toDispatch, stack>> /\ DidFailToSendSyncMessage(e)
      BY <1>4 DEF SendSyncFails
    <2> QED BY <2>1, NobodyRevives, StoredQuiet DEF Sharp
  <1>5. CASE SendSync(e)
    <2>1. /\ UNCHANGED <<runQueue, didSchedule, toDispatch, alive>>
          /\ \A r \in Proc \ {p} : stack'[r] = stack[r]
      BY <1>1, <1>5 DEF SendSync
    <2>2. ~TopIs(stack[p], "swap") BY <1>5 DEF SendSync, ClientRuns, TopIs
    <2> HIDE DEF p
    <2> QED BY <1>1, <2>1, <2>2, StoredMove
  <1>6. ASSUME NEW w \in Work, w \notin TakeStored,
               runQueue' = [runQueue EXCEPT ![p] = Append(@, w)],
               UNCHANGED <<didSchedule, toDispatch, alive, stack>>
        PROVE  StoredInv'
    <2> HIDE DEF p
    <2>1. /\ runQueue'[p] = Append(runQueue[p], w) /\ runQueue[p] \in Seq(Work)
          /\ \A r \in Proc \ {p} : runQueue'[r] = runQueue[r]
      BY <1>1, <1>6
    <2>2. Count(runQueue'[p], TakeStored)
            = Count(runQueue[p], TakeStored) + (IF w \in TakeStored THEN 1 ELSE 0)
      BY <2>1, CountAppend
    <2>3. Count(runQueue[p], TakeStored) \in Nat BY <2>1, CountType
    <2>4. Count(runQueue'[p], TakeStored) = Count(runQueue[p], TakeStored)
      BY <1>6, <2>2, <2>3
    <2>5. Stored(runQueue'[p], didSchedule'[p], toDispatch'[p], alive'[p], stack'[p])
      BY <1>2, <1>6, <2>4 DEF Stored
    <2> QED BY <1>1, <1>6, <2>1, <2>5, StoredStep
  <1>7. CASE Hangup(e) \/ ConnectionDidCloseOnWorkQueue(e)
    <2>1. ConnectionDidClose(e) BY <1>7 DEF Hangup, ConnectionDidCloseOnWorkQueue
    <2> DEFINE w == [fn |-> "dispatchConnectionDidClose", e |-> e]
    <2>2. w \in Work /\ w \notin TakeStored BY DEF Work, TakeStored
    <2> QED BY <1>6, <2>1, <2>2 DEF ConnectionDidClose
  <1>8. CASE EnqueueIncomingMessage(e)
    <2> DEFINE w == [fn |-> "dispatchMessages", e |-> e]
    <2>1. w \in Work /\ w \notin TakeStored BY DEF Work, TakeStored
    <2> QED BY <1>6, <1>8, <2>1 DEF EnqueueIncomingMessage
  <1>9. CASE ReceiveDispatchWhileWaiting(e)
    <2> DEFINE w == [fn |-> "dispatchMessageAndReset"]
               q == IF didSchedule[p] THEN runQueue[p] ELSE Append(runQueue[p], w)
    <2>1. /\ runQueue' = [runQueue EXCEPT ![p] = q]
          /\ didSchedule' = [didSchedule EXCEPT ![p] = TRUE]
          /\ UNCHANGED <<alive, stack>>
          /\ \A r \in Proc \ {p} : toDispatch'[r] = toDispatch[r]
      BY <1>1, <1>9 DEF ReceiveDispatchWhileWaiting
    <2>2. w \in Work /\ w \in TakeStored BY DEF Work, TakeStored
    <2>3. /\ runQueue'[p] = q /\ didSchedule'[p]
          /\ \A r \in Proc \ {p} : /\ runQueue'[r] = runQueue[r]
                                   /\ didSchedule'[r] = didSchedule[r]
      <3> HIDE DEF q, p
      <3> QED BY <1>1, <2>1
    <2>4. Count(runQueue[p], TakeStored) = IF didSchedule[p] THEN 1 ELSE 0
      BY <1>2 DEF Stored
    <2>5. Count(q, TakeStored) = 1
      <3>1. CASE didSchedule[p] BY <2>4, <3>1
      <3>2. CASE ~didSchedule[p]
        <4> HIDE DEF w, p
        <4>1. Count(Append(runQueue[p], w), TakeStored)
                = Count(runQueue[p], TakeStored) + (IF w \in TakeStored THEN 1 ELSE 0)
          BY <1>1, <2>2, CountAppend
        <4> QED BY <2>2, <2>4, <3>2, <4>1
      <3> QED BY <3>1, <3>2
    <2> HIDE DEF q, p
    <2>6. Stored(runQueue'[p], didSchedule'[p], toDispatch'[p], alive'[p], stack'[p])
      BY <2>3, <2>5 DEF Stored
    <2> QED BY <1>1, <2>1, <2>3, <2>6, StoredStep
  <1> QED BY <1>3, <1>4, <1>5, <1>7, <1>8, <1>9 DEF ClientStep, WorkQueueStep

LEMMA StoredNext == Sharp /\ StoredInv /\ [Next]_vars => StoredInv'
  <1> SUFFICES ASSUME Sharp, StoredInv, [Next]_vars PROVE StoredInv' OBVIOUS
  <1>1. CASE UNCHANGED vars BY <1>1, StoredQuiet DEF vars
  <1>2. ASSUME NEW p \in Proc, Killed(p) PROVE StoredInv'
    <2>1. \A r \in Proc : alive'[r] => alive[r] BY <1>2 DEF Killed, Sharp, TypeOK
    <2> QED BY <1>2, <2>1, StoredQuiet DEF Killed
  <1> QED BY <1>1, <1>2, StoredRunLoop, StoredEndpoint DEF Next

(* A message stored for dispatch while waiting is never stranded, and the   *)
(* run loop has at most one call that takes the stored messages.            *)
THEOREM StoredIsDispatched == Spec => []NothingStranded
  <1>1. Init => StoredInv
    <2> SUFFICES ASSUME Init, NEW p \in Proc
                 PROVE  Stored(runQueue[p], didSchedule[p], toDispatch[p], alive[p], stack[p])
      BY StoredIs
    <2>1. runQueue[p] = << >> /\ didSchedule[p] = FALSE /\ toDispatch[p] = << >>
      BY DEF Init
    <2> QED BY <2>1, CountEmpty DEF Stored
  <1>2. ASSUME Sharp, StoredInv PROVE NothingStranded
    <2> SUFFICES ASSUME NEW p \in Proc
                 PROVE  /\ Cardinality({k \in DOMAIN runQueue[p] :
                             runQueue[p][k].fn = "dispatchMessageAndReset"})
                             = IF didSchedule[p] THEN 1 ELSE 0
                        /\ toDispatch[p] # << >> /\ alive[p] =>
                             didSchedule[p] \/ Running(p, "swap")
      BY DEF NothingStranded
    <2>1. Stored(runQueue[p], didSchedule[p], toDispatch[p], alive[p], stack[p])
      BY <1>2, StoredIs
    <2>2. runQueue[p] \in Seq(Work) BY <1>2 DEF Sharp, TypeOK
    <2>3. Places(runQueue[p], TakeStored)
            = {k \in DOMAIN runQueue[p] : runQueue[p][k].fn = "dispatchMessageAndReset"}
      BY <2>2 DEF Places, TakeStored
    <2>4. toDispatch[p] # << >> /\ alive[p] => didSchedule[p] \/ Running(p, "swap")
      BY <2>1 DEF Stored, TopIs, Running
    <2> QED BY <2>1, <2>3, <2>4 DEF Stored, Count
  <1> QED BY <1>1, <1>2, SharpInit, SharpStep, StoredNext, PTL DEF Spec
-----------------------------------------------------------------------------
(* A request, or its reply, is in one place at most.                        *)

LEMMA LoadType ==
    ASSUME NEW f \in Frame, NEW D
    PROVE  /\ Load(f, D) \in Nat
           /\ f \in Idle => Load(f, D) = 0
           /\ f.fn = "dispatchMessage" => Load(f, D) = IF f.encoder /\ f.d \in D THEN 1 ELSE 0
           /\ f.fn = "batch" => Load(f, D) = Count(f.batch, D)
           /\ f \in Loaded(D) <=> Load(f, D) > 0
           /\ f \in Overloaded(D) <=> Load(f, D) > 1
  <1>1. f.fn = "batch" => Load(f, D) = Count(f.batch, D) BY DEF Load
  <1>2. f.fn = "dispatchMessage" => Load(f, D) = IF f.encoder /\ f.d \in D THEN 1 ELSE 0
    BY DEF Load
  <1>3. f.fn # "batch" /\ f.fn # "dispatchMessage" => Load(f, D) = 0 BY DEF Load
  <1>4. f.fn = "batch" => Count(f.batch, D) \in Nat BY FrameFields, CountType
  <1>5. Load(f, D) \in Nat BY <1>1, <1>2, <1>3, <1>4
  <1>6. f \in Idle => Load(f, D) = 0 BY <1>3 DEF Idle
  <1>7. f \in Loaded(D) <=> Load(f, D) > 0 BY DEF Loaded
  <1>8. f \in Overloaded(D) <=> Load(f, D) > 1 BY DEF Overloaded
  <1> QED BY <1>1, <1>2, <1>5, <1>6, <1>7, <1>8

LEMMA IdleCarriesNothing ==
    ASSUME NEW D
    PROVE  Loaded(D) \cap Idle = {} /\ Overloaded(D) \cap Idle = {}
  <1> SUFFICES ASSUME NEW f \in Idle PROVE f \notin Loaded(D) /\ f \notin Overloaded(D)
    OBVIOUS
  <1>1. f \in Frame BY DEF Idle
  <1>2. Load(f, D) = 0 BY <1>1, LoadType
  <1> QED BY <1>1, <1>2, LoadType

LEMMA HeldType ==
    ASSUME NEW s \in Seq(Frame), NEW D
    PROVE  Held(s, D) \in Nat /\ Count(s, Loaded(D)) \in Nat /\ Count(s, Overloaded(D)) \in Nat
  <1>1. Count(s, Loaded(D)) \in Nat /\ Count(s, Overloaded(D)) \in Nat BY CountType
  <1> QED BY <1>1 DEF Held

LEMMA HeldPush ==
    ASSUME NEW s \in Seq(Frame), NEW f \in Frame, NEW D
    PROVE  Held(<<f>> \o s, D) <= Held(s, D) + Load(f, D)
  <1> DEFINE x == IF f \in Loaded(D) THEN 1 ELSE 0
             y == IF f \in Overloaded(D) THEN 1 ELSE 0
  <1>1. Count(<<f>> \o s, Loaded(D)) = Count(s, Loaded(D)) + x BY CountPush
  <1>2. Count(<<f>> \o s, Overloaded(D)) = Count(s, Overloaded(D)) + y BY CountPush
  <1>3. x \in Int /\ y \in Int /\ x + y <= Load(f, D) /\ Load(f, D) \in Nat
    <2>1. /\ Load(f, D) \in Nat
          /\ f \in Loaded(D) <=> Load(f, D) > 0
          /\ f \in Overloaded(D) <=> Load(f, D) > 1
      BY LoadType
    <2> QED BY <2>1
  <1> HIDE DEF x, y
  <1> QED BY <1>1, <1>2, <1>3, HeldType DEF Held

LEMMA HeldTail ==
    ASSUME NEW s \in Seq(Frame), s # << >>, NEW D, Held(s, D) <= 1
    PROVE  Held(Tail(s), D) = Held(s, D) - Load(Head(s), D)
  <1> DEFINE f == Head(s)
             x == IF f \in Loaded(D) THEN 1 ELSE 0
             y == IF f \in Overloaded(D) THEN 1 ELSE 0
  <1>1. f \in Frame /\ Tail(s) \in Seq(Frame) BY HeadTailType
  <1>2. Count(Tail(s), Loaded(D)) = Count(s, Loaded(D)) - x BY CountTail
  <1>3. Count(Tail(s), Overloaded(D)) = Count(s, Overloaded(D)) - y BY CountTail
  <1>4. /\ Load(f, D) \in Nat
        /\ f \in Loaded(D) <=> Load(f, D) > 0
        /\ f \in Overloaded(D) <=> Load(f, D) > 1
    BY <1>1, LoadType
  <1>5. x \in Int /\ y \in Int /\ (x + y <= 1 => x + y = Load(f, D)) BY <1>4
  <1>6. /\ Count(s, Loaded(D)) \in Nat /\ Count(s, Overloaded(D)) \in Nat
        /\ Count(Tail(s), Loaded(D)) \in Nat /\ Count(Tail(s), Overloaded(D)) \in Nat
    BY <1>1, HeldType
  <1> HIDE DEF x, y, f
  <1>7. x + y <= 1 BY <1>2, <1>3, <1>5, <1>6 DEF Held
  <1>8. Held(Tail(s), D) = Held(s, D) - Load(f, D)
    BY <1>2, <1>3, <1>4, <1>5, <1>6, <1>7 DEF Held
  <1> QED BY <1>8 DEF f

(* The client notes a request it will answer later, and answers it.         *)
LEMMA DebtType ==
    ASSUME NEW o, NEW id PROVE Debt(o, id) \in Nat
  BY DEF Debt

LEMMA DebtAdd ==
    ASSUME NEW o, NEW id, NEW m
    PROVE  Debt(o \cup {m}, id) <= Debt(o, id) + (IF m \in Sync(id) THEN 1 ELSE 0)
  <1>1. CASE m \in Sync(id)
    <2>1. CASE o \cap Sync(id) = {}
      <3>1. \A a, b \in (o \cup {m}) \cap Sync(id) : a = b BY <2>1
      <3> QED BY <1>1, <2>1, <3>1 DEF Debt
    <2>2. CASE o \cap Sync(id) # {} BY <1>1, <2>2 DEF Debt
    <2> QED BY <2>1, <2>2
  <1>2. CASE m \notin Sync(id)
    <2>1. (o \cup {m}) \cap Sync(id) = o \cap Sync(id) BY <1>2
    <2>2. Debt(o \cup {m}, id) = Debt(o, id) BY <2>1 DEF Debt
    <2> QED BY <1>2, <2>2, DebtType
  <1> QED BY <1>1, <1>2

LEMMA DebtRemove ==
    ASSUME NEW o, NEW id, NEW m \in o, Debt(o, id) <= 1
    PROVE  Debt(o \ {m}, id) = Debt(o, id) - (IF m \in Sync(id) THEN 1 ELSE 0)
  <1>1. CASE m \in Sync(id)
    <2>1. o \cap Sync(id) # {} BY <1>1
    <2>2. \A a, b \in o \cap Sync(id) : a = b BY <2>1 DEF Debt
    <2>3. (o \ {m}) \cap Sync(id) = {} BY <1>1, <2>2
    <2> QED BY <1>1, <2>1, <2>2, <2>3 DEF Debt
  <1>2. CASE m \notin Sync(id)
    <2>1. (o \ {m}) \cap Sync(id) = o \cap Sync(id) BY <1>2
    <2>2. Debt(o \ {m}, id) = Debt(o, id) BY <2>1 DEF Debt
    <2> QED BY <1>2, <2>2, DebtType
  <1> QED BY <1>1, <1>2
(* The parts are numbers.                                                   *)
LEMMA PartTypes ==
    ASSUME Sharp, NEW e \in Endpoint, NEW id \in Nat
    PROVE  /\ PeerOf[e] \in Endpoint /\ PeerOf[PeerOf[e]] = e
           /\ \A M : Channel(e, M) \in Nat
           /\ Accepted(e, id) \in Nat
           /\ Count(pending[e], Answered(id)) \in Nat
           /\ Count(incoming[e], Sync(id)) \in Nat
           /\ Count(toDispatch[ProcOf[e]], Arrived(e, id)) \in Nat
           /\ Held(stack[ProcOf[e]], Arrived(e, id)) \in Nat
           /\ Debt(owed[e], id) \in Nat
  <1>1. PeerOf[e] \in Endpoint /\ PeerOf[PeerOf[e]] = e /\ ProcOf[e] \in Proc
    BY TopologyAssumption
  <1>2. /\ outgoing[e] \in Seq(Message) /\ wire[PeerOf[e]] \in Seq(Message)
        /\ pending[e] \in Seq(PendingSyncReply) /\ incoming[e] \in Seq(Message)
        /\ toDispatch[ProcOf[e]] \in Seq(Delivery) /\ stack[ProcOf[e]] \in Seq(Frame)
    BY <1>1 DEF Sharp, TypeOK
  <1>3. ASSUME NEW M PROVE Channel(e, M) \in Nat
    <2>1. Count(outgoing[e], M) \in Nat /\ Count(wire[PeerOf[e]], M) \in Nat
      BY <1>2, CountType
    <2> QED BY <2>1 DEF Channel
  <1>4. /\ Count(pending[e], Answered(id)) \in Nat /\ Count(incoming[e], Sync(id)) \in Nat
        /\ Count(toDispatch[ProcOf[e]], Arrived(e, id)) \in Nat
    BY <1>2, CountType
  <1>5. Held(stack[ProcOf[e]], Arrived(e, id)) \in Nat /\ Debt(owed[e], id) \in Nat
    BY <1>2, HeldType, DebtType
  <1>6. Accepted(e, id) \in Nat BY <1>4, <1>5 DEF Accepted, Accept
  <1> QED BY <1>1, <1>3, <1>4, <1>5, <1>6

(* The invariant bounds each part.                                          *)
LEMMA PartBounds ==
    ASSUME Sharp, OnceInv, NEW e \in Endpoint, NEW id \in Nat
    PROVE  /\ Copies(e, id) \in Nat /\ Copies(e, id) <= 1
           /\ Channel(PeerOf[e], Reply(id)) + Count(pending[e], Answered(id)) <= 1
           /\ Held(stack[ProcOf[e]], Arrived(e, id)) <= 1
           /\ Debt(owed[e], id) <= 1
  <1>1. ASSUME NEW x \in Endpoint
        PROVE  /\ Copies(x, id) \in Nat /\ Copies(x, id) <= 1
               /\ Channel(PeerOf[x], Reply(id)) + Count(pending[x], Answered(id)) <= 1
               /\ Accepted(PeerOf[x], id) <= 1
    <2>1. PeerOf[x] \in Endpoint BY PartTypes
    <2>2. Channel(x, Sync(id)) \in Nat /\ Count(pending[x], Answered(id)) \in Nat
      BY PartTypes
    <2>3. Accepted(PeerOf[x], id) \in Nat /\ Channel(PeerOf[x], Reply(id)) \in Nat
      BY <2>1, PartTypes
    <2>4. Copies(x, id) <= IF id <= syncRequestID[x] THEN 1 ELSE 0 BY DEF OnceInv
    <2>5. Copies(x, id) \in Nat BY <2>2, <2>3 DEF Copies
    <2>6. Copies(x, id) <= 1 BY <2>4, <2>5
    <2> QED BY <2>2, <2>3, <2>5, <2>6 DEF Copies
  <1>2. PeerOf[e] \in Endpoint /\ PeerOf[PeerOf[e]] = e BY PartTypes
  <1>3. Accepted(e, id) <= 1 BY <1>1, <1>2
  <1>4. /\ Count(incoming[e], Sync(id)) \in Nat
        /\ Count(toDispatch[ProcOf[e]], Arrived(e, id)) \in Nat
        /\ Held(stack[ProcOf[e]], Arrived(e, id)) \in Nat /\ Debt(owed[e], id) \in Nat
    BY PartTypes
  <1>5. Held(stack[ProcOf[e]], Arrived(e, id)) <= 1 /\ Debt(owed[e], id) <= 1
    BY <1>3, <1>4 DEF Accepted, Accept
  <1> QED BY <1>1, <1>5

(* The parts are numbers after the step.                                    *)
LEMMA NextTypes ==
    ASSUME Sharp', NEW e \in Endpoint, NEW id \in Nat
    PROVE  /\ Channel(e, Sync(id))' \in Nat /\ Count(pending'[e], Answered(id)) \in Nat
           /\ Accepted(PeerOf[e], id)' \in Nat /\ Channel(PeerOf[e], Reply(id))' \in Nat
           /\ Copies(e, id)' \in Nat
  <1>0. PeerOf[e] \in Endpoint BY TopologyAssumption
  <1>1. ASSUME NEW x \in Endpoint, NEW M PROVE Channel(x, M)' \in Nat
    <2>1. PeerOf[x] \in Endpoint BY TopologyAssumption
    <2>2. outgoing'[x] \in Seq(Message) /\ wire'[PeerOf[x]] \in Seq(Message)
      BY <2>1 DEF Sharp, TypeOK, Message
    <2>3. Count(outgoing'[x], M) \in Nat /\ Count(wire'[PeerOf[x]], M) \in Nat
      BY <2>2, CountType
    <2> QED BY <2>3 DEF Channel, Count, Places
  <1>2. Count(pending'[e], Answered(id)) \in Nat
    <2>1. pending'[e] \in Seq(PendingSyncReply) BY DEF Sharp, TypeOK, PendingSyncReply
    <2> QED BY <2>1, CountType
  <1>3. Accepted(PeerOf[e], id)' \in Nat
    <2> DEFINE x == PeerOf[e]
    <2>1. ProcOf[x] \in Proc BY <1>0, TopologyAssumption
    <2>2. /\ incoming'[x] \in Seq(Message) /\ toDispatch'[ProcOf[x]] \in Seq(Delivery)
          /\ stack'[ProcOf[x]] \in Seq(Frame)
      BY <1>0, <2>1 DEF Sharp, TypeOK, Message, Delivery, Frame
    <2>3. Accepted(x, id)' = Accept(incoming'[x], toDispatch'[ProcOf[x]],
                                    stack'[ProcOf[x]], owed'[x], x, id)
      BY DEF Accepted
    <2>4. /\ Count(incoming'[x], Sync(id)) \in Nat
          /\ Count(toDispatch'[ProcOf[x]], Arrived(x, id)) \in Nat
          /\ Held(stack'[ProcOf[x]], Arrived(x, id)) \in Nat /\ Debt(owed'[x], id) \in Nat
      BY <2>2, CountType, HeldType, DebtType
    <2> QED BY <2>3, <2>4 DEF Accept
  <1>4. /\ Channel(e, Sync(id))' \in Nat /\ Channel(PeerOf[e], Reply(id))' \in Nat
    BY <1>0, <1>1
  <1>5. Copies(e, id)' = Channel(e, Sync(id))' + Accepted(PeerOf[e], id)'
          + Channel(PeerOf[e], Reply(id))' + Count(pending'[e], Answered(id))
    BY DEF Copies
  <1> QED BY <1>2, <1>3, <1>4, <1>5

(* What a step adds to each part, and takes from it.                        *)
LEMMA CopiesStep ==
    ASSUME Sharp, Sharp', NEW e \in Endpoint, NEW id \in Nat,
           NEW i \in Int, NEW j \in Int, NEW k \in Int, NEW l \in Int,
           Channel(e, Sync(id))' <= Channel(e, Sync(id)) + i,
           Accepted(PeerOf[e], id)' <= Accepted(PeerOf[e], id) + j,
           Channel(PeerOf[e], Reply(id))' <= Channel(PeerOf[e], Reply(id)) + k,
           Count(pending'[e], Answered(id)) <= Count(pending[e], Answered(id)) + l
    PROVE  Copies(e, id)' <= Copies(e, id) + (i + j + k + l)
  <1>1. PeerOf[e] \in Endpoint BY PartTypes
  <1>2. /\ Channel(e, Sync(id)) \in Nat /\ Count(pending[e], Answered(id)) \in Nat
        /\ Accepted(PeerOf[e], id) \in Nat /\ Channel(PeerOf[e], Reply(id)) \in Nat
    BY <1>1, PartTypes
  <1>3. /\ Channel(e, Sync(id))' \in Nat /\ Count(pending'[e], Answered(id)) \in Nat
        /\ Accepted(PeerOf[e], id)' \in Nat /\ Channel(PeerOf[e], Reply(id))' \in Nat
    BY NextTypes
  <1>4. Copies(e, id)' = Channel(e, Sync(id))' + Accepted(PeerOf[e], id)'
          + Channel(PeerOf[e], Reply(id))' + Count(pending'[e], Answered(id))
    BY DEF Copies
  <1>5. Copies(e, id) = Channel(e, Sync(id)) + Accepted(PeerOf[e], id)
          + Channel(PeerOf[e], Reply(id)) + Count(pending[e], Answered(id))
    BY DEF Copies
  <1> QED BY <1>2, <1>3, <1>4, <1>5
(* Parts that a step leaves alone.                                          *)
LEMMA SameChannel ==
    ASSUME UNCHANGED <<outgoing, wire>>, NEW e, NEW M
    PROVE  Channel(e, M)' = Channel(e, M)
  BY DEF Channel

LEMMA AcceptedNext ==
    ASSUME NEW e, NEW id
    PROVE  Accepted(e, id)' = Accept(incoming'[e], toDispatch'[ProcOf[e]],
                                     stack'[ProcOf[e]], owed'[e], e, id)
  BY DEF Accepted

LEMMA SameAccepted ==
    ASSUME UNCHANGED <<incoming, toDispatch, stack, owed>>, NEW e, NEW id
    PROVE  Accepted(e, id)' = Accepted(e, id)
  BY DEF Accepted

(* The invariant survives a step that makes no copy.                        *)
LEMMA OnceDown ==
    ASSUME Sharp, OnceInv, Sharp',
           \A e \in Endpoint : \A id \in Nat : Copies(e, id)' <= Copies(e, id),
           \A e \in Endpoint : syncRequestID'[e] >= syncRequestID[e]
    PROVE  OnceInv'
  <1> SUFFICES ASSUME NEW e \in Endpoint, NEW id \in Nat
               PROVE  Copies(e, id)' <= IF id <= syncRequestID'[e] THEN 1 ELSE 0
    BY DEF OnceInv
  <1>1. Copies(e, id) \in Nat BY PartBounds
  <1>2. Copies(e, id) <= IF id <= syncRequestID[e] THEN 1 ELSE 0 BY DEF OnceInv
  <1>3. syncRequestID[e] \in Nat /\ syncRequestID'[e] \in Nat BY DEF Sharp, TypeOK
  <1>4. Copies(e, id)' <= Copies(e, id) /\ syncRequestID'[e] >= syncRequestID[e]
    OBVIOUS
  <1>5. Copies(e, id)' \in Nat BY NextTypes
  <1> QED BY <1>1, <1>2, <1>3, <1>4, <1>5

LEMMA CopiesDown ==
    ASSUME Sharp, Sharp', OnceInv, NEW e \in Endpoint, NEW id \in Nat,
           NEW i \in Int, NEW j \in Int, NEW k \in Int, NEW l \in Int, i + j + k + l = 0,
           Channel(e, Sync(id))' <= Channel(e, Sync(id)) + i,
           Accepted(PeerOf[e], id)' <= Accepted(PeerOf[e], id) + j,
           Channel(PeerOf[e], Reply(id))' <= Channel(PeerOf[e], Reply(id)) + k,
           Count(pending'[e], Answered(id)) <= Count(pending[e], Answered(id)) + l
    PROVE  Copies(e, id)' <= Copies(e, id)
  <1>1. Copies(e, id)' <= Copies(e, id) + (i + j + k + l) BY CopiesStep
  <1>2. Copies(e, id) \in Nat BY PartBounds
  <1> QED BY <1>1, <1>2

(* Which messages are requests, and which replies.                          *)
LEMMA MessageKinds ==
    ASSUME NEW id \in Nat
    PROVE  /\ AsyncMessage \notin Sync(id) /\ AsyncMessage \notin Reply(id)
           /\ \A n \in Nat : /\ SyncMessage(n, n) \in Sync(id) <=> n = id
                             /\ SyncMessage(n, n) \notin Reply(id)
           /\ \A m \in Message : m.kind = "sync" =>
                /\ SyncMessageReply(m) \in Reply(id) <=> m \in Sync(id)
                /\ SyncMessageReply(m) \notin Sync(id)
           /\ \A m \in Message, b \in BOOLEAN :
                /\ [m EXCEPT !.dispatch = b] \in Sync(id) <=> m \in Sync(id)
                /\ [m EXCEPT !.dispatch = b] \in Reply(id) <=> m \in Reply(id)
           /\ \A m \in Message : /\ m.kind # "reply" => m \notin Reply(id)
                                 /\ m.kind = "reply" => m \notin Sync(id)
                                 /\ m \in Reply(id) <=> m.kind = "reply" /\ m.id = id
  BY DEF AsyncMessage, SyncMessage, SyncMessageReply, Message, Sync, Reply

(* sendMessage.                                                             *)
LEMMA ChannelSend ==
    ASSUME Sharp, NEW x \in Endpoint, NEW m \in Message, NEW w \in BOOLEAN,
           SendMessage(x, m, w), UNCHANGED wire, NEW e \in Endpoint, NEW id \in Nat
    PROVE  /\ Channel(e, Sync(id))' <= Channel(e, Sync(id))
                + (IF e = x /\ m \in Sync(id) THEN 1 ELSE 0)
           /\ Channel(e, Reply(id))' <= Channel(e, Reply(id))
                + (IF e = x /\ m \in Reply(id) THEN 1 ELSE 0)
  <1> DEFINE n == [m EXCEPT !.dispatch = w /\ MayMark(x)]
  <1>1. n \in Message BY MessageTypes DEF MayMark
  <1>2. (n \in Sync(id) <=> m \in Sync(id)) /\ (n \in Reply(id) <=> m \in Reply(id))
    BY MessageKinds DEF MayMark
  <1>3. /\ outgoing \in [Endpoint -> Seq(Message)]
        /\ \A M : Channel(e, M) \in Nat
    BY PartTypes DEF Sharp, TypeOK
  <1>4. CASE client[x] /\ e = x
    <2>1. outgoing' = [outgoing EXCEPT ![x] = Append(@, n)] BY <1>4 DEF SendMessage
    <2> HIDE DEF n
    <2>2. outgoing'[e] = Append(outgoing[e], n) /\ outgoing[e] \in Seq(Message)
      BY <1>3, <1>4, <2>1
    <2>3. ASSUME NEW M PROVE Channel(e, M)' = Channel(e, M) + (IF n \in M THEN 1 ELSE 0)
      <3>1. Count(Append(outgoing[e], n), M) = Count(outgoing[e], M) + (IF n \in M THEN 1 ELSE 0)
        BY <1>1, <2>2, CountAppend
      <3>2. Channel(e, M)' = Count(outgoing'[e], M) + Count(wire[PeerOf[e]], M)
        BY DEF Channel
      <3>3. Count(outgoing[e], M) \in Nat /\ Count(wire[PeerOf[e]], M) \in Nat
        <4>1. wire[PeerOf[e]] \in Seq(Message) BY PartTypes DEF Sharp, TypeOK
        <4> QED BY <2>2, <4>1, CountType
      <3> QED BY <2>2, <3>1, <3>2, <3>3 DEF Channel
    <2> QED BY <1>2, <1>3, <1>4, <2>3
  <1>5. CASE ~(client[x] /\ e = x)
    <2>1. outgoing'[e] = outgoing[e] BY <1>3, <1>5 DEF SendMessage
    <2>2. \A M : Channel(e, M)' = Channel(e, M) BY <2>1 DEF Channel
    <2> QED BY <1>3, <2>2
  <1> QED BY <1>4, <1>5

(* sendOutgoingMessages loses messages, and makes none.                     *)
LEMMA ChannelFlow ==
    ASSUME Sharp, NEW x \in Endpoint, SendOutgoingMessages(x), NEW e \in Endpoint, NEW M
    PROVE  Channel(e, M)' <= Channel(e, M)
  <1> DEFINE n == Fits(x)
             a == SubSeq(outgoing[x], 1, n)
             b == IF n = Len(outgoing[x]) THEN << >> ELSE SubSeq(outgoing[x], n + 2, Len(outgoing[x]))
             y == PeerOf[x]
  <1>1. /\ outgoing \in [Endpoint -> Seq(Message)] /\ wire \in [Endpoint -> Seq(Message)]
        /\ y \in Endpoint /\ PeerOf[e] \in Endpoint /\ Channel(e, M) \in Nat
        /\ (PeerOf[e] = y <=> e = x)
    BY TopologyAssumption, PartTypes DEF Sharp, TypeOK
  <1>2. CASE ~connected[x]
    <2>1. UNCHANGED <<wire, outgoing>> BY <1>2 DEF SendOutgoingMessages
    <2> QED BY <1>1, <2>1, SameChannel
  <1>3. CASE connected[x]
    <2>1. /\ wire' = [wire EXCEPT ![y] = wire[y] \o a]
          /\ outgoing' = [outgoing EXCEPT ![x] = b]
      BY <1>1, <1>3 DEF SendOutgoingMessages
    <2>2. n \in 0..Len(outgoing[x])
      <3>1. /\ Len(outgoing[x]) \in Nat /\ Len(wire[PeerOf[x]]) \in Nat
            /\ SocketCapacity \in Nat
        BY <1>1, BoundAssumption
      <3> QED BY <3>1 DEF Fits
    <2> HIDE DEF n
    <2>3. a \in Seq(Message) /\ b \in Seq(Message) BY <1>1, <2>2
    <2>4. Count(a, M) + Count(b, M) <= Count(outgoing[x], M) BY <1>1, <2>2, CountCut
    <2> HIDE DEF a, b, y
    <2>5. CASE e = x
      <3>1. wire'[PeerOf[e]] = wire[y] \o a /\ outgoing'[e] = b /\ PeerOf[e] = y
        BY <1>1, <2>1, <2>5
      <3>2. Count(wire[y] \o a, M) = Count(wire[y], M) + Count(a, M)
        BY <1>1, <2>3, CountConcat
      <3>3. /\ Count(a, M) \in Nat /\ Count(b, M) \in Nat /\ Count(wire[y], M) \in Nat
            /\ Count(outgoing[x], M) \in Nat
        BY <1>1, <2>3, CountType
      <3>4. Channel(e, M)' = Count(b, M) + (Count(wire[y], M) + Count(a, M))
        BY <3>1, <3>2 DEF Channel
      <3>5. Channel(e, M) = Count(outgoing[x], M) + Count(wire[y], M)
        BY <2>5, <3>1 DEF Channel
      <3> QED BY <2>4, <3>3, <3>4, <3>5
    <2>6. CASE e # x
      <3>1. wire'[PeerOf[e]] = wire[PeerOf[e]] /\ outgoing'[e] = outgoing[e]
        BY <1>1, <2>1, <2>6
      <3>2. Channel(e, M)' = Channel(e, M) BY <3>1 DEF Channel
      <3> QED BY <1>1, <3>2
    <2> QED BY <2>5, <2>6
  <1> QED BY <1>2, <1>3

(* A connection that is closed forgets what it has not read.                *)
LEMMA ChannelCut ==
    ASSUME Sharp, NEW x \in Endpoint, PlatformInvalidate(x), UNCHANGED outgoing,
           NEW e \in Endpoint, NEW M
    PROVE  Channel(e, M)' <= Channel(e, M)
  <1>1. /\ wire \in [Endpoint -> Seq(Message)] /\ PeerOf[e] \in Endpoint
        /\ Channel(e, M) \in Nat /\ outgoing[e] \in Seq(Message)
    BY PartTypes DEF Sharp, TypeOK
  <1>2. wire' = [wire EXCEPT ![x] = << >>] BY DEF PlatformInvalidate
  <1>3. CASE PeerOf[e] = x
    <2>1. wire'[PeerOf[e]] = << >> BY <1>1, <1>2, <1>3
    <2>2. Count(wire'[PeerOf[e]], M) = 0 BY <2>1, CountEmpty
    <2>3. Count(wire[PeerOf[e]], M) \in Nat /\ Count(outgoing[e], M) \in Nat
      BY <1>1, CountType
    <2>4. Channel(e, M)' = Count(outgoing[e], M) + Count(wire'[PeerOf[e]], M) BY DEF Channel
    <2> QED BY <2>2, <2>3, <2>4 DEF Channel
  <1>4. CASE PeerOf[e] # x
    <2>1. wire'[PeerOf[e]] = wire[PeerOf[e]] BY <1>1, <1>2, <1>4
    <2>2. Channel(e, M)' = Channel(e, M) BY <2>1 DEF Channel
    <2> QED BY <1>1, <2>2
  <1> QED BY <1>3, <1>4

(* The work queue thread reads the next message.                            *)
LEMMA ChannelRead ==
    ASSUME Sharp, NEW x \in Endpoint, ReadMessage(x), UNCHANGED outgoing,
           NEW e \in Endpoint, NEW M
    PROVE  /\ Head(wire[x]) \in Message
           /\ Channel(e, M)' = Channel(e, M)
                - (IF PeerOf[e] = x /\ Head(wire[x]) \in M THEN 1 ELSE 0)
  <1>1. /\ wire \in [Endpoint -> Seq(Message)] /\ PeerOf[e] \in Endpoint
        /\ Channel(e, M) \in Nat /\ outgoing[e] \in Seq(Message)
    BY PartTypes DEF Sharp, TypeOK
  <1>2. wire' = [wire EXCEPT ![x] = Tail(@)] /\ wire[x] # << >> BY DEF ReadMessage
  <1>3. wire[x] \in Seq(Message) /\ Head(wire[x]) \in Message BY <1>1, <1>2, SeqUpdate
  <1>4. CASE PeerOf[e] = x
    <2>1. wire'[PeerOf[e]] = Tail(wire[x]) BY <1>1, <1>2, <1>4
    <2>2. Count(Tail(wire[x]), M) = Count(wire[x], M) - (IF Head(wire[x]) \in M THEN 1 ELSE 0)
      BY <1>2, <1>3, CountTail
    <2>3. Count(wire[x], M) \in Nat /\ Count(outgoing[e], M) \in Nat BY <1>1, <1>3, CountType
    <2>4. Channel(e, M)' = Count(outgoing[e], M) + Count(Tail(wire[x]), M)
      BY <2>1 DEF Channel
    <2>5. Channel(e, M) = Count(outgoing[e], M) + Count(wire[x], M) BY <1>4 DEF Channel
    <2>6. Channel(e, M)' = Channel(e, M) - (IF Head(wire[x]) \in M THEN 1 ELSE 0)
      BY <2>2, <2>3, <2>4, <2>5
    <2> QED BY <1>3, <1>4, <2>6
  <1>5. CASE PeerOf[e] # x
    <2>1. wire'[PeerOf[e]] = wire[PeerOf[e]] BY <1>1, <1>2, <1>5
    <2>2. Channel(e, M)' = Channel(e, M) BY <2>1 DEF Channel
    <2> QED BY <1>1, <1>3, <1>5, <2>2
  <1> QED BY <1>4, <1>5
LEMMA CopiesLess ==
    ASSUME Sharp, Sharp', OnceInv, NEW e \in Endpoint, NEW id \in Nat,
           Channel(e, Sync(id))' <= Channel(e, Sync(id)),
           Accepted(PeerOf[e], id)' <= Accepted(PeerOf[e], id),
           Channel(PeerOf[e], Reply(id))' <= Channel(PeerOf[e], Reply(id)),
           Count(pending'[e], Answered(id)) <= Count(pending[e], Answered(id))
    PROVE  Copies(e, id)' <= Copies(e, id)
  <1>1. PeerOf[e] \in Endpoint BY PartTypes
  <1>2. /\ Channel(e, Sync(id)) \in Nat /\ Count(pending[e], Answered(id)) \in Nat
        /\ Accepted(PeerOf[e], id) \in Nat /\ Channel(PeerOf[e], Reply(id)) \in Nat
    BY <1>1, PartTypes
  <1>3. /\ Channel(e, Sync(id))' <= Channel(e, Sync(id)) + 0
        /\ Accepted(PeerOf[e], id)' <= Accepted(PeerOf[e], id) + 0
        /\ Channel(PeerOf[e], Reply(id))' <= Channel(PeerOf[e], Reply(id)) + 0
        /\ Count(pending'[e], Answered(id)) <= Count(pending[e], Answered(id)) + 0
    BY <1>2
  <1>4. 0 \in Int /\ 0 + 0 + 0 + 0 = 0 OBVIOUS
  <1> QED BY <1>3, <1>4, CopiesDown

(* Nothing that matters happens.                                            *)
LEMMA OnceQuiet ==
    ASSUME Sharp, Sharp', OnceInv,
           UNCHANGED <<outgoing, wire, incoming, toDispatch, stack, owed, pending>>,
           \A e \in Endpoint : syncRequestID'[e] >= syncRequestID[e]
    PROVE  OnceInv'
  <1> SUFFICES ASSUME NEW e \in Endpoint, NEW id \in Nat
               PROVE  Copies(e, id)' <= Copies(e, id)
    BY OnceDown
  <1>1. PeerOf[e] \in Endpoint BY PartTypes
  <1>2. /\ Channel(e, Sync(id)) \in Nat /\ Count(pending[e], Answered(id)) \in Nat
        /\ Accepted(PeerOf[e], id) \in Nat /\ Channel(PeerOf[e], Reply(id)) \in Nat
    BY <1>1, PartTypes
  <1>3. /\ Channel(e, Sync(id))' = Channel(e, Sync(id))
        /\ Channel(PeerOf[e], Reply(id))' = Channel(PeerOf[e], Reply(id))
        /\ Accepted(PeerOf[e], id)' = Accepted(PeerOf[e], id)
    BY SameChannel, SameAccepted
  <1>4. Count(pending'[e], Answered(id)) = Count(pending[e], Answered(id)) OBVIOUS
  <1> QED BY <1>2, <1>3, <1>4, CopiesLess

(* The idle calls hold nothing.                                             *)
LEMMA AcceptedIdle ==
    ASSUME Sharp, NEW p \in Proc, IdleMove(p), UNCHANGED toDispatch,
           NEW e \in Endpoint, NEW id
    PROVE  Accepted(e, id)' = Accepted(e, id)
  <1> DEFINE D == Arrived(e, id)
             r == ProcOf[e]
  <1>1. /\ \A q \in Proc \ {p} : stack'[q] = stack[q]
        /\ \A M : M \cap Idle = {} => Count(stack'[p], M) = Count(stack[p], M)
        /\ UNCHANGED <<incoming, owed>>
    BY IdleMoves
  <1>2. r \in Proc BY TopologyAssumption
  <1>3. Loaded(D) \cap Idle = {} /\ Overloaded(D) \cap Idle = {} BY IdleCarriesNothing
  <1>4. Held(stack'[r], D) = Held(stack[r], D)
    <2> HIDE DEF D
    <2>1. CASE r = p BY <1>1, <1>3, <2>1 DEF Held
    <2>2. CASE r # p
      <3>1. stack'[r] = stack[r] BY <1>1, <1>2, <2>2
      <3> QED BY <3>1
    <2> QED BY <2>1, <2>2
  <1>5. Accepted(e, id)' = Accept(incoming'[e], toDispatch'[r], stack'[r], owed'[e], e, id)
    BY AcceptedNext
  <1> QED BY <1>1, <1>4, <1>5 DEF Accepted, Accept

(* sendSyncMessage makes the first copy of a new request.                   *)
LEMMA OnceSendSync ==
    ASSUME Sharp, Sharp', OnceInv, NEW x \in Endpoint, SendSync(x)
    PROVE  OnceInv'
  <1> DEFINE n == syncRequestID[x] + 1
             y == [id |-> n, request |-> requests[x] + 1, reply |-> NoReply]
  <1>1. /\ syncRequestID \in [Endpoint -> Nat] /\ pending \in [Endpoint -> Seq(PendingSyncReply)]
        /\ requests[x] = syncRequestID[x] /\ n \in Nat /\ requests[x] + 1 = n
        /\ ProcOf[x] \in Proc /\ x \in EndsOf(ProcOf[x])
    <2>1. /\ syncRequestID \in [Endpoint -> Nat]
          /\ pending \in [Endpoint -> Seq(PendingSyncReply)]
      BY DEF Sharp, TypeOK
    <2>2. requests = syncRequestID BY DEF Sharp, EndTypes
    <2>3. ProcOf[x] \in Proc /\ x \in EndsOf(ProcOf[x]) BY TopologyAssumption DEF EndsOf
    <2> QED BY <2>1, <2>2, <2>3
  <1>2. /\ SendMessage(x, SyncMessage(n, n), TRUE)
        /\ pending' = [pending EXCEPT ![x] = Append(@, y)]
        /\ syncRequestID' = [syncRequestID EXCEPT ![x] = n]
        /\ UNCHANGED <<wire, toDispatch>>
    BY <1>1 DEF SendSync, NextSyncRequestID
  <1>3. y \in PendingSyncReply /\ \A id : y \notin Answered(id)
    BY <1>1 DEF PendingSyncReply, Answered, NoReply
  <1>4. IdleMove(ProcOf[x]) BY <1>1 DEF IdleMove
  <1>5. SyncMessage(n, n) \in Message BY <1>1, MessageTypes
  <1> HIDE DEF n, y
  <1> SUFFICES ASSUME NEW e \in Endpoint, NEW id \in Nat
               PROVE  Copies(e, id)' <= IF id <= syncRequestID'[e] THEN 1 ELSE 0
    BY DEF OnceInv
  <1> DEFINE f == PeerOf[e]
             g == IF e = x /\ id = n THEN 1 ELSE 0
  <1>6. f \in Endpoint BY PartTypes
  <1>7. Accepted(f, id)' = Accepted(f, id) /\ Accepted(f, id) \in Nat
    BY <1>1, <1>2, <1>4, <1>6, AcceptedIdle, PartTypes
  <1>8. Channel(e, Sync(id))' <= Channel(e, Sync(id)) + g
    <2>1. SyncMessage(n, n) \in Sync(id) <=> n = id BY <1>1, MessageKinds
    <2>2. Channel(e, Sync(id))' <= Channel(e, Sync(id))
            + (IF e = x /\ SyncMessage(n, n) \in Sync(id) THEN 1 ELSE 0)
      BY <1>2, <1>5, ChannelSend
    <2> QED BY <2>1, <2>2
  <1>9. Channel(f, Reply(id))' <= Channel(f, Reply(id)) + 0
    <2>1. SyncMessage(n, n) \notin Reply(id) BY <1>1, MessageKinds
    <2>2. Channel(f, Reply(id))' <= Channel(f, Reply(id))
            + (IF f = x /\ SyncMessage(n, n) \in Reply(id) THEN 1 ELSE 0)
      BY <1>2, <1>5, <1>6, ChannelSend
    <2> QED BY <2>1, <2>2
  <1>10. Count(pending'[e], Answered(id)) <= Count(pending[e], Answered(id)) + 0
    <2>1. Count(pending[e], Answered(id)) \in Nat BY PartTypes
    <2>2. CASE e = x
      <3>1. pending'[e] = Append(pending[e], y) /\ pending[e] \in Seq(PendingSyncReply)
        BY <1>1, <1>2, <2>2
      <3>2. Count(Append(pending[e], y), Answered(id))
              = Count(pending[e], Answered(id)) + (IF y \in Answered(id) THEN 1 ELSE 0)
        BY <1>3, <3>1, CountAppend
      <3> QED BY <1>3, <2>1, <3>1, <3>2
    <2>3. CASE e # x
      <3>1. pending'[e] = pending[e] BY <1>1, <1>2, <2>3
      <3> QED BY <2>1, <3>1
    <2> QED BY <2>2, <2>3
  <1>11. Accepted(f, id)' <= Accepted(f, id) + 0 BY <1>7
  <1>12. g \in Int BY DEF g
  <1> HIDE DEF g
  <1>13. Copies(e, id)' <= Copies(e, id) + (g + 0 + 0 + 0)
    BY <1>8, <1>9, <1>10, <1>11, <1>12, CopiesStep
  <1>14. /\ Copies(e, id) \in Nat /\ Copies(e, id)' \in Nat
         /\ Copies(e, id) <= IF id <= syncRequestID[e] THEN 1 ELSE 0
    BY PartBounds, NextTypes DEF OnceInv
  <1>15. CASE e = x
    <2>1. syncRequestID'[e] = n /\ n = syncRequestID[e] + 1 /\ syncRequestID[e] \in Nat
      BY <1>1, <1>2, <1>15 DEF n
    <2> QED BY <1>13, <1>14, <1>15, <2>1 DEF g
  <1>16. CASE e # x
    <2>1. syncRequestID'[e] = syncRequestID[e] /\ syncRequestID[e] \in Nat
      BY <1>1, <1>2, <1>16
    <2> QED BY <1>13, <1>14, <1>16, <2>1 DEF g
  <1> QED BY <1>15, <1>16

(* The client answers a request it noted.                                   *)
LEMMA OnceDelayed ==
    ASSUME Sharp, Sharp', OnceInv, NEW x \in Endpoint, SendDelayedReply(x)
    PROVE  OnceInv'
  <1>1. PICK m \in owed[x] : /\ owed' = [owed EXCEPT ![x] = @ \ {m}]
                             /\ SendMessage(x, SyncMessageReply(m), FALSE)
    BY DEF SendDelayedReply
  <1>2. /\ UNCHANGED <<wire, incoming, toDispatch, stack, pending, syncRequestID>>
    BY DEF SendDelayedReply, loopVars
  <1>3. m \in Message /\ m.kind = "sync" /\ owed \in [Endpoint -> SUBSET Message]
    BY DEF Sharp, TypeOK, EndTypes, Request, Proper
  <1>4. SyncMessageReply(m) \in Message BY <1>3, MessageTypes
  <1>5. \A e \in Endpoint : syncRequestID'[e] >= syncRequestID[e]
    BY <1>2 DEF Sharp, TypeOK
  <1> SUFFICES ASSUME NEW e \in Endpoint, NEW id \in Nat
               PROVE  Copies(e, id)' <= Copies(e, id)
    BY <1>5, OnceDown
  <1> DEFINE f == PeerOf[e]
             g == IF f = x /\ m \in Sync(id) THEN 1 ELSE 0
  <1>6. f \in Endpoint /\ g \in Int /\ -g \in Int /\ 0 + (-g) + g + 0 = 0 BY PartTypes
  <1>7. Channel(e, Sync(id))' <= Channel(e, Sync(id)) + 0
    <2>1. SyncMessageReply(m) \notin Sync(id) BY <1>3, MessageKinds
    <2>2. Channel(e, Sync(id))' <= Channel(e, Sync(id))
            + (IF e = x /\ SyncMessageReply(m) \in Sync(id) THEN 1 ELSE 0)
      BY <1>1, <1>2, <1>4, ChannelSend
    <2> QED BY <2>1, <2>2
  <1>8. Channel(f, Reply(id))' <= Channel(f, Reply(id)) + g
    <2>1. SyncMessageReply(m) \in Reply(id) <=> m \in Sync(id) BY <1>3, MessageKinds
    <2>2. Channel(f, Reply(id))' <= Channel(f, Reply(id))
            + (IF f = x /\ SyncMessageReply(m) \in Reply(id) THEN 1 ELSE 0)
      BY <1>1, <1>2, <1>4, <1>6, ChannelSend
    <2> QED BY <2>1, <2>2
  <1>9. Accepted(f, id)' <= Accepted(f, id) + (-g)
    <2>1. /\ Count(incoming[f], Sync(id)) \in Nat
          /\ Count(toDispatch[ProcOf[f]], Arrived(f, id)) \in Nat
          /\ Held(stack[ProcOf[f]], Arrived(f, id)) \in Nat /\ Debt(owed[f], id) \in Nat
      BY <1>6, PartTypes
    <2>2. Debt(owed'[f], id) = Debt(owed[f], id) - g
      <3>1. CASE f = x
        <4>1. Debt(owed[x], id) <= 1 BY PartBounds
        <4>2. Debt(owed[x] \ {m}, id) = Debt(owed[x], id) - (IF m \in Sync(id) THEN 1 ELSE 0)
          BY <4>1, DebtRemove
        <4>3. owed'[f] = owed[x] \ {m} BY <1>1, <1>3, <3>1
        <4> QED BY <3>1, <4>2, <4>3
      <3>2. CASE f # x
        <4>1. owed'[f] = owed[f] BY <1>1, <1>3, <1>6, <3>2
        <4> QED BY <2>1, <3>2, <4>1
      <3> QED BY <3>1, <3>2
    <2>3. Accepted(f, id)' = Accept(incoming[f], toDispatch[ProcOf[f]], stack[ProcOf[f]],
                                    owed'[f], f, id)
      BY <1>2, AcceptedNext
    <2> HIDE DEF g
    <2> QED BY <1>6, <2>1, <2>2, <2>3 DEF Accepted, Accept
  <1>10. Count(pending'[e], Answered(id)) <= Count(pending[e], Answered(id)) + 0
    BY <1>2, PartTypes
  <1> HIDE DEF g
  <1> QED BY <1>6, <1>7, <1>8, <1>9, <1>10, CopiesDown
(* A step that only moves requests about within their process.              *)
LEMMA OnceAccepted ==
    ASSUME Sharp, Sharp', OnceInv, UNCHANGED <<outgoing, wire, pending, syncRequestID>>,
           \A e \in Endpoint : \A id \in Nat : Accepted(e, id)' <= Accepted(e, id)
    PROVE  OnceInv'
  <1>1. \A e \in Endpoint : syncRequestID'[e] >= syncRequestID[e] BY DEF Sharp, TypeOK
  <1> SUFFICES ASSUME NEW e \in Endpoint, NEW id \in Nat
               PROVE  Copies(e, id)' <= Copies(e, id)
    BY <1>1, OnceDown
  <1>2. PeerOf[e] \in Endpoint BY PartTypes
  <1>3. /\ Channel(e, Sync(id)) \in Nat /\ Count(pending[e], Answered(id)) \in Nat
        /\ Channel(PeerOf[e], Reply(id)) \in Nat
    BY <1>2, PartTypes
  <1>4. /\ Channel(e, Sync(id))' = Channel(e, Sync(id))
        /\ Channel(PeerOf[e], Reply(id))' = Channel(PeerOf[e], Reply(id))
    BY SameChannel
  <1>5. Count(pending'[e], Answered(id)) = Count(pending[e], Answered(id)) OBVIOUS
  <1>6. Accepted(PeerOf[e], id)' <= Accepted(PeerOf[e], id) BY <1>2
  <1> QED BY <1>3, <1>4, <1>5, <1>6, CopiesLess

(* An asynchronous message is neither a request nor a reply.                *)
LEMMA OnceSendAsync ==
    ASSUME Sharp, Sharp', OnceInv, NEW x \in Endpoint, NEW w \in BOOLEAN, SendAsync(x, w)
    PROVE  OnceInv'
  <1>1. /\ SendMessage(x, AsyncMessage, w) /\ AsyncMessage \in Message
        /\ UNCHANGED <<wire, incoming, toDispatch, stack, owed, pending, syncRequestID>>
    BY MessageTypes DEF SendAsync, loopVars
  <1>2. \A e \in Endpoint : syncRequestID'[e] >= syncRequestID[e] BY <1>1 DEF Sharp, TypeOK
  <1> SUFFICES ASSUME NEW e \in Endpoint, NEW id \in Nat
               PROVE  Copies(e, id)' <= Copies(e, id)
    BY <1>2, OnceDown
  <1>3. PeerOf[e] \in Endpoint BY PartTypes
  <1>4. AsyncMessage \notin Sync(id) /\ AsyncMessage \notin Reply(id) BY MessageKinds
  <1>5. /\ Channel(e, Sync(id)) \in Nat /\ Count(pending[e], Answered(id)) \in Nat
        /\ Accepted(PeerOf[e], id) \in Nat /\ Channel(PeerOf[e], Reply(id)) \in Nat
    BY <1>3, PartTypes
  <1>6. Channel(e, Sync(id))' <= Channel(e, Sync(id))
    <2>1. Channel(e, Sync(id))' <= Channel(e, Sync(id))
            + (IF e = x /\ AsyncMessage \in Sync(id) THEN 1 ELSE 0)
      BY <1>1, ChannelSend
    <2> QED BY <1>4, <1>5, <2>1
  <1>7. Channel(PeerOf[e], Reply(id))' <= Channel(PeerOf[e], Reply(id))
    <2>1. Channel(PeerOf[e], Reply(id))' <= Channel(PeerOf[e], Reply(id))
            + (IF PeerOf[e] = x /\ AsyncMessage \in Reply(id) THEN 1 ELSE 0)
      BY <1>1, <1>3, ChannelSend
    <2> QED BY <1>4, <1>5, <2>1
  <1>8. Accepted(PeerOf[e], id)' = Accepted(PeerOf[e], id) BY <1>1, SameAccepted
  <1>9. Count(pending'[e], Answered(id)) = Count(pending[e], Answered(id)) BY <1>1
  <1> QED BY <1>5, <1>6, <1>7, <1>8, <1>9, CopiesLess

(* sendSyncMessage pops the last pending reply.                             *)
LEMMA CountButLast ==
    ASSUME NEW T, NEW s \in Seq(T), NEW M
    PROVE  Count(AllButLast(s), M) <= Count(s, M)
  <1> DEFINE n == Len(s) - 1
             b == IF n = Len(s) THEN << >> ELSE SubSeq(s, n + 2, Len(s))
  <1>1. Len(s) \in Nat /\ Count(s, M) \in Nat BY CountType
  <1>2. CASE Len(s) = 0
    <2>1. AllButLast(s) = << >> BY <1>2 DEF AllButLast
    <2> QED BY <1>1, <2>1, CountEmpty
  <1>3. CASE Len(s) # 0
    <2>1. n \in 0..Len(s) BY <1>1, <1>3
    <2>2. Count(SubSeq(s, 1, n), M) + Count(b, M) <= Count(s, M) BY <2>1, CountCut
    <2>3. b \in Seq(T) /\ SubSeq(s, 1, n) \in Seq(T) BY <1>1, <1>3
    <2> HIDE DEF b
    <2>4. Count(b, M) \in Nat /\ Count(SubSeq(s, 1, n), M) \in Nat BY <2>3, CountType
    <2> QED BY <1>1, <2>2, <2>4 DEF AllButLast
  <1> QED BY <1>2, <1>3

(* The steps between idle calls.                                            *)
LEMMA OnceIdle ==
    ASSUME Sharp, Sharp', OnceInv, NEW p \in Proc, IdleMove(p),
           UNCHANGED <<toDispatch, outgoing, syncRequestID>>,
           \A e \in Endpoint : pending'[e] = pending[e] \/ pending'[e] = AllButLast(pending[e])
    PROVE  OnceInv'
  <1>1. \A e \in Endpoint : syncRequestID'[e] >= syncRequestID[e] BY DEF Sharp, TypeOK
  <1> SUFFICES ASSUME NEW e \in Endpoint, NEW id \in Nat
               PROVE  Copies(e, id)' <= Copies(e, id)
    BY <1>1, OnceDown
  <1>2. PeerOf[e] \in Endpoint BY PartTypes
  <1>3. UNCHANGED wire BY IdleMoves
  <1>4. /\ Channel(e, Sync(id)) \in Nat /\ Count(pending[e], Answered(id)) \in Nat
        /\ Accepted(PeerOf[e], id) \in Nat /\ Channel(PeerOf[e], Reply(id)) \in Nat
    BY <1>2, PartTypes
  <1>5. /\ Channel(e, Sync(id))' = Channel(e, Sync(id))
        /\ Channel(PeerOf[e], Reply(id))' = Channel(PeerOf[e], Reply(id))
    BY <1>3, SameChannel
  <1>6. Accepted(PeerOf[e], id)' = Accepted(PeerOf[e], id) BY <1>2, AcceptedIdle
  <1>7. Count(pending'[e], Answered(id)) <= Count(pending[e], Answered(id))
    <2>1. pending[e] \in Seq(PendingSyncReply) BY DEF Sharp, TypeOK
    <2>2. Count(AllButLast(pending[e]), Answered(id)) <= Count(pending[e], Answered(id))
      BY <2>1, CountButLast
    <2>3. pending'[e] = pending[e] \/ pending'[e] = AllButLast(pending[e]) OBVIOUS
    <2>4. CASE pending'[e] = pending[e] BY <1>4, <2>4
    <2>5. CASE pending'[e] = AllButLast(pending[e]) BY <2>2, <2>5
    <2> QED BY <2>3, <2>4, <2>5
  <1> QED BY <1>4, <1>5, <1>6, <1>7, CopiesLess
(* dispatchMessage hands a request to a handler, which keeps it or notes    *)
(* it as owed, or drops it.                                                 *)
LEMMA DispatchHeld ==
    ASSUME Sharp, NEW p \in Proc, NEW d \in HomeDelivery(p), NEW rest \in Seq(Frame),
           DispatchMessage(p, d, rest), NEW e \in Endpoint, NEW id \in Nat
    PROVE  /\ ProcOf[e] = p =>
                Held(stack'[p], Arrived(e, id)) + Debt(owed'[e], id)
                  <= Held(rest, Arrived(e, id)) + Debt(owed[e], id)
                       + (IF d \in Arrived(e, id) THEN 1 ELSE 0)
           /\ ProcOf[e] # p => stack'[ProcOf[e]] = stack[ProcOf[e]] /\ owed'[e] = owed[e]
  <1> DEFINE D == Arrived(e, id)
  <1>1. /\ stack \in [Proc -> Seq(Frame)] /\ owed \in [Endpoint -> SUBSET Message]
        /\ d \in Delivery /\ d.e \in EndsOf(p) /\ d.e \in Endpoint /\ d.m \in Message
        /\ ProcOf[e] \in Proc /\ ProcOf[d.e] = p
    BY HomeSubset, TopologyAssumption DEF Sharp, TypeOK, HomeDelivery, Delivery, EndsOf
  <1>2. d \in D <=> d.e = e /\ d.m \in Sync(id) BY <1>1 DEF Arrived
  <1>3. Held(rest, D) \in Nat /\ Debt(owed[e], id) \in Nat /\ Debt(owed'[e], id) \in Nat
    BY HeldType, DebtType
  <1>4. CASE client[d.e]
    <2>1. PICK x \in Encoder(d) :
            /\ stack' = [stack EXCEPT ![p] = <<HandlerFrame(d, x)>> \o rest]
            /\ owed' = [owed EXCEPT ![d.e] =
                  IF d.m.kind = "sync" /\ ~x THEN @ \cup {d.m} ELSE @]
      BY <1>4 DEF DispatchMessage
    <2>2. x \in BOOLEAN /\ (x => d.m.kind = "sync") BY DEF Encoder
    <2> DEFINE h == HandlerFrame(d, x)
    <2>3. h \in Frame /\ h.fn = "dispatchMessage" /\ h.d = d /\ h.encoder = x
      BY <1>1, <2>2, FrameTypes DEF HandlerFrame
    <2>4. Load(h, D) = IF x /\ d \in D THEN 1 ELSE 0 BY <2>3, LoadType
    <2> HIDE DEF h, D
    <2>5. stack'[p] = <<h>> \o rest /\ \A r \in Proc \ {p} : stack'[r] = stack[r]
      BY <1>1, <2>1 DEF h
    <2>6. Held(<<h>> \o rest, D) <= Held(rest, D) + Load(h, D) BY <2>3, HeldPush
    <2>7. <<h>> \o rest \in Seq(Frame) BY <2>3, PushType
    <2>8. Held(<<h>> \o rest, D) \in Nat BY <2>7, HeldType
    <2>9. e # d.e => owed'[e] = owed[e] BY <1>1, <2>1
    <2>10. Debt(owed'[e], id) <= Debt(owed[e], id) + (IF ~x /\ d \in D THEN 1 ELSE 0)
      <3>1. CASE e = d.e /\ d.m.kind = "sync" /\ ~x
        <4>1. owed'[e] = owed[e] \cup {d.m} BY <1>1, <2>1, <3>1
        <4>2. Debt(owed[e] \cup {d.m}, id)
                <= Debt(owed[e], id) + (IF d.m \in Sync(id) THEN 1 ELSE 0)
          BY DebtAdd
        <4> QED BY <1>2, <3>1, <4>1, <4>2
      <3>2. CASE ~(e = d.e /\ d.m.kind = "sync" /\ ~x)
        <4>1. owed'[e] = owed[e] BY <1>1, <2>1, <2>9, <3>2
        <4> QED BY <1>3, <4>1
      <3> QED BY <3>1, <3>2
    <2>11. Held(stack'[p], D) + Debt(owed'[e], id)
             <= Held(rest, D) + Debt(owed[e], id) + (IF d \in D THEN 1 ELSE 0)
      <3>1. CASE x
        <4>1. Load(h, D) = IF d \in D THEN 1 ELSE 0 BY <2>4, <3>1
        <4>2. Debt(owed'[e], id) <= Debt(owed[e], id) BY <1>3, <2>10, <3>1
        <4> QED BY <1>3, <2>5, <2>6, <2>8, <4>1, <4>2
      <3>2. CASE ~x
        <4>1. Load(h, D) = 0 BY <2>4, <3>2
        <4>2. Debt(owed'[e], id) <= Debt(owed[e], id) + (IF d \in D THEN 1 ELSE 0)
          BY <2>10, <3>2
        <4> QED BY <1>3, <2>5, <2>6, <2>8, <4>1, <4>2
      <3> QED BY <3>1, <3>2
    <2>12. ProcOf[e] # p => stack'[ProcOf[e]] = stack[ProcOf[e]] /\ owed'[e] = owed[e]
      BY <1>1, <2>5, <2>9
    <2> QED BY <2>11, <2>12 DEF D
  <1>5. CASE ~client[d.e]
    <2>1. stack' = [stack EXCEPT ![p] = rest] /\ UNCHANGED owed BY <1>5 DEF DispatchMessage
    <2>2. stack'[p] = rest /\ \A r \in Proc \ {p} : stack'[r] = stack[r] BY <1>1, <2>1
    <2> HIDE DEF D
    <2>3. Held(stack'[p], D) + Debt(owed'[e], id)
            <= Held(rest, D) + Debt(owed[e], id) + (IF d \in D THEN 1 ELSE 0)
      BY <1>3, <2>1, <2>2
    <2> QED BY <1>1, <2>1, <2>2, <2>3 DEF D
  <1> QED BY <1>4, <1>5
(* Connection::dispatchMessages: from the queue to a handler.               *)
LEMMA OnceDispatchMessages ==
    ASSUME Sharp, Sharp', OnceInv, NEW p \in Proc, DispatchMessages(p)
    PROVE  OnceInv'
  <1> DEFINE s == stack[p]
             x == Head(s).e
             d == [e |-> x, m |-> Head(incoming[x])]
  <1>1. s \in Seq(HomeFrame(p)) /\ s \in Seq(Frame) BY DEF Sharp, TypeOK, HomeTypes
  <1>2. s # << >> /\ Head(s).fn = "dispatchMessages" BY DEF DispatchMessages, Running
  <1>3. Head(s) \in HomeFrame(p) BY <1>1, <1>2, HeadTailType
  <1>4. x \in EndsOf(p) /\ x \in Endpoint /\ ProcOf[x] = p
    BY <1>2, <1>3, HomeFields DEF EndsOf
  <1>5. UNCHANGED <<outgoing, wire, pending, syncRequestID, toDispatch>>
    BY DEF DispatchMessages
  <1>6. CASE UNCHANGED <<incoming, marked, owed>> /\ stack' = [stack EXCEPT ![p] = Tail(@)]
    <2>1. IdleMove(p) BY <1>6 DEF IdleMove
    <2> QED BY <1>5, <2>1, OnceIdle
  <1>7. CASE /\ incoming[x] # << >>
             /\ incoming' = [incoming EXCEPT ![x] = Tail(@)]
             /\ DispatchMessage(p, d, s)
    <2>1. incoming \in [Endpoint -> Seq(Request)] /\ incoming \in [Endpoint -> Seq(Message)]
      BY DEF Sharp, TypeOK, EndTypes
    <2>2. Head(incoming[x]) \in Request /\ Head(incoming[x]) \in Message
      BY <1>4, <1>7, <2>1, SeqUpdate
    <2>3. d \in HomeDelivery(p) /\ d \in Delivery
      BY <1>4, <2>2 DEF HomeDelivery, Delivery
    <2>4. d.e = x /\ d.m = Head(incoming[x]) OBVIOUS
    <2> HIDE DEF s, x, d
    <2> SUFFICES ASSUME NEW e \in Endpoint, NEW id \in Nat
                 PROVE  Accepted(e, id)' <= Accepted(e, id)
      BY <1>5, OnceAccepted
    <2> DEFINE D == Arrived(e, id)
    <2>5. d \in D <=> e = x /\ Head(incoming[x]) \in Sync(id) BY <2>3, <2>4 DEF Arrived
    <2> HIDE DEF D
    <2>6. /\ ProcOf[e] = p =>
               Held(stack'[p], D) + Debt(owed'[e], id)
                 <= Held(s, D) + Debt(owed[e], id) + (IF d \in D THEN 1 ELSE 0)
          /\ ProcOf[e] # p => stack'[ProcOf[e]] = stack[ProcOf[e]] /\ owed'[e] = owed[e]
      BY <1>1, <1>7, <2>3, DispatchHeld DEF D
    <2>7. /\ Count(incoming[e], Sync(id)) \in Nat /\ Count(toDispatch[ProcOf[e]], D) \in Nat
          /\ Held(stack[ProcOf[e]], D) \in Nat /\ Debt(owed[e], id) \in Nat
          /\ Accepted(e, id) \in Nat
      BY PartTypes DEF D
    <2>8. Accepted(e, id)' = Count(incoming'[e], Sync(id)) + Count(toDispatch[ProcOf[e]], D)
            + Held(stack'[ProcOf[e]], D) + Debt(owed'[e], id)
      BY <1>5, AcceptedNext DEF Accept, D
    <2>9. Accepted(e, id) = Count(incoming[e], Sync(id)) + Count(toDispatch[ProcOf[e]], D)
            + Held(stack[ProcOf[e]], D) + Debt(owed[e], id)
      BY DEF Accepted, Accept, D
    <2>10. Count(incoming'[e], Sync(id))
             = Count(incoming[e], Sync(id)) - (IF d \in D THEN 1 ELSE 0)
      <3>1. CASE e = x
        <4>1. incoming'[e] = Tail(incoming[x]) /\ incoming[x] \in Seq(Message)
          BY <1>4, <1>7, <2>1, <3>1
        <4>2. Count(Tail(incoming[x]), Sync(id)) = Count(incoming[x], Sync(id))
                - (IF Head(incoming[x]) \in Sync(id) THEN 1 ELSE 0)
          BY <1>7, <4>1, CountTail
        <4> QED BY <2>5, <3>1, <4>1, <4>2
      <3>2. CASE e # x
        <4>1. incoming'[e] = incoming[e] BY <1>4, <1>7, <2>1, <3>2
        <4> QED BY <2>5, <2>7, <3>2, <4>1
      <3> QED BY <3>1, <3>2
    <2>11. CASE ProcOf[e] = p
      <3>1. stack[ProcOf[e]] = s /\ stack'[ProcOf[e]] = stack'[p] BY <2>11 DEF s
      <3>2. Held(stack'[p], D) \in Nat /\ Debt(owed'[e], id) \in Nat
        <4>1. stack'[p] \in Seq(Frame) BY DEF Sharp, TypeOK, Frame, Delivery, Message
        <4> QED BY <4>1, HeldType, DebtType
      <3> QED BY <2>6, <2>7, <2>8, <2>9, <2>10, <2>11, <3>1, <3>2
    <2>12. CASE ProcOf[e] # p
      <3>1. e # x BY <1>4, <2>12
      <3>2. Count(incoming'[e], Sync(id)) = Count(incoming[e], Sync(id)) BY <2>5, <2>7, <2>10, <3>1
      <3> QED BY <2>6, <2>7, <2>8, <2>9, <2>12, <3>2
    <2> QED BY <2>11, <2>12
  <1> QED BY <1>6, <1>7 DEF DispatchMessages

(* SyncMessageState::dispatchMessages: the stored requests become a batch.  *)
LEMMA OnceSwap ==
    ASSUME Sharp, Sharp', OnceInv, NEW p \in Proc, SwapMessages(p)
    PROVE  OnceInv'
  <1> DEFINE s == stack[p]
             b == toDispatch[p]
             t == IF b = << >> THEN Tail(s) ELSE <<BatchFrame(b)>> \o Tail(s)
  <1>1. /\ s \in Seq(Frame) /\ b \in Seq(Delivery) /\ stack \in [Proc -> Seq(Frame)]
        /\ toDispatch \in [Proc -> Seq(Delivery)]
    BY DEF Sharp, TypeOK
  <1>2. s # << >> /\ Head(s).fn = "swap" BY DEF SwapMessages, Running
  <1>3. Head(s) \in Frame /\ Tail(s) \in Seq(Frame) BY <1>1, <1>2, HeadTailType
  <1>4. Head(s) \in Idle BY <1>2, <1>3 DEF Idle
  <1>5. /\ toDispatch' = [toDispatch EXCEPT ![p] = << >>]
        /\ stack' = [stack EXCEPT ![p] = t]
        /\ UNCHANGED <<outgoing, wire, pending, syncRequestID, incoming, owed>>
    BY DEF SwapMessages, endVars
  <1>6. b # << >> => /\ BatchFrame(b) \in Frame /\ BatchFrame(b).fn = "batch"
                     /\ BatchFrame(b).batch = b
    BY <1>1, FrameTypes DEF BatchFrame
  <1> SUFFICES ASSUME NEW e \in Endpoint, NEW id \in Nat
               PROVE  Accepted(e, id)' <= Accepted(e, id)
    BY <1>5, OnceAccepted
  <1> DEFINE D == Arrived(e, id)
  <1> HIDE DEF s, b, D
  <1>7. Held(t, D) <= Held(s, D) + Count(b, D)
    <2>1. Loaded(D) \cap Idle = {} /\ Overloaded(D) \cap Idle = {} BY IdleCarriesNothing
    <2>2. Held(Tail(s), D) = Held(s, D) BY <1>1, <1>2, <1>4, <2>1, IdleTail DEF Held
    <2>3. Held(s, D) \in Nat /\ Count(b, D) \in Nat BY <1>1, HeldType, CountType
    <2>4. CASE b = << >> BY <2>2, <2>3, <2>4
    <2>5. CASE b # << >>
      <3>1. Load(BatchFrame(b), D) = Count(b, D) BY <1>6, <2>5, LoadType
      <3>2. Held(<<BatchFrame(b)>> \o Tail(s), D) <= Held(Tail(s), D) + Load(BatchFrame(b), D)
        BY <1>3, <1>6, <2>5, HeldPush
      <3> QED BY <2>2, <2>5, <3>1, <3>2
    <2> QED BY <2>4, <2>5
  <1> HIDE DEF t
  <1>8. /\ stack'[p] = t /\ toDispatch'[p] = << >>
        /\ \A r \in Proc \ {p} : stack'[r] = stack[r] /\ toDispatch'[r] = toDispatch[r]
    BY <1>1, <1>5
  <1>9. /\ Count(incoming[e], Sync(id)) \in Nat /\ Count(toDispatch[ProcOf[e]], D) \in Nat
        /\ Held(stack[ProcOf[e]], D) \in Nat /\ Debt(owed[e], id) \in Nat
    BY PartTypes DEF D
  <1>10. Accepted(e, id)' = Count(incoming[e], Sync(id)) + Count(toDispatch'[ProcOf[e]], D)
          + Held(stack'[ProcOf[e]], D) + Debt(owed[e], id)
    BY <1>5, AcceptedNext DEF Accept, D
  <1>11. Accepted(e, id) = Count(incoming[e], Sync(id)) + Count(toDispatch[ProcOf[e]], D)
          + Held(stack[ProcOf[e]], D) + Debt(owed[e], id)
    BY DEF Accepted, Accept, D
  <1>12. CASE ProcOf[e] = p
    <2>1. stack[ProcOf[e]] = s /\ toDispatch[ProcOf[e]] = b BY <1>12 DEF s, b
    <2>2. stack'[ProcOf[e]] = t /\ Count(toDispatch'[ProcOf[e]], D) = 0
      BY <1>8, <1>12, CountEmpty
    <2>3. Held(t, D) \in Nat
      <3>1. stack'[p] \in Seq(Frame) BY DEF Sharp, TypeOK, Frame, Delivery, Message
      <3> QED BY <1>8, <3>1, HeldType
    <2> QED BY <1>7, <1>9, <1>10, <1>11, <2>1, <2>2, <2>3
  <1>13. CASE ProcOf[e] # p
    <2>1. ProcOf[e] \in Proc BY TopologyAssumption
    <2>2. stack'[ProcOf[e]] = stack[ProcOf[e]] /\ toDispatch'[ProcOf[e]] = toDispatch[ProcOf[e]]
      BY <1>8, <1>13, <2>1
    <2> QED BY <1>9, <1>10, <1>11, <2>2
  <1> QED BY <1>12, <1>13

(* ... and are dispatched from there.                                       *)
LEMMA OnceBatch ==
    ASSUME Sharp, Sharp', OnceInv, NEW p \in Proc, DispatchBatch(p)
    PROVE  OnceInv'
  <1> DEFINE s == stack[p]
             b == Head(s).batch
             d == Head(b)
             rest == IF Len(b) = 1 THEN Tail(s) ELSE <<BatchFrame(Tail(b))>> \o Tail(s)
  <1>1. s \in Seq(HomeFrame(p)) /\ s \in Seq(Frame) BY DEF Sharp, TypeOK, HomeTypes
  <1>2. s # << >> /\ Head(s).fn = "batch" BY DEF DispatchBatch, Running
  <1>3. Head(s) \in HomeFrame(p) /\ Head(s) \in Frame /\ Tail(s) \in Seq(Frame)
    BY <1>1, <1>2, HeadTailType
  <1>4. b \in Seq(HomeDelivery(p)) /\ b # << >> /\ b \in Seq(Delivery)
    BY <1>2, <1>3, HomeFields, FrameFields
  <1>5. /\ d \in HomeDelivery(p) /\ Tail(b) \in Seq(Delivery)
        /\ Len(b) # 1 => Tail(b) # << >>
    BY <1>4, HeadTailType
  <1>6. Len(b) # 1 => /\ BatchFrame(Tail(b)) \in Frame /\ BatchFrame(Tail(b)).fn = "batch"
                      /\ BatchFrame(Tail(b)).batch = Tail(b)
    BY <1>5, FrameTypes DEF BatchFrame
  <1>7. rest \in Seq(Frame) BY <1>3, <1>6, PushType
  <1>8. /\ DispatchMessage(p, d, rest)
        /\ UNCHANGED <<outgoing, wire, pending, syncRequestID, incoming, toDispatch>>
    BY DEF DispatchBatch
  <1>9. \A D : Load(Head(s), D) = Count(b, D) BY <1>2, <1>3, LoadType
  <1> SUFFICES ASSUME NEW e \in Endpoint, NEW id \in Nat
               PROVE  Accepted(e, id)' <= Accepted(e, id)
    BY <1>8, OnceAccepted
  <1> DEFINE D == Arrived(e, id)
  <1>10. ProcOf[e] = p => Held(s, D) <= 1 BY PartBounds
  <1> HIDE DEF s, b, d, D
  <1>11. ASSUME Held(s, D) <= 1
         PROVE  Held(rest, D) + (IF d \in D THEN 1 ELSE 0) <= Held(s, D)
    <2>1. Held(Tail(s), D) = Held(s, D) - Count(b, D) BY <1>1, <1>2, <1>9, <1>11, HeldTail
    <2>2. Count(Tail(b), D) = Count(b, D) - (IF d \in D THEN 1 ELSE 0)
      BY <1>4, CountTail DEF d
    <2>3. /\ Held(s, D) \in Nat /\ Count(b, D) \in Nat /\ Count(Tail(b), D) \in Nat
          /\ Held(rest, D) \in Nat /\ Held(Tail(s), D) \in Nat
      BY <1>1, <1>3, <1>4, <1>5, <1>7, HeldType, CountType
    <2>4. CASE Len(b) = 1
      <3>1. Held(rest, D) = Held(Tail(s), D) BY <2>4
      <3> HIDE DEF rest
      <3> QED BY <2>1, <2>2, <2>3, <3>1
    <2>5. CASE Len(b) # 1
      <3>1. Load(BatchFrame(Tail(b)), D) = Count(Tail(b), D)
        <4> DEFINE c == BatchFrame(Tail(b))
        <4>1. c \in Frame /\ c.fn = "batch" /\ c.batch = Tail(b) BY <1>6, <2>5
        <4> HIDE DEF c
        <4>2. Load(c, D) = Count(c.batch, D) BY <4>1, LoadType
        <4> QED BY <4>1, <4>2 DEF c
      <3>2. Held(<<BatchFrame(Tail(b))>> \o Tail(s), D)
              <= Held(Tail(s), D) + Load(BatchFrame(Tail(b)), D)
        BY <1>3, <1>6, <2>5, HeldPush
      <3>3. Held(rest, D) <= Held(Tail(s), D) + Count(Tail(b), D) BY <2>5, <3>1, <3>2
      <3> HIDE DEF rest
      <3> QED BY <2>1, <2>2, <2>3, <3>3
    <2> QED BY <2>4, <2>5
  <1> HIDE DEF rest
  <1>12. /\ ProcOf[e] = p =>
              Held(stack'[p], D) + Debt(owed'[e], id)
                <= Held(rest, D) + Debt(owed[e], id) + (IF d \in D THEN 1 ELSE 0)
         /\ ProcOf[e] # p => stack'[ProcOf[e]] = stack[ProcOf[e]] /\ owed'[e] = owed[e]
    BY <1>5, <1>7, <1>8, DispatchHeld DEF D
  <1>13. /\ Count(incoming[e], Sync(id)) \in Nat /\ Count(toDispatch[ProcOf[e]], D) \in Nat
         /\ Held(stack[ProcOf[e]], D) \in Nat /\ Debt(owed[e], id) \in Nat
    BY PartTypes DEF D
  <1>14. Accepted(e, id)' = Count(incoming[e], Sync(id)) + Count(toDispatch[ProcOf[e]], D)
          + Held(stack'[ProcOf[e]], D) + Debt(owed'[e], id)
    BY <1>8, AcceptedNext DEF Accept, D
  <1>15. Accepted(e, id) = Count(incoming[e], Sync(id)) + Count(toDispatch[ProcOf[e]], D)
          + Held(stack[ProcOf[e]], D) + Debt(owed[e], id)
    BY DEF Accepted, Accept, D
  <1>16. CASE ProcOf[e] = p
    <2>1. stack[ProcOf[e]] = s /\ stack'[ProcOf[e]] = stack'[p] BY <1>16 DEF s
    <2>2. Held(stack'[p], D) \in Nat /\ Debt(owed'[e], id) \in Nat /\ Held(rest, D) \in Nat
      <3>1. stack'[p] \in Seq(Frame) BY DEF Sharp, TypeOK, Frame, Delivery, Message
      <3> QED BY <1>7, <3>1, HeldType, DebtType
    <2> QED BY <1>10, <1>11, <1>12, <1>13, <1>14, <1>15, <1>16, <2>1, <2>2
  <1>17. CASE ProcOf[e] # p BY <1>12, <1>13, <1>14, <1>15, <1>17
  <1> QED BY <1>16, <1>17
(* A handler returns: the request it held becomes a reply.                  *)
LEMMA OnceReturn ==
    ASSUME Sharp, Sharp', OnceInv, NEW p \in Proc, HandlerReturns(p)
    PROVE  OnceInv'
  <1> DEFINE s == stack[p]
             h == Head(s)
             x == h.d.e
             m == h.d.m
  <1>1. /\ s \in Seq(HomeFrame(p)) /\ s \in Seq(Frame) /\ stack \in [Proc -> Seq(Frame)]
    BY DEF Sharp, TypeOK, HomeTypes
  <1>2. s # << >> /\ h.fn = "dispatchMessage" BY DEF HandlerReturns, Running
  <1>3. h \in HomeFrame(p) /\ h \in Frame BY <1>1, <1>2, HeadTailType
  <1>4. /\ h.d \in HomeDelivery(p) /\ h.encoder \in BOOLEAN
        /\ h.encoder => m.kind = "sync"
    BY <1>2, <1>3, HomeFields
  <1>5. /\ h.d \in Delivery /\ x \in Endpoint /\ ProcOf[x] = p /\ m \in Message
    BY <1>4, HomeSubset DEF HomeDelivery, Delivery, EndsOf
  <1>6. /\ IF h.encoder THEN SendMessage(x, SyncMessageReply(m), FALSE)
                        ELSE UNCHANGED <<outgoing, tasks>>
        /\ stack' = [stack EXCEPT ![p] = Tail(@)]
        /\ UNCHANGED <<wire, pending, syncRequestID, incoming, toDispatch, owed>>
    BY DEF HandlerReturns
  <1>7. stack'[p] = Tail(s) /\ \A r \in Proc \ {p} : stack'[r] = stack[r] BY <1>1, <1>6
  <1>8. SyncMessageReply(m) \in Message BY <1>5, MessageTypes
  <1>9. \A D : Load(h, D) = IF h.encoder /\ h.d \in D THEN 1 ELSE 0 BY <1>2, <1>3, LoadType
  <1>10. \A e \in Endpoint : syncRequestID'[e] >= syncRequestID[e]
    BY <1>6 DEF Sharp, TypeOK
  <1> SUFFICES ASSUME NEW e \in Endpoint, NEW id \in Nat
               PROVE  Copies(e, id)' <= Copies(e, id)
    BY <1>10, OnceDown
  <1> DEFINE f == PeerOf[e]
             D == Arrived(f, id)
             g == IF h.encoder /\ f = x /\ m \in Sync(id) THEN 1 ELSE 0
  <1>11. f \in Endpoint /\ ProcOf[f] \in Proc /\ g \in Int /\ -g \in Int /\ 0 + (-g) + g + 0 = 0
    BY PartTypes, TopologyAssumption
  <1>12. h.d \in D <=> f = x /\ m \in Sync(id) BY <1>5 DEF Arrived
  <1>13. ProcOf[f] = p => Held(s, D) <= 1 BY <1>11, PartBounds
  <1>14. /\ Channel(e, Sync(id)) \in Nat /\ Channel(f, Reply(id)) \in Nat
         /\ Count(pending[e], Answered(id)) \in Nat
         /\ Count(incoming[f], Sync(id)) \in Nat /\ Count(toDispatch[ProcOf[f]], D) \in Nat
         /\ Held(stack[ProcOf[f]], D) \in Nat /\ Debt(owed[f], id) \in Nat
    BY <1>11, PartTypes
  <1> HIDE DEF h, x, m
  <1>15. Channel(e, Sync(id))' <= Channel(e, Sync(id)) + 0
    <2>1. CASE h.encoder
      <3>1. SyncMessageReply(m) \notin Sync(id) BY <1>4, <1>5, <2>1, MessageKinds
      <3>2. Channel(e, Sync(id))' <= Channel(e, Sync(id))
              + (IF e = x /\ SyncMessageReply(m) \in Sync(id) THEN 1 ELSE 0)
        BY <1>5, <1>6, <1>8, <2>1, ChannelSend
      <3> QED BY <3>1, <3>2
    <2>2. CASE ~h.encoder
      <3>1. UNCHANGED <<outgoing, wire>> BY <1>6, <2>2
      <3> QED BY <1>14, <3>1, SameChannel
    <2> QED BY <2>1, <2>2
  <1>16. Channel(f, Reply(id))' <= Channel(f, Reply(id)) + g
    <2>1. CASE h.encoder
      <3>1. SyncMessageReply(m) \in Reply(id) <=> m \in Sync(id)
        BY <1>4, <1>5, <2>1, MessageKinds
      <3>2. Channel(f, Reply(id))' <= Channel(f, Reply(id))
              + (IF f = x /\ SyncMessageReply(m) \in Reply(id) THEN 1 ELSE 0)
        BY <1>5, <1>6, <1>8, <1>11, <2>1, ChannelSend
      <3> QED BY <2>1, <3>1, <3>2
    <2>2. CASE ~h.encoder
      <3>1. UNCHANGED <<outgoing, wire>> BY <1>6, <2>2
      <3>2. Channel(f, Reply(id))' = Channel(f, Reply(id)) BY <3>1, SameChannel
      <3> QED BY <1>14, <2>2, <3>2
    <2> QED BY <2>1, <2>2
  <1>17. Held(stack'[ProcOf[f]], D) = Held(stack[ProcOf[f]], D) - g
    <2>1. CASE ProcOf[f] = p
      <3>1. Held(s, D) <= 1 BY <1>13, <2>1
      <3>2. Held(Tail(s), D) = Held(s, D) - Load(h, D) BY <1>1, <1>2, <3>1, HeldTail DEF h
      <3>3. Load(h, D) = g BY <1>9, <1>12
      <3> QED BY <1>7, <2>1, <3>2, <3>3
    <2>2. CASE ProcOf[f] # p
      <3>1. stack'[ProcOf[f]] = stack[ProcOf[f]] BY <1>7, <1>11, <2>2
      <3>2. g = 0 BY <1>5, <2>2
      <3> HIDE DEF g
      <3> QED BY <1>14, <3>1, <3>2
    <2> QED BY <2>1, <2>2
  <1>18. Accepted(f, id)' <= Accepted(f, id) + (-g)
    <2>1. Accepted(f, id)' = Accept(incoming[f], toDispatch[ProcOf[f]], stack'[ProcOf[f]],
                                    owed[f], f, id)
      BY <1>6, AcceptedNext
    <2> HIDE DEF g
    <2> QED BY <1>11, <1>14, <1>17, <2>1 DEF Accepted, Accept
  <1>19. Count(pending'[e], Answered(id)) <= Count(pending[e], Answered(id)) + 0
    BY <1>6, <1>14
  <1> HIDE DEF g
  <1> QED BY <1>11, <1>15, <1>16, <1>18, <1>19, CopiesDown

(* The client run loop thread.                                              *)
LEMMA OnceRunLoop ==
    ASSUME Sharp, Sharp', OnceInv, NEW p \in Proc, RunLoopStep(p) \/ WaitTimesOut(p)
    PROVE  OnceInv'
  <1>0. pending \in [Endpoint -> Seq(PendingSyncReply)] BY DEF Sharp, TypeOK
  <1>1. CASE \/ CallDispatchMessages(p) \/ DispatchMessageAndResetDidSchedule(p)
             \/ WaitBlocks(p) \/ WaitWakes(p)
    <2>1. IdleMove(p) BY <1>1 DEF IdleMove
    <2>2. UNCHANGED <<toDispatch, outgoing, syncRequestID, pending>>
      BY <1>1 DEF CallDispatchMessages, DispatchMessageAndResetDidSchedule, WaitBlocks,
                  WaitWakes, endVars
    <2> QED BY <2>1, <2>2, OnceIdle
  <1>2. CASE WaitReturns(p) \/ WaitTimesOut(p)
    <2>1. IdleMove(p) BY <1>2 DEF IdleMove
    <2>2. PICK x : /\ pending' = [pending EXCEPT ![x] = AllButLast(@)]
                   /\ UNCHANGED <<toDispatch, outgoing, syncRequestID>>
      BY <1>2 DEF WaitReturns, WaitTimesOut, ReturnFromSendSync
    <2>3. \A e \in Endpoint : pending'[e] = pending[e] \/ pending'[e] = AllButLast(pending[e])
      BY <1>0, <2>2
    <2> QED BY <2>1, <2>2, <2>3, OnceIdle
  <1>3. CASE DispatchConnectionDidClose(p)
    <2>1. UNCHANGED <<outgoing, wire, incoming, toDispatch, stack, owed, pending, syncRequestID>>
      BY <1>3 DEF DispatchConnectionDidClose
    <2>2. \A e \in Endpoint : syncRequestID'[e] >= syncRequestID[e] BY <2>1 DEF Sharp, TypeOK
    <2> QED BY <2>1, <2>2, OnceQuiet
  <1> QED BY <1>1, <1>2, <1>3, OnceDispatchMessages, OnceSwap, OnceBatch, OnceReturn
          DEF RunLoopStep

(* A step of the work queue that loses messages at most.                    *)
LEMMA OnceLoss ==
    ASSUME Sharp, Sharp', OnceInv,
           UNCHANGED <<incoming, toDispatch, stack, owed, pending, syncRequestID>>,
           \A e \in Endpoint : \A M : Channel(e, M)' <= Channel(e, M)
    PROVE  OnceInv'
  <1>1. \A e \in Endpoint : syncRequestID'[e] >= syncRequestID[e] BY DEF Sharp, TypeOK
  <1> SUFFICES ASSUME NEW e \in Endpoint, NEW id \in Nat
               PROVE  Copies(e, id)' <= Copies(e, id)
    BY <1>1, OnceDown
  <1>2. PeerOf[e] \in Endpoint BY PartTypes
  <1>3. Count(pending[e], Answered(id)) \in Nat /\ Accepted(PeerOf[e], id) \in Nat
    BY <1>2, PartTypes
  <1>4. /\ Channel(e, Sync(id))' <= Channel(e, Sync(id))
        /\ Channel(PeerOf[e], Reply(id))' <= Channel(PeerOf[e], Reply(id))
    BY <1>2
  <1>5. Accepted(PeerOf[e], id)' = Accepted(PeerOf[e], id) BY SameAccepted
  <1>6. Count(pending'[e], Answered(id)) = Count(pending[e], Answered(id)) OBVIOUS
  <1> QED BY <1>3, <1>4, <1>5, <1>6, CopiesLess

(* A request that is read from the socket is stored in one place.           *)
LEMMA OnceRead ==
    ASSUME Sharp, Sharp', OnceInv, NEW x \in Endpoint, ReadMessage(x),
           Head(wire[x]).kind # "reply",
           UNCHANGED <<outgoing, pending, syncRequestID>>,
           \A f \in Endpoint : \A id \in Nat :
             Accepted(f, id)' = Accepted(f, id)
               + (IF f = x /\ Head(wire[x]) \in Sync(id) THEN 1 ELSE 0)
    PROVE  OnceInv'
  <1>1. \A e \in Endpoint : syncRequestID'[e] >= syncRequestID[e] BY DEF Sharp, TypeOK
  <1> SUFFICES ASSUME NEW e \in Endpoint, NEW id \in Nat
               PROVE  Copies(e, id)' <= Copies(e, id)
    BY <1>1, OnceDown
  <1> DEFINE f == PeerOf[e]
             m == Head(wire[x])
             g == IF f = x /\ m \in Sync(id) THEN 1 ELSE 0
  <1>2. f \in Endpoint /\ g \in Int /\ -g \in Int /\ (-g) + g + 0 + 0 = 0 BY PartTypes
  <1>3. /\ Channel(e, Sync(id)) \in Nat /\ Count(pending[e], Answered(id)) \in Nat
        /\ Accepted(f, id) \in Nat /\ Channel(f, Reply(id)) \in Nat
    BY <1>2, PartTypes
  <1>4. m \in Message BY ChannelRead
  <1>5. Channel(e, Sync(id))' = Channel(e, Sync(id)) - g BY ChannelRead
  <1>6. Channel(f, Reply(id))' = Channel(f, Reply(id))
          - (IF PeerOf[f] = x /\ m \in Reply(id) THEN 1 ELSE 0)
    BY <1>2, ChannelRead
  <1>7. Accepted(f, id)' = Accepted(f, id) + g BY <1>2
  <1>8. m \notin Reply(id) BY <1>4, MessageKinds
  <1> HIDE DEF g, m
  <1>9. Channel(e, Sync(id))' <= Channel(e, Sync(id)) + (-g) BY <1>2, <1>3, <1>5
  <1>10. Channel(f, Reply(id))' <= Channel(f, Reply(id)) + 0 BY <1>3, <1>6, <1>8
  <1>11. Accepted(f, id)' <= Accepted(f, id) + g BY <1>2, <1>3, <1>7
  <1>12. Count(pending'[e], Answered(id)) <= Count(pending[e], Answered(id)) + 0 BY <1>3
  <1> QED BY <1>2, <1>9, <1>10, <1>11, <1>12, CopiesDown
(* processIncomingMessage and enqueueIncomingMessage.                       *)
LEMMA OnceReceive ==
    ASSUME Sharp, Sharp', OnceInv, NEW x \in Endpoint,
           ReceiveDispatchWhileWaiting(x) \/ EnqueueIncomingMessage(x)
    PROVE  OnceInv'
  <1> DEFINE m == Head(wire[x])
             p == ProcOf[x]
             d == [e |-> x, m |-> m]
  <1>1. /\ ReadMessage(x) /\ m.kind # "reply"
        /\ UNCHANGED <<outgoing, pending, syncRequestID, stack, owed>>
    BY DEF ReceiveDispatchWhileWaiting, EnqueueIncomingMessage
  <1>2. wire \in [Endpoint -> Seq(Message)] /\ wire[x] # << >>
    BY <1>1 DEF Sharp, TypeOK, ReadMessage
  <1>3. m \in Message /\ p \in Proc BY <1>2, SeqUpdate, TopologyAssumption
  <1>4. d \in Delivery /\ d.e = x /\ d.m = m BY <1>3 DEF Delivery
  <1> HIDE DEF m, d
  <1> SUFFICES ASSUME NEW f \in Endpoint, NEW id \in Nat
               PROVE  Accepted(f, id)' = Accepted(f, id)
                        + (IF f = x /\ m \in Sync(id) THEN 1 ELSE 0)
    BY <1>1, OnceRead DEF m
  <1> DEFINE D == Arrived(f, id)
             g == IF f = x /\ m \in Sync(id) THEN 1 ELSE 0
  <1>5. d \in D <=> f = x /\ m \in Sync(id) BY <1>4 DEF Arrived
  <1> HIDE DEF D
  <1>6. /\ Count(incoming[f], Sync(id)) \in Nat /\ Count(toDispatch[ProcOf[f]], D) \in Nat
        /\ Held(stack[ProcOf[f]], D) \in Nat /\ Debt(owed[f], id) \in Nat
    BY PartTypes DEF D
  <1>7. Accepted(f, id)' = Count(incoming'[f], Sync(id)) + Count(toDispatch'[ProcOf[f]], D)
          + Held(stack[ProcOf[f]], D) + Debt(owed[f], id)
    BY <1>1, AcceptedNext DEF Accept, D
  <1>8. Accepted(f, id) = Count(incoming[f], Sync(id)) + Count(toDispatch[ProcOf[f]], D)
          + Held(stack[ProcOf[f]], D) + Debt(owed[f], id)
    BY DEF Accepted, Accept, D
  <1>9. CASE ReceiveDispatchWhileWaiting(x)
    <2>1. UNCHANGED incoming /\ toDispatch' = [toDispatch EXCEPT ![p] = Append(@, d)]
      BY <1>9 DEF ReceiveDispatchWhileWaiting, d, m
    <2>2. toDispatch \in [Proc -> Seq(Delivery)] BY DEF Sharp, TypeOK
    <2>3. Count(toDispatch'[ProcOf[f]], D) = Count(toDispatch[ProcOf[f]], D) + g
      <3>1. CASE ProcOf[f] = p
        <4>1. toDispatch'[ProcOf[f]] = Append(toDispatch[p], d) /\ toDispatch[p] \in Seq(Delivery)
          BY <1>3, <2>1, <2>2, <3>1
        <4>2. Count(Append(toDispatch[p], d), D)
                = Count(toDispatch[p], D) + (IF d \in D THEN 1 ELSE 0)
          BY <1>4, <4>1, CountAppend
        <4> QED BY <1>5, <3>1, <4>1, <4>2
      <3>2. CASE ProcOf[f] # p
        <4>1. ProcOf[f] \in Proc /\ g = 0 BY <3>2, TopologyAssumption
        <4>2. toDispatch'[ProcOf[f]] = toDispatch[ProcOf[f]] BY <1>3, <2>1, <2>2, <3>2, <4>1
        <4> HIDE DEF g
        <4> QED BY <1>6, <4>1, <4>2
      <3> QED BY <3>1, <3>2
    <2> QED BY <1>6, <1>7, <1>8, <2>1, <2>3
  <1>10. CASE EnqueueIncomingMessage(x)
    <2>1. UNCHANGED toDispatch /\ incoming' = [incoming EXCEPT ![x] = Append(@, m)]
      BY <1>10 DEF EnqueueIncomingMessage, m
    <2>2. incoming \in [Endpoint -> Seq(Message)] BY DEF Sharp, TypeOK
    <2>3. Count(incoming'[f], Sync(id)) = Count(incoming[f], Sync(id)) + g
      <3>1. CASE f = x
        <4>1. incoming'[f] = Append(incoming[f], m) /\ incoming[f] \in Seq(Message)
          BY <2>1, <2>2, <3>1
        <4>2. Count(Append(incoming[f], m), Sync(id))
                = Count(incoming[f], Sync(id)) + (IF m \in Sync(id) THEN 1 ELSE 0)
          BY <1>3, <4>1, CountAppend
        <4> QED BY <3>1, <4>1, <4>2
      <3>2. CASE f # x
        <4>1. incoming'[f] = incoming[f] BY <2>1, <2>2, <3>2
        <4> QED BY <1>6, <3>2, <4>1
      <3> QED BY <3>1, <3>2
    <2> QED BY <1>6, <1>7, <1>8, <2>1, <2>3
  <1> QED BY <1>9, <1>10

(* processIncomingSyncReply: the pending reply that is found has none yet.  *)
LEMMA OnceReply ==
    ASSUME Sharp, Sharp', OnceInv, NEW x \in Endpoint, ReceiveSyncReply(x)
    PROVE  OnceInv'
  <1> DEFINE m == Head(wire[x])
  <1>1. /\ ReadMessage(x) /\ m.kind = "reply"
        /\ UNCHANGED <<outgoing, syncRequestID, stack, owed, incoming, toDispatch>>
    BY DEF ReceiveSyncReply
  <1>2. /\ wire \in [Endpoint -> Seq(Message)] /\ wire[x] # << >>
        /\ pending \in [Endpoint -> Seq(PendingSyncReply)]
    BY <1>1 DEF Sharp, TypeOK, ReadMessage
  <1>3. wire[x] \in Seq(Message) /\ m \in Message BY <1>2, SeqUpdate
  <1>4. \A e \in Endpoint : syncRequestID'[e] >= syncRequestID[e]
    BY <1>1 DEF Sharp, TypeOK
  <1> SUFFICES ASSUME NEW e \in Endpoint, NEW id \in Nat
               PROVE  Copies(e, id)' <= Copies(e, id)
    BY <1>4, OnceDown
  <1> DEFINE f == PeerOf[e]
             g == IF e = x /\ m.id = id THEN 1 ELSE 0
  <1>5. f \in Endpoint /\ PeerOf[f] = e /\ g \in Int /\ -g \in Int /\ 0 + 0 + (-g) + g = 0
    BY PartTypes
  <1>6. /\ Channel(e, Sync(id)) \in Nat /\ Count(pending[e], Answered(id)) \in Nat
        /\ Accepted(f, id) \in Nat /\ Channel(f, Reply(id)) \in Nat
    BY <1>5, PartTypes
  <1>7. Channel(e, Sync(id))' <= Channel(e, Sync(id)) + 0
    <2>1. m \notin Sync(id) BY <1>1, <1>3, MessageKinds
    <2>2. Channel(e, Sync(id))' = Channel(e, Sync(id))
            - (IF PeerOf[e] = x /\ m \in Sync(id) THEN 1 ELSE 0)
      BY <1>1, ChannelRead
    <2> QED BY <1>6, <2>1, <2>2
  <1>8. Channel(f, Reply(id))' <= Channel(f, Reply(id)) + (-g)
    <2>1. m \in Reply(id) <=> m.id = id BY <1>1, <1>3, MessageKinds
    <2>2. Channel(f, Reply(id))' = Channel(f, Reply(id))
            - (IF PeerOf[f] = x /\ m \in Reply(id) THEN 1 ELSE 0)
      BY <1>1, <1>5, ChannelRead
    <2>3. Channel(f, Reply(id))' = Channel(f, Reply(id)) - g BY <1>5, <2>1, <2>2
    <2> HIDE DEF g
    <2> QED BY <1>5, <1>6, <2>3
  <1>9. Accepted(f, id)' <= Accepted(f, id) + 0 BY <1>1, <1>6, SameAccepted
  <1>10. Count(pending'[e], Answered(id)) <= Count(pending[e], Answered(id)) + g
    <2>1. CASE pending'[e] = pending[e] BY <1>6, <2>1
    <2>2. ASSUME NEW i \in DOMAIN pending[x], IsReplyFor(x, i, m.id), e = x,
                 pending' = [pending EXCEPT ![x][i].reply = m.request]
          PROVE  Count(pending'[e], Answered(id)) <= Count(pending[e], Answered(id)) + g
      <3> DEFINE q == pending[x]
                 y == [q[i] EXCEPT !.reply = m.request]
      <3>1. q \in Seq(PendingSyncReply) /\ i \in DOMAIN q /\ q[i] \in PendingSyncReply
        BY <1>2, <2>2
      <3>2. pending'[x] = [q EXCEPT ![i] = y] BY <1>2, <2>2
      <3>3. q[i].id = m.id BY <2>2 DEF IsReplyFor
      <3>4. y \in PendingSyncReply /\ y.id = m.id
        BY <1>3, <3>1, <3>3 DEF PendingSyncReply, Message
      <3>5. y \in Answered(id) => m.id = id BY <3>4 DEF Answered
      <3>6. q[i] \notin Answered(id)
        <4>1. CASE m.id # id BY <3>3, <4>1 DEF Answered
        <4>2. CASE m.id = id
          <5>1. Channel(f, Reply(id)) + Count(pending[e], Answered(id)) <= 1 BY PartBounds
          <5>2. Channel(f, Reply(id))' \in Nat BY NextTypes
          <5>3. Channel(f, Reply(id)) >= 1 BY <1>6, <1>8, <2>2, <4>2, <5>2
          <5>4. Count(q, Answered(id)) = 0 BY <1>6, <2>2, <5>1, <5>3
          <5> HIDE DEF q
          <5> QED BY <3>1, <5>4, CountType
        <4> QED BY <4>1, <4>2
      <3> HIDE DEF q, y
      <3>7. Count([q EXCEPT ![i] = y], Answered(id))
              = Count(q, Answered(id)) + (IF y \in Answered(id) THEN 1 ELSE 0)
        BY <3>1, <3>4, <3>6, CountUpdate
      <3>8. Count(q, Answered(id)) \in Nat BY <3>1, CountType
      <3> QED BY <2>2, <3>2, <3>5, <3>7, <3>8 DEF q
    <2>3. CASE e # x /\ pending'[e] # pending[e]
      <3>1. \/ UNCHANGED pending
            \/ \E i : pending' = [pending EXCEPT ![x][i].reply = m.request]
        BY DEF ReceiveSyncReply
      <3>2. FALSE BY <1>2, <2>3, <3>1
      <3> QED BY <3>2
    <2>4. \/ UNCHANGED pending
          \/ \E i \in DOMAIN pending[x] :
               /\ IsReplyFor(x, i, m.id)
               /\ pending' = [pending EXCEPT ![x][i].reply = m.request]
      BY DEF ReceiveSyncReply
    <2> QED BY <2>1, <2>2, <2>3, <2>4
  <1> HIDE DEF g
  <1> QED BY <1>5, <1>7, <1>8, <1>9, <1>10, CopiesDown

(* The work queue thread of a connection.                                   *)
LEMMA OnceQueue ==
    ASSUME Sharp, Sharp', OnceInv, NEW x \in Endpoint,
           WorkQueueStep(x) \/ PluginProcessCrashed(x)
    PROVE  OnceInv'
  <1>1. CASE SendOutgoingMessages(x)
    <2>1. UNCHANGED <<incoming, toDispatch, stack, owed, pending, syncRequestID>>
      BY <1>1 DEF SendOutgoingMessages, loopVars
    <2>2. \A e \in Endpoint : \A M : Channel(e, M)' <= Channel(e, M) BY <1>1, ChannelFlow
    <2> QED BY <2>1, <2>2, OnceLoss
  <1>2. CASE InvalidateOnWorkQueue(x) \/ Hangup(x) \/ ConnectionDidCloseOnWorkQueue(x)
    <2>1. /\ UNCHANGED <<incoming, toDispatch, stack, owed, pending, syncRequestID, outgoing>>
          /\ PlatformInvalidate(x)
      BY <1>2 DEF InvalidateOnWorkQueue, Hangup, ConnectionDidCloseOnWorkQueue,
                  ConnectionDidClose, loopVars
    <2>2. \A e \in Endpoint : \A M : Channel(e, M)' <= Channel(e, M) BY <2>1, ChannelCut
    <2> QED BY <2>1, <2>2, OnceLoss
  <1>3. CASE WakeUpClientRunLoop(x) \/ PluginProcessCrashed(x)
    <2>1. UNCHANGED <<outgoing, wire, incoming, toDispatch, stack, owed, pending, syncRequestID>>
      BY <1>3 DEF WakeUpClientRunLoop, PluginProcessCrashed, loopVars
    <2>2. \A e \in Endpoint : syncRequestID'[e] >= syncRequestID[e] BY <2>1 DEF Sharp, TypeOK
    <2> QED BY <2>1, <2>2, OnceQuiet
  <1> QED BY <1>1, <1>2, <1>3, OnceReceive, OnceReply DEF WorkQueueStep

LEMMA OnceNext == Sharp /\ OnceInv /\ [Next]_vars => OnceInv'
  <1> SUFFICES ASSUME Sharp, OnceInv, [Next]_vars PROVE OnceInv' OBVIOUS
  <1>1. Sharp' BY SharpStep
  <1>2. ASSUME UNCHANGED <<outgoing, wire, incoming, toDispatch, stack, owed, pending>>,
               \A e \in Endpoint : syncRequestID'[e] >= syncRequestID[e]
        PROVE  OnceInv'
    BY <1>1, <1>2, OnceQuiet
  <1>3. syncRequestID \in [Endpoint -> Nat] BY DEF Sharp, TypeOK
  <1>4. CASE UNCHANGED vars
    BY <1>2, <1>3, <1>4 DEF vars
  <1>5. ASSUME NEW p \in Proc, Killed(p) PROVE OnceInv'
    BY <1>2, <1>3, <1>5 DEF Killed, endVars
  <1>6. ASSUME NEW e \in Endpoint, ClientStep(e) PROVE OnceInv'
    <2>1. CASE SendSyncFails(e)
      <3>1. /\ UNCHANGED <<outgoing, wire, incoming, toDispatch, stack, owed, pending>>
            /\ syncRequestID' = [syncRequestID EXCEPT ![e] = syncRequestID[e] + 1]
        BY <2>1 DEF SendSyncFails, NextSyncRequestID
      <3>2. \A x \in Endpoint : syncRequestID'[x] >= syncRequestID[x] BY <1>3, <3>1
      <3> QED BY <1>2, <3>1, <3>2
    <2>2. CASE Invalidate(e)
      BY <1>2, <1>3, <2>2 DEF Invalidate, loopVars
    <2> QED BY <1>1, <1>6, <2>1, <2>2, OnceSendAsync, OnceSendSync, OnceDelayed DEF ClientStep
  <1> QED BY <1>1, <1>4, <1>5, <1>6, OnceQueue, OnceRunLoop DEF Next

(* At the start there is no message anywhere.                               *)
LEMMA OnceInit == Init => OnceInv
  <1> SUFFICES ASSUME Init, NEW e \in Endpoint, NEW id \in Nat
               PROVE  Copies(e, id) <= IF id <= syncRequestID[e] THEN 1 ELSE 0
    BY DEF OnceInv
  <1> DEFINE f == PeerOf[e]
  <1>1. f \in Endpoint /\ PeerOf[f] = e /\ ProcOf[f] \in Proc BY TopologyAssumption
  <1>2. /\ outgoing[e] = << >> /\ outgoing[f] = << >> /\ wire[e] = << >> /\ wire[f] = << >>
        /\ pending[e] = << >> /\ incoming[f] = << >> /\ owed[f] = {}
        /\ toDispatch[ProcOf[f]] = << >> /\ stack[ProcOf[f]] = << >> /\ syncRequestID[e] = 0
    BY <1>1 DEF Init
  <1>3. \A M : Count(<< >>, M) = 0 BY CountEmpty
  <1>4. Channel(e, Sync(id)) = 0 /\ Channel(f, Reply(id)) = 0
    BY <1>1, <1>2, <1>3 DEF Channel
  <1>5. Held(<< >>, Arrived(f, id)) = 0 /\ Debt({}, id) = 0 BY <1>3 DEF Held, Debt
  <1>6. Accepted(f, id) = 0 BY <1>2, <1>3, <1>5 DEF Accepted, Accept
  <1>7. Copies(e, id) = 0 BY <1>2, <1>3, <1>4, <1>6 DEF Copies
  <1> QED BY <1>7

(* processIncomingSyncReply never finds a reply where it is about to store  *)
(* one: however long the client keeps a reply encoder, and whichever of the *)
(* two queues a request came through, it is answered at most once.          *)
THEOREM RepliesComeOnce == Spec => []AtMostOneReply
  <1>1. ASSUME Sharp, OnceInv PROVE AtMostOneReply
    <2> SUFFICES ASSUME NEW e \in Endpoint, NEW k \in DOMAIN wire[e],
                        NEW i \in DOMAIN pending[e], wire[e][k].kind = "reply",
                        wire[e][k].id = pending[e][i].id
                 PROVE  pending[e][i].reply = NoReply
      BY DEF AtMostOneReply
    <2> DEFINE id == pending[e][i].id
               f == PeerOf[e]
    <2>1. /\ wire[e] \in Seq(Message) /\ pending[e] \in Seq(PendingSyncReply)
          /\ f \in Endpoint /\ PeerOf[f] = e /\ outgoing[f] \in Seq(Message)
      BY <1>1, TopologyAssumption DEF Sharp, TypeOK
    <2>2. wire[e][k] \in Message /\ pending[e][i] \in PendingSyncReply /\ id \in Nat
      <3>1. wire[e][k] \in Message BY <2>1
      <3>2. pending[e][i] \in PendingSyncReply BY <2>1
      <3>3. id \in Nat BY <3>2 DEF PendingSyncReply
      <3> QED BY <3>1, <3>2, <3>3
    <2>3. wire[e][k] \in Reply(id) BY <2>2 DEF Reply
    <2>4. Channel(f, Reply(id)) + Count(pending[e], Answered(id)) <= 1
      BY <1>1, <2>2, PartBounds
    <2> HIDE DEF id
    <2>5. Count(wire[e], Reply(id)) \in Nat /\ Count(wire[e], Reply(id)) # 0
      BY <2>1, <2>3, CountType
    <2>6. Count(outgoing[f], Reply(id)) \in Nat /\ Count(pending[e], Answered(id)) \in Nat
      BY <2>1, CountType
    <2>7. Channel(f, Reply(id)) = Count(outgoing[f], Reply(id)) + Count(wire[e], Reply(id))
      BY <2>1 DEF Channel
    <2>8. Count(pending[e], Answered(id)) = 0 BY <2>4, <2>5, <2>6, <2>7
    <2>9. pending[e][i] \notin Answered(id) BY <2>1, <2>8, CountType
    <2> QED BY <2>2, <2>9 DEF Answered, id
  <1> QED BY <1>1, SharpInit, SharpStep, OnceInit, OnceNext, PTL DEF Spec
=============================================================================
