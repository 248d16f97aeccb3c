-------------------------- MODULE ConnectionProofs --------------------------
(***************************************************************************)
(* Type correctness of Connection, for every topology and every bound.     *)
(* Connection never loses a wake-up, and the pending replies of a          *)
(* connection are those of the calls on the client thread's stack: both    *)
(* follow from IInv, which every action preserves.                         *)
(***************************************************************************)
EXTENDS Connection, TLAPS

(* Updating one sequence of a family keeps the family's type.               *)
LEMMA SeqUpdate ==
    ASSUME NEW S, NEW T, NEW f \in [S -> Seq(T)], NEW e \in S
    PROVE  /\ \A x \in T : [f EXCEPT ![e] = Append(@, x)] \in [S -> Seq(T)]
           /\ \A s \in Seq(T) : [f EXCEPT ![e] = s] \in [S -> Seq(T)]
           /\ f[e] # << >> => /\ Head(f[e]) \in T
                              /\ Tail(f[e]) \in Seq(T)
                              /\ [f EXCEPT ![e] = Tail(@)] \in [S -> Seq(T)]
  OBVIOUS

(* The first element and the rest of a non-empty sequence.                  *)
LEMMA HeadTailType ==
    ASSUME NEW T, NEW s \in Seq(T), s # << >>
    PROVE  /\ Head(s) \in T /\ Tail(s) \in Seq(T)
           /\ Len(s) # 1 => Tail(s) # << >>
  <1>1. Len(s) \in Nat /\ Len(s) # 0 /\ Len(Tail(s)) = Len(s) - 1
    OBVIOUS
  <1>2. Len(s) # 1 => Len(Tail(s)) # 0
    BY <1>1
  <1>3. Tail(s) = << >> => Len(Tail(s)) = 0
    <2>1. Len(<< >>) = 0
      OBVIOUS
    <2> QED BY <2>1, Zenon
  <1>4. Head(s) \in T /\ Tail(s) \in Seq(T)
    OBVIOUS
  <1> QED BY <1>2, <1>3, <1>4

(* Pushing one or two elements on a sequence.                               *)
LEMMA PushType ==
    ASSUME NEW T, NEW s \in Seq(T)
    PROVE  /\ \A a \in T : <<a>> \in Seq(T) /\ <<a>> \o s \in Seq(T)
           /\ \A a, b \in T : <<a, b>> \o s \in Seq(T)
  OBVIOUS

(* The messages the actions build are messages.                             *)
LEMMA MessageTypes ==
    /\ AsyncMessage \in Message
    /\ \A id, r \in Nat : SyncMessage(id, r) \in Message
    /\ \A m \in Message : SyncMessageReply(m) \in Message
    /\ \A m \in Message, b \in BOOLEAN : [m EXCEPT !.dispatch = b] \in Message
  BY DEF AsyncMessage, SyncMessage, SyncMessageReply, Message

(* The frames the actions push are frames.                                  *)
LEMMA FrameTypes ==
    /\ \A e \in Endpoint : DispatchFrame(e) \in Frame
    /\ SwapFrame \in Frame
    /\ \A b \in Seq(Delivery) \ {<< >>} : BatchFrame(b) \in Frame
    /\ \A d \in Delivery, x \in BOOLEAN : HandlerFrame(d, x) \in Frame
    /\ \A e \in Endpoint, id \in Nat, pc \in {"check", "wait"} :
         WaitFrame(e, id, pc) \in Frame
  BY DEF DispatchFrame, SwapFrame, BatchFrame, HandlerFrame, WaitFrame, Frame

(* What the fields of a frame of each kind are.                             *)
LEMMA FrameFields ==
    ASSUME NEW f \in Frame
    PROVE  /\ f.fn = "dispatchMessages" => f.e \in Endpoint
           /\ f.fn = "batch" => f.batch \in Seq(Delivery) /\ f.batch # << >>
           /\ f.fn = "dispatchMessage" => f.d \in Delivery /\ f.encoder \in BOOLEAN
           /\ f.fn = "waitForSyncReply" =>
                /\ f.e \in Endpoint /\ f.id \in Nat /\ f.pc \in {"check", "wait"}
                /\ \A pc : [f EXCEPT !.pc = pc] = WaitFrame(f.e, f.id, pc)
  BY DEF Frame, WaitFrame

(* sendMessage keeps the types of the two queues it appends to.             *)
LEMMA SendMessageType ==
    ASSUME TypeOK, NEW e \in Endpoint, NEW m \in Message, NEW w \in BOOLEAN,
           SendMessage(e, m, w)
    PROVE  /\ outgoing' \in [Endpoint -> Seq(Message)]
           /\ tasks' \in [Endpoint -> Seq(Task)]
  <1>1. [m EXCEPT !.dispatch = w /\ MayMark(e)] \in Message
    BY MessageTypes DEF MayMark
  <1>2. "sendOutgoingMessages" \in Task
    BY DEF Task
  <1>3. outgoing \in [Endpoint -> Seq(Message)] /\ tasks \in [Endpoint -> Seq(Task)]
    BY DEF TypeOK
  <1>4. CASE client[e]
    <2>1. outgoing' = [outgoing EXCEPT ![e] = Append(@, [m EXCEPT !.dispatch = w /\ MayMark(e)])]
      BY <1>4 DEF SendMessage
    <2>2. tasks' = [tasks EXCEPT ![e] = Append(@, "sendOutgoingMessages")]
      BY <1>4 DEF SendMessage
    <2> QED BY <1>1, <1>2, <1>3, <2>1, <2>2, SeqUpdate
  <1>5. CASE ~client[e]
    BY <1>3, <1>5 DEF SendMessage
  <1> QED BY <1>4, <1>5

(* Dispatching a message keeps the types of what dispatchMessage changes.   *)
LEMMA DispatchMessageType ==
    ASSUME TypeOK, NEW p \in Proc, NEW d \in Delivery, NEW rest \in Seq(Frame),
           DispatchMessage(p, d, rest)
    PROVE  /\ stack' \in [Proc -> Seq(Frame)]
           /\ marked' \in [Endpoint -> Int]
           /\ owed' \in [Endpoint -> SUBSET Message]
  <1>1. CASE client[d.e]
    <2>1. PICK encoder \in Encoder(d) :
            /\ stack' = [stack EXCEPT ![p] = <<HandlerFrame(d, encoder)>> \o rest]
            /\ marked' = [marked EXCEPT ![d.e] = IF d.m.dispatch THEN @ + 1 ELSE @]
            /\ owed' = [owed EXCEPT ![d.e] =
                  IF d.m.kind = "sync" /\ ~encoder THEN @ \cup {d.m} ELSE @]
      BY <1>1 DEF DispatchMessage
    <2>2. encoder \in BOOLEAN
      BY DEF Encoder
    <2>3. <<HandlerFrame(d, encoder)>> \o rest \in Seq(Frame)
      BY <2>2, FrameTypes, PushType
    <2>4. stack' \in [Proc -> Seq(Frame)]
      BY <2>1, <2>3, SeqUpdate DEF TypeOK
    <2> QED BY <2>1, <2>4 DEF TypeOK, Delivery
  <1>2. CASE ~client[d.e]
    <2>1. stack' = [stack EXCEPT ![p] = rest] /\ marked' = marked /\ owed' = owed
      BY <1>2 DEF DispatchMessage
    <2>2. stack \in [Proc -> Seq(Frame)]
      BY DEF TypeOK
    <2>3. stack' \in [Proc -> Seq(Frame)]
      BY <2>1, <2>2, SeqUpdate
    <2> QED BY <2>1, <2>3 DEF TypeOK
  <1> QED BY <1>1, <1>2

(* Leaving sendSyncMessage keeps the types.                                 *)
LEMMA ReturnType ==
    ASSUME TypeOK, NEW p \in Proc, NEW e \in Endpoint, NEW got,
           stack[p] # << >>, ReturnFromSendSync(p, e, got)
    PROVE  TypeOK'
  <1>1. stack' \in [Proc -> Seq(Frame)]
    BY SeqUpdate DEF TypeOK, ReturnFromSendSync
  <1>2. AllButLast(pending[e]) \in Seq(PendingSyncReply)
    BY DEF TypeOK, AllButLast
  <1>3. pending' \in [Endpoint -> Seq(PendingSyncReply)]
    BY <1>2, SeqUpdate DEF TypeOK, ReturnFromSendSync
  <1>4. alive' \in [Proc -> BOOLEAN]
    BY DEF TypeOK, ReturnFromSendSync, DidFailToSendSyncMessage
  <1> QED BY <1>1, <1>3, <1>4 DEF TypeOK, ReturnFromSendSync

(* Every step keeps the types.                                              *)
LEMMA TypeStep == TypeOK /\ [Next]_vars => TypeOK'
  <1> SUFFICES ASSUME TypeOK, [Next]_vars PROVE TypeOK'
    OBVIOUS
  <1> USE TopologyAssumption
  <1>1. CASE UNCHANGED vars
    BY <1>1 DEF vars, TypeOK
  <1>2. ASSUME NEW e \in Endpoint, ClientStep(e) PROVE TypeOK'
    <2>1. ASSUME NEW w \in BOOLEAN, SendAsync(e, w) PROVE TypeOK'
      <3>1. outgoing' \in [Endpoint -> Seq(Message)] /\ tasks' \in [Endpoint -> Seq(Task)]
        BY <2>1, MessageTypes, SendMessageType DEF SendAsync
      <3>2. asyncs' \in [Endpoint -> Nat]
        BY <2>1 DEF SendAsync, TypeOK
      <3> QED BY <2>1, <3>1, <3>2 DEF SendAsync, TypeOK, loopVars
    <2>2. CASE SendSync(e)
      <3>1. syncRequestID[e] + 1 \in Nat /\ requests[e] + 1 \in Nat
        BY DEF TypeOK
      <3>2. SyncMessage(syncRequestID[e] + 1, requests[e] + 1) \in Message
        BY <3>1, MessageTypes
      <3>3. outgoing' \in [Endpoint -> Seq(Message)] /\ tasks' \in [Endpoint -> Seq(Task)]
        BY <2>2, <3>2, SendMessageType DEF SendSync, NextSyncRequestID
      <3>4. pending' \in [Endpoint -> Seq(PendingSyncReply)]
        BY <2>2, <3>1 DEF SendSync, TypeOK, PendingSyncReply, NoReply, NextSyncRequestID
      <3>5. <<SwapFrame, WaitFrame(e, syncRequestID[e] + 1, "check")>> \o stack[ProcOf[e]]
              \in Seq(Frame)
        BY <3>1, FrameTypes, PushType DEF TypeOK
      <3>6. stack' \in [Proc -> Seq(Frame)]
        BY <2>2, <3>5, SeqUpdate DEF SendSync, TypeOK, NextSyncRequestID
      <3>7. syncRequestID' \in [Endpoint -> Nat]
        <4>1. syncRequestID' = [syncRequestID EXCEPT ![e] = syncRequestID[e] + 1]
          BY <2>2 DEF SendSync, NextSyncRequestID
        <4>2. syncRequestID \in [Endpoint -> Nat]
          BY DEF TypeOK
        <4> QED BY <4>1, <4>2
      <3>8. requests' \in [Endpoint -> Nat]
        <4>1. requests' = [requests EXCEPT ![e] = @ + 1] /\ requests \in [Endpoint -> Nat]
          BY <2>2 DEF SendSync, TypeOK
        <4> QED BY <4>1
      <3> QED BY <2>2, <3>3, <3>4, <3>6, <3>7, <3>8 DEF SendSync, TypeOK
    <2>3. CASE SendSyncFails(e)
      <3>1. /\ syncRequestID' \in [Endpoint -> Nat]
            /\ requests' \in [Endpoint -> Nat]
        <4>1. /\ syncRequestID' = [syncRequestID EXCEPT ![e] = syncRequestID[e] + 1]
              /\ requests' = [requests EXCEPT ![e] = @ + 1]
          BY <2>3 DEF SendSyncFails, NextSyncRequestID
        <4>2. syncRequestID \in [Endpoint -> Nat] /\ requests \in [Endpoint -> Nat]
          BY DEF TypeOK
        <4> QED BY <4>1, <4>2
      <3>2. alive' \in [Proc -> BOOLEAN]
        BY <2>3 DEF SendSyncFails, TypeOK, DidFailToSendSyncMessage
      <3> QED BY <2>3, <3>1, <3>2 DEF SendSyncFails, TypeOK
    <2>4. CASE SendDelayedReply(e)
      <3>1. PICK m \in owed[e] : /\ owed' = [owed EXCEPT ![e] = @ \ {m}]
                                 /\ SendMessage(e, SyncMessageReply(m), FALSE)
        BY <2>4 DEF SendDelayedReply
      <3>2. SyncMessageReply(m) \in Message
        BY MessageTypes DEF TypeOK
      <3>3. outgoing' \in [Endpoint -> Seq(Message)] /\ tasks' \in [Endpoint -> Seq(Task)]
        BY <3>1, <3>2, SendMessageType
      <3>4. owed' \in [Endpoint -> SUBSET Message]
        <4>1. owed \in [Endpoint -> SUBSET Message]
          BY DEF TypeOK
        <4> QED BY <3>1, <4>1
      <3> QED BY <2>4, <3>3, <3>4 DEF SendDelayedReply, TypeOK, loopVars
    <2>5. CASE Invalidate(e)
      <3>1. client' \in [Endpoint -> BOOLEAN]
        BY <2>5 DEF Invalidate, TypeOK
      <3>2. tasks' \in [Endpoint -> Seq(Task)]
        <4>1. /\ tasks' = [tasks EXCEPT ![e] = Append(@, "platformInvalidate")]
              /\ tasks \in [Endpoint -> Seq(Task)]
          BY <2>5 DEF Invalidate, TypeOK
        <4>2. "platformInvalidate" \in Task
          BY DEF Task
        <4> QED BY <4>1, <4>2, SeqUpdate
      <3> QED BY <2>5, <3>1, <3>2 DEF Invalidate, TypeOK, loopVars
    <2> QED BY <1>2, <2>1, <2>2, <2>3, <2>4, <2>5 DEF ClientStep
  <1>3. ASSUME NEW p \in Proc, RunLoopStep(p) \/ WaitTimesOut(p) PROVE TypeOK'
    <2>1. CASE CallDispatchMessages(p)
      <3>1. Head(runQueue[p]).e \in Endpoint
        BY <2>1 DEF CallDispatchMessages, NextWork, TypeOK, Work
      <3>2. <<DispatchFrame(Head(runQueue[p]).e)>> \in Seq(Frame)
        BY <3>1, FrameTypes
      <3>3. stack' \in [Proc -> Seq(Frame)] /\ runQueue' \in [Proc -> Seq(Work)]
        BY <2>1, <3>2, SeqUpdate DEF CallDispatchMessages, NextWork, TypeOK
      <3> QED BY <2>1, <3>3 DEF CallDispatchMessages, TypeOK, endVars
    <2>2. CASE DispatchMessageAndResetDidSchedule(p)
      <3>1. <<SwapFrame>> \in Seq(Frame)
        BY FrameTypes
      <3>2. stack' \in [Proc -> Seq(Frame)] /\ runQueue' \in [Proc -> Seq(Work)]
        BY <2>2, <3>1, SeqUpdate DEF DispatchMessageAndResetDidSchedule, NextWork, TypeOK
      <3> QED BY <2>2, <3>2 DEF DispatchMessageAndResetDidSchedule, TypeOK, endVars
    <2>3. CASE DispatchConnectionDidClose(p)
      <3>1. runQueue' \in [Proc -> Seq(Work)]
        BY <2>3, SeqUpdate DEF DispatchConnectionDidClose, NextWork, TypeOK
      <3> QED BY <2>3, <3>1 DEF DispatchConnectionDidClose, TypeOK
    <2>4. CASE DispatchMessages(p)
      <3> DEFINE e == Head(stack[p]).e
      <3>1. stack[p] \in Seq(Frame) /\ stack[p] # << >> /\ e \in Endpoint
        BY <2>4, FrameFields DEF DispatchMessages, Running, TypeOK
      <3>2. CASE incoming[e] = << >> /\ stack' = [stack EXCEPT ![p] = Tail(@)]
                   /\ UNCHANGED <<incoming, marked, owed>>
        <4>1. stack' \in [Proc -> Seq(Frame)]
          BY <3>1, <3>2, SeqUpdate DEF TypeOK
        <4> QED BY <2>4, <3>2, <4>1 DEF DispatchMessages, TypeOK
      <3>3. CASE /\ incoming[e] # << >>
                 /\ incoming' = [incoming EXCEPT ![e] = Tail(@)]
                 /\ DispatchMessage(p, [e |-> e, m |-> Head(incoming[e])], stack[p])
        <4>1. Head(incoming[e]) \in Message /\ incoming' \in [Endpoint -> Seq(Message)]
          <5>1. incoming \in [Endpoint -> Seq(Message)]
            BY DEF TypeOK
          <5> QED BY <3>1, <3>3, <5>1, SeqUpdate
        <4>2. [e |-> e, m |-> Head(incoming[e])] \in Delivery
          BY <3>1, <4>1 DEF Delivery
        <4>3. /\ stack' \in [Proc -> Seq(Frame)] /\ marked' \in [Endpoint -> Int]
              /\ owed' \in [Endpoint -> SUBSET Message]
          BY <3>1, <3>3, <4>2, DispatchMessageType
        <4> QED BY <2>4, <4>1, <4>3 DEF DispatchMessages, TypeOK
      <3> QED BY <2>4, <3>2, <3>3 DEF DispatchMessages
    <2>5. CASE SwapMessages(p)
      <3>1. stack[p] \in Seq(Frame) /\ stack[p] # << >> /\ toDispatch[p] \in Seq(Delivery)
        BY <2>5 DEF SwapMessages, Running, TypeOK
      <3>2. Tail(stack[p]) \in Seq(Frame)
        BY <3>1
      <3>3. toDispatch[p] # << >> =>
              <<BatchFrame(toDispatch[p])>> \o Tail(stack[p]) \in Seq(Frame)
        BY <3>1, <3>2, FrameTypes, PushType
      <3>4. stack' \in [Proc -> Seq(Frame)]
        BY <2>5, <3>2, <3>3, SeqUpdate DEF SwapMessages, TypeOK
      <3>5. toDispatch' \in [Proc -> Seq(Delivery)]
        BY <2>5 DEF SwapMessages, TypeOK
      <3> QED BY <2>5, <3>4, <3>5 DEF SwapMessages, TypeOK, endVars
    <2>6. CASE DispatchBatch(p)
      <3> DEFINE b == Head(stack[p]).batch
                 rest == IF Len(b) = 1 THEN Tail(stack[p])
                         ELSE <<BatchFrame(Tail(b))>> \o Tail(stack[p])
      <3>1. stack[p] \in Seq(Frame) /\ stack[p] # << >> /\ b \in Seq(Delivery) /\ b # << >>
        BY <2>6, FrameFields DEF DispatchBatch, Running, TypeOK
      <3>2. Tail(stack[p]) \in Seq(Frame)
        BY <3>1
      <3>4. /\ Head(b) \in Delivery /\ Tail(b) \in Seq(Delivery)
            /\ Len(b) # 1 => Tail(b) # << >>
        BY <3>1, HeadTailType
      <3>5. rest \in Seq(Frame)
        BY <3>2, <3>4, FrameTypes, PushType
      <3>6. /\ stack' \in [Proc -> Seq(Frame)] /\ marked' \in [Endpoint -> Int]
            /\ owed' \in [Endpoint -> SUBSET Message]
        BY <2>6, <3>4, <3>5, DispatchMessageType DEF DispatchBatch
      <3> QED BY <2>6, <3>6 DEF DispatchBatch, TypeOK
    <2>7. CASE HandlerReturns(p)
      <3> DEFINE d == Head(stack[p]).d
      <3>1. stack[p] \in Seq(Frame) /\ stack[p] # << >> /\ d \in Delivery
        BY <2>7, FrameFields DEF HandlerReturns, Running, TypeOK
      <3>2. d.e \in Endpoint /\ SyncMessageReply(d.m) \in Message
        BY <3>1, MessageTypes DEF Delivery
      <3>3. outgoing' \in [Endpoint -> Seq(Message)] /\ tasks' \in [Endpoint -> Seq(Task)]
        <4>1. CASE Head(stack[p]).encoder
          BY <2>7, <3>2, <4>1, SendMessageType DEF HandlerReturns
        <4>2. CASE ~Head(stack[p]).encoder
          BY <2>7, <4>2 DEF HandlerReturns, TypeOK
        <4> QED BY <4>1, <4>2
      <3>4. stack' \in [Proc -> Seq(Frame)]
        BY <2>7, <3>1, SeqUpdate DEF HandlerReturns, TypeOK
      <3>5. marked' \in [Endpoint -> Int]
        <4>1. marked' = [marked EXCEPT ![d.e] = IF d.m.dispatch THEN @ - 1 ELSE @]
          BY <2>7 DEF HandlerReturns
        <4>2. marked \in [Endpoint -> Int] /\ d.e \in Endpoint
          BY <3>2 DEF TypeOK
        <4>3. (IF d.m.dispatch THEN marked[d.e] - 1 ELSE marked[d.e]) \in Int
          BY <4>2
        <4> HIDE DEF d
        <4> QED BY <4>1, <4>2, <4>3
      <3> QED BY <2>7, <3>3, <3>4, <3>5 DEF HandlerReturns, TypeOK
    <2>8. CASE WaitReturns(p) \/ WaitTimesOut(p)
      <3>1. stack[p] # << >> /\ Head(stack[p]).fn = "waitForSyncReply"
        BY <2>8 DEF WaitReturns, WaitTimesOut, Waiting, Running
      <3>2. Head(stack[p]) \in Frame
        BY <3>1 DEF TypeOK
      <3>3. Head(stack[p]).e \in Endpoint
        BY <3>1, <3>2, FrameFields
      <3> QED BY <2>8, <3>1, <3>3, ReturnType DEF WaitReturns, WaitTimesOut
    <2>9. CASE WaitBlocks(p) \/ WaitWakes(p)
      <3> DEFINE f == Head(stack[p])
      <3>1. /\ stack[p] \in Seq(Frame) /\ stack[p] # << >>
            /\ f.e \in Endpoint /\ f.id \in Nat
            /\ \A pc : [f EXCEPT !.pc = pc] = WaitFrame(f.e, f.id, pc)
        <4>1. stack[p] # << >> /\ f.fn = "waitForSyncReply"
          BY <2>9 DEF WaitBlocks, WaitWakes, Waiting, Running
        <4>2. stack[p] \in Seq(Frame) /\ f \in Frame
          BY <4>1 DEF TypeOK
        <4> QED BY <4>1, <4>2, FrameFields
      <3>2. /\ [f EXCEPT !.pc = "check"] \in Frame
            /\ [f EXCEPT !.pc = "wait"] \in Frame
        BY <3>1, FrameTypes
      <3>3. /\ <<[f EXCEPT !.pc = "wait"]>> \o Tail(stack[p]) \in Seq(Frame)
            /\ <<SwapFrame, [f EXCEPT !.pc = "check"]>> \o Tail(stack[p]) \in Seq(Frame)
        BY <3>1, <3>2, FrameTypes, PushType
      <3>4. stack' \in [Proc -> Seq(Frame)]
        <4>1. PICK s \in Seq(Frame) : stack' = [stack EXCEPT ![p] = s]
          BY <2>9, <3>3 DEF WaitBlocks, WaitWakes
        <4>2. stack \in [Proc -> Seq(Frame)]
          BY DEF TypeOK
        <4> QED BY <4>1, <4>2
      <3>5. sem' \in [Proc -> BOOLEAN]
        BY <2>9 DEF WaitBlocks, WaitWakes, TypeOK
      <3>6. UNCHANGED <<endVars, alive, toDispatch, didSchedule, runQueue>>
        BY <2>9 DEF WaitBlocks, WaitWakes
      <3> QED BY <3>4, <3>5, <3>6 DEF TypeOK, endVars
    <2> QED BY <1>3, <2>1, <2>2, <2>3, <2>4, <2>5, <2>6, <2>7, <2>8, <2>9 DEF RunLoopStep
  <1>4. ASSUME NEW e \in Endpoint, WorkQueueStep(e) \/ PluginProcessCrashed(e)
        PROVE  TypeOK'
    <2> DEFINE p == ProcOf[e]
    <2>1. p \in Proc /\ PeerOf[e] \in Endpoint
      OBVIOUS
    <2>2. CASE SendOutgoingMessages(e)
      <3>1. tasks' \in [Endpoint -> Seq(Task)]
        BY <2>2, SeqUpdate DEF SendOutgoingMessages, NextTask, TypeOK
      <3>2. /\ outgoing[e] \in Seq(Message) /\ wire[PeerOf[e]] \in Seq(Message)
            /\ outgoing \in [Endpoint -> Seq(Message)]
            /\ wire \in [Endpoint -> Seq(Message)]
        BY <2>1 DEF TypeOK
      <3>3. Fits(e) \in Nat /\ Fits(e) <= Len(outgoing[e])
        <4>1. /\ Len(outgoing[e]) \in Nat /\ Len(wire[PeerOf[e]]) \in Nat
              /\ SocketCapacity \in Nat
          BY <3>2, BoundAssumption
        <4> QED BY <4>1 DEF Fits
      <3>4. /\ SubSeq(outgoing[e], 1, Fits(e)) \in Seq(Message)
            /\ Fits(e) # Len(outgoing[e]) =>
                 SubSeq(outgoing[e], Fits(e) + 2, Len(outgoing[e])) \in Seq(Message)
        BY <3>2, <3>3
      <3>5. wire[PeerOf[e]] \o SubSeq(outgoing[e], 1, Fits(e)) \in Seq(Message)
        BY <3>2, <3>4
      <3>6. wire' \in [Endpoint -> Seq(Message)]
        <4>1. \/ wire' = wire
              \/ wire' = [wire EXCEPT ![PeerOf[e]] = @ \o SubSeq(outgoing[e], 1, Fits(e))]
          BY <2>2 DEF SendOutgoingMessages
        <4>2. wire \in [Endpoint -> Seq(Message)] /\ PeerOf[e] \in Endpoint
          BY DEF TypeOK
        <4>3. CASE wire' = wire
          BY <4>2, <4>3
        <4>4. CASE wire' = [wire EXCEPT ![PeerOf[e]] = @ \o SubSeq(outgoing[e], 1, Fits(e))]
          BY <3>5, <4>2, <4>4
        <4> QED BY <4>1, <4>3, <4>4
      <3>7. outgoing' \in [Endpoint -> Seq(Message)]
        <4> DEFINE rest == IF Fits(e) = Len(outgoing[e]) THEN << >>
                           ELSE SubSeq(outgoing[e], Fits(e) + 2, Len(outgoing[e]))
        <4>1. rest \in Seq(Message)
          BY <3>4
        <4>2. outgoing' = outgoing \/ outgoing' = [outgoing EXCEPT ![e] = rest]
          BY <2>2 DEF SendOutgoingMessages
        <4> QED BY <3>2, <4>1, <4>2
      <3> QED BY <2>2, <3>1, <3>6, <3>7 DEF SendOutgoingMessages, TypeOK, loopVars
    <2>3. CASE InvalidateOnWorkQueue(e)
      <3>1. tasks' \in [Endpoint -> Seq(Task)]
        BY <2>3, SeqUpdate DEF InvalidateOnWorkQueue, NextTask, TypeOK
      <3>2. connected' \in [Endpoint -> BOOLEAN] /\ wire' \in [Endpoint -> Seq(Message)]
        BY <2>3 DEF InvalidateOnWorkQueue, PlatformInvalidate, TypeOK
      <3> QED BY <2>3, <3>1, <3>2 DEF InvalidateOnWorkQueue, TypeOK, loopVars
    <2>4. CASE Hangup(e) \/ ConnectionDidCloseOnWorkQueue(e)
      <3>1. ConnectionDidClose(e)
        BY <2>4 DEF Hangup, ConnectionDidCloseOnWorkQueue
      <3>2. tasks' \in [Endpoint -> Seq(Task)]
        <4>1. CASE Hangup(e)
          BY <4>1 DEF Hangup, TypeOK
        <4>2. CASE ConnectionDidCloseOnWorkQueue(e)
          BY <4>2, SeqUpdate DEF ConnectionDidCloseOnWorkQueue, NextTask, TypeOK
        <4> QED BY <2>4, <4>1, <4>2
      <3>3. [fn |-> "dispatchConnectionDidClose", e |-> e] \in Work
        BY DEF Work
      <3>4. runQueue' \in [Proc -> Seq(Work)]
        BY <2>1, <3>1, <3>3, SeqUpdate DEF ConnectionDidClose, TypeOK
      <3>5. sem' \in [Proc -> BOOLEAN]
        BY <2>1, <3>1 DEF ConnectionDidClose, TypeOK
      <3>6. /\ connected' \in [Endpoint -> BOOLEAN] /\ wire' \in [Endpoint -> Seq(Message)]
            /\ shouldWait' \in [Endpoint -> BOOLEAN]
        <4>1. /\ connected' = [connected EXCEPT ![e] = FALSE]
              /\ wire' = [wire EXCEPT ![e] = << >>]
              /\ shouldWait' = [shouldWait EXCEPT ![e] = FALSE]
          BY <3>1 DEF ConnectionDidClose, PlatformInvalidate
        <4>2. /\ connected \in [Endpoint -> BOOLEAN] /\ wire \in [Endpoint -> Seq(Message)]
              /\ shouldWait \in [Endpoint -> BOOLEAN]
          BY DEF TypeOK
        <4> QED BY <4>1, <4>2
      <3> QED BY <3>1, <3>2, <3>4, <3>5, <3>6 DEF ConnectionDidClose, TypeOK
    <2>5. CASE ReceiveSyncReply(e)
      <3> DEFINE m == Head(wire[e])
      <3>1. wire' \in [Endpoint -> Seq(Message)] /\ m \in Message
        BY <2>5, SeqUpdate DEF ReceiveSyncReply, ReadMessage, TypeOK
      <3>2. pending' \in [Endpoint -> Seq(PendingSyncReply)] /\ sem' \in [Proc -> BOOLEAN]
        <4>1. ASSUME NEW i \in DOMAIN pending[e],
                     pending' = [pending EXCEPT ![e][i].reply = m.request],
                     sem' = [sem EXCEPT ![p] = @ \/ i = Len(pending[e])]
              PROVE  pending' \in [Endpoint -> Seq(PendingSyncReply)] /\ sem' \in [Proc -> BOOLEAN]
          <5>1. pending[e] \in Seq(PendingSyncReply) /\ m.request \in Nat
            BY <3>1 DEF TypeOK, Message
          <5>2. [pending[e][i] EXCEPT !.reply = m.request] \in PendingSyncReply
            <6>1. pending[e][i] \in PendingSyncReply
              BY <5>1
            <6> QED BY <5>1, <6>1 DEF PendingSyncReply
          <5>3. [pending[e] EXCEPT ![i].reply = m.request] \in Seq(PendingSyncReply)
            BY <5>1, <5>2
          <5>4. pending' = [pending EXCEPT ![e] = [pending[e] EXCEPT ![i].reply = m.request]]
            BY <4>1
          <5>5. pending' \in [Endpoint -> Seq(PendingSyncReply)]
            BY <5>3, <5>4, SeqUpdate DEF TypeOK
          <5>6. sem' \in [Proc -> BOOLEAN]
            BY <2>1, <4>1 DEF TypeOK
          <5> QED BY <5>5, <5>6
        <4> QED BY <2>5, <4>1 DEF ReceiveSyncReply, TypeOK
      <3> QED BY <2>5, <3>1, <3>2 DEF ReceiveSyncReply, TypeOK
    <2>6. CASE ReceiveDispatchWhileWaiting(e)
      <3>1. wire' \in [Endpoint -> Seq(Message)] /\ Head(wire[e]) \in Message
        BY <2>6, SeqUpdate DEF ReceiveDispatchWhileWaiting, ReadMessage, TypeOK
      <3>2. /\ [e |-> e, m |-> Head(wire[e])] \in Delivery
            /\ [fn |-> "dispatchMessageAndReset"] \in Work
        BY <3>1 DEF Delivery, Work
      <3>3. toDispatch' \in [Proc -> Seq(Delivery)] /\ runQueue' \in [Proc -> Seq(Work)]
        BY <2>1, <2>6, <3>2, SeqUpdate DEF ReceiveDispatchWhileWaiting, TypeOK
      <3> QED BY <2>1, <2>6, <3>1, <3>3 DEF ReceiveDispatchWhileWaiting, TypeOK
    <2>7. CASE WakeUpClientRunLoop(e)
      BY <2>1, <2>7 DEF WakeUpClientRunLoop, TypeOK
    <2>8. CASE EnqueueIncomingMessage(e)
      <3>1. wire' \in [Endpoint -> Seq(Message)] /\ Head(wire[e]) \in Message
        BY <2>8, SeqUpdate DEF EnqueueIncomingMessage, ReadMessage, TypeOK
      <3>2. [fn |-> "dispatchMessages", e |-> e] \in Work
        BY DEF Work
      <3>3. incoming' \in [Endpoint -> Seq(Message)] /\ runQueue' \in [Proc -> Seq(Work)]
        <4>1. /\ incoming' = [incoming EXCEPT ![e] = Append(@, Head(wire[e]))]
              /\ runQueue' = [runQueue EXCEPT ![p] =
                    Append(@, [fn |-> "dispatchMessages", e |-> e])]
          BY <2>8 DEF EnqueueIncomingMessage
        <4>2. incoming \in [Endpoint -> Seq(Message)] /\ runQueue \in [Proc -> Seq(Work)]
          BY DEF TypeOK
        <4> QED BY <2>1, <3>1, <3>2, <4>1, <4>2, SeqUpdate
      <3> QED BY <2>8, <3>1, <3>3 DEF EnqueueIncomingMessage, TypeOK
    <2>9. CASE PluginProcessCrashed(e)
      <3>1. noticed' \in [Endpoint -> BOOLEAN]
        BY <2>9 DEF PluginProcessCrashed, TypeOK
      <3>2. tasks' \in [Endpoint -> Seq(Task)]
        <4>1. "connectionDidClose" \in Task
          BY DEF Task
        <4> QED BY <2>9, <4>1, SeqUpdate DEF PluginProcessCrashed, TypeOK
      <3> QED BY <2>9, <3>1, <3>2 DEF PluginProcessCrashed, TypeOK, loopVars
    <2> QED BY <1>4, <2>2, <2>3, <2>4, <2>5, <2>6, <2>7, <2>8, <2>9 DEF WorkQueueStep
  <1>5. ASSUME NEW p \in Proc, Killed(p) PROVE TypeOK'
    BY <1>5 DEF Killed, TypeOK, endVars
  <1> QED BY <1>1, <1>2, <1>3, <1>4, <1>5 DEF Next

(* The types hold in every state of every behaviour.                        *)
THEOREM TypeCorrect == Spec => []TypeOK
  <1>1. Init => TypeOK
    BY DEF Init, TypeOK
  <1> QED BY <1>1, TypeStep, PTL DEF Spec

-----------------------------------------------------------------------------
(* The stack of a client run loop thread: what pushing and popping calls    *)
(* does to Calls and Matches, the parts of the inductive invariant that     *)
(* relate the sendSyncMessage calls of a thread to the pending replies of   *)
(* its connections.                                                         *)

(* Two frames are the same call on e, perhaps at different points of it.    *)
SameCall(f, g, e) ==
    WaitsOn(f, e) = WaitsOn(g, e) /\ (WaitsOn(f, e) => f.id = g.id)

(* t is s with the a innermost calls replaced by b others, none of them a   *)
(* sendSyncMessage on e.                                                    *)
Shift(s, t, a, b, e) ==
    /\ a <= Len(s) /\ b <= Len(t) /\ Len(s) - a = Len(t) - b
    /\ \A k \in 1..a : ~WaitsOn(s[k], e)
    /\ \A k \in 1..b : ~WaitsOn(t[k], e)
    /\ \A k \in 1..(Len(s) - a) : SameCall(s[a + k], t[b + k], e)

(* Where a call of one stack is found in the other.                         *)
LEMMA ShiftForth ==
    ASSUME NEW s \in Seq(Frame), NEW t \in Seq(Frame), NEW a \in Nat, NEW b \in Nat,
           NEW e, Shift(s, t, a, b, e)
    PROVE  \A k \in DOMAIN s : WaitsOn(s[k], e) =>
             /\ (k - a) + b \in DOMAIN t
             /\ WaitsOn(t[(k - a) + b], e) /\ t[(k - a) + b].id = s[k].id
  <1> SUFFICES ASSUME NEW k \in DOMAIN s, WaitsOn(s[k], e)
               PROVE  /\ (k - a) + b \in DOMAIN t
                      /\ WaitsOn(t[(k - a) + b], e) /\ t[(k - a) + b].id = s[k].id
    OBVIOUS
  <1>1. k \in Nat /\ k >= 1 /\ k <= Len(s) /\ Len(s) \in Nat /\ Len(t) \in Nat
    OBVIOUS
  <1>2. k > a
    <2>1. k \notin 1..a
      BY DEF Shift
    <2> QED BY <1>1, <2>1
  <1>3. k - a \in 1..(Len(s) - a) /\ a + (k - a) = k /\ b + (k - a) = (k - a) + b
    BY <1>1, <1>2
  <1>4. SameCall(s[a + (k - a)], t[b + (k - a)], e)
    BY <1>3 DEF Shift
  <1>5. DOMAIN t = 1..Len(t) /\ (k - a) + b \in 1..Len(t)
    BY <1>1, <1>3 DEF Shift
  <1>6. SameCall(s[k], t[(k - a) + b], e)
    BY <1>3, <1>4
  <1> QED BY <1>5, <1>6 DEF SameCall

LEMMA ShiftBack ==
    ASSUME NEW s \in Seq(Frame), NEW t \in Seq(Frame), NEW a \in Nat, NEW b \in Nat,
           NEW e, Shift(s, t, a, b, e)
    PROVE  \A k \in DOMAIN t : WaitsOn(t[k], e) =>
             /\ (k - b) + a \in DOMAIN s
             /\ WaitsOn(s[(k - b) + a], e) /\ s[(k - b) + a].id = t[k].id
  <1> SUFFICES ASSUME NEW k \in DOMAIN t, WaitsOn(t[k], e)
               PROVE  /\ (k - b) + a \in DOMAIN s
                      /\ WaitsOn(s[(k - b) + a], e) /\ s[(k - b) + a].id = t[k].id
    OBVIOUS
  <1>1. k \in Nat /\ k >= 1 /\ k <= Len(t) /\ Len(s) \in Nat /\ Len(t) \in Nat
    OBVIOUS
  <1>2. k > b
    <2>1. k \notin 1..b
      BY DEF Shift
    <2> QED BY <1>1, <2>1
  <1>3. k - b \in 1..(Len(s) - a) /\ b + (k - b) = k /\ a + (k - b) = (k - b) + a
    BY <1>1, <1>2 DEF Shift
  <1>4. SameCall(s[a + (k - b)], t[b + (k - b)], e)
    BY <1>3 DEF Shift
  <1>5. DOMAIN s = 1..Len(s) /\ (k - b) + a \in 1..Len(s)
    BY <1>1, <1>3
  <1>6. SameCall(s[(k - b) + a], t[k], e)
    BY <1>3, <1>4
  <1> QED BY <1>5, <1>6 DEF SameCall

(* A shift keeps the calls on e and its pending replies in step.            *)
LEMMA ShiftKeepsMatches ==
    ASSUME NEW s \in Seq(Frame), NEW t \in Seq(Frame), NEW a \in Nat, NEW b \in Nat,
           NEW e, Shift(s, t, a, b, e), NEW q, NEW n, Matches(s, q, n, e)
    PROVE  Matches(t, q, n, e)
  <1>a. \A k \in DOMAIN t : WaitsOn(t[k], e) =>
          /\ (k - b) + a \in DOMAIN s
          /\ WaitsOn(s[(k - b) + a], e) /\ s[(k - b) + a].id = t[k].id
    BY ShiftBack
  <1>b. \A k \in DOMAIN s : WaitsOn(s[k], e) =>
          /\ (k - a) + b \in DOMAIN t
          /\ WaitsOn(t[(k - a) + b], e) /\ t[(k - a) + b].id = s[k].id
    BY ShiftForth
  <1>1. ASSUME NEW k \in DOMAIN t, WaitsOn(t[k], e)
        PROVE  \E i \in DOMAIN q : q[i].id = t[k].id
    BY <1>a, <1>1 DEF Matches
  <1>2. ASSUME NEW i \in DOMAIN q
        PROVE  \E k \in DOMAIN t : WaitsOn(t[k], e) /\ q[i].id = t[k].id
    <2>1. PICK k \in DOMAIN s : WaitsOn(s[k], e) /\ q[i].id = s[k].id
      BY DEF Matches
    <2> QED BY <1>b, <2>1
  <1>3. ASSUME NEW j \in DOMAIN t, NEW k \in DOMAIN t, WaitsOn(t[j], e), WaitsOn(t[k], e), j < k
        PROVE  t[j].id > t[k].id
    <2>1. (j - b) + a < (k - b) + a
      BY <1>3
    <2> QED BY <1>a, <1>3, <2>1 DEF Matches
  <1> QED BY <1>1, <1>2, <1>3 DEF Matches

(* The elements of a sequence after a push and after a pop.                 *)
LEMMA PushElems ==
    ASSUME NEW T, NEW s \in Seq(T), NEW f \in T
    PROVE  /\ <<f>> \o s \in Seq(T) /\ Len(<<f>> \o s) = Len(s) + 1
           /\ Head(<<f>> \o s) = f /\ (<<f>> \o s)[1] = f /\ <<f>> \o s # << >>
           /\ \A k \in 1..Len(s) : (<<f>> \o s)[1 + k] = s[k]
           /\ \A k \in 2..(Len(s) + 1) : (<<f>> \o s)[k] = s[k - 1]
  OBVIOUS

LEMMA TailElems ==
    ASSUME NEW T, NEW s \in Seq(T), s # << >>
    PROVE  /\ Tail(s) \in Seq(T) /\ Len(Tail(s)) = Len(s) - 1 /\ Len(s) >= 1
           /\ Head(s) = s[1] /\ Head(s) \in T
           /\ \A k \in 1..(Len(s) - 1) : Tail(s)[k] = s[1 + k]
  OBVIOUS

(* The calls on e after other calls were pushed, popped or went on.         *)
LEMMA MatchesPush ==
    ASSUME NEW s \in Seq(Frame), NEW f \in Frame, NEW e, ~WaitsOn(f, e),
           NEW q, NEW n, Matches(s, q, n, e)
    PROVE  Matches(<<f>> \o s, q, n, e)
  <1>1. <<f>> \o s \in Seq(Frame) /\ Len(<<f>> \o s) = Len(s) + 1
    BY PushElems
  <1>2. (<<f>> \o s)[1] = f /\ \A k \in 1..Len(s) : (<<f>> \o s)[1 + k] = s[k]
    BY PushElems
  <1>3. Shift(s, <<f>> \o s, 0, 1, e)
    <2>1. \A k \in 1..1 : ~WaitsOn((<<f>> \o s)[k], e)
      BY <1>2
    <2>2. \A k \in 1..(Len(s) - 0) : SameCall(s[0 + k], (<<f>> \o s)[1 + k], e)
      <3> SUFFICES ASSUME NEW k \in 1..Len(s) PROVE SameCall(s[k], (<<f>> \o s)[1 + k], e)
        OBVIOUS
      <3> QED BY <1>2 DEF SameCall
    <2> QED BY <1>1, <2>1, <2>2 DEF Shift
  <1> QED BY <1>1, <1>3, ShiftKeepsMatches

LEMMA MatchesTail ==
    ASSUME NEW s \in Seq(Frame), s # << >>, NEW e, ~WaitsOn(Head(s), e),
           NEW q, NEW n, Matches(s, q, n, e)
    PROVE  Matches(Tail(s), q, n, e)
  <1>1. Tail(s) \in Seq(Frame) /\ Len(Tail(s)) = Len(s) - 1 /\ Head(s) = s[1] /\ Len(s) >= 1
    BY TailElems
  <1>2. \A k \in 1..(Len(s) - 1) : Tail(s)[k] = s[1 + k]
    BY TailElems
  <1>3. Shift(s, Tail(s), 1, 0, e)
    <2>1. \A k \in 1..1 : ~WaitsOn(s[k], e)
      BY <1>1
    <2>2. \A k \in 1..(Len(s) - 1) : SameCall(s[1 + k], Tail(s)[0 + k], e)
      <3> SUFFICES ASSUME NEW k \in 1..(Len(s) - 1) PROVE SameCall(s[1 + k], Tail(s)[k], e)
        OBVIOUS
      <3> QED BY <1>2 DEF SameCall
    <2> QED BY <1>1, <2>1, <2>2 DEF Shift
  <1> QED BY <1>1, <1>3, ShiftKeepsMatches

LEMMA MatchesRelabel ==
    ASSUME NEW s \in Seq(Frame), s # << >>, NEW e, NEW g \in Frame, SameCall(Head(s), g, e),
           NEW q, NEW n, Matches(s, q, n, e)
    PROVE  Matches(<<g>> \o Tail(s), q, n, e)
  <1> DEFINE t == <<g>> \o Tail(s)
  <1>1. Tail(s) \in Seq(Frame) /\ Len(Tail(s)) = Len(s) - 1 /\ Head(s) = s[1] /\ Len(s) >= 1
    BY TailElems
  <1>2. t \in Seq(Frame) /\ Len(t) = Len(s)
    BY <1>1, PushElems
  <1>3. t[1] = g /\ \A k \in 2..Len(s) : t[k] = s[k]
    BY <1>1
  <1>4. \A k \in 1..Len(s) : SameCall(s[k], t[k], e)
    <2> SUFFICES ASSUME NEW k \in 1..Len(s) PROVE SameCall(s[k], t[k], e)
      OBVIOUS
    <2>1. CASE k = 1
      BY <2>1, <1>1, <1>3
    <2>2. CASE k # 1
      <3>1. t[k] = s[k]
        BY <2>2, <1>3
      <3> QED BY <3>1 DEF SameCall
    <2> QED BY <2>1, <2>2
  <1> HIDE DEF t
  <1>5. Shift(s, t, 0, 0, e)
    BY <1>2, <1>4 DEF Shift
  <1>6. Matches(t, q, n, e)
    BY <1>2, <1>5, ShiftKeepsMatches
  <1> QED BY <1>6 DEF t

(* Ids are natural numbers.                                                 *)
LEMMA PendingIdType ==
    ASSUME NEW q \in Seq(PendingSyncReply), NEW i \in DOMAIN q
    PROVE  q[i].id \in Nat
  <1>1. q[i] \in PendingSyncReply
    OBVIOUS
  <1> QED BY <1>1 DEF PendingSyncReply

LEMMA WaitIdType ==
    ASSUME NEW s \in Seq(Frame), NEW k \in DOMAIN s, NEW e, WaitsOn(s[k], e)
    PROVE  s[k].id \in Nat
  <1>1. s[k] \in Frame /\ s[k].fn = "waitForSyncReply"
    BY DEF WaitsOn, IsWait
  <1> QED BY <1>1, FrameFields

(* More ids were given out, or a reply was stored.                          *)
LEMMA MatchesMono ==
    ASSUME NEW s \in Seq(Frame), NEW q \in Seq(PendingSyncReply), NEW n \in Nat,
           NEW m \in Nat, n <= m, NEW e, Matches(s, q, n, e)
    PROVE  Matches(s, q, m, e)
  <1>1. \A i \in DOMAIN q : q[i].id <= m
    <2> SUFFICES ASSUME NEW i \in DOMAIN q PROVE q[i].id <= m
      OBVIOUS
    <2>1. q[i].id \in Nat
      BY PendingIdType
    <2>2. q[i].id <= n
      BY DEF Matches
    <2> QED BY <2>1, <2>2
  <1> QED BY <1>1 DEF Matches

LEMMA MatchesReply ==
    ASSUME NEW s, NEW q, NEW r, NEW n, NEW e, Matches(s, q, n, e),
           DOMAIN r = DOMAIN q, \A i \in DOMAIN q : r[i].id = q[i].id
    PROVE  Matches(s, r, n, e)
  BY DEF Matches

(* The innermost call on e belongs to the last pending reply.               *)
LEMMA InnermostIsLast ==
    ASSUME NEW s \in Seq(Frame), NEW q \in Seq(PendingSyncReply), NEW n, NEW e,
           Matches(s, q, n, e), NEW k \in DOMAIN s, WaitsOn(s[k], e),
           \A j \in DOMAIN s : j < k => ~WaitsOn(s[j], e)
    PROVE  q # << >> /\ Len(q) \in DOMAIN q /\ LastOf(q).id = s[k].id
  <1>1. PICK i \in DOMAIN q : q[i].id = s[k].id
    BY DEF Matches
  <1>2. DOMAIN q = 1..Len(q) /\ Len(q) \in Nat
    OBVIOUS
  <1>3. i \in Nat /\ i <= Len(q) /\ Len(q) \in DOMAIN q /\ q # << >>
    BY <1>1, <1>2
  <1>4. CASE i = Len(q)
    BY <1>1, <1>3, <1>4 DEF LastOf
  <1>5. CASE i # Len(q)
    <2>1. q[i].id < q[Len(q)].id
      BY <1>3, <1>5 DEF Matches
    <2>2. PICK m \in DOMAIN s : WaitsOn(s[m], e) /\ q[Len(q)].id = s[m].id
      BY <1>3 DEF Matches
    <2>3. s[k].id \in Nat /\ s[m].id \in Nat
      BY <2>2, WaitIdType
    <2>4. s[k].id < s[m].id
      BY <1>1, <2>1, <2>2
    <2>5. k < m
      <3>1. m # k /\ ~(m < k)
        BY <2>2, <2>3, <2>4
      <3> QED BY <3>1
    <2>6. s[k].id > s[m].id
      BY <2>2, <2>5 DEF Matches
    <2> QED BY <2>3, <2>4, <2>6
  <1> QED BY <1>4, <1>5

(* A new call on e, with a new id.                                          *)
LEMMA MatchesCall ==
    ASSUME NEW s \in Seq(Frame), NEW q \in Seq(PendingSyncReply), NEW n \in Nat, NEW e,
           Matches(s, q, n, e), NEW w \in Frame, WaitsOn(w, e), w.id = n + 1,
           NEW x \in PendingSyncReply, x.id = n + 1
    PROVE  Matches(<<w>> \o s, Append(q, x), n + 1, e)
  <1> DEFINE t == <<w>> \o s
             r == Append(q, x)
  <1>1. /\ DOMAIN s = 1..Len(s) /\ Len(s) \in Nat /\ DOMAIN t = 1..(Len(s) + 1)
        /\ t[1] = w /\ \A k \in 1..Len(s) : t[1 + k] = s[k]
        /\ \A k \in 2..(Len(s) + 1) : t[k] = s[k - 1]
    BY PushElems
  <1>2. /\ DOMAIN q = 1..Len(q) /\ Len(q) \in Nat /\ DOMAIN r = 1..(Len(q) + 1)
        /\ r[Len(q) + 1] = x /\ \A i \in 1..Len(q) : r[i] = q[i]
    OBVIOUS
  <1>3. \A i \in DOMAIN q : q[i].id \in Nat /\ q[i].id <= n
    BY PendingIdType DEF Matches
  <1>4. \A k \in DOMAIN s : WaitsOn(s[k], e) => s[k].id \in Nat /\ s[k].id <= n
    <2> SUFFICES ASSUME NEW k \in DOMAIN s, WaitsOn(s[k], e) PROVE s[k].id \in Nat /\ s[k].id <= n
      OBVIOUS
    <2>1. \E i \in DOMAIN q : q[i].id = s[k].id
      BY DEF Matches
    <2> QED BY <1>3, <2>1
  <1> HIDE DEF t, r
  <1>5. ASSUME NEW k \in DOMAIN t, WaitsOn(t[k], e)
        PROVE  \E i \in DOMAIN r : r[i].id = t[k].id
    <2>1. CASE k = 1
      BY <1>1, <1>2, <2>1
    <2>2. CASE k # 1
      <3>1. k - 1 \in DOMAIN s /\ t[k] = s[k - 1]
        BY <1>1, <2>2
      <3>2. PICK i \in DOMAIN q : q[i].id = s[k - 1].id
        BY <1>5, <3>1 DEF Matches
      <3>3. i \in DOMAIN r /\ r[i] = q[i]
        BY <1>2, <3>2
      <3> QED BY <3>1, <3>2, <3>3
    <2> QED BY <2>1, <2>2
  <1>6. ASSUME NEW i \in DOMAIN r
        PROVE  \E k \in DOMAIN t : WaitsOn(t[k], e) /\ r[i].id = t[k].id
    <2>1. CASE i = Len(q) + 1
      BY <1>1, <1>2, <2>1
    <2>2. CASE i # Len(q) + 1
      <3>1. i \in DOMAIN q /\ r[i] = q[i]
        BY <1>2, <2>2
      <3>2. PICK k \in DOMAIN s : WaitsOn(s[k], e) /\ q[i].id = s[k].id
        BY <3>1 DEF Matches
      <3>3. 1 + k \in DOMAIN t /\ t[1 + k] = s[k]
        BY <1>1, <3>2
      <3> QED BY <3>1, <3>2, <3>3
    <2> QED BY <2>1, <2>2
  <1>7. \A i \in DOMAIN r : r[i].id <= n + 1
    <2> SUFFICES ASSUME NEW i \in DOMAIN r PROVE r[i].id <= n + 1
      OBVIOUS
    <2>1. CASE i = Len(q) + 1
      BY <1>2, <2>1
    <2>2. CASE i # Len(q) + 1
      <3>1. i \in DOMAIN q /\ r[i] = q[i]
        BY <1>2, <2>2
      <3> QED BY <1>3, <3>1
    <2> QED BY <2>1, <2>2
  <1>8. ASSUME NEW i \in DOMAIN r, NEW j \in DOMAIN r, i < j
        PROVE  r[i].id < r[j].id
    <2>1. i \in DOMAIN q /\ r[i] = q[i]
      BY <1>2, <1>8
    <2>2. CASE j = Len(q) + 1
      BY <1>2, <1>3, <2>1, <2>2
    <2>3. CASE j # Len(q) + 1
      <3>1. j \in DOMAIN q /\ r[j] = q[j]
        BY <1>2, <2>3
      <3> QED BY <1>8, <2>1, <3>1 DEF Matches
    <2> QED BY <2>2, <2>3
  <1>9. ASSUME NEW j \in DOMAIN t, NEW k \in DOMAIN t, WaitsOn(t[j], e), WaitsOn(t[k], e), j < k
        PROVE  t[j].id > t[k].id
    <2>1. k - 1 \in DOMAIN s /\ t[k] = s[k - 1]
      BY <1>1, <1>9
    <2>2. CASE j = 1
      BY <1>1, <1>4, <1>9, <2>1, <2>2
    <2>3. CASE j # 1
      <3>1. j - 1 \in DOMAIN s /\ t[j] = s[j - 1] /\ j - 1 < k - 1
        BY <1>1, <1>9, <2>3
      <3> QED BY <1>9, <2>1, <3>1 DEF Matches
    <2> QED BY <2>2, <2>3
  <1>10. Matches(t, r, n + 1, e)
    BY <1>5, <1>6, <1>7, <1>8, <1>9 DEF Matches
  <1> QED BY <1>10 DEF t, r

(* The innermost call on e returns and takes its pending reply with it.     *)
LEMMA MatchesReturn ==
    ASSUME NEW s \in Seq(Frame), NEW q \in Seq(PendingSyncReply), NEW n, NEW e,
           Matches(s, q, n, e), s # << >>, WaitsOn(Head(s), e)
    PROVE  Matches(Tail(s), AllButLast(q), n, e)
  <1> DEFINE t == Tail(s)
             r == AllButLast(q)
             l == Len(q)
  <1>1. /\ DOMAIN s = 1..Len(s) /\ Len(s) \in Nat /\ 1 \in DOMAIN s
        /\ DOMAIN t = 1..(Len(s) - 1) /\ Head(s) = s[1]
        /\ \A k \in 1..(Len(s) - 1) : t[k] = s[1 + k]
    BY TailElems
  <1>2. WaitsOn(s[1], e) /\ \A j \in DOMAIN s : ~(j < 1)
    BY <1>1
  <1>3. q # << >> /\ l \in DOMAIN q /\ q[l].id = s[1].id
    BY <1>1, <1>2, InnermostIsLast DEF LastOf
  <1>4. /\ DOMAIN q = 1..l /\ l \in Nat
        /\ DOMAIN r = 1..(l - 1) /\ \A i \in 1..(l - 1) : r[i] = q[i]
    BY <1>3 DEF AllButLast
  <1>5. \A k \in DOMAIN t : 1 + k \in DOMAIN s /\ t[k] = s[1 + k] /\ 1 < 1 + k
    BY <1>1
  <1>6. \A i \in DOMAIN r : i \in DOMAIN q /\ r[i] = q[i] /\ i < l
    BY <1>4
  <1> HIDE DEF t, r, l
  <1>7. ASSUME NEW k \in DOMAIN t, WaitsOn(t[k], e)
        PROVE  \E i \in DOMAIN r : r[i].id = t[k].id
    <2>1. 1 + k \in DOMAIN s /\ t[k] = s[1 + k] /\ 1 < 1 + k
      BY <1>5
    <2>2. s[1].id > s[1 + k].id
      BY <1>1, <1>2, <1>7, <2>1 DEF Matches
    <2>3. PICK i \in DOMAIN q : q[i].id = s[1 + k].id
      BY <1>7, <2>1 DEF Matches
    <2>4. s[1].id \in Nat /\ s[1 + k].id \in Nat
      BY <1>1, <1>2, <1>7, <2>1, WaitIdType
    <2>5. i # l
      BY <1>3, <2>2, <2>3, <2>4
    <2>6. i \in DOMAIN r /\ r[i] = q[i]
      BY <1>4, <2>3, <2>5
    <2> QED BY <2>1, <2>3, <2>6
  <1>8. ASSUME NEW i \in DOMAIN r
        PROVE  \E k \in DOMAIN t : WaitsOn(t[k], e) /\ r[i].id = t[k].id
    <2>1. i \in DOMAIN q /\ r[i] = q[i] /\ i < l
      BY <1>6
    <2>2. PICK k \in DOMAIN s : WaitsOn(s[k], e) /\ q[i].id = s[k].id
      BY <2>1 DEF Matches
    <2>3. q[i].id < q[l].id
      BY <1>3, <2>1 DEF Matches
    <2>4. q[i].id \in Nat /\ q[l].id \in Nat
      BY <1>3, <2>1, PendingIdType
    <2>5. k # 1
      BY <1>3, <2>2, <2>3, <2>4
    <2>6. k - 1 \in DOMAIN t /\ t[k - 1] = s[k]
      BY <1>1, <2>2, <2>5
    <2> QED BY <2>1, <2>2, <2>6
  <1>9. \A i \in DOMAIN r : r[i].id <= n
    BY <1>6 DEF Matches
  <1>10. \A i, j \in DOMAIN r : i < j => r[i].id < r[j].id
    BY <1>6 DEF Matches
  <1>11. ASSUME NEW j \in DOMAIN t, NEW k \in DOMAIN t, WaitsOn(t[j], e), WaitsOn(t[k], e), j < k
         PROVE  t[j].id > t[k].id
    <2>1. 1 + j < 1 + k
      BY <1>1, <1>11
    <2>2. 1 + j \in DOMAIN s /\ t[j] = s[1 + j] /\ 1 + k \in DOMAIN s /\ t[k] = s[1 + k]
      BY <1>5
    <2> QED BY <1>11, <2>1, <2>2 DEF Matches
  <1>12. Matches(t, r, n, e)
    BY <1>7, <1>8, <1>9, <1>10, <1>11 DEF Matches
  <1> QED BY <1>12 DEF t, r

-----------------------------------------------------------------------------
(* No call of the stack is blocked on the semaphore.                        *)
MyCheck(f, p) == IsWait(f) => ProcOf[f.e] = p /\ f.pc = "check"
Parked(s, p) == \A k \in DOMAIN s : MyCheck(s[k], p)

LEMMA ParkedIsCalls ==
    ASSUME NEW s, NEW p, Parked(s, p)
    PROVE  Calls(s, p)
  BY DEF Parked, MyCheck, Calls

LEMMA CallsTail ==
    ASSUME NEW s \in Seq(Frame), NEW p, Calls(s, p), s # << >>
    PROVE  /\ Parked(Tail(s), p)
           /\ IsWait(Head(s)) => ProcOf[Head(s).e] = p
  <1>1. DOMAIN Tail(s) = 1..(Len(s) - 1) /\ Head(s) = s[1] /\ 1 \in DOMAIN s /\ DOMAIN s = 1..Len(s)
    BY TailElems
  <1>2. \A k \in DOMAIN Tail(s) : 1 + k \in DOMAIN s /\ Tail(s)[k] = s[1 + k] /\ 1 + k # 1
    BY <1>1, TailElems
  <1> QED BY <1>1, <1>2 DEF Calls, Parked, MyCheck

LEMMA ParkedPush ==
    ASSUME NEW s \in Seq(Frame), NEW p, Parked(s, p), NEW f \in Frame
    PROVE  /\ MyCheck(f, p) => Parked(<<f>> \o s, p)
           /\ (IsWait(f) => ProcOf[f.e] = p) => Calls(<<f>> \o s, p)
  <1> DEFINE t == <<f>> \o s
  <1>1. /\ DOMAIN t = 1..(Len(s) + 1) /\ t[1] = f /\ DOMAIN s = 1..Len(s) /\ Len(s) \in Nat
        /\ \A k \in 2..(Len(s) + 1) : t[k] = s[k - 1]
    BY PushElems
  <1>2. \A k \in DOMAIN t : k # 1 => k - 1 \in DOMAIN s /\ t[k] = s[k - 1]
    BY <1>1
  <1> HIDE DEF t
  <1>3. MyCheck(f, p) => Parked(t, p)
    BY <1>1, <1>2 DEF Parked
  <1>4. (IsWait(f) => ProcOf[f.e] = p) => Calls(t, p)
    BY <1>1, <1>2 DEF Parked, Calls, MyCheck
  <1> QED BY <1>3, <1>4 DEF t

LEMMA CallsParked ==
    ASSUME NEW s \in Seq(Frame), NEW p, Calls(s, p),
           s # << >> => ~IsWait(Head(s)) \/ Head(s).pc = "check"
    PROVE  Parked(s, p)
  <1> SUFFICES ASSUME NEW k \in DOMAIN s PROVE MyCheck(s[k], p)
    BY DEF Parked
  <1>1. CASE k = 1
    <2>1. s # << >> /\ Head(s) = s[k]
      BY <1>1
    <2> QED BY <2>1 DEF Calls, MyCheck
  <1>2. CASE k # 1
    BY <1>2 DEF Calls, MyCheck
  <1> QED BY <1>1, <1>2

(* t holds the same sendSyncMessage calls as s and none of them is blocked. *)
Moves(s, t, p) ==
    /\ Parked(t, p)
    /\ \A e, q, n : Matches(s, q, n, e) => Matches(t, q, n, e)

LEMMA MovePop ==
    ASSUME NEW s \in Seq(Frame), NEW p, Calls(s, p), s # << >>, ~IsWait(Head(s))
    PROVE  Tail(s) \in Seq(Frame) /\ Moves(s, Tail(s), p)
  <1>1. Parked(Tail(s), p) /\ Tail(s) \in Seq(Frame)
    BY CallsTail
  <1>2. ASSUME NEW e, NEW q, NEW n, Matches(s, q, n, e) PROVE Matches(Tail(s), q, n, e)
    <2>1. ~WaitsOn(Head(s), e)
      BY DEF WaitsOn
    <2> QED BY <1>2, <2>1, MatchesTail
  <1> QED BY <1>1, <1>2 DEF Moves

LEMMA MovePush ==
    ASSUME NEW s \in Seq(Frame), NEW t \in Seq(Frame), NEW p, Moves(s, t, p),
           NEW f \in Frame, ~IsWait(f)
    PROVE  <<f>> \o t \in Seq(Frame) /\ Moves(s, <<f>> \o t, p)
  <1>1. Parked(<<f>> \o t, p) /\ <<f>> \o t \in Seq(Frame)
    BY ParkedPush, PushElems DEF Moves, MyCheck
  <1>2. ASSUME NEW e, NEW q, NEW n, Matches(s, q, n, e) PROVE Matches(<<f>> \o t, q, n, e)
    <2>1. ~WaitsOn(f, e)
      BY DEF WaitsOn
    <2>2. Matches(t, q, n, e)
      BY <1>2 DEF Moves
    <2> QED BY <2>1, <2>2, MatchesPush
  <1> QED BY <1>1, <1>2 DEF Moves

LEMMA MoveNone ==
    ASSUME NEW s \in Seq(Frame), NEW p, Calls(s, p),
           s # << >> => ~IsWait(Head(s))
    PROVE  Moves(s, s, p)
  <1>1. Parked(s, p)
    BY CallsParked
  <1> QED BY <1>1 DEF Moves

-----------------------------------------------------------------------------
(* The steps.                                                               *)

(* Steps of the client thread of p: its stack becomes t, in which no call   *)
(* is blocked.  They disturb the invariant only through the pending replies *)
(* of p's own connections and the messages stored for p.                    *)
LEMMA StackStep ==
    ASSUME IInv, TypeOK', NEW p \in Proc, NEW t \in Seq(Frame),
           stack' = [stack EXCEPT ![p] = t], Parked(t, p),
           \A e \in EndsOf(p) : Matches(t, pending'[e], syncRequestID'[e], e),
           \A e \in Endpoint \ EndsOf(p) :
             pending'[e] = pending[e] /\ syncRequestID'[e] = syncRequestID[e],
           \A r \in Proc \ {p} : sem'[r] = sem[r] /\ toDispatch'[r] = toDispatch[r],
           shouldWait' = shouldWait, signalling' = signalling,
           toDispatch'[p] # << >> =>
             \/ sem'[p]
             \/ t # << >> /\ Head(t).fn = "swap"
             \/ \E f \in EndsOf(p) : signalling[f]
    PROVE  IInv'
  <1> USE TopologyAssumption
  <1>1. /\ stack \in [Proc -> Seq(Frame)] /\ stack'[p] = t
        /\ \A r \in Proc \ {p} : stack'[r] = stack[r]
    BY DEF IInv, TypeOK
  <1>2. CallsInv'
    <2> SUFFICES ASSUME NEW r \in Proc PROVE Calls(stack'[r], r)
      BY DEF CallsInv
    <2>1. CASE r = p
      BY <1>1, <2>1, ParkedIsCalls
    <2>2. CASE r # p
      BY <1>1, <2>2 DEF IInv, CallsInv
    <2> QED BY <2>1, <2>2
  <1>3. MatchInv'
    <2> SUFFICES ASSUME NEW e \in Endpoint
                 PROVE  Matches(stack'[ProcOf[e]], pending'[e], syncRequestID'[e], e)
      BY DEF MatchInv
    <2>1. CASE ProcOf[e] = p
      BY <1>1, <2>1 DEF EndsOf
    <2>2. CASE ProcOf[e] # p
      <3>1. pending'[e] = pending[e] /\ syncRequestID'[e] = syncRequestID[e]
        BY <2>2 DEF EndsOf
      <3>2. stack'[ProcOf[e]] = stack[ProcOf[e]]
        BY <1>1, <2>2
      <3> QED BY <3>1, <3>2 DEF IInv, MatchInv
    <2> QED BY <2>1, <2>2
  <1>4. WakeInv'
    <2> SUFFICES ASSUME NEW r \in Proc, toDispatch'[r] # << >>
                 PROVE  \/ sem'[r]
                        \/ stack'[r] # << >> /\ Head(stack'[r]).fn = "swap"
                        \/ \E f \in EndsOf(r) : signalling'[f]
      BY Zenon DEF WakeInv, EndsOf
    <2>1. CASE r = p
      BY <1>1, <2>1
    <2>2. CASE r # p
      <3>1. stack'[r] = stack[r] /\ sem'[r] = sem[r] /\ toDispatch[r] # << >>
        BY <1>1, <2>2
      <3>2. \/ sem[r]
            \/ stack[r] # << >> /\ Head(stack[r]).fn = "swap"
            \/ \E f \in EndsOf(r) : signalling[f]
        BY <3>1 DEF IInv, WakeInv
      <3> QED BY <3>1, <3>2, Zenon
    <2> QED BY <2>1, <2>2
  <1>5. BlockInv'
    <2> SUFFICES ASSUME NEW r \in Proc, stack'[r] # << >>,
                        IsWait(Head(stack'[r])), Head(stack'[r]).pc = "wait", ~sem'[r]
                 PROVE  /\ LastOf(pending'[Head(stack'[r]).e]).reply = NoReply
                        /\ shouldWait'[Head(stack'[r]).e]
      BY DEF BlockInv, IsWait, LastOf
    <2>1. r # p
      <3>1. t # << >> => 1 \in DOMAIN t /\ Head(t) = t[1]
        OBVIOUS
      <3> QED BY <1>1, <3>1 DEF Parked, MyCheck
    <2>2. stack'[r] = stack[r] /\ sem'[r] = sem[r] /\ stack[r] \in Seq(Frame)
      BY <1>1, <2>1
    <2>3. Head(stack[r]) \in Frame /\ Calls(stack[r], r)
      BY <2>2 DEF IInv, CallsInv
    <2>4. Head(stack[r]).e \in Endpoint /\ ProcOf[Head(stack[r]).e] = r
      BY <2>2, <2>3, CallsTail, FrameFields DEF IsWait
    <2>5. pending'[Head(stack[r]).e] = pending[Head(stack[r]).e]
      BY <2>1, <2>4 DEF EndsOf
    <2> QED BY <2>2, <2>5 DEF IInv, BlockInv
  <1> QED BY <1>2, <1>3, <1>4, <1>5 DEF IInv

(* The same, for the steps that make no sendSyncMessage call or return.     *)
LEMMA MoveStep ==
    ASSUME IInv, TypeOK', NEW p \in Proc, NEW t \in Seq(Frame),
           stack' = [stack EXCEPT ![p] = t], Moves(stack[p], t, p),
           UNCHANGED <<pending, syncRequestID, sem, shouldWait, signalling>>,
           \A r \in Proc \ {p} : toDispatch'[r] = toDispatch[r],
           \/ toDispatch'[p] = << >>
           \/ /\ toDispatch'[p] = toDispatch[p]
              /\ ~(stack[p] # << >> /\ Head(stack[p]).fn = "swap")
    PROVE  IInv'
  <1>1. Parked(t, p)
    BY DEF Moves
  <1>2. \A e \in EndsOf(p) : Matches(t, pending'[e], syncRequestID'[e], e)
    BY DEF EndsOf, IInv, MatchInv, Moves
  <1>3. toDispatch'[p] # << >> => sem'[p] \/ \E f \in EndsOf(p) : signalling[f]
    <2> SUFFICES ASSUME toDispatch'[p] # << >>
                 PROVE  sem[p] \/ \E f \in EndsOf(p) : signalling[f]
      OBVIOUS
    <2>1. toDispatch[p] # << >> /\ ~(stack[p] # << >> /\ Head(stack[p]).fn = "swap")
      OBVIOUS
    <2> QED BY <2>1, Zenon DEF IInv, WakeInv
  <1> QED BY <1>1, <1>2, <1>3, StackStep

(* Steps that leave stacks, pending replies and wake-ups alone.             *)
LEMMA QuietStep ==
    ASSUME IInv, TypeOK',
           UNCHANGED <<stack, pending, sem, toDispatch, signalling, shouldWait>>,
           \A e \in Endpoint : syncRequestID'[e] >= syncRequestID[e]
    PROVE  IInv'
  <1>1. CallsInv' /\ WakeInv' /\ BlockInv'
    BY DEF IInv, CallsInv, WakeInv, BlockInv, EndsOf, LastOf
  <1>2. MatchInv'
    <2> SUFFICES ASSUME NEW e \in Endpoint
                 PROVE  Matches(stack[ProcOf[e]], pending[e], syncRequestID'[e], e)
      BY DEF MatchInv
    <2>1. Matches(stack[ProcOf[e]], pending[e], syncRequestID[e], e)
      BY DEF IInv, MatchInv
    <2>2. /\ stack[ProcOf[e]] \in Seq(Frame) /\ pending[e] \in Seq(PendingSyncReply)
          /\ syncRequestID[e] \in Nat /\ syncRequestID'[e] \in Nat
      BY TopologyAssumption DEF IInv, TypeOK
    <2> QED BY <2>1, <2>2, MatchesMono
  <1> QED BY <1>1, <1>2 DEF IInv

(* sendSyncMessage makes its request.                                       *)
LEMMA SendSyncStep ==
    ASSUME IInv, TypeOK', NEW e \in Endpoint, SendSync(e)
    PROVE  IInv'
  <1> DEFINE p == ProcOf[e]
             s == stack[p]
             n == syncRequestID[e]
             w == WaitFrame(e, n + 1, "check")
             x == [id |-> n + 1, request |-> requests[e] + 1, reply |-> NoReply]
             t == <<SwapFrame>> \o (<<w>> \o s)
  <1>1. /\ p \in Proc /\ s \in Seq(Frame) /\ n \in Nat /\ requests[e] \in Nat
        /\ pending[e] \in Seq(PendingSyncReply)
    BY TopologyAssumption DEF IInv, TypeOK
  <1>2. /\ w \in Frame /\ SwapFrame \in Frame /\ ~IsWait(SwapFrame)
        /\ \A f : WaitsOn(w, f) <=> f = e
        /\ IsWait(w) /\ w.id = n + 1 /\ w.e = e /\ w.pc = "check"
    <2>1. n + 1 \in Nat /\ SwapFrame \in Frame
      BY <1>1, FrameTypes
    <2>2. w \in Frame
      BY <2>1, FrameTypes
    <2>3. w = [fn |-> "waitForSyncReply", e |-> e, id |-> n + 1, pc |-> "check"]
      BY DEF WaitFrame
    <2>4. ~IsWait(SwapFrame)
      BY DEF SwapFrame, IsWait
    <2> QED BY <2>1, <2>2, <2>3, <2>4 DEF IsWait, WaitsOn
  <1>3. x \in PendingSyncReply /\ x.id = n + 1
    BY <1>1 DEF PendingSyncReply, NoReply
  <1>4. <<w>> \o s \in Seq(Frame) /\ t \in Seq(Frame) /\ t = <<SwapFrame, w>> \o s
        /\ t # << >> /\ Head(t) = SwapFrame
    BY <1>1, <1>2
  <1>5. Parked(s, p)
    <2>1. s # << >> => Head(s).fn = "dispatchMessage"
      BY DEF SendSync, ClientRuns
    <2> QED BY <1>1, <2>1, CallsParked DEF IInv, CallsInv, IsWait
  <1>6. stack' = [stack EXCEPT ![p] = t]
    BY <1>4 DEF SendSync, NextSyncRequestID
  <1>7. /\ syncRequestID' = [syncRequestID EXCEPT ![e] = n + 1]
        /\ pending' = [pending EXCEPT ![e] = Append(@, x)]
    BY DEF SendSync, NextSyncRequestID
  <1>8. UNCHANGED <<shouldWait, signalling, sem, toDispatch>>
    BY DEF SendSync
  <1> HIDE DEF w, x, t, n
  <1>9. Parked(t, p)
    <2>1. Parked(<<w>> \o s, p)
      BY <1>1, <1>2, <1>5, ParkedPush DEF MyCheck
    <2> QED BY <1>2, <1>4, <2>1, ParkedPush DEF t, MyCheck
  <1>10. \A f \in Endpoint \ {e} :
           pending'[f] = pending[f] /\ syncRequestID'[f] = syncRequestID[f]
    BY <1>7 DEF IInv, TypeOK
  <1>11. pending'[e] = Append(pending[e], x) /\ syncRequestID'[e] = n + 1
    BY <1>7 DEF IInv, TypeOK
  <1>12. ASSUME NEW f \in EndsOf(p)
         PROVE  Matches(t, pending'[f], syncRequestID'[f], f)
    <2>1. Matches(s, pending[f], syncRequestID[f], f) /\ f \in Endpoint
      BY DEF EndsOf, IInv, MatchInv
    <2>2. Matches(<<w>> \o s, pending'[f], syncRequestID'[f], f)
      <3>1. CASE f = e
        <4>1. Matches(s, pending[e], n, e) /\ WaitsOn(w, e)
          BY <2>1, <3>1, <1>2 DEF n
        <4>2. Matches(<<w>> \o s, Append(pending[e], x), n + 1, e)
          BY <1>1, <1>2, <1>3, <4>1, MatchesCall
        <4> QED BY <1>11, <3>1, <4>2
      <3>2. CASE f # e
        <4>1. ~WaitsOn(w, f)
          BY <1>2, <3>2
        <4>2. Matches(<<w>> \o s, pending[f], syncRequestID[f], f)
          BY <1>1, <1>2, <2>1, <4>1, MatchesPush
        <4> QED BY <1>10, <2>1, <3>2, <4>2
      <3> QED BY <3>1, <3>2
    <2>3. ~WaitsOn(SwapFrame, f)
      BY <1>2 DEF WaitsOn
    <2> QED BY <1>2, <1>4, <2>2, <2>3, MatchesPush DEF t
  <1>13. e \in EndsOf(p)
    BY DEF EndsOf
  <1>14. Head(t).fn = "swap"
    BY <1>4 DEF SwapFrame
  <1> HIDE DEF p
  <1>15. \A r \in Proc \ {p} : sem'[r] = sem[r] /\ toDispatch'[r] = toDispatch[r]
    BY <1>8
  <1> QED BY <1>1, <1>4, <1>6, <1>8, <1>9, <1>10, <1>12, <1>13, <1>14, <1>15, StackStep

(* The innermost call, when it is a sendSyncMessage call.                   *)
LEMMA TopWait ==
    ASSUME IInv, NEW p \in Proc, NEW pc, Waiting(p, pc)
    PROVE  /\ stack[p] \in Seq(Frame) /\ stack[p] # << >>
           /\ Head(stack[p]) \in Frame /\ IsWait(Head(stack[p])) /\ Head(stack[p]).pc = pc
           /\ Head(stack[p]).e \in EndsOf(p)
           /\ WaitsOn(Head(stack[p]), Head(stack[p]).e)
           /\ Parked(Tail(stack[p]), p) /\ Tail(stack[p]) \in Seq(Frame)
           /\ Head(stack[p]).fn # "swap"
  <1>1. /\ stack[p] \in Seq(Frame) /\ stack[p] # << >> /\ Head(stack[p]).pc = pc
        /\ Head(stack[p]).fn = "waitForSyncReply" /\ Calls(stack[p], p)
    BY DEF IInv, TypeOK, CallsInv, Waiting, Running
  <1>2. Head(stack[p]) \in Frame /\ Tail(stack[p]) \in Seq(Frame)
    BY <1>1
  <1>3. Head(stack[p]).e \in Endpoint
    BY <1>1, <1>2, FrameFields
  <1>4. Parked(Tail(stack[p]), p) /\ ProcOf[Head(stack[p]).e] = p
    BY <1>1, CallsTail DEF IsWait
  <1> QED BY <1>1, <1>2, <1>3, <1>4 DEF IsWait, WaitsOn, EndsOf

(* A stored message has its wake-up while the innermost call waits.         *)
LEMMA StoredIsSignalled ==
    ASSUME IInv, NEW p \in Proc, NEW pc, Waiting(p, pc), toDispatch[p] # << >>
    PROVE  sem[p] \/ \E f \in EndsOf(p) : signalling[f]
  <1>1. Head(stack[p]).fn # "swap"
    BY TopWait
  <1> QED BY <1>1, Zenon DEF IInv, WakeInv

(* sendSyncMessage returns.                                                 *)
LEMMA ReturnStep ==
    ASSUME IInv, TypeOK', NEW p \in Proc, NEW pc, Waiting(p, pc), NEW got,
           ReturnFromSendSync(p, Head(stack[p]).e, got)
    PROVE  IInv'
  <1> DEFINE s == stack[p]
             t == Tail(s)
             e == Head(s).e
  <1>1. /\ s \in Seq(Frame) /\ s # << >> /\ t \in Seq(Frame) /\ Parked(t, p)
        /\ e \in EndsOf(p) /\ e \in Endpoint /\ WaitsOn(Head(s), e)
    BY TopWait DEF EndsOf
  <1>2. stack' = [stack EXCEPT ![p] = t] /\ pending' = [pending EXCEPT ![e] = AllButLast(@)]
    BY DEF ReturnFromSendSync
  <1>3. UNCHANGED <<shouldWait, signalling, sem, toDispatch, syncRequestID>>
    BY DEF ReturnFromSendSync
  <1>4. \A f \in Endpoint \ {e} : pending'[f] = pending[f]
    BY <1>2 DEF IInv, TypeOK
  <1>5. pending'[e] = AllButLast(pending[e]) /\ pending[e] \in Seq(PendingSyncReply)
    BY <1>1, <1>2 DEF IInv, TypeOK
  <1>6. ASSUME NEW f \in EndsOf(p) PROVE Matches(t, pending'[f], syncRequestID'[f], f)
    <2>1. Matches(s, pending[f], syncRequestID[f], f) /\ f \in Endpoint
      BY DEF EndsOf, IInv, MatchInv
    <2>2. CASE f = e
      <3>1. Matches(s, pending[e], syncRequestID[e], e)
        BY <2>1, <2>2
      <3>2. Matches(t, AllButLast(pending[e]), syncRequestID[e], e)
        BY <1>1, <1>5, <3>1, MatchesReturn
      <3> QED BY <1>3, <1>5, <2>2, <3>2
    <2>3. CASE f # e
      <3>1. ~WaitsOn(Head(s), f)
        BY <2>3 DEF WaitsOn
      <3>2. Matches(t, pending[f], syncRequestID[f], f)
        BY <1>1, <2>1, <3>1, MatchesTail
      <3> QED BY <1>3, <1>4, <2>1, <2>3, <3>2
    <2> QED BY <2>2, <2>3
  <1>7. toDispatch'[p] # << >> => sem'[p] \/ \E f \in EndsOf(p) : signalling[f]
    BY <1>3, StoredIsSignalled
  <1>8. \A f \in Endpoint \ EndsOf(p) :
          pending'[f] = pending[f] /\ syncRequestID'[f] = syncRequestID[f]
    BY <1>1, <1>3, <1>4
  <1>9. \A r \in Proc \ {p} : sem'[r] = sem[r] /\ toDispatch'[r] = toDispatch[r]
    BY <1>3
  <1> HIDE DEF s, t, e
  <1> QED BY <1>1, <1>2, <1>3, <1>6, <1>7, <1>8, <1>9, StackStep

(* A woken call goes back to dispatching messages.                          *)
LEMMA WakesStep ==
    ASSUME IInv, TypeOK', NEW p \in Proc, WaitWakes(p)
    PROVE  IInv'
  <1> DEFINE s == stack[p]
             g == [Head(s) EXCEPT !.pc = "check"]
             u == <<g>> \o Tail(s)
             t == <<SwapFrame>> \o u
  <1>1. /\ s \in Seq(Frame) /\ s # << >> /\ Tail(s) \in Seq(Frame)
        /\ Head(s) \in Frame /\ IsWait(Head(s)) /\ Head(s).e \in EndsOf(p)
        /\ Parked(Tail(s), p)
    BY TopWait DEF WaitWakes
  <1>2. g = WaitFrame(Head(s).e, Head(s).id, "check") /\ Head(s).id \in Nat /\ Head(s).e \in Endpoint
    BY <1>1, FrameFields DEF IsWait
  <1>3. g \in Frame /\ SwapFrame \in Frame
    BY <1>2, FrameTypes
  <1>4. IsWait(g) /\ g.e = Head(s).e /\ g.id = Head(s).id /\ g.pc = "check"
    BY <1>2 DEF WaitFrame, IsWait
  <1>5. ~IsWait(SwapFrame) /\ SwapFrame.fn = "swap"
    BY DEF SwapFrame, IsWait
  <1>6. t = <<SwapFrame, g>> \o Tail(s)
    BY <1>1, <1>3
  <1>7. stack' = [stack EXCEPT ![p] = t] /\ sem' = [sem EXCEPT ![p] = FALSE]
    BY <1>6 DEF WaitWakes
  <1>8. UNCHANGED <<shouldWait, signalling, toDispatch, syncRequestID, pending>>
    BY DEF WaitWakes, endVars
  <1> HIDE DEF g
  <1>9. u \in Seq(Frame) /\ t \in Seq(Frame) /\ t # << >> /\ Head(t) = SwapFrame
    BY <1>1, <1>3, PushElems
  <1>10. Parked(t, p)
    <2>1. MyCheck(g, p) /\ MyCheck(SwapFrame, p)
      BY <1>1, <1>4, <1>5 DEF MyCheck, EndsOf
    <2>2. Parked(u, p)
      BY <1>1, <1>3, <2>1, ParkedPush
    <2> HIDE DEF u
    <2> QED BY <1>3, <1>9, <2>1, <2>2, ParkedPush
  <1>11. ASSUME NEW f \in EndsOf(p) PROVE Matches(t, pending'[f], syncRequestID'[f], f)
    <2>1. Matches(s, pending[f], syncRequestID[f], f) /\ f \in Endpoint
      BY DEF EndsOf, IInv, MatchInv
    <2>2. SameCall(Head(s), g, f) /\ ~WaitsOn(SwapFrame, f)
      BY <1>1, <1>4, <1>5 DEF SameCall, WaitsOn
    <2>3. Matches(u, pending[f], syncRequestID[f], f)
      BY <1>1, <1>3, <2>1, <2>2, MatchesRelabel
    <2> HIDE DEF u
    <2>4. Matches(t, pending[f], syncRequestID[f], f)
      BY <1>3, <1>9, <2>2, <2>3, MatchesPush
    <2> QED BY <1>8, <2>4
  <1>12. \A r \in Proc \ {p} : sem'[r] = sem[r] /\ toDispatch'[r] = toDispatch[r]
    BY <1>7, <1>8 DEF IInv, TypeOK
  <1>13. \A f \in Endpoint \ EndsOf(p) :
          pending'[f] = pending[f] /\ syncRequestID'[f] = syncRequestID[f]
    BY <1>8
  <1> HIDE DEF s, t
  <1> QED BY <1>5, <1>7, <1>8, <1>9, <1>10, <1>11, <1>12, <1>13, StackStep

(* A call with no reply yet on an open connection blocks.                   *)
LEMMA BlocksStep ==
    ASSUME IInv, TypeOK', NEW p \in Proc, WaitBlocks(p)
    PROVE  IInv'
  <1> DEFINE s == stack[p]
             g == [Head(s) EXCEPT !.pc = "wait"]
             t == <<g>> \o Tail(s)
  <1>1. /\ s \in Seq(Frame) /\ s # << >> /\ Tail(s) \in Seq(Frame)
        /\ Head(s) \in Frame /\ IsWait(Head(s)) /\ Head(s).e \in EndsOf(p)
        /\ Parked(Tail(s), p) /\ Waiting(p, "check")
    BY TopWait DEF WaitBlocks
  <1>2. g = WaitFrame(Head(s).e, Head(s).id, "wait") /\ Head(s).id \in Nat /\ Head(s).e \in Endpoint
    BY <1>1, FrameFields DEF IsWait
  <1>3. g \in Frame
    BY <1>2, FrameTypes
  <1>4. IsWait(g) /\ g.e = Head(s).e /\ g.id = Head(s).id
    BY <1>2 DEF WaitFrame, IsWait
  <1>5. stack' = [stack EXCEPT ![p] = t]
    BY DEF WaitBlocks
  <1>6. UNCHANGED <<shouldWait, signalling, toDispatch, syncRequestID, pending, sem>>
    BY DEF WaitBlocks, endVars
  <1>7. LastOf(pending[g.e]).reply = NoReply /\ shouldWait[g.e]
    BY <1>4 DEF WaitBlocks, StopsWaiting
  <1> HIDE DEF g
  <1>8. t \in Seq(Frame) /\ t # << >> /\ Head(t) = g
    BY <1>1, <1>3, PushElems
  <1>9. Calls(t, p)
    BY <1>1, <1>3, <1>4, ParkedPush DEF EndsOf
  <1>10. \A f \in EndsOf(p) : Matches(t, pending[f], syncRequestID[f], f)
    <2> SUFFICES ASSUME NEW f \in EndsOf(p) PROVE Matches(t, pending[f], syncRequestID[f], f)
      OBVIOUS
    <2>1. Matches(s, pending[f], syncRequestID[f], f) /\ f \in Endpoint
      BY DEF EndsOf, IInv, MatchInv
    <2>2. SameCall(Head(s), g, f)
      BY <1>1, <1>4 DEF SameCall, WaitsOn
    <2> QED BY <1>1, <1>3, <2>1, <2>2, MatchesRelabel
  <1>11. toDispatch[p] # << >> => sem[p] \/ \E f \in EndsOf(p) : signalling[f]
    BY <1>1, StoredIsSignalled
  <1> HIDE DEF t
  <1>12. stack'[p] = t /\ \A r \in Proc \ {p} : stack'[r] = stack[r]
    BY <1>5 DEF IInv, TypeOK
  <1>13. CallsInv'
    <2> SUFFICES ASSUME NEW r \in Proc PROVE Calls(stack'[r], r)
      BY DEF CallsInv
    <2>1. CASE r = p
      BY <1>9, <1>12, <2>1
    <2>2. CASE r # p
      BY <1>12, <2>2 DEF IInv, CallsInv
    <2> QED BY <2>1, <2>2
  <1>14. MatchInv'
    <2> SUFFICES ASSUME NEW e \in Endpoint
                 PROVE  Matches(stack'[ProcOf[e]], pending[e], syncRequestID[e], e)
      BY <1>6 DEF MatchInv
    <2>1. CASE ProcOf[e] = p
      BY <1>10, <1>12, <2>1 DEF EndsOf
    <2>2. CASE ProcOf[e] # p
      BY TopologyAssumption, <1>12, <2>2 DEF IInv, MatchInv
    <2> QED BY <2>1, <2>2
  <1>15. WakeInv'
    <2> SUFFICES ASSUME NEW r \in Proc, toDispatch[r] # << >>
                 PROVE  \/ sem[r]
                        \/ stack'[r] # << >> /\ Head(stack'[r]).fn = "swap"
                        \/ \E f \in EndsOf(r) : signalling[f]
      BY <1>6 DEF WakeInv, EndsOf
    <2>1. CASE r = p
      BY <1>11, <2>1
    <2>2. CASE r # p
      <3>1. stack'[r] = stack[r]
        BY <1>12, <2>2
      <3> QED BY <3>1, Zenon DEF IInv, WakeInv
    <2> QED BY <2>1, <2>2
  <1>16. BlockInv'
    <2> SUFFICES ASSUME NEW r \in Proc, stack'[r] # << >>,
                        IsWait(Head(stack'[r])), Head(stack'[r]).pc = "wait", ~sem[r]
                 PROVE  /\ LastOf(pending[Head(stack'[r]).e]).reply = NoReply
                        /\ shouldWait[Head(stack'[r]).e]
      BY <1>6 DEF BlockInv, IsWait, LastOf
    <2>1. CASE r = p
      BY <1>7, <1>8, <1>12, <2>1
    <2>2. CASE r # p
      <3>1. stack'[r] = stack[r]
        BY <1>12, <2>2
      <3> QED BY <3>1 DEF IInv, BlockInv
    <2> QED BY <2>1, <2>2
  <1> QED BY <1>13, <1>14, <1>15, <1>16 DEF IInv

(* The connection a blocked call waits on has that call's pending reply.    *)
LEMMA BlockedPending ==
    ASSUME IInv, NEW r \in Proc, stack[r] # << >>, IsWait(Head(stack[r]))
    PROVE  /\ Head(stack[r]).e \in Endpoint /\ ProcOf[Head(stack[r]).e] = r
           /\ pending[Head(stack[r]).e] # << >>
           /\ Len(pending[Head(stack[r]).e]) \in DOMAIN pending[Head(stack[r]).e]
  <1> DEFINE s == stack[r]
             h == Head(s).e
  <1>1. s \in Seq(Frame) /\ Head(s) \in Frame /\ Calls(s, r)
    BY DEF IInv, TypeOK, CallsInv
  <1>2. h \in Endpoint /\ ProcOf[h] = r
    BY <1>1, CallsTail, FrameFields DEF IsWait
  <1>3. Matches(s, pending[h], syncRequestID[h], h) /\ pending[h] \in Seq(PendingSyncReply)
    BY <1>2 DEF IInv, MatchInv, TypeOK
  <1>4. 1 \in DOMAIN s /\ s[1] = Head(s) /\ \A j \in DOMAIN s : ~(j < 1)
    BY <1>1
  <1>5. WaitsOn(s[1], h)
    BY <1>4 DEF WaitsOn
  <1> HIDE DEF s, h
  <1>6. pending[h] # << >> /\ Len(pending[h]) \in DOMAIN pending[h]
    BY <1>1, <1>3, <1>4, <1>5, InnermostIsLast
  <1> QED BY <1>2, <1>6 DEF s, h

(* A reply arrives: it is stored, and the last one wakes the thread.        *)
LEMMA ReplyStep ==
    ASSUME IInv, TypeOK', NEW e \in Endpoint, ReceiveSyncReply(e)
    PROVE  IInv'
  <1> DEFINE m == Head(wire[e])
  <1>0. UNCHANGED <<stack, shouldWait, signalling, toDispatch, syncRequestID>>
    BY DEF ReceiveSyncReply
  <1>1. CASE UNCHANGED <<pending, sem>>
    <2>1. \A f \in Endpoint : syncRequestID'[f] >= syncRequestID[f]
      BY <1>0 DEF IInv, TypeOK
    <2> QED BY <1>0, <1>1, <2>1, QuietStep
  <1>2. ASSUME NEW i \in DOMAIN pending[e],
               pending' = [pending EXCEPT ![e][i].reply = m.request],
               sem' = [sem EXCEPT ![ProcOf[e]] = @ \/ i = Len(pending[e])]
        PROVE  IInv'
    <2>1. pending \in [Endpoint -> Seq(PendingSyncReply)] /\ sem \in [Proc -> BOOLEAN]
      BY DEF IInv, TypeOK
    <2>2. \A f \in Endpoint \ {e} : pending'[f] = pending[f]
      BY <1>2, <2>1
    <2>3. pending'[e] = [pending[e] EXCEPT ![i].reply = m.request]
      BY <1>2, <2>1
    <2>4. /\ DOMAIN pending'[e] = DOMAIN pending[e] /\ Len(pending'[e]) = Len(pending[e])
          /\ \A j \in DOMAIN pending[e] : pending'[e][j].id = pending[e][j].id
          /\ \A j \in DOMAIN pending[e] : j # i => pending'[e][j] = pending[e][j]
      <3>1. pending[e] \in Seq(PendingSyncReply)
        BY <2>1
      <3>2. \A j \in DOMAIN pending[e] : pending[e][j] \in PendingSyncReply
        BY <3>1
      <3>3. DOMAIN pending'[e] = DOMAIN pending[e]
        BY <2>3
      <3>4. pending'[e] \in Seq(PendingSyncReply)
        BY DEF TypeOK
      <3>5. Len(pending'[e]) = Len(pending[e])
        BY <3>1, <3>3, <3>4
      <3>6. \A j \in DOMAIN pending[e] : j # i => pending'[e][j] = pending[e][j]
        BY <2>3
      <3>7. pending'[e][i] = [pending[e][i] EXCEPT !.reply = m.request]
        BY <1>2, <2>3
      <3>8. pending'[e][i].id = pending[e][i].id
        BY <1>2, <3>2, <3>7 DEF PendingSyncReply
      <3> QED BY <3>3, <3>5, <3>6, <3>8
    <2>5. sem'[ProcOf[e]] <=> sem[ProcOf[e]] \/ i = Len(pending[e])
      BY <1>2, <2>1, TopologyAssumption
    <2>6. \A r \in Proc : sem[r] => sem'[r]
      BY <1>2, <2>1, TopologyAssumption
    <2>7. MatchInv'
      <3> SUFFICES ASSUME NEW f \in Endpoint
                   PROVE  Matches(stack[ProcOf[f]], pending'[f], syncRequestID[f], f)
        BY <1>0 DEF MatchInv
      <3>1. Matches(stack[ProcOf[f]], pending[f], syncRequestID[f], f)
        BY DEF IInv, MatchInv
      <3>2. CASE f = e
        BY <2>4, <3>1, <3>2, MatchesReply
      <3>3. CASE f # e
        BY <2>2, <3>1, <3>3
      <3> QED BY <3>2, <3>3
    <2>8. WakeInv' /\ CallsInv'
      <3>1. CallsInv'
        BY <1>0 DEF IInv, CallsInv
      <3>2. WakeInv'
        BY <1>0, <2>6, Zenon DEF IInv, WakeInv, EndsOf
      <3> QED BY <3>1, <3>2
    <2>9. BlockInv'
      <3> SUFFICES ASSUME NEW r \in Proc, stack[r] # << >>,
                          IsWait(Head(stack[r])), Head(stack[r]).pc = "wait", ~sem'[r]
                   PROVE  /\ LastOf(pending'[Head(stack[r]).e]).reply = NoReply
                          /\ shouldWait[Head(stack[r]).e]
        BY <1>0 DEF BlockInv, IsWait, LastOf
      <3> DEFINE h == Head(stack[r]).e
      <3>1. h \in Endpoint /\ ProcOf[h] = r /\ Len(pending[h]) \in DOMAIN pending[h]
        BY BlockedPending
      <3>2. ~sem[r]
        BY <2>6
      <3>3. LastOf(pending[h]).reply = NoReply /\ shouldWait[h]
        BY <3>2 DEF IInv, BlockInv
      <3> HIDE DEF h
      <3>4. LastOf(pending'[h]) = LastOf(pending[h])
        <4>1. CASE h = e
          <5>1. i # Len(pending[e])
            BY <2>5, <3>1, <4>1
          <5> QED BY <2>4, <3>1, <4>1, <5>1 DEF LastOf
        <4>2. CASE h # e
          BY <2>2, <3>1, <4>2
        <4> QED BY <4>1, <4>2
      <3> QED BY <3>3, <3>4 DEF h
    <2> QED BY <2>7, <2>8, <2>9 DEF IInv
  <1> QED BY <1>1, <1>2 DEF ReceiveSyncReply

(* The connection is closed: a call blocked on it is woken up.              *)
LEMMA CloseStep ==
    ASSUME IInv, TypeOK', NEW e \in Endpoint, ConnectionDidClose(e)
    PROVE  IInv'
  <1>1. UNCHANGED <<stack, pending, signalling, toDispatch, syncRequestID>>
    BY DEF ConnectionDidClose
  <1>2. /\ shouldWait' = [shouldWait EXCEPT ![e] = FALSE]
        /\ sem' = [sem EXCEPT ![ProcOf[e]] = @ \/ pending[e] # << >>]
    BY DEF ConnectionDidClose
  <1>3. shouldWait \in [Endpoint -> BOOLEAN] /\ sem \in [Proc -> BOOLEAN] /\ ProcOf[e] \in Proc
    BY TopologyAssumption DEF IInv, TypeOK
  <1>4. /\ pending[e] # << >> => sem'[ProcOf[e]]
        /\ \A r \in Proc : sem[r] => sem'[r]
        /\ \A f \in Endpoint \ {e} : shouldWait'[f] = shouldWait[f]
    BY <1>2, <1>3
  <1>5. CallsInv' /\ MatchInv'
    BY <1>1 DEF IInv, CallsInv, MatchInv
  <1>6. WakeInv'
    BY <1>1, <1>4, Zenon DEF IInv, WakeInv, EndsOf
  <1>7. BlockInv'
    <2> SUFFICES ASSUME NEW r \in Proc, stack[r] # << >>,
                        IsWait(Head(stack[r])), Head(stack[r]).pc = "wait", ~sem'[r]
                 PROVE  /\ LastOf(pending[Head(stack[r]).e]).reply = NoReply
                        /\ shouldWait'[Head(stack[r]).e]
      BY <1>1 DEF BlockInv, IsWait, LastOf
    <2> DEFINE h == Head(stack[r]).e
    <2>1. h \in Endpoint /\ ProcOf[h] = r /\ pending[h] # << >>
      BY BlockedPending
    <2>2. LastOf(pending[h]).reply = NoReply /\ shouldWait[h]
      BY <1>4 DEF IInv, BlockInv
    <2>3. h # e
      BY <1>4, <2>1
    <2> HIDE DEF h
    <2>4. shouldWait'[h] = shouldWait[h]
      BY <1>4, <2>1, <2>3
    <2> QED BY <2>2, <2>4 DEF h
  <1> QED BY <1>5, <1>6, <1>7 DEF IInv

(* A message is stored for the client thread, then the thread is woken up.  *)
LEMMA StoreStep ==
    ASSUME IInv, TypeOK', NEW e \in Endpoint, ReceiveDispatchWhileWaiting(e)
    PROVE  IInv'
  <1> DEFINE d == [e |-> e, m |-> Head(wire[e])]
  <1>1. UNCHANGED <<stack, pending, sem, shouldWait, syncRequestID>>
    BY DEF ReceiveDispatchWhileWaiting
  <1>2. /\ toDispatch' = [toDispatch EXCEPT ![ProcOf[e]] = Append(@, d)]
        /\ signalling' = [signalling EXCEPT ![e] = TRUE]
    BY DEF ReceiveDispatchWhileWaiting
  <1> HIDE DEF d
  <1>3. /\ signalling'[e] /\ \A f \in Endpoint : signalling[f] => signalling'[f]
        /\ \A r \in Proc \ {ProcOf[e]} : toDispatch'[r] = toDispatch[r]
    BY <1>2 DEF IInv, TypeOK
  <1>4. CallsInv' /\ MatchInv' /\ BlockInv'
    BY <1>1 DEF IInv, CallsInv, MatchInv, BlockInv, LastOf
  <1>5. WakeInv'
    <2> SUFFICES ASSUME NEW r \in Proc, toDispatch'[r] # << >>
                 PROVE  \/ sem[r]
                        \/ stack[r] # << >> /\ Head(stack[r]).fn = "swap"
                        \/ \E f \in EndsOf(r) : signalling'[f]
      BY <1>1 DEF WakeInv, EndsOf
    <2>1. CASE r = ProcOf[e]
      BY <1>3, <2>1 DEF EndsOf
    <2>2. CASE r # ProcOf[e]
      <3>1. toDispatch[r] # << >>
        BY <1>3, <2>2
      <3>2. \/ sem[r]
            \/ stack[r] # << >> /\ Head(stack[r]).fn = "swap"
            \/ \E f \in EndsOf(r) : signalling[f]
        BY <3>1, Zenon DEF IInv, WakeInv
      <3> QED BY <1>3, <3>2 DEF EndsOf
    <2> QED BY <2>1, <2>2
  <1> QED BY <1>4, <1>5 DEF IInv

LEMMA SignalStep ==
    ASSUME IInv, TypeOK', NEW e \in Endpoint, WakeUpClientRunLoop(e)
    PROVE  IInv'
  <1>1. UNCHANGED <<stack, pending, toDispatch, shouldWait, syncRequestID>>
    BY DEF WakeUpClientRunLoop
  <1>2. /\ sem' = [sem EXCEPT ![ProcOf[e]] = TRUE]
        /\ signalling' = [signalling EXCEPT ![e] = FALSE]
    BY DEF WakeUpClientRunLoop
  <1>3. /\ sem'[ProcOf[e]] /\ \A r \in Proc : sem[r] => sem'[r]
        /\ \A f \in Endpoint : signalling[f] => f = e \/ signalling'[f]
    <2>1. sem \in [Proc -> BOOLEAN] /\ signalling \in [Endpoint -> BOOLEAN] /\ ProcOf[e] \in Proc
      BY TopologyAssumption DEF IInv, TypeOK
    <2>2. sem'[ProcOf[e]] /\ \A r \in Proc : sem[r] => sem'[r]
      BY <1>2, <2>1
    <2>3. \A f \in Endpoint : signalling[f] => f = e \/ signalling'[f]
      BY <1>2, <2>1
    <2> QED BY <2>2, <2>3
  <1>4. CallsInv' /\ MatchInv'
    BY <1>1 DEF IInv, CallsInv, MatchInv
  <1>5. BlockInv'
    BY <1>1, <1>3 DEF IInv, BlockInv, LastOf
  <1>6. WakeInv'
    <2> SUFFICES ASSUME NEW r \in Proc, toDispatch[r] # << >>
                 PROVE  \/ sem'[r]
                        \/ stack[r] # << >> /\ Head(stack[r]).fn = "swap"
                        \/ \E f \in EndsOf(r) : signalling'[f]
      BY <1>1 DEF WakeInv, EndsOf
    <2>1. \/ sem[r]
          \/ stack[r] # << >> /\ Head(stack[r]).fn = "swap"
          \/ \E f \in EndsOf(r) : signalling[f]
      BY Zenon DEF IInv, WakeInv
    <2> QED BY <1>3, <2>1 DEF EndsOf
  <1> QED BY <1>4, <1>5, <1>6 DEF IInv

-----------------------------------------------------------------------------
(* dispatchMessage runs a handler on top of rest, or drops the message.     *)
LEMMA DispatchStep ==
    ASSUME IInv, TypeOK', NEW p \in Proc, NEW d \in Delivery, NEW rest \in Seq(Frame),
           Moves(stack[p], rest, p), DispatchMessage(p, d, rest),
           UNCHANGED <<pending, syncRequestID, sem, shouldWait, signalling, toDispatch>>,
           ~(stack[p] # << >> /\ Head(stack[p]).fn = "swap")
    PROVE  IInv'
  <1>1. CASE client[d.e]
    <2>1. PICK encoder \in Encoder(d) : stack' = [stack EXCEPT ![p] = <<HandlerFrame(d, encoder)>> \o rest]
      BY <1>1 DEF DispatchMessage
    <2> DEFINE f == HandlerFrame(d, encoder)
    <2>2. encoder \in BOOLEAN
      BY DEF Encoder
    <2>3. f \in Frame /\ ~IsWait(f)
      BY <2>2, FrameTypes DEF HandlerFrame, IsWait
    <2> HIDE DEF f
    <2>4. <<f>> \o rest \in Seq(Frame) /\ Moves(stack[p], <<f>> \o rest, p)
      <3>1. stack[p] \in Seq(Frame)
        BY DEF IInv, TypeOK
      <3> QED BY <2>3, <3>1, MovePush
    <2>5. stack' = [stack EXCEPT ![p] = <<f>> \o rest]
      BY <2>1 DEF f
    <2> QED BY <2>4, <2>5, MoveStep
  <1>2. CASE ~client[d.e]
    <2>1. stack' = [stack EXCEPT ![p] = rest]
      BY <1>2 DEF DispatchMessage
    <2> QED BY <2>1, MoveStep
  <1> QED BY <1>1, <1>2

(* The steps of the client thread, other than those of its client.          *)
LEMMA RunLoopInv ==
    ASSUME IInv, TypeOK', NEW p \in Proc, RunLoopStep(p) \/ WaitTimesOut(p)
    PROVE  IInv'
  <1> DEFINE s == stack[p]
  <1>0. /\ s \in Seq(Frame) /\ Calls(s, p) /\ (s # << >> => Head(s) \in Frame)
        /\ \A e \in Endpoint : syncRequestID[e] >= syncRequestID[e]
    BY DEF IInv, TypeOK, CallsInv
  <1>1. CASE CallDispatchMessages(p) \/ DispatchMessageAndResetDidSchedule(p)
    <2>1. s = << >> /\ UNCHANGED <<pending, syncRequestID, sem, shouldWait, signalling, toDispatch>>
      BY <1>1 DEF CallDispatchMessages, DispatchMessageAndResetDidSchedule, NextWork, endVars
    <2>2. PICK f : stack' = [stack EXCEPT ![p] = <<f>>] /\ ~IsWait(f)
      <3>1. ~IsWait(SwapFrame) /\ \A e : ~IsWait(DispatchFrame(e))
        BY DEF DispatchFrame, SwapFrame, IsWait
      <3>2. CASE CallDispatchMessages(p)
        BY <3>1, <3>2 DEF CallDispatchMessages
      <3>3. CASE DispatchMessageAndResetDidSchedule(p)
        BY <3>1, <3>3 DEF DispatchMessageAndResetDidSchedule
      <3> QED BY <1>1, <3>2, <3>3
    <2>3. <<f>> \in Seq(Frame) /\ <<f>>[1] = f /\ 1 \in DOMAIN <<f>>
      <3>1. stack'[p] \in Seq(Frame) /\ stack'[p] = <<f>>
        BY <2>2 DEF IInv, TypeOK
      <3> QED BY <3>1
    <2>4. f \in Frame
      BY <2>3
    <2>5. Moves(s, s, p)
      BY <1>0, <2>1, MoveNone
    <2>6. <<f>> \o s = <<f>>
      BY <1>0, <2>1, <2>4
    <2>7. Moves(s, <<f>>, p)
      BY <1>0, <2>2, <2>4, <2>5, <2>6, MovePush
    <2> QED BY <2>1, <2>2, <2>3, <2>7, MoveStep
  <1>2. CASE DispatchConnectionDidClose(p)
    BY <1>0, <1>2, QuietStep DEF DispatchConnectionDidClose
  <1>3. CASE DispatchMessages(p)
    <2> DEFINE e == Head(s).e
    <2>1. s # << >> /\ Head(s).fn = "dispatchMessages"
      BY <1>3 DEF DispatchMessages, Running
    <2>2. UNCHANGED <<pending, syncRequestID, sem, shouldWait, signalling, toDispatch>>
      BY <1>3 DEF DispatchMessages
    <2>3. ~IsWait(Head(s)) /\ Head(s).fn # "swap" /\ e \in Endpoint
      BY <1>0, <2>1, FrameFields DEF IsWait
    <2>4. CASE stack' = [stack EXCEPT ![p] = Tail(@)]
      <3>1. Tail(s) \in Seq(Frame) /\ Moves(s, Tail(s), p)
        BY <1>0, <2>1, <2>3, MovePop
      <3> QED BY <2>2, <2>3, <2>4, <3>1, MoveStep
    <2>5. CASE /\ incoming[e] # << >>
               /\ DispatchMessage(p, [e |-> e, m |-> Head(incoming[e])], s)
      <3>0. incoming[e] \in Seq(Message) /\ incoming[e] # << >>
        BY <2>3, <2>5 DEF IInv, TypeOK
      <3>1. Head(incoming[e]) \in Message
        BY <3>0
      <3>2. [e |-> e, m |-> Head(incoming[e])] \in Delivery
        BY <2>3, <3>1 DEF Delivery
      <3>3. Moves(s, s, p)
        BY <1>0, <2>3, MoveNone
      <3> QED BY <1>0, <2>2, <2>3, <2>5, <3>2, <3>3, DispatchStep
    <2> QED BY <1>3, <2>4, <2>5 DEF DispatchMessages
  <1>4. CASE SwapMessages(p)
    <2>1. s # << >> /\ Head(s).fn = "swap"
      BY <1>4 DEF SwapMessages, Running
    <2>2. UNCHANGED <<pending, syncRequestID, sem, shouldWait, signalling>>
      BY <1>4 DEF SwapMessages, endVars
    <2>3. toDispatch' = [toDispatch EXCEPT ![p] = << >>] /\ toDispatch \in [Proc -> Seq(Delivery)]
      BY <1>4 DEF SwapMessages, IInv, TypeOK
    <2>4. toDispatch'[p] = << >> /\ \A r \in Proc \ {p} : toDispatch'[r] = toDispatch[r]
      BY <2>3
    <2>5. Tail(s) \in Seq(Frame) /\ Moves(s, Tail(s), p)
      BY <1>0, <2>1, MovePop DEF IsWait
    <2>6. CASE toDispatch[p] = << >>
      <3>1. stack' = [stack EXCEPT ![p] = Tail(s)]
        BY <1>4, <2>6 DEF SwapMessages
      <3> QED BY <2>2, <2>4, <2>5, <3>1, MoveStep
    <2>7. CASE toDispatch[p] # << >>
      <3> DEFINE f == BatchFrame(toDispatch[p])
      <3>1. stack' = [stack EXCEPT ![p] = <<f>> \o Tail(s)]
        BY <1>4, <2>7 DEF SwapMessages
      <3>2. toDispatch[p] \in Seq(Delivery) \ {<< >>}
        BY <2>3, <2>7
      <3>3. f \in Frame /\ ~IsWait(f)
        BY <3>2, FrameTypes DEF BatchFrame, IsWait
      <3> HIDE DEF f
      <3>4. <<f>> \o Tail(s) \in Seq(Frame) /\ Moves(s, <<f>> \o Tail(s), p)
        BY <1>0, <2>5, <3>3, MovePush
      <3> QED BY <2>2, <2>4, <3>1, <3>4, MoveStep
    <2> QED BY <2>6, <2>7
  <1>5. CASE DispatchBatch(p)
    <2> DEFINE b == Head(s).batch
               rest == IF Len(b) = 1 THEN Tail(s) ELSE <<BatchFrame(Tail(b))>> \o Tail(s)
    <2>1. s # << >> /\ Head(s).fn = "batch"
      BY <1>5 DEF DispatchBatch, Running
    <2>2. UNCHANGED <<pending, syncRequestID, sem, shouldWait, signalling, toDispatch>>
      BY <1>5 DEF DispatchBatch
    <2>3. b \in Seq(Delivery) /\ b # << >> /\ ~IsWait(Head(s)) /\ Head(s).fn # "swap"
      BY <1>0, <2>1, FrameFields DEF IsWait
    <2>4. Tail(s) \in Seq(Frame) /\ Moves(s, Tail(s), p)
      BY <1>0, <2>1, <2>3, MovePop
    <2>5. DispatchMessage(p, Head(b), rest)
      BY <1>5 DEF DispatchBatch
    <2>6. Head(b) \in Delivery
      BY <2>3
    <2>7. rest \in Seq(Frame) /\ Moves(s, rest, p)
      <3>1. CASE Len(b) = 1
        BY <2>4, <3>1
      <3>2. CASE Len(b) # 1
        <4> DEFINE f == BatchFrame(Tail(b))
        <4>1. Tail(b) \in Seq(Delivery) \ {<< >>}
          BY <2>3, <3>2, HeadTailType
        <4>2. f \in Frame /\ ~IsWait(f)
          BY <4>1, FrameTypes DEF BatchFrame, IsWait
        <4> HIDE DEF f
        <4>3. <<f>> \o Tail(s) \in Seq(Frame) /\ Moves(s, <<f>> \o Tail(s), p)
          BY <1>0, <2>4, <4>2, MovePush
        <4> QED BY <3>2, <4>3 DEF f
      <3> QED BY <3>1, <3>2
    <2> HIDE DEF rest, b
    <2> QED BY <2>2, <2>3, <2>5, <2>6, <2>7, DispatchStep
  <1>6. CASE HandlerReturns(p)
    <2>1. s # << >> /\ Head(s).fn = "dispatchMessage"
      BY <1>6 DEF HandlerReturns, Running
    <2>2. /\ UNCHANGED <<pending, syncRequestID, sem, shouldWait, signalling, toDispatch>>
          /\ stack' = [stack EXCEPT ![p] = Tail(s)]
      BY <1>6 DEF HandlerReturns
    <2>3. ~IsWait(Head(s)) /\ Head(s).fn # "swap"
      BY <2>1 DEF IsWait
    <2>4. Tail(s) \in Seq(Frame) /\ Moves(s, Tail(s), p)
      BY <1>0, <2>1, <2>3, MovePop
    <2> QED BY <2>2, <2>3, <2>4, MoveStep
  <1>7. CASE WaitReturns(p)
    BY <1>7, ReturnStep DEF WaitReturns
  <1>8. CASE WaitTimesOut(p)
    BY <1>8, ReturnStep DEF WaitTimesOut
  <1>9. CASE WaitBlocks(p)
    BY <1>9, BlocksStep
  <1>10. CASE WaitWakes(p)
    BY <1>10, WakesStep
  <1> QED BY <1>1, <1>2, <1>3, <1>4, <1>5, <1>6, <1>7, <1>8, <1>9, <1>10 DEF RunLoopStep

(* The steps of a connection's client and of its work queue.                *)
LEMMA EndpointInv ==
    ASSUME IInv, TypeOK', NEW e \in Endpoint,
           ClientStep(e) \/ WorkQueueStep(e) \/ PluginProcessCrashed(e)
    PROVE  IInv'
  <1>0. \A f \in Endpoint : syncRequestID[f] \in Nat /\ syncRequestID[f] >= syncRequestID[f]
    BY DEF IInv, TypeOK
  <1>1. CASE \E wanted \in BOOLEAN : SendAsync(e, wanted)
    BY <1>0, <1>1, QuietStep DEF SendAsync, loopVars
  <1>2. CASE SendSync(e)
    BY <1>2, SendSyncStep
  <1>3. CASE SendSyncFails(e)
    <2>1. syncRequestID' = [syncRequestID EXCEPT ![e] = syncRequestID[e] + 1]
      BY <1>3 DEF SendSyncFails, NextSyncRequestID
    <2>2. \A f \in Endpoint : syncRequestID'[f] >= syncRequestID[f]
      <3>1. syncRequestID \in [Endpoint -> Nat]
        BY DEF IInv, TypeOK
      <3> QED BY <2>1, <3>1
    <2> QED BY <1>3, <2>2, QuietStep DEF SendSyncFails
  <1>4. CASE SendDelayedReply(e) \/ Invalidate(e) \/ PluginProcessCrashed(e)
    <2>1. UNCHANGED <<stack, pending, sem, toDispatch, signalling, shouldWait, syncRequestID>>
      BY <1>4 DEF SendDelayedReply, Invalidate, PluginProcessCrashed, loopVars
    <2> QED BY <1>0, <2>1, QuietStep
  <1>5. CASE SendOutgoingMessages(e) \/ InvalidateOnWorkQueue(e) \/ EnqueueIncomingMessage(e)
    <2>1. UNCHANGED <<stack, pending, sem, toDispatch, signalling, shouldWait, syncRequestID>>
      BY <1>5 DEF SendOutgoingMessages, InvalidateOnWorkQueue, EnqueueIncomingMessage, loopVars
    <2> QED BY <1>0, <2>1, QuietStep
  <1>6. CASE Hangup(e) \/ ConnectionDidCloseOnWorkQueue(e)
    BY <1>6, CloseStep DEF Hangup, ConnectionDidCloseOnWorkQueue
  <1>7. CASE ReceiveSyncReply(e)
    BY <1>7, ReplyStep
  <1>8. CASE ReceiveDispatchWhileWaiting(e)
    BY <1>8, StoreStep
  <1>9. CASE WakeUpClientRunLoop(e)
    BY <1>9, SignalStep
  <1> QED BY <1>1, <1>2, <1>3, <1>4, <1>5, <1>6, <1>7, <1>8, <1>9
          DEF ClientStep, WorkQueueStep

(* IInv is inductive.                                                       *)
LEMMA InvStep == IInv /\ [Next]_vars => IInv'
  <1> SUFFICES ASSUME IInv, [Next]_vars PROVE IInv'
    OBVIOUS
  <1>1. TypeOK'
    BY TypeStep DEF IInv
  <1>2. \A f \in Endpoint : syncRequestID[f] >= syncRequestID[f]
    BY DEF IInv, TypeOK
  <1>3. CASE UNCHANGED vars
    BY <1>1, <1>2, <1>3, QuietStep DEF vars
  <1>4. CASE \E p \in Proc : Killed(p)
    BY <1>1, <1>2, <1>4, QuietStep DEF Killed, endVars
  <1> QED BY <1>1, <1>3, <1>4, RunLoopInv, EndpointInv DEF Next

LEMMA InvInit == Init => IInv
  <1> SUFFICES ASSUME Init PROVE IInv
    OBVIOUS
  <1> USE TopologyAssumption DEF Init
  <1>1. TypeOK
    BY DEF TypeOK
  <1>2. CallsInv /\ MatchInv
    BY DEF CallsInv, Calls, MatchInv, Matches
  <1>3. WakeInv /\ BlockInv
    BY DEF WakeInv, BlockInv
  <1> QED BY <1>1, <1>2, <1>3 DEF IInv

(* A client thread that sleeps in BinarySemaphore::wait with the semaphore  *)
(* clear has nothing to wake up for, for every number of processes and      *)
(* connections and however synchronous sends are nested.                    *)
THEOREM NoLostWakeupHolds == Spec => []NoLostWakeup
  <1>1. ASSUME IInv PROVE NoLostWakeup
    <2> SUFFICES ASSUME NEW p \in Proc, Waiting(p, "wait"), ~sem[p]
                 PROVE  /\ toDispatch[p] # << >> => \E f \in EndsOf(p) : signalling[f]
                        /\ LastOf(pending[Head(stack[p]).e]).reply = NoReply
                        /\ shouldWait[Head(stack[p]).e]
      BY DEF NoLostWakeup
    <2>1. toDispatch[p] # << >> => \E f \in EndsOf(p) : signalling[f]
      BY <1>1, StoredIsSignalled
    <2>2. stack[p] # << >> /\ IsWait(Head(stack[p])) /\ Head(stack[p]).pc = "wait"
      BY <1>1, TopWait
    <2> QED BY <1>1, <2>1, <2>2 DEF IInv, BlockInv
  <1> QED BY <1>1, InvInit, InvStep, PTL DEF Spec

(* The ASSERTs of sendSyncMessage and waitForSyncReply on the last pending  *)
(* reply never fail.                                                        *)
THEOREM PendingReplyIsMineHolds == Spec => []PendingReplyIsMine
  <1>1. ASSUME IInv PROVE PendingReplyIsMine
    <2> SUFFICES ASSUME NEW p \in Proc, NEW k \in DOMAIN stack[p], NEW e \in Endpoint,
                        WaitsOn(stack[p][k], e),
                        \A j \in DOMAIN stack[p] : j < k => ~WaitsOn(stack[p][j], e)
                 PROVE  pending[e] # << >> /\ LastOf(pending[e]).id = stack[p][k].id
      BY DEF PendingReplyIsMine
    <2>1. stack[p] \in Seq(Frame) /\ pending[e] \in Seq(PendingSyncReply)
      BY <1>1 DEF IInv, TypeOK
    <2>2. ProcOf[e] = p
      BY <1>1 DEF IInv, CallsInv, Calls, WaitsOn
    <2>3. Matches(stack[p], pending[e], syncRequestID[e], e)
      BY <1>1, <2>2 DEF IInv, MatchInv
    <2> QED BY <2>1, <2>3, InnermostIsLast
  <1> QED BY <1>1, InvInit, InvStep, PTL DEF Spec
=============================================================================
