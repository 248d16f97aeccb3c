------------------------ MODULE PluginProcessProofs ------------------------
(***************************************************************************)
(* The safety of module PluginProcess, for any number of web processes,    *)
(* plug-ins, instances and site data requests.  None of its invariants is  *)
(* inductive; five conjunctions of named parts are, each from the ones     *)
(* before it.                                                              *)
(*                                                                         *)
(*   IInv   the processes and their connections: m_terminationCounter is   *)
(*          the number of connections, and NPP_New runs for controllers    *)
(*          that are there, which a failing one removes after nested       *)
(*          calls.  Hence UnusedTerminate.                                 *)
(*   PInv   the life of each plug-in process as its proxy sees it, and the *)
(*          order and number of the messages between them.  Hence          *)
(*          InitializedFirst and RequestIsFound.                           *)
(*   WInv   where the request of each waiting call is.  Hence              *)
(*          NobodyForgotten.                                               *)
(*   NInv   which process made each connection that is known or on its     *)
(*          way, and what a crash notice on its way stands for.  Hence     *)
(*          NoticeIsForTheDead.                                            *)
(*   DInv   which controllers have their plug-in, and that one request at  *)
(*          most destroys an instance.  Hence DestroyFinds.                *)
(***************************************************************************)
EXTENDS PluginProcess, Counting, FiniteSetTheorems, WellFoundedInduction, TLAPS

Call == [instance : Instance, conn : Nat, making : BOOLEAN]

ChildState ==
    [state : {"none", "running", "gone"}, initialized : BOOLEAN, conns : SUBSET Nat,
     counter : Nat, timer : BOOLEAN, stack : Seq(Call), destroyTimers : SUBSET Instance]

SyncRequest == [op : {"create", "destroy"}, instance : Instance]

(* What a web process asks or tells the UI process, about an instance.      *)
Asking == [op : {"getConnection", "timedOut"}, instance : Instance]

AskingOK == toUI \in [Web -> Seq(Asking)]

Phase == {"unborn", "asking", "creating", "started", "destroying", "gone"}

(* A call of NPP_New is for a controller of a connection that is there, and *)
(* for another one than any other such call.                                *)
MakingOK(x, ctl) ==
    \A k \in DOMAIN x.stack : x.stack[k].making =>
        /\ x.stack[k].conn \in Conn \cap x.conns
        /\ x.stack[k].instance \in ctl[x.stack[k].conn]
        /\ \A j \in DOMAIN x.stack : x.stack[j].making /\ j # k =>
              \/ x.stack[j].conn # x.stack[k].conn
              \/ x.stack[j].instance # x.stack[k].instance

(* m_terminationCounter is the number of connections, of the n made so far. *)
CountOK(x, n) ==
    /\ x.conns \subseteq 1..n /\ IsFiniteSet(x.conns)
    /\ x.counter = Cardinality(x.conns)
    /\ x.timer => x.conns = {}

ChildOK(x, ctl, n) == x \in ChildState /\ CountOK(x, n) /\ MakingOK(x, ctl)

(* Nothing was asked of the plug-in process for an instance that has no     *)
(* connection yet, and an instance is created on a connection once.         *)
UnbornOK(ctl, req, ph) ==
    \A i \in Instance, c \in Conn : ph[i] \in {"unborn", "asking"} =>
        i \notin ctl[c] /\ \A k \in DOMAIN req[c] : req[c][k].instance # i

Once(q, S) ==
    \A k \in DOMAIN q : q[k].op = "create" =>
        /\ q[k].instance \notin S
        /\ \A j \in DOMAIN q : q[j].op = "create" /\ j # k =>
              q[j].instance # q[k].instance

LineOK(ctl, req, ph) ==
    /\ ctl \in [Conn -> SUBSET Instance] /\ req \in [Conn -> Seq(SyncRequest)]
    /\ ph \in [Instance -> Phase]
    /\ UnbornOK(ctl, req, ph)
    /\ \A c \in Conn : Once(req[c], ctl[c])

Disjoint(ch) == \A p, q \in Path : p # q => ch[p].conns \cap ch[q].conns = {}

IInv ==
    /\ nconn \in Nat /\ child \in [Path -> ChildState]
    /\ \A p \in Path : ChildOK(child[p], controllers, nconn)
    /\ Disjoint(child)
    /\ LineOK(controllers, requests, phase)
-----------------------------------------------------------------------------
(* Parts of the state that a step leaves alone.                             *)

(* A process is not affected by what happens to connections of others.      *)
LEMMA OtherChild ==
    ASSUME NEW x, NEW ctl, NEW ctl2, NEW n \in Nat, NEW n2 \in Nat, n <= n2,
           ChildOK(x, ctl, n), \A c \in Conn \cap x.conns : ctl2[c] = ctl[c]
    PROVE  ChildOK(x, ctl2, n2)
  <1>1. CountOK(x, n2) BY DEF ChildOK, CountOK
  <1>2. MakingOK(x, ctl2) BY DEF ChildOK, MakingOK
  <1> QED BY <1>1, <1>2 DEF ChildOK

(* One process changes, and its connections but for one, which is new.      *)
LEMMA ChildStep ==
    ASSUME IInv, NEW p \in Path, NEW x, child' = [child EXCEPT ![p] = x],
           nconn' \in Nat, nconn <= nconn', ChildOK(x, controllers', nconn'),
           \A c \in x.conns : c \in child[p].conns \/ c > nconn,
           \A c \in Conn : c \notin child[p].conns => controllers'[c] = controllers[c],
           LineOK(controllers', requests', phase')
    PROVE  IInv'
  <1>1. child \in [Path -> ChildState] /\ x \in ChildState /\ nconn \in Nat
    BY DEF IInv, ChildOK
  <1>2. child' \in [Path -> ChildState] /\ child'[p] = x
        /\ \A q \in Path : q # p => child'[q] = child[q]
    BY <1>1
  <1>3. ASSUME NEW q \in Path PROVE ChildOK(child'[q], controllers', nconn')
    <2>1. CASE q = p BY <1>2, <2>1
    <2>2. CASE q # p
      <3>1. ChildOK(child[q], controllers, nconn) /\ child[p].conns \cap child[q].conns = {}
        BY <2>2 DEF IInv, Disjoint
      <3>2. \A c \in Conn \cap child[q].conns : controllers'[c] = controllers[c] BY <3>1
      <3> QED BY <1>1, <1>2, <2>2, <3>1, <3>2, OtherChild
    <2> QED BY <2>1, <2>2
  <1>4. ASSUME NEW q \in Path, q # p PROVE x.conns \cap child[q].conns = {}
    <2>1. child[q].conns \subseteq 1..nconn BY DEF IInv, ChildOK, CountOK
    <2>2. child[p].conns \cap child[q].conns = {} BY <1>4 DEF IInv, Disjoint
    <2> QED BY <1>1, <2>1, <2>2
  <1>5. Disjoint(child') BY <1>2, <1>4 DEF Disjoint, IInv
  <1> QED BY <1>2, <1>3, <1>5 DEF IInv

(* Nothing changes but the lines, or the number of connections.             *)
LEMMA LineStep ==
    ASSUME IInv, UNCHANGED <<child, controllers>>, nconn' \in Nat, nconn <= nconn',
           LineOK(controllers', requests', phase')
    PROVE  IInv'
  <1>1. nconn \in Nat /\ child \in [Path -> ChildState] /\ Disjoint(child) BY DEF IInv
  <1>2. ASSUME NEW q \in Path PROVE ChildOK(child[q], controllers, nconn')
    <2>1. ChildOK(child[q], controllers, nconn) BY DEF IInv
    <2> QED BY <1>1, <2>1, OtherChild
  <1> QED BY <1>1, <1>2 DEF IInv

-----------------------------------------------------------------------------
(* The lines between web processes and plug-in processes.                   *)

(* An instance that moves on, without a request.                            *)
LEMMA PhaseMoves ==
    ASSUME NEW ctl, NEW req, NEW ph, LineOK(ctl, req, ph), NEW ph2 \in [Instance -> Phase],
           \A i \in Instance : ph2[i] \in {"unborn", "asking"} => ph[i] \in {"unborn", "asking"}
    PROVE  LineOK(ctl, req, ph2)
  BY DEF LineOK, UnbornOK

(* A request at the end: to create an instance that is not known yet, or to *)
(* destroy one.                                                             *)
LEMMA OneMoreRequest ==
    ASSUME NEW q \in Seq(SyncRequest), NEW S, Once(q, S), NEW m \in SyncRequest,
           m.op = "create" => /\ m.instance \notin S
                              /\ \A k \in DOMAIN q : q[k].instance # m.instance
    PROVE  Once(Append(q, m), S)
  <1> DEFINE r == Append(q, m)
  <1>1. /\ \A k \in DOMAIN q : r[k] = q[k]
        /\ \A k \in DOMAIN r : k \in DOMAIN q \/ (k = Len(q) + 1 /\ r[k] = m)
    OBVIOUS
  <1> HIDE DEF r
  <1>2. Once(r, S) BY <1>1 DEF Once
  <1> QED BY <1>2 DEF r

LEMMA RequestSent ==
    ASSUME NEW ctl, NEW req, NEW ph, LineOK(ctl, req, ph), NEW i \in Instance, NEW c,
           NEW op \in {"create", "destroy"}, NEW f \in Phase \ {"unborn", "asking"},
           op = "create" => ph[i] \in {"unborn", "asking"},
           NEW req2, NEW ph2, ph2 = [ph EXCEPT ![i] = f],
           \/ req2 = req
           \/ req2 = [req EXCEPT ![c] = Append(@, [op |-> op, instance |-> i])]
    PROVE  LineOK(ctl, req2, ph2)
  <1>1. /\ ctl \in [Conn -> SUBSET Instance] /\ req \in [Conn -> Seq(SyncRequest)]
        /\ ph \in [Instance -> Phase] /\ UnbornOK(ctl, req, ph)
        /\ \A d \in Conn : Once(req[d], ctl[d])
    BY DEF LineOK
  <1>2. /\ ph2 \in [Instance -> Phase] /\ ph2[i] = f /\ f \notin {"unborn", "asking"}
        /\ \A j \in Instance : j # i => ph2[j] = ph[j]
    BY <1>1
  <1>3. LineOK(ctl, req, ph2) BY <1>2, PhaseMoves
  <1>4. CASE c \notin Conn \/ req2 = req
    <2>1. req2 = req BY <1>1, <1>4
    <2> QED BY <1>3, <2>1
  <1>5. CASE c \in Conn /\ req2 # req
    <2> DEFINE m == [op |-> op, instance |-> i]
               r == Append(req[c], m)
    <2>1. m \in SyncRequest /\ m.op = op /\ m.instance = i BY DEF SyncRequest
    <2> HIDE DEF m
    <2>2. req[c] \in Seq(SyncRequest) BY <1>1, <1>5
    <2>3. /\ r \in Seq(SyncRequest)
          /\ \A k \in DOMAIN r : r[k] = m \/ (k \in DOMAIN req[c] /\ r[k] = req[c][k])
      BY <2>1, <2>2
    <2>4. op = "create" => i \notin ctl[c] /\ \A k \in DOMAIN req[c] : req[c][k].instance # i
      BY <1>1, <1>5 DEF UnbornOK
    <2>5. Once(r, ctl[c]) BY <1>1, <1>5, <2>1, <2>2, <2>4, OneMoreRequest
    <2>6. req2 = [req EXCEPT ![c] = r] BY <1>5 DEF m
    <2> HIDE DEF r
    <2>7. /\ req2 \in [Conn -> Seq(SyncRequest)] /\ req2[c] = r
          /\ \A d \in Conn : d # c => req2[d] = req[d]
      BY <1>1, <1>5, <2>3, <2>6
    <2>8. \A d \in Conn : Once(req2[d], ctl[d]) BY <1>1, <2>5, <2>7
    <2>9. UnbornOK(ctl, req2, ph2)
      <3> SUFFICES ASSUME NEW j \in Instance, NEW d \in Conn, ph2[j] \in {"unborn", "asking"}
                   PROVE  j \notin ctl[d] /\ \A k \in DOMAIN req2[d] : req2[d][k].instance # j
        BY DEF UnbornOK
      <3>1. j # i /\ ph[j] \in {"unborn", "asking"} BY <1>2
      <3>2. j \notin ctl[d] /\ \A k \in DOMAIN req[d] : req[d][k].instance # j
        BY <1>1, <3>1 DEF UnbornOK
      <3>3. CASE d = c BY <2>1, <2>3, <2>7, <3>1, <3>2, <3>3
      <3>4. CASE d # c BY <2>7, <3>2, <3>4
      <3> QED BY <3>3, <3>4
    <2> QED BY <1>1, <1>2, <2>7, <2>8, <2>9 DEF LineOK
  <1> QED BY <1>4, <1>5

(* Requests are taken or lost, and controllers removed.                     *)
LEMMA LinesShrink ==
    ASSUME NEW ctl, NEW req, NEW ph, LineOK(ctl, req, ph),
           NEW ctl2 \in [Conn -> SUBSET Instance], \A c \in Conn : ctl2[c] \subseteq ctl[c],
           NEW req2, req2 \in [Conn -> Seq(SyncRequest)],
           \A c \in Conn : req2[c] \in {req[c], << >>} \/ (req[c] # << >> /\ req2[c] = Tail(req[c]))
    PROVE  LineOK(ctl2, req2, ph)
  <1>1. /\ ctl \in [Conn -> SUBSET Instance] /\ req \in [Conn -> Seq(SyncRequest)]
        /\ ph \in [Instance -> Phase] /\ UnbornOK(ctl, req, ph)
        /\ \A d \in Conn : Once(req[d], ctl[d])
    BY DEF LineOK
  <1>2. ASSUME NEW c \in Conn
        PROVE  /\ Once(req2[c], ctl2[c])
               /\ \A k \in DOMAIN req2[c] : \E j \in DOMAIN req[c] : req2[c][k] = req[c][j]
    <2>0. req[c] \in Seq(SyncRequest) /\ Once(req[c], ctl[c]) BY <1>1
    <2>1. CASE req2[c] = req[c] BY <2>0, <2>1 DEF Once
    <2>2. CASE req2[c] = << >> BY <2>2 DEF Once
    <2>3. CASE req[c] # << >> /\ req2[c] = Tail(req[c])
      <3> DEFINE q == req[c]
                 r == Tail(q)
      <3>1. \A k \in DOMAIN r : k \in Nat /\ k + 1 \in DOMAIN q /\ r[k] = q[k + 1]
        BY <2>0, <2>3
      <3> HIDE DEF q, r
      <3>2. Once(q, ctl[c]) BY <2>0 DEF q
      <3>3. Once(r, ctl2[c])
        <4> SUFFICES ASSUME NEW k \in DOMAIN r, r[k].op = "create"
                     PROVE  /\ r[k].instance \notin ctl2[c]
                            /\ \A j \in DOMAIN r : r[j].op = "create" /\ j # k =>
                                  r[j].instance # r[k].instance
          BY DEF Once
        <4>1. k + 1 \in DOMAIN q /\ r[k] = q[k + 1] BY <3>1
        <4>2. r[k].instance \notin ctl2[c] BY <3>2, <4>1 DEF Once
        <4>3. ASSUME NEW j \in DOMAIN r, r[j].op = "create", j # k
              PROVE  r[j].instance # r[k].instance
          <5>1. j + 1 \in DOMAIN q /\ r[j] = q[j + 1] /\ j + 1 # k + 1 BY <3>1, <4>3
          <5> QED BY <3>2, <4>1, <4>3, <5>1 DEF Once
        <4> QED BY <4>2, <4>3
      <3>4. req2[c] = r /\ req[c] = q BY <2>3 DEF q, r
      <3> QED BY <3>1, <3>3, <3>4
    <2> QED BY <2>1, <2>2, <2>3
  <1>3. UnbornOK(ctl2, req2, ph)
    <2> SUFFICES ASSUME NEW j \in Instance, NEW d \in Conn, ph[j] \in {"unborn", "asking"}
                 PROVE  j \notin ctl2[d] /\ \A k \in DOMAIN req2[d] : req2[d][k].instance # j
      BY DEF UnbornOK
    <2> QED BY <1>1, <1>2 DEF UnbornOK
  <1> QED BY <1>1, <1>2, <1>3 DEF LineOK
-----------------------------------------------------------------------------
(* The plug-in process.                                                     *)

LEMMA ChildFields ==
    ASSUME NEW x \in ChildState
    PROVE  /\ x.state \in {"none", "running", "gone"} /\ x.initialized \in BOOLEAN
           /\ x.conns \in SUBSET Nat /\ x.counter \in Nat /\ x.timer \in BOOLEAN
           /\ x.stack \in Seq(Call) /\ x.destroyTimers \in SUBSET Instance
  BY DEF ChildState

(* The innermost call returns.                                              *)
LEMMA OneCallLess ==
    ASSUME NEW s \in Seq(Call), s # << >>
    PROVE  /\ Front(s) \in Seq(Call) /\ Len(s) \in DOMAIN s
           /\ \A k \in DOMAIN Front(s) : k \in DOMAIN s /\ k # Len(s) /\ Front(s)[k] = s[k]
  BY DEF Front

(* WebProcessConnection c loses instances, none of which is in NPP_New, or  *)
(* only the one whose call returns.                                         *)
LEMMA RemovalOK ==
    ASSUME NEW n \in Nat, NEW ctl \in [Conn -> SUBSET Instance], NEW x, ChildOK(x, ctl, n),
           NEW c \in Conn, c \in x.conns, NEW gone \in SUBSET Instance,
           NEW y \in ChildState,
           \A k \in DOMAIN y.stack :
              /\ k \in DOMAIN x.stack /\ y.stack[k] = x.stack[k]
              /\ y.stack[k].making /\ y.stack[k].conn = c => y.stack[k].instance \notin gone,
           IF ctl[c] \subseteq gone
           THEN /\ y.conns = x.conns \ {c} /\ y.counter = x.counter - 1
                /\ y.timer => x.counter = 1
           ELSE y.conns = x.conns /\ y.counter = x.counter /\ y.timer = x.timer
    PROVE  ChildOK(y, [ctl EXCEPT ![c] = @ \ gone], n)
  <1> DEFINE ctl2 == [ctl EXCEPT ![c] = @ \ gone]
  <1>1. ctl2[c] = ctl[c] \ gone /\ \A d \in Conn : d # c => ctl2[d] = ctl[d] OBVIOUS
  <1> HIDE DEF ctl2
  <1>2. /\ x.conns \subseteq 1..n /\ IsFiniteSet(x.conns) /\ x.counter = Cardinality(x.conns)
        /\ x.timer => x.conns = {}
    BY DEF ChildOK, CountOK
  <1>3. CountOK(y, n)
    <2>1. CASE ctl[c] \subseteq gone
      <3>1. IsFiniteSet(y.conns) /\ Cardinality(y.conns) = Cardinality(x.conns) - 1
        BY <1>2, <2>1, FS_RemoveElement
      <3>2. Cardinality(x.conns) \in Nat BY <1>2, FS_CardinalityType
      <3>3. y.timer => Cardinality(y.conns) = 0 BY <1>2, <2>1, <3>1, <3>2
      <3>4. y.timer => y.conns = {} BY <3>1, <3>3, FS_EmptySet
      <3> QED BY <1>2, <2>1, <3>1, <3>4 DEF CountOK
    <2>2. CASE ~(ctl[c] \subseteq gone) BY <1>2, <2>2 DEF CountOK
    <2> QED BY <2>1, <2>2
  <1>4. MakingOK(y, ctl2)
    <2> SUFFICES ASSUME NEW k \in DOMAIN y.stack, y.stack[k].making
                 PROVE  /\ y.stack[k].conn \in Conn \cap y.conns
                        /\ y.stack[k].instance \in ctl2[y.stack[k].conn]
                        /\ \A j \in DOMAIN y.stack : y.stack[j].making /\ j # k =>
                              \/ y.stack[j].conn # y.stack[k].conn
                              \/ y.stack[j].instance # y.stack[k].instance
      BY DEF MakingOK
    <2>1. /\ y.stack[k].conn \in Conn \cap x.conns
          /\ y.stack[k].instance \in ctl[y.stack[k].conn]
          /\ \A j \in DOMAIN y.stack : y.stack[j].making /\ j # k =>
                \/ y.stack[j].conn # y.stack[k].conn
                \/ y.stack[j].instance # y.stack[k].instance
      BY DEF ChildOK, MakingOK
    <2>2. y.stack[k].conn = c => y.stack[k].instance \notin gone OBVIOUS
    <2>3. y.stack[k].instance \in ctl2[y.stack[k].conn] BY <1>1, <2>1, <2>2
    <2>4. y.stack[k].conn \in y.conns BY <2>1, <2>2
    <2> QED BY <2>1, <2>3, <2>4
  <1>5. ChildOK(y, ctl2, n) BY <1>3, <1>4 DEF ChildOK
  <1> QED BY <1>5 DEF ctl2

LEMMA AfterRemovalFields ==
    ASSUME IInv, NEW p \in Path, NEW c, c \in child[p].conns, NEW gone
    PROVE  LET x == child[p]
               y == AfterRemoval(p, c, gone)
           IN  /\ y \in ChildState /\ y.stack = x.stack
               /\ IF controllers[c] \subseteq gone
                  THEN /\ y.conns = x.conns \ {c} /\ y.counter = x.counter - 1
                       /\ y.timer => x.counter = 1
                  ELSE y.conns = x.conns /\ y.counter = x.counter /\ y.timer = x.timer
  <1> DEFINE x == child[p]
             y == AfterRemoval(p, c, gone)
  <1>1. x \in ChildState /\ CountOK(x, nconn) BY DEF IInv, ChildOK
  <1>2. x.counter \in Nat /\ x.counter # 0
    <2>1. IsFiniteSet(x.conns) /\ x.counter = Cardinality(x.conns) BY <1>1 DEF CountOK
    <2>2. x.counter \in Nat BY <2>1, FS_CardinalityType
    <2>3. x.counter # 0 BY <2>1, FS_EmptySet
    <2> QED BY <2>2, <2>3
  <1>3. x.counter - 1 \in Nat BY <1>2
  <1>4. CASE controllers[c] \subseteq gone
    <2>1. y = [x EXCEPT !.conns = @ \ {c}, !.counter = @ - 1, !.timer = (x.counter = 1),
                        !.destroyTimers = @ \ gone]
      BY <1>4 DEF AfterRemoval
    <2> HIDE DEF x, y
    <2>2. y \in ChildState BY <1>1, <1>3, <2>1 DEF ChildState
    <2>3. /\ y.stack = x.stack /\ y.conns = x.conns \ {c} /\ y.counter = x.counter - 1
          /\ y.timer = (x.counter = 1)
      BY <1>1, <2>1 DEF ChildState
    <2>4. y.timer => x.counter = 1 BY <2>3
    <2> QED BY <1>4, <2>2, <2>3, <2>4 DEF x, y
  <1>5. CASE ~(controllers[c] \subseteq gone)
    <2>1. y = [x EXCEPT !.destroyTimers = @ \ gone] BY <1>5 DEF AfterRemoval
    <2> HIDE DEF x, y
    <2>2. /\ y \in ChildState /\ y.stack = x.stack /\ y.conns = x.conns
          /\ y.counter = x.counter /\ y.timer = x.timer
      BY <1>1, <2>1 DEF ChildState
    <2> QED BY <1>5, <2>2 DEF x, y
  <1> QED BY <1>4, <1>5

(* The same for the whole state.                                            *)
LEMMA RemovalStep ==
    ASSUME IInv, NEW p \in Path, NEW c \in Conn, c \in child[p].conns,
           NEW gone \in SUBSET Instance, NEW y \in ChildState,
           child' = [child EXCEPT ![p] = y],
           \A k \in DOMAIN y.stack :
              /\ k \in DOMAIN child[p].stack /\ y.stack[k] = child[p].stack[k]
              /\ y.stack[k].making /\ y.stack[k].conn = c => y.stack[k].instance \notin gone,
           LET x == AfterRemoval(p, c, gone)
           IN  y.conns = x.conns /\ y.counter = x.counter /\ y.timer = x.timer,
           RemoveControllers(c, gone), requests' \in [Conn -> Seq(SyncRequest)],
           \A d \in Conn : \/ requests'[d] \in {requests[d], << >>}
                           \/ requests[d] # << >> /\ requests'[d] = Tail(requests[d]),
           UNCHANGED <<nconn, phase>>
    PROVE  IInv'
  <1>1. /\ nconn \in Nat /\ controllers \in [Conn -> SUBSET Instance]
        /\ ChildOK(child[p], controllers, nconn) /\ LineOK(controllers, requests, phase)
    BY DEF IInv, LineOK
  <1>2. controllers' = [controllers EXCEPT ![c] = @ \ gone] BY DEF RemoveControllers
  <1>3. IF controllers[c] \subseteq gone
        THEN /\ y.conns = child[p].conns \ {c} /\ y.counter = child[p].counter - 1
             /\ y.timer => child[p].counter = 1
        ELSE y.conns = child[p].conns /\ y.counter = child[p].counter /\ y.timer = child[p].timer
    BY AfterRemovalFields
  <1>4. ChildOK(y, controllers', nconn) BY <1>1, <1>2, <1>3, RemovalOK
  <1>5. /\ controllers' \in [Conn -> SUBSET Instance]
        /\ \A d \in Conn : controllers'[d] \subseteq controllers[d]
        /\ \A d \in Conn : d # c => controllers'[d] = controllers[d]
    BY <1>1, <1>2
  <1>6. LineOK(controllers', requests', phase') BY <1>1, <1>5, LinesShrink
  <1>7. \A d \in y.conns : d \in child[p].conns BY <1>3
  <1>8. nconn' \in Nat /\ nconn <= nconn' /\ ChildOK(y, controllers', nconn') BY <1>1, <1>4
  <1>9. \A d \in Conn : d \notin child[p].conns => controllers'[d] = controllers[d] BY <1>5
  <1> QED BY <1>6, <1>7, <1>8, <1>9, ChildStep
-----------------------------------------------------------------------------
(* Steps of the web processes.                                             *)

LEMMA NothingHappens ==
    ASSUME IInv, UNCHANGED <<child, controllers, requests, nconn, phase>>
    PROVE  IInv'
  BY LineStep DEF IInv

(* An instance goes on, without a request or with one.                      *)
LEMMA MovesOn ==
    ASSUME IInv, UNCHANGED <<child, controllers, requests>>, nconn' \in {nconn, nconn + 1},
           phase' \in [Instance -> Phase],
           \A i \in Instance : phase'[i] \in {"unborn", "asking"} => phase[i] \in {"unborn", "asking"}
    PROVE  IInv'
  <1>1. LineOK(controllers, requests, phase') BY PhaseMoves DEF IInv
  <1>2. nconn' \in Nat /\ nconn <= nconn' BY DEF IInv
  <1> QED BY <1>1, <1>2, LineStep

LEMMA SendsRequest ==
    ASSUME IInv, UNCHANGED <<child, controllers, nconn>>, NEW i \in Instance, NEW c,
           NEW op \in {"create", "destroy"}, SendRequest(i, c, op),
           op = "create" => phase[i] \in {"unborn", "asking"},
           NEW f \in Phase \ {"unborn", "asking"}, phase' = [phase EXCEPT ![i] = f]
    PROVE  IInv'
  <1>1. \/ requests' = requests
        \/ requests' = [requests EXCEPT ![c] = Append(@, [op |-> op, instance |-> i])]
    BY DEF SendRequest
  <1>2. LineOK(controllers, requests', phase') BY <1>1, RequestSent DEF IInv
  <1>3. nconn' \in Nat /\ nconn <= nconn' BY DEF IInv
  <1> QED BY <1>2, <1>3, LineStep

LEMMA InstanceSteps ==
    ASSUME IInv, NEW i \in Instance,
           \/ Initialize(i) \/ Destroy(i) \/ GotConnection(i) \/ GotNothing(i) \/ GotGarbage(i)
           \/ CreateReturns(i) \/ DestroyReturns(i) \/ CallTimesOut(i)
    PROVE  IInv'
  <1>0. phase \in [Instance -> Phase] BY DEF IInv, LineOK
  <1>1. CASE Initialize(i)
    <2>0. phase[i] = "unborn" /\ UNCHANGED <<child, controllers, nconn>>
      BY <1>1 DEF Initialize, plugVars
    <2>1. CASE requests' = requests /\ phase' = [phase EXCEPT ![i] = "asking"]
      BY <1>0, <2>0, <2>1, MovesOn DEF Phase
    <2>2. CASE \E c : phase' = [phase EXCEPT ![i] = "creating"] /\ SendRequest(i, c, "create")
      BY <2>0, <2>2, SendsRequest DEF Phase
    <2> QED BY <1>1, <2>1, <2>2 DEF Initialize, CreateOn
  <1>2. CASE Destroy(i)
    <2>1. /\ UNCHANGED <<child, controllers, nconn>> /\ SendRequest(i, connOf[i], "destroy")
          /\ phase' = [phase EXCEPT ![i] = "destroying"]
      BY <1>2 DEF Destroy, plugVars
    <2> QED BY <2>1, SendsRequest DEF Phase
  <1>3. CASE GotConnection(i)
    <2>1. /\ UNCHANGED <<child, controllers, nconn>> /\ SendRequest(i, answer[i], "create")
          /\ phase[i] = "asking" /\ phase' = [phase EXCEPT ![i] = "creating"]
      BY <1>3 DEF GotConnection, Enter, CreateOn, Waits, plugVars
    <2> QED BY <2>1, SendsRequest DEF Phase
  <1>4. CASE GotNothing(i) \/ GotGarbage(i) \/ CreateReturns(i) \/ DestroyReturns(i)
             \/ CallTimesOut(i)
    <2>1. /\ UNCHANGED <<child, controllers, requests>> /\ nconn' \in {nconn, nconn + 1}
      BY <1>4 DEF GotNothing, GotGarbage, CreateReturns, DestroyReturns, CallTimesOut,
                  Enter, plugVars, lineVars
    <2>2. \E f \in {"creating", "started", "gone"} : phase' = [phase EXCEPT ![i] = f]
      BY <1>4 DEF GotNothing, GotGarbage, CreateReturns, DestroyReturns, CallTimesOut,
                  Enter, CreateOn
    <2> QED BY <1>0, <2>1, <2>2, MovesOn DEF Phase
  <1> QED BY <1>1, <1>2, <1>3, <1>4

LEMMA WebProcessSteps ==
    ASSUME IInv, NEW w, ReceiveFromUI(w) \/ WebProcessDies(w)
    PROVE  IInv'
  <1>1. CASE ReceiveFromUI(w)
    BY <1>1, NothingHappens DEF ReceiveFromUI, plugVars
  <1>2. CASE WebProcessDies(w)
    <2>1. /\ UNCHANGED <<child, controllers, requests, nconn>>
          /\ phase' = [i \in Instance |-> IF OwnerOf[i] = w THEN "gone" ELSE phase[i]]
      BY <1>2 DEF WebProcessDies, plugVars
    <2>2. phase \in [Instance -> Phase] BY DEF IInv, LineOK
    <2> QED BY <2>1, <2>2, MovesOn DEF Phase
  <1> QED BY <1>1, <1>2

-----------------------------------------------------------------------------
(* Steps of the plug-in processes.                                         *)

(* The process changes without its connections.                             *)
LEMMA ChildMoves ==
    ASSUME IInv, NEW p \in Path, NEW y \in ChildState, child' = [child EXCEPT ![p] = y],
           y.conns = child[p].conns, y.counter = child[p].counter,
           y.timer => child[p].counter = 0 \/ child[p].timer,
           \A k \in DOMAIN y.stack : y.stack[k].making =>
              k \in DOMAIN child[p].stack /\ y.stack[k] = child[p].stack[k],
           UNCHANGED <<controllers, nconn, phase>>, LineOK(controllers, requests', phase)
    PROVE  IInv'
  <1>1. /\ nconn \in Nat
        /\ ChildOK(child[p], controllers, nconn)
    BY DEF IInv
  <1>2. y.timer => y.conns = {}
    <2>1. child[p].counter = 0 => child[p].conns = {}
      BY <1>1, FS_EmptySet DEF ChildOK, CountOK
    <2> QED BY <1>1, <2>1 DEF ChildOK, CountOK
  <1>3. CountOK(y, nconn) BY <1>1, <1>2 DEF ChildOK, CountOK
  <1>4. MakingOK(y, controllers) BY <1>1 DEF ChildOK, MakingOK
  <1>5. ChildOK(y, controllers', nconn') BY <1>3, <1>4 DEF ChildOK
  <1>6. nconn' \in Nat /\ nconn <= nconn' /\ LineOK(controllers', requests', phase') BY <1>1
  <1>7. \A c \in y.conns : c \in child[p].conns OBVIOUS
  <1>8. \A c \in Conn : controllers'[c] = controllers[c] OBVIOUS
  <1> QED BY <1>5, <1>6, <1>7, <1>8, ChildStep

(* The process is gone, or has not been launched yet.                       *)
LEMMA NoChildOK ==
    ASSUME NEW st \in {"none", "running", "gone"}, NEW ctl, NEW n \in Nat
    PROVE  LET y == [NoChild EXCEPT !.state = st]
           IN  ChildOK(y, ctl, n) /\ y.conns = {}
  <1> DEFINE y == [NoChild EXCEPT !.state = st]
  <1>0. << >> \in Seq(Call) OBVIOUS
  <1>1. /\ y.state = st /\ y.initialized = FALSE /\ y.conns = {} /\ y.counter = 0
        /\ y.timer = FALSE /\ y.stack = << >> /\ y.destroyTimers = {}
        /\ y \in ChildState
    BY <1>0 DEF NoChild, ChildState
  <1> HIDE DEF y
  <1>2. CountOK(y, n) BY <1>1, FS_EmptySet DEF CountOK
  <1>3. MakingOK(y, ctl) BY <1>1 DEF MakingOK
  <1>4. ChildOK(y, ctl, n) /\ y.conns = {} BY <1>1, <1>2, <1>3 DEF ChildOK
  <1> QED BY <1>4 DEF y

LEMMA GoneStep ==
    ASSUME IInv, NEW p \in Path, Gone(p), UNCHANGED <<nconn, phase>>
    PROVE  IInv'
  <1> DEFINE y == [NoChild EXCEPT !.state = "gone"]
  <1>1. /\ nconn \in Nat /\ LineOK(controllers, requests, phase)
        /\ controllers \in [Conn -> SUBSET Instance] /\ requests \in [Conn -> Seq(SyncRequest)]
    BY DEF IInv, LineOK
  <1>2. /\ child' = [child EXCEPT ![p] = y]
        /\ controllers' = [c \in Conn |-> IF c \in child[p].conns THEN {} ELSE controllers[c]]
        /\ requests' = [c \in Conn |-> IF c \in child[p].conns THEN << >> ELSE requests[c]]
    BY DEF Gone
  <1>3. ChildOK(y, controllers', nconn') /\ y.conns = {} BY <1>1, NoChildOK
  <1> HIDE DEF y
  <1>4. /\ controllers' \in [Conn -> SUBSET Instance]
        /\ \A c \in Conn : controllers'[c] \subseteq controllers[c]
        /\ \A c \in Conn : c \notin child[p].conns => controllers'[c] = controllers[c]
    BY <1>1, <1>2
  <1>5. /\ requests' \in [Conn -> Seq(SyncRequest)]
        /\ \A c \in Conn : requests'[c] \in {requests[c], << >>}
    BY <1>1, <1>2
  <1>6. LineOK(controllers', requests', phase') BY <1>1, <1>4, <1>5, LinesShrink
  <1>7. nconn' \in Nat /\ nconn <= nconn' BY <1>1
  <1>8. \A c \in y.conns : c \in child[p].conns BY <1>3
  <1> QED BY <1>2, <1>3, <1>4, <1>6, <1>7, <1>8, ChildStep
LEMMA CallSteps ==
    ASSUME IInv, NEW p \in Path, NEW i,
           \/ ReceiveInitialize(p) \/ HandleSiteData(p) \/ LeavePlugin(p) \/ LaunchProcess(p)
           \/ i \in Instance /\ EnterPlugin(p, i)
    PROVE  IInv'
  <1> DEFINE x == child[p]
  <1>1. /\ x \in ChildState /\ child \in [Path -> ChildState]
        /\ LineOK(controllers, requests, phase) /\ CountOK(x, nconn)
    BY DEF IInv, ChildOK
  <1>2. /\ x.state \in {"none", "running", "gone"} /\ x.initialized \in BOOLEAN
        /\ x.conns \in SUBSET Nat /\ x.counter \in Nat /\ x.timer \in BOOLEAN
        /\ x.stack \in Seq(Call) /\ x.destroyTimers \in SUBSET Instance
    BY <1>1, ChildFields
  <1>3. UNCHANGED <<controllers, requests, nconn, phase>>
    BY DEF ReceiveInitialize, HandleSiteData, LeavePlugin, LaunchProcess, EnterPlugin,
           lineVars, webVars
  <1>4. CASE ReceiveInitialize(p)
    <2> DEFINE y == [x EXCEPT !.initialized = TRUE]
    <2>1. child' = [child EXCEPT ![p] = y] BY <1>1, <1>4 DEF ReceiveInitialize
    <2> HIDE DEF x
    <2>2. /\ y \in ChildState /\ y.conns = x.conns /\ y.counter = x.counter /\ y.timer = x.timer
          /\ y.stack = x.stack
      BY <1>1 DEF ChildState
    <2> HIDE DEF y
    <2> QED BY <1>1, <1>3, <2>1, <2>2, ChildMoves DEF x
  <1>5. CASE HandleSiteData(p)
    <2> DEFINE b == x.counter = 0
               y == [x EXCEPT !.timer = b]
    <2>1. child' = [child EXCEPT ![p] = y] BY <1>1, <1>5 DEF HandleSiteData
    <2>2. b \in BOOLEAN /\ (b => x.counter = 0) OBVIOUS
    <2> HIDE DEF x, b
    <2>3. /\ y \in ChildState /\ y.conns = x.conns /\ y.counter = x.counter /\ y.timer = b
          /\ y.stack = x.stack
      BY <1>1, <2>2 DEF ChildState
    <2>4. y.timer => x.counter = 0 BY <2>2, <2>3
    <2> HIDE DEF y
    <2> QED BY <1>1, <1>3, <2>1, <2>3, <2>4, ChildMoves DEF x
  <1>6. CASE LeavePlugin(p)
    <2> DEFINE y == [x EXCEPT !.stack = Front(@)]
    <2>1. child' = [child EXCEPT ![p] = y] /\ x.stack # << >> BY <1>1, <1>6 DEF LeavePlugin
    <2>2. /\ Front(x.stack) \in Seq(Call)
          /\ \A k \in DOMAIN Front(x.stack) :
                k \in DOMAIN x.stack /\ Front(x.stack)[k] = x.stack[k]
      BY <1>2, <2>1, OneCallLess
    <2> HIDE DEF x
    <2>3. /\ y \in ChildState /\ y.conns = x.conns /\ y.counter = x.counter /\ y.timer = x.timer
          /\ y.stack = Front(x.stack)
      BY <1>1, <2>2 DEF ChildState
    <2> HIDE DEF y
    <2> QED BY <1>1, <1>3, <2>1, <2>2, <2>3, ChildMoves DEF x
  <1>7. CASE LaunchProcess(p)
    <2>1. PICK st \in {"running", "gone"} : child' = [child EXCEPT ![p].state = st]
      BY <1>7 DEF LaunchProcess
    <2> DEFINE y == [x EXCEPT !.state = st]
    <2>2. child' = [child EXCEPT ![p] = y] BY <1>1, <2>1
    <2> HIDE DEF x
    <2>3. /\ y \in ChildState /\ y.conns = x.conns /\ y.counter = x.counter /\ y.timer = x.timer
          /\ y.stack = x.stack
      BY <1>1 DEF ChildState
    <2> HIDE DEF y
    <2> QED BY <1>1, <1>3, <2>2, <2>3, ChildMoves DEF x
  <1>8. CASE i \in Instance /\ EnterPlugin(p, i)
    <2> DEFINE call == [instance |-> i, conn |-> connOf[i], making |-> FALSE]
               s == <<call>>
               y == [x EXCEPT !.stack = s]
    <2>1. child' = [child EXCEPT ![p] = y] /\ connOf[i] \in x.conns BY <1>1, <1>8 DEF EnterPlugin
    <2>2. call \in Call /\ ~call.making BY <1>2, <1>8, <2>1 DEF Call
    <2> HIDE DEF call
    <2>3. s \in Seq(Call) /\ \A k \in DOMAIN s : ~s[k].making BY <2>2
    <2> HIDE DEF x, s
    <2>4. /\ y \in ChildState /\ y.conns = x.conns /\ y.counter = x.counter /\ y.timer = x.timer
          /\ y.stack = s
      BY <1>1, <2>3 DEF ChildState
    <2> HIDE DEF y
    <2> QED BY <1>1, <1>3, <2>1, <2>3, <2>4, ChildMoves DEF x
  <1> QED BY <1>4, <1>5, <1>6, <1>7, <1>8

LEMMA DidCloseStep ==
    ASSUME IInv, NEW p \in Path, DidClose(p)
    PROVE  IInv'
  <1>1. /\ child' = [child EXCEPT ![p] = NoChild]
        /\ UNCHANGED <<controllers, requests, nconn, phase>>
    BY DEF DidClose, lineVars, webVars
  <1>2. nconn \in Nat /\ LineOK(controllers, requests, phase) BY DEF IInv
  <1>3. NoChild = [NoChild EXCEPT !.state = "none"] BY DEF NoChild
  <1>4. ChildOK(NoChild, controllers, nconn) /\ NoChild.conns = {} BY <1>2, <1>3, NoChildOK
  <1>5. nconn' \in Nat /\ nconn <= nconn' /\ ChildOK(NoChild, controllers', nconn')
    BY <1>1, <1>2, <1>4
  <1>6. LineOK(controllers', requests', phase') BY <1>1, <1>2
  <1>7. \A c \in Conn : controllers'[c] = controllers[c] BY <1>1
  <1>8. \A c \in NoChild.conns : c \in child[p].conns BY <1>4
  <1> QED BY <1>1, <1>5, <1>6, <1>7, <1>8, ChildStep

(* createWebProcessConnection: the process is kept from terminating.        *)
LEMMA CreateConnectionStep ==
    ASSUME IInv, NEW p \in Path, CreateConnection(p)
    PROVE  IInv'
  <1> DEFINE x == child[p]
             n == nconn + 1
             y == [x EXCEPT !.conns = @ \cup {n}, !.counter = @ + 1, !.timer = FALSE]
  <1>1. /\ x \in ChildState /\ child \in [Path -> ChildState] /\ nconn \in Nat
        /\ LineOK(controllers, requests, phase) /\ CountOK(x, nconn) /\ MakingOK(x, controllers)
    BY DEF IInv, ChildOK
  <1>2. child' = [child EXCEPT ![p] = y] BY <1>1 DEF CreateConnection
  <1>3. nconn' = n /\ UNCHANGED <<controllers, requests, phase>>
    BY DEF CreateConnection, webVars
  <1>4. n \in Nat /\ nconn <= n /\ n \notin x.conns BY <1>1 DEF CountOK
  <1>5. x.counter \in Nat /\ x.conns \in SUBSET Nat BY <1>1, ChildFields
  <1> DEFINE a == x.conns \cup {n}
             b == x.counter + 1
             z == [x EXCEPT !.conns = a, !.counter = b, !.timer = FALSE]
  <1>0. a \in SUBSET Nat /\ b \in Nat BY <1>4, <1>5
  <1> HIDE DEF x, a, b
  <1>6a. /\ z \in ChildState /\ z.conns = a /\ z.counter = b /\ z.timer = FALSE
         /\ z.stack = x.stack
    BY <1>0, <1>1 DEF ChildState
  <1>6b. y = z BY <1>1 DEF a, b, ChildState
  <1> HIDE DEF y, z
  <1>6. /\ y \in ChildState /\ y.conns = x.conns \cup {n} /\ y.counter = x.counter + 1
        /\ y.timer = FALSE /\ y.stack = x.stack
    BY <1>6a, <1>6b DEF a, b
  <1>7. IsFiniteSet(x.conns) /\ x.counter = Cardinality(x.conns) /\ x.conns \subseteq 1..nconn
    BY <1>1 DEF CountOK
  <1>8. IsFiniteSet(y.conns) /\ Cardinality(y.conns) = Cardinality(x.conns) + 1
    BY <1>4, <1>6, <1>7, FS_AddElement
  <1>9. y.conns \subseteq 1..n BY <1>1, <1>6, <1>7
  <1>10. CountOK(y, n) BY <1>6, <1>7, <1>8, <1>9 DEF CountOK
  <1>11. MakingOK(y, controllers) BY <1>1, <1>6 DEF MakingOK
  <1>12. ChildOK(y, controllers', nconn') BY <1>3, <1>6, <1>10, <1>11 DEF ChildOK
  <1>13. \A c \in y.conns : c \in x.conns \/ c > nconn BY <1>1, <1>6
  <1>14. nconn' \in Nat /\ nconn <= nconn' BY <1>3, <1>4
  <1>15. LineOK(controllers', requests', phase') BY <1>1, <1>3
  <1>16. \A c \in Conn : controllers'[c] = controllers[c] BY <1>3
  <1> QED BY <1>2, <1>12, <1>13, <1>14, <1>15, <1>16, ChildStep DEF x
(* createPlugin makes a controller and calls NPP_New.                       *)
LEMMA BeginCreateStep ==
    ASSUME IInv, NEW p \in Path, NEW c \in Conn, BeginCreatePlugin(p, c)
    PROVE  IInv'
  <1> DEFINE x == child[p]
             q == requests[c]
             i == Head(q).instance
             call == [instance |-> i, conn |-> c, making |-> TRUE]
             s == Append(x.stack, call)
             y == [x EXCEPT !.stack = s]
  <1>1. /\ x \in ChildState /\ child \in [Path -> ChildState] /\ nconn \in Nat
        /\ CountOK(x, nconn) /\ MakingOK(x, controllers) /\ UnbornOK(controllers, requests, phase)
        /\ controllers \in [Conn -> SUBSET Instance] /\ requests \in [Conn -> Seq(SyncRequest)]
        /\ phase \in [Instance -> Phase] /\ \A d \in Conn : Once(requests[d], controllers[d])
    BY DEF IInv, ChildOK, LineOK
  <1>2. /\ c \in x.conns /\ q # << >> /\ Head(q).op = "create"
        /\ requests' = [requests EXCEPT ![c] = Tail(@)]
        /\ controllers' = [controllers EXCEPT ![c] = @ \cup {i}]
        /\ UNCHANGED <<nconn, phase>>
    BY DEF BeginCreatePlugin, TakesRequest, webVars
  <1>3. child' = [child EXCEPT ![p] = y] BY <1>1 DEF BeginCreatePlugin
  <1>4. q \in Seq(SyncRequest) /\ Once(q, controllers[c]) BY <1>1
  <1>5. /\ Head(q) = q[1] /\ 1 \in DOMAIN q /\ Tail(q) \in Seq(SyncRequest)
        /\ \A k \in DOMAIN Tail(q) : k \in Nat /\ k + 1 \in DOMAIN q /\ Tail(q)[k] = q[k + 1]
    BY <1>2, <1>4
  <1>6. q[1] \in SyncRequest BY <1>4, <1>5
  <1>7. i \in Instance BY <1>5, <1>6 DEF SyncRequest
  <1>8. i \notin controllers[c] BY <1>2, <1>4, <1>5 DEF Once
  <1>9. /\ x.conns \in SUBSET Nat /\ x.stack \in Seq(Call) BY <1>1, ChildFields
  <1>10. /\ controllers' \in [Conn -> SUBSET Instance]
         /\ controllers'[c] = controllers[c] \cup {i}
         /\ \A d \in Conn : d # c => controllers'[d] = controllers[d]
    BY <1>1, <1>2, <1>7
  <1>11. /\ requests' \in [Conn -> Seq(SyncRequest)] /\ requests'[c] = Tail(q)
         /\ \A d \in Conn : d # c => requests'[d] = requests[d]
    BY <1>1, <1>2, <1>5
  <1>12. call \in Call /\ call.instance = i /\ call.conn = c /\ call.making
    BY <1>2, <1>7, <1>9 DEF Call
  <1> HIDE DEF call
  <1>13. /\ s \in Seq(Call)
         /\ \A k \in DOMAIN s : \/ k \in DOMAIN x.stack /\ s[k] = x.stack[k]
                                \/ k = Len(x.stack) + 1 /\ s[k] = call
    BY <1>9, <1>12
  <1> HIDE DEF x, s
  <1>14. /\ y \in ChildState /\ y.conns = x.conns /\ y.counter = x.counter /\ y.timer = x.timer
         /\ y.stack = s
    BY <1>1, <1>13 DEF ChildState
  <1> HIDE DEF y
  <1>15. CountOK(y, nconn) BY <1>1, <1>14 DEF CountOK
  <1>16. MakingOK(y, controllers')
    <2>1. ASSUME NEW k \in DOMAIN x.stack, x.stack[k].making
          PROVE  x.stack[k].conn # c \/ x.stack[k].instance # i
      BY <1>1, <1>8, <2>1 DEF MakingOK
    <2>2. \A d \in Conn : controllers[d] \subseteq controllers'[d] BY <1>10
    <2>3. ASSUME NEW k \in DOMAIN s, s[k].making
          PROVE  /\ s[k].conn \in Conn \cap x.conns
                 /\ s[k].instance \in controllers'[s[k].conn]
      BY <1>1, <1>2, <1>10, <1>12, <1>13, <2>2, <2>3 DEF MakingOK
    <2>4. ASSUME NEW k \in DOMAIN s, s[k].making, NEW j \in DOMAIN s, s[j].making, j # k
          PROVE  s[j].conn # s[k].conn \/ s[j].instance # s[k].instance
      <3>1. CASE k \in DOMAIN x.stack /\ s[k] = x.stack[k] /\ j \in DOMAIN x.stack /\ s[j] = x.stack[j]
        BY <1>1, <2>4, <3>1 DEF MakingOK
      <3>2. CASE k \in DOMAIN x.stack /\ s[k] = x.stack[k] /\ s[j] = call
        BY <1>12, <2>1, <2>4, <3>2
      <3>3. CASE j \in DOMAIN x.stack /\ s[j] = x.stack[j] /\ s[k] = call
        BY <1>12, <2>1, <2>4, <3>3
      <3> QED BY <1>13, <2>4, <3>1, <3>2, <3>3
    <2> QED BY <1>14, <2>3, <2>4 DEF MakingOK
  <1>17. ChildOK(y, controllers', nconn') BY <1>2, <1>14, <1>15, <1>16 DEF ChildOK
  <1> HIDE DEF q, i
  <1>18. Once(Tail(q), controllers'[c])
    <2> DEFINE r == Tail(q)
    <2> HIDE DEF r
    <2> SUFFICES ASSUME NEW k \in DOMAIN r, r[k].op = "create"
                 PROVE  /\ r[k].instance \notin controllers'[c]
                        /\ \A j \in DOMAIN r : r[j].op = "create" /\ j # k =>
                              r[j].instance # r[k].instance
      BY DEF Once, r
    <2>1. \A j \in DOMAIN r : j \in Nat /\ j # 0 /\ j + 1 \in DOMAIN q /\ r[j] = q[j + 1]
      BY <1>4, <1>5 DEF r
    <2>2. k + 1 # 1 /\ k + 1 \in DOMAIN q /\ r[k] = q[k + 1] BY <2>1
    <2>3. r[k].instance \notin controllers[c] BY <1>4, <2>2 DEF Once
    <2>4. r[k].instance # i BY <1>2, <1>4, <1>5, <2>2 DEF Once, i, q
    <2>5. ASSUME NEW j \in DOMAIN r, r[j].op = "create", j # k
          PROVE  r[j].instance # r[k].instance
      <3>1. j + 1 \in DOMAIN q /\ r[j] = q[j + 1] /\ j + 1 # k + 1 BY <2>1, <2>5
      <3> QED BY <1>4, <2>2, <2>5, <3>1 DEF Once
    <2> QED BY <1>10, <2>3, <2>4, <2>5
  <1>19. UnbornOK(controllers', requests', phase)
    <2> SUFFICES ASSUME NEW j \in Instance, NEW d \in Conn, phase[j] \in {"unborn", "asking"}
                 PROVE  /\ j \notin controllers'[d]
                        /\ \A k \in DOMAIN requests'[d] : requests'[d][k].instance # j
      BY DEF UnbornOK
    <2>1. j \notin controllers[d] /\ \A k \in DOMAIN requests[d] : requests[d][k].instance # j
      BY <1>1 DEF UnbornOK
    <2>2. CASE d # c BY <1>10, <1>11, <2>1, <2>2
    <2>3. CASE d = c
      <3>1. \A k \in DOMAIN q : q[k].instance # j BY <2>1, <2>3 DEF q
      <3>2. j # i BY <1>5, <3>1 DEF i
      <3> QED BY <1>5, <1>10, <1>11, <2>1, <2>3, <3>1, <3>2
    <2> QED BY <2>2, <2>3
  <1>20. \A d \in Conn : Once(requests'[d], controllers'[d]) BY <1>1, <1>10, <1>11, <1>18
  <1>21. LineOK(controllers', requests', phase')
    BY <1>1, <1>2, <1>10, <1>11, <1>19, <1>20 DEF LineOK
  <1>22. nconn' \in Nat /\ nconn <= nconn' BY <1>1, <1>2
  <1>23. \A d \in y.conns : d \in x.conns BY <1>14
  <1>24. \A d \in Conn : d \notin x.conns => controllers'[d] = controllers[d] BY <1>2, <1>10
  <1> QED BY <1>3, <1>17, <1>21, <1>22, <1>23, <1>24, ChildStep DEF x
LEMMA QueueLost ==
    ASSUME NEW req \in [Conn -> Seq(SyncRequest)], NEW c \in Conn
    PROVE  [req EXCEPT ![c] = << >>] \in [Conn -> Seq(SyncRequest)]
  <1>1. << >> \in Seq(SyncRequest) OBVIOUS
  <1> QED BY <1>1

(* NPP_New returns: the instance is there, or it is removed.                *)
LEMMA EndCreateStep ==
    ASSUME IInv, NEW p \in Path, EndCreatePlugin(p)
    PROVE  IInv'
  <1> DEFINE x == child[p]
             top == Top(p)
             i == top.instance
             c == top.conn
  <1>1. /\ x \in ChildState /\ child \in [Path -> ChildState] /\ MakingOK(x, controllers)
        /\ LineOK(controllers, requests, phase) /\ requests \in [Conn -> Seq(SyncRequest)]
        /\ controllers \in [Conn -> SUBSET Instance]
    BY DEF IInv, ChildOK, LineOK
  <1>2. /\ x.stack # << >> /\ top = x.stack[Len(x.stack)] /\ top.making
        /\ UNCHANGED <<nconn, phase>>
    BY DEF EndCreatePlugin, Top
  <1>3. x.stack \in Seq(Call) BY <1>1, ChildFields
  <1>4. /\ Front(x.stack) \in Seq(Call) /\ Len(x.stack) \in DOMAIN x.stack
        /\ \A k \in DOMAIN Front(x.stack) :
              /\ k \in DOMAIN x.stack /\ k # Len(x.stack)
              /\ Front(x.stack)[k] = x.stack[k]
    BY <1>2, <1>3, OneCallLess
  <1>5. c \in Conn \cap x.conns /\ i \in controllers[c] BY <1>1, <1>2, <1>4 DEF MakingOK
  <1>6. CASE child' = [child EXCEPT ![p].stack = Front(@)] /\ UNCHANGED <<controllers, requests>>
    <2> DEFINE y == [x EXCEPT !.stack = Front(@)]
    <2>1. child' = [child EXCEPT ![p] = y] BY <1>1, <1>6
    <2> HIDE DEF x
    <2>2. /\ y \in ChildState /\ y.conns = x.conns /\ y.counter = x.counter /\ y.timer = x.timer
          /\ y.stack = Front(x.stack)
      BY <1>1, <1>4 DEF ChildState
    <2> HIDE DEF y
    <2>3. \A k \in DOMAIN y.stack : k \in DOMAIN x.stack /\ y.stack[k] = x.stack[k]
      BY <1>4, <2>2
    <2>4. LineOK(controllers, requests', phase) /\ UNCHANGED <<controllers, nconn, phase>>
      BY <1>1, <1>2, <1>6
    <2> HIDE DEF top
    <2> QED BY <2>1, <2>2, <2>3, <2>4, ChildMoves DEF x
  <1>7. CASE /\ child' = [[child EXCEPT ![p].stack = Front(@)] EXCEPT ![p] =
                            [AfterRemoval(p, c, {i}) EXCEPT !.stack = Front(@)]]
             /\ RemoveControllers(c, {i}) /\ LoseIfLast(c, {i}, requests)
    <2> DEFINE a == AfterRemoval(p, c, {i})
               y == [a EXCEPT !.stack = Front(@)]
    <2>1. child' = [child EXCEPT ![p] = y] BY <1>1, <1>7
    <2>2. a \in ChildState /\ a.stack = x.stack BY <1>5, AfterRemovalFields
    <2> HIDE DEF a
    <2>3. /\ y \in ChildState /\ y.conns = a.conns /\ y.counter = a.counter /\ y.timer = a.timer
          /\ y.stack = Front(x.stack)
      BY <1>4, <2>2 DEF ChildState
    <2> HIDE DEF y
    <2>4. ASSUME NEW k \in DOMAIN y.stack
          PROVE  /\ k \in DOMAIN x.stack /\ y.stack[k] = x.stack[k]
                 /\ y.stack[k].making /\ y.stack[k].conn = c => y.stack[k].instance \notin {i}
      <3>1. k \in DOMAIN x.stack /\ y.stack[k] = x.stack[k] /\ k # Len(x.stack) BY <1>4, <2>3
      <3>2. x.stack[k].making => x.stack[k].conn # c \/ x.stack[k].instance # i
        BY <1>1, <1>2, <1>4, <3>1 DEF MakingOK
      <3> QED BY <3>1, <3>2
    <2>5. /\ requests' \in [Conn -> Seq(SyncRequest)]
          /\ \A d \in Conn : requests'[d] \in {requests[d], << >>}
      BY <1>1, <1>5, <1>7, QueueLost DEF LoseIfLast
    <2>6. {i} \in SUBSET Instance BY <1>1, <1>5
    <2> HIDE DEF i, c, top
    <2>7. c \in Conn /\ c \in child[p].conns BY <1>5
    <2>8. RemoveControllers(c, {i}) /\ UNCHANGED <<nconn, phase>> BY <1>2, <1>7
    <2> QED BY <2>1, <2>3, <2>4, <2>5, <2>6, <2>7, <2>8, RemovalStep DEF a
  <1> QED BY <1>6, <1>7 DEF EndCreatePlugin

LEMMA DestroyStep ==
    ASSUME IInv, NEW p \in Path, NEW c \in Conn, DestroyPlugin(p, c)
    PROVE  IInv'
  <1> DEFINE x == child[p]
             i == Head(requests[c]).instance
             req == [requests EXCEPT ![c] = Tail(@)]
  <1>1. /\ x \in ChildState /\ child \in [Path -> ChildState] /\ MakingOK(x, controllers)
        /\ LineOK(controllers, requests, phase) /\ requests \in [Conn -> Seq(SyncRequest)]
        /\ controllers \in [Conn -> SUBSET Instance]
    BY DEF IInv, ChildOK, LineOK
  <1>2. c \in x.conns /\ requests[c] # << >> /\ UNCHANGED <<nconn, phase>>
    BY DEF DestroyPlugin, TakesRequest
  <1>3. requests[c] \in Seq(SyncRequest) BY <1>1
  <1>4. Head(requests[c]) \in SyncRequest /\ Tail(requests[c]) \in Seq(SyncRequest)
    BY <1>2, <1>3
  <1>5. i \in Instance BY <1>4 DEF SyncRequest
  <1>6. /\ req \in [Conn -> Seq(SyncRequest)] /\ req[c] = Tail(requests[c])
        /\ \A d \in Conn : d # c => req[d] = requests[d]
    BY <1>1, <1>4
  <1> HIDE DEF i, req
  <1>7. CASE OnStack(p, i)
    <2> DEFINE y == [x EXCEPT !.destroyTimers = @ \cup {i}]
    <2>1. child' = [child EXCEPT ![p] = y] BY <1>1, <1>7 DEF DestroyPlugin, i
    <2>2. requests' = req /\ UNCHANGED controllers BY <1>7 DEF DestroyPlugin, i, req
    <2>3. LineOK(controllers, req, phase) BY <1>1, <1>2, <1>6, LinesShrink
    <2> HIDE DEF x
    <2>4. /\ y \in ChildState /\ y.conns = x.conns /\ y.counter = x.counter /\ y.timer = x.timer
          /\ y.stack = x.stack
      BY <1>1, <1>5 DEF ChildState
    <2> HIDE DEF y
    <2> QED BY <1>2, <2>1, <2>2, <2>3, <2>4, ChildMoves DEF x
  <1>8. CASE ~OnStack(p, i)
    <2> DEFINE y == AfterRemoval(p, c, {i})
    <2>1. /\ child' = [child EXCEPT ![p] = y] /\ RemoveControllers(c, {i})
          /\ LoseIfLast(c, {i}, req)
      BY <1>8 DEF DestroyPlugin, i, req
    <2>2. y \in ChildState /\ y.stack = x.stack BY <1>2, AfterRemovalFields
    <2> HIDE DEF y
    <2>3. \A k \in DOMAIN y.stack : y.stack[k].instance \notin {i}
      BY <1>8, <2>2 DEF OnStack
    <2>4. requests' \in {req, [req EXCEPT ![c] = << >>]} BY <2>1 DEF LoseIfLast
    <2>5. /\ requests' \in [Conn -> Seq(SyncRequest)]
          /\ \A d \in Conn : \/ requests'[d] \in {requests[d], << >>}
                             \/ requests[d] # << >> /\ requests'[d] = Tail(requests[d])
      <3>1. [req EXCEPT ![c] = << >>] \in [Conn -> Seq(SyncRequest)] BY <1>6, QueueLost
      <3>2. \A d \in Conn : req[d] = requests[d] \/ (requests[d] # << >> /\ req[d] = Tail(requests[d]))
        BY <1>2, <1>6
      <3>3. CASE requests' = req BY <1>6, <3>2, <3>3
      <3>4. CASE requests' = [req EXCEPT ![c] = << >>]
        <4>1. \A d \in Conn : requests'[d] = req[d] \/ requests'[d] = << >> BY <1>6, <3>4
        <4> QED BY <3>1, <3>2, <3>4, <4>1
      <3> QED BY <2>4, <3>3, <3>4
    <2>6. {i} \in SUBSET Instance BY <1>5
    <2>7. \A k \in DOMAIN y.stack : k \in DOMAIN x.stack /\ y.stack[k] = x.stack[k] BY <2>2
    <2> QED BY <1>2, <2>1, <2>2, <2>3, <2>5, <2>6, <2>7, RemovalStep DEF y
  <1> QED BY <1>7, <1>8

LEMMA DestroyTimerStep ==
    ASSUME IInv, NEW p \in Path, NEW c \in Conn, NEW i \in Instance, DestroyTimerFires(p, c, i)
    PROVE  IInv'
  <1> DEFINE y == AfterRemoval(p, c, {i})
  <1>1. requests \in [Conn -> Seq(SyncRequest)] BY DEF IInv, LineOK
  <1>2. /\ child' = [child EXCEPT ![p] = y] /\ RemoveControllers(c, {i})
        /\ LoseIfLast(c, {i}, requests) /\ c \in child[p].conns /\ child[p].stack = << >>
        /\ UNCHANGED <<nconn, phase>>
    BY DEF DestroyTimerFires, webVars
  <1>3. y \in ChildState /\ y.stack = << >> BY <1>2, AfterRemovalFields
  <1> HIDE DEF y
  <1>4. requests' \in {requests, [requests EXCEPT ![c] = << >>]} BY <1>2 DEF LoseIfLast
  <1>5. /\ requests' \in [Conn -> Seq(SyncRequest)]
        /\ \A d \in Conn : requests'[d] \in {requests[d], << >>}
    BY <1>1, <1>4, QueueLost
  <1>6. {i} \in SUBSET Instance OBVIOUS
  <1>7. DOMAIN y.stack = {} BY <1>3
  <1> QED BY <1>2, <1>3, <1>5, <1>6, <1>7, RemovalStep DEF y

LEMMA ConnectionClosedStep ==
    ASSUME IInv, NEW p \in Path, NEW c \in Conn, WebProcessConnectionDidClose(p, c)
    PROVE  IInv'
  <1>1. /\ requests \in [Conn -> Seq(SyncRequest)] /\ controllers \in [Conn -> SUBSET Instance]
        /\ nconn \in Nat /\ LineOK(controllers, requests, phase)
    BY DEF IInv, LineOK
  <1>2. /\ RemoveControllers(c, controllers[c]) /\ c \in child[p].conns
        /\ requests' = [requests EXCEPT ![c] = << >>] /\ child[p].stack = << >>
        /\ UNCHANGED <<nconn, phase>>
    BY DEF WebProcessConnectionDidClose, webVars
  <1>3. /\ requests' \in [Conn -> Seq(SyncRequest)]
        /\ \A d \in Conn : requests'[d] \in {requests[d], << >>}
    BY <1>1, <1>2, QueueLost
  <1>4. CASE controllers[c] = {}
    <2>1. child' = child /\ controllers' = controllers
      BY <1>1, <1>2, <1>4 DEF WebProcessConnectionDidClose, RemoveControllers
    <2>2. LineOK(controllers', requests', phase') BY <1>1, <1>2, <1>3, <2>1, LinesShrink
    <2> QED BY <1>1, <1>2, <2>1, <2>2, LineStep
  <1>5. CASE controllers[c] # {}
    <2> DEFINE gone == controllers[c]
               y == AfterRemoval(p, c, gone)
    <2>1. child' = [child EXCEPT ![p] = y] BY <1>5 DEF WebProcessConnectionDidClose
    <2>2. y \in ChildState /\ y.stack = << >> BY <1>2, AfterRemovalFields
    <2> HIDE DEF y
    <2>3. DOMAIN y.stack = {} BY <2>2
    <2>4. gone \in SUBSET Instance /\ RemoveControllers(c, gone) BY <1>1, <1>2
    <2> HIDE DEF gone
    <2> QED BY <1>2, <1>3, <2>1, <2>2, <2>3, <2>4, RemovalStep DEF y
  <1> QED BY <1>4, <1>5

-----------------------------------------------------------------------------

LEMMA NextAsking == AskingOK /\ [Next]_vars => AskingOK'
  <1> SUFFICES ASSUME AskingOK, [Next]_vars PROVE AskingOK' OBVIOUS
  <1>0. toUI \in [Web -> Seq(Asking)] /\ OwnerOf \in [Instance -> Web]
    BY PluginAssumption DEF AskingOK
  <1>1. ASSUME NEW i \in Instance, NEW op \in {"getConnection", "timedOut"},
               toUI' = [toUI EXCEPT ![OwnerOf[i]] = Append(@, [op |-> op, instance |-> i])]
        PROVE  AskingOK'
    <2> DEFINE m == [op |-> op, instance |-> i]
    <2>1. m \in Asking BY DEF Asking
    <2> HIDE DEF m
    <2>2. \A w \in Web : Append(toUI[w], m) \in Seq(Asking) BY <1>0, <2>1
    <2>3. toUI' = [toUI EXCEPT ![OwnerOf[i]] = Append(@, m)] BY <1>1 DEF m
    <2> QED BY <1>0, <2>2, <2>3 DEF AskingOK
  <1>2. ASSUME NEW w \in Web, toUI[w] # << >>, toUI' = [toUI EXCEPT ![w] = Tail(@)]
        PROVE  AskingOK'
    <2>1. Tail(toUI[w]) \in Seq(Asking) BY <1>0, <1>2
    <2> QED BY <1>0, <1>2, <2>1 DEF AskingOK
  <1>3. ASSUME NEW w, toUI' \in {toUI, [toUI EXCEPT ![w] = << >>]} PROVE AskingOK'
    <2>1. << >> \in Seq(Asking) OBVIOUS
    <2> QED BY <1>0, <1>3, <2>1 DEF AskingOK
  <1>4. ASSUME UNCHANGED toUI PROVE AskingOK' BY <1>4 DEF AskingOK
  <1>5. CASE Environment
    <2>1. ASSUME NEW i \in Instance, Initialize(i) PROVE AskingOK'
      BY <1>1, <1>4, <2>1 DEF Initialize
    <2>2. ASSUME NEW w \in Web, WebProcessDies(w) PROVE AskingOK'
      <3>1. toUI' \in {toUI, [toUI EXCEPT ![w] = << >>]} BY <2>2, Zenon DEF WebProcessDies
      <3> QED BY <1>3, <3>1
    <2>3. ASSUME NEW i \in Instance, Destroy(i) PROVE AskingOK'
      BY <1>4, <2>3 DEF Destroy, uiVars
    <2>4. ASSUME NEW p \in Path, PluginProcessDies(p) \/ TerminationTimerFires(p) PROVE AskingOK'
      BY <1>4, <2>4 DEF PluginProcessDies, TerminationTimerFires, uiVars
    <2>5. ASSUME NEW p \in Path, NEW i \in Instance, EnterPlugin(p, i) PROVE AskingOK'
      BY <1>4, <2>5 DEF EnterPlugin, uiVars
    <2>6. ASSUME NEW s \in SiteCallback, GetSiteData(s) PROVE AskingOK'
      BY <1>4, <2>6 DEF GetSiteData
    <2> QED BY <1>5, <2>1, <2>2, <2>3, <2>4, <2>5, <2>6 DEF Environment
  <1>6. CASE UIProcess
    <2>1. ASSUME NEW w \in Web, ReceiveGetConnection(w) \/ ReceiveTimedOut(w) PROVE AskingOK'
      BY <1>2, <2>1 DEF ReceiveGetConnection, ReceiveTimedOut
    <2>2. ASSUME NEW p \in Path,
                 \/ LaunchProcess(p) \/ DidFinishLaunching(p) \/ DidGetSiteData(p)
                 \/ DidCreateWebProcessConnection(p) \/ DidClose(p)
          PROVE  AskingOK'
      BY <1>4, <2>2 DEF LaunchProcess, DidFinishLaunching, DidCreateWebProcessConnection,
                        DidGetSiteData, DidClose, uiVars
    <2> QED BY <1>6, <2>1, <2>2 DEF UIProcess
  <1>7. ASSUME NEW p \in Path, PluginProcessStep(p) PROVE AskingOK'
    <2>1. CASE ReceiveInitialize(p) \/ CreateConnection(p) \/ HandleSiteData(p)
      BY <1>4, <2>1 DEF ReceiveInitialize, CreateConnection, HandleSiteData, uiVars
    <2>2. CASE EndCreatePlugin(p) \/ LeavePlugin(p)
      BY <1>4, <2>2 DEF EndCreatePlugin, LeavePlugin, uiVars
    <2>3. ASSUME NEW c \in Conn, BeginCreatePlugin(p, c) \/ DestroyPlugin(p, c) PROVE AskingOK'
      BY <1>4, <2>3 DEF BeginCreatePlugin, DestroyPlugin, uiVars
    <2>4. ASSUME NEW c \in Conn, WebProcessConnectionDidClose(p, c) PROVE AskingOK'
      BY <1>4, <2>4 DEF WebProcessConnectionDidClose, uiVars
    <2>5. ASSUME NEW c \in Conn, NEW i \in Instance, DestroyTimerFires(p, c, i) PROVE AskingOK'
      BY <1>4, <2>5 DEF DestroyTimerFires, uiVars
    <2> QED BY <1>7, <2>1, <2>2, <2>3, <2>4, <2>5 DEF PluginProcessStep
  <1>8. ASSUME NEW w \in Web, WebProcess(w) PROVE AskingOK'
    <2>1. CASE ReceiveFromUI(w) BY <1>4, <2>1 DEF ReceiveFromUI
    <2>2. ASSUME NEW i \in Instance, CallTimesOut(i) PROVE AskingOK'
      BY <1>1, <2>2 DEF CallTimesOut
    <2>3. ASSUME NEW i \in Instance,
                 \/ GotConnection(i) \/ GotNothing(i) \/ GotGarbage(i)
                 \/ CreateReturns(i) \/ DestroyReturns(i)
          PROVE  AskingOK'
      BY <1>4, <2>3 DEF GotConnection, GotNothing, GotGarbage, Enter, CreateReturns,
                        DestroyReturns, uiVars
    <2> QED BY <1>8, <2>1, <2>2, <2>3 DEF WebProcess
  <1>9. CASE (\E c \in Conn : HangUp(c)) \/ UNCHANGED vars
    BY <1>4, <1>9 DEF HangUp, uiVars, vars
  <1> QED BY <1>5, <1>6, <1>7, <1>8, <1>9 DEF Next

LEMMA InitIInv == Init => IInv
  <1> SUFFICES ASSUME Init PROVE IInv OBVIOUS
  <1>1. NoChild = [NoChild EXCEPT !.state = "none"] BY DEF NoChild
  <1>2. nconn \in Nat /\ \A p \in Path : child[p] = NoChild BY DEF Init
  <1>3. ChildOK(NoChild, controllers, nconn) /\ NoChild.conns = {} BY <1>1, <1>2, NoChildOK
  <1>4. child \in [Path -> ChildState] BY <1>3 DEF Init, ChildOK
  <1>5. Disjoint(child) BY <1>2, <1>3 DEF Disjoint
  <1>6. << >> \in Seq(SyncRequest) OBVIOUS
  <1>7. /\ controllers \in [Conn -> SUBSET Instance] /\ requests \in [Conn -> Seq(SyncRequest)]
        /\ phase \in [Instance -> Phase]
        /\ \A c \in Conn : controllers[c] = {} /\ requests[c] = << >>
    BY <1>6 DEF Init, Phase
  <1>8. LineOK(controllers, requests, phase) BY <1>7 DEF LineOK, UnbornOK, Once
  <1> QED BY <1>2, <1>3, <1>4, <1>5, <1>8 DEF IInv

LEMMA NextIInv == AskingOK /\ IInv /\ [Next]_vars => IInv'
  <1> SUFFICES ASSUME AskingOK, IInv, [Next]_vars PROVE IInv' OBVIOUS
  <1>0. PathOf \in [Instance -> Path] /\ OwnerOf \in [Instance -> Web]
    BY PluginAssumption DEF Path
  <1>1. CASE Environment
    <2>1. ASSUME NEW p \in Path, PluginProcessDies(p) \/ TerminationTimerFires(p) PROVE IInv'
      BY <2>1, GoneStep DEF PluginProcessDies, TerminationTimerFires, webVars
    <2>2. ASSUME NEW s \in SiteCallback, GetSiteData(s) PROVE IInv'
      BY <2>2, NothingHappens DEF GetSiteData, lineVars, webVars
    <2> QED BY <1>1, <2>1, <2>2, InstanceSteps, WebProcessSteps, CallSteps DEF Environment
  <1>2. CASE UIProcess
    <2>1. ASSUME NEW w \in Web, ReceiveGetConnection(w) PROVE IInv'
      BY <2>1, NothingHappens DEF ReceiveGetConnection, lineVars, webVars
    <2>2. ASSUME NEW w \in Web, ReceiveTimedOut(w) PROVE IInv'
      <3> DEFINE p == PathOf[Head(toUI[w]).instance]
      <3>1. UNCHANGED <<nconn, phase>> BY <2>2 DEF ReceiveTimedOut, webVars
      <3>2. CASE child[p].state = "running"
        <4>1. Gone(p) /\ toUI[w] # << >> BY <2>2, <3>2 DEF ReceiveTimedOut
        <4>2. toUI[w] \in Seq(Asking) BY DEF AskingOK
        <4>3. Head(toUI[w]) \in Asking BY <4>1, <4>2
        <4>4. p \in Path BY <1>0, <4>3 DEF Asking
        <4> QED BY <3>1, <4>1, <4>4, GoneStep
      <3>3. CASE child[p].state # "running"
        BY <2>2, <3>1, <3>3, NothingHappens DEF ReceiveTimedOut
      <3> QED BY <3>2, <3>3
    <2>3. ASSUME NEW p \in Path, LaunchProcess(p) PROVE IInv'
      BY <2>3, CallSteps
    <2>4. ASSUME NEW p \in Path,
                 \/ DidFinishLaunching(p) \/ DidCreateWebProcessConnection(p) \/ DidGetSiteData(p)
          PROVE  IInv'
      BY <2>4, NothingHappens
         DEF DidFinishLaunching, DidCreateWebProcessConnection, DidGetSiteData, lineVars, webVars
    <2> QED BY <1>2, <2>1, <2>2, <2>3, <2>4, DidCloseStep DEF UIProcess
  <1>3. ASSUME NEW p \in Path, PluginProcessStep(p) PROVE IInv'
    <2>1. CASE ReceiveInitialize(p) \/ HandleSiteData(p) \/ LeavePlugin(p) BY <2>1, CallSteps
    <2>2. CASE CreateConnection(p) BY <2>2, CreateConnectionStep
    <2>3. CASE EndCreatePlugin(p) BY <2>3, EndCreateStep
    <2>4. ASSUME NEW c \in Conn, BeginCreatePlugin(p, c) PROVE IInv' BY <2>4, BeginCreateStep
    <2>5. ASSUME NEW c \in Conn, DestroyPlugin(p, c) PROVE IInv' BY <2>5, DestroyStep
    <2>6. ASSUME NEW c \in Conn, WebProcessConnectionDidClose(p, c) PROVE IInv'
      BY <2>6, ConnectionClosedStep
    <2>7. ASSUME NEW c \in Conn, NEW i \in Instance, DestroyTimerFires(p, c, i) PROVE IInv'
      BY <2>7, DestroyTimerStep
    <2> QED BY <1>3, <2>1, <2>2, <2>3, <2>4, <2>5, <2>6, <2>7 DEF PluginProcessStep
  <1>4. ASSUME NEW w \in Web, WebProcess(w) PROVE IInv'
    BY <1>4, InstanceSteps, WebProcessSteps DEF WebProcess
  <1>5. ASSUME NEW c \in Conn, HangUp(c) PROVE IInv'
    BY <1>5, NothingHappens DEF HangUp, plugVars, webVars
  <1>6. CASE UNCHANGED vars BY <1>6, NothingHappens DEF vars
  <1> QED BY <1>1, <1>2, <1>3, <1>4, <1>5, <1>6 DEF Next

(* PluginProcess::shouldTerminate's assertion: however connections are made,*)
(* lost and removed while plug-in code is on the stack and site data is     *)
(* asked for, the timer runs only while m_webProcessConnections is empty.   *)
THEOREM UnusedTerminate == Spec => []TerminatesOnlyUnused
  <1>1. IInv => TerminatesOnlyUnused BY DEF IInv, ChildOK, CountOK, TerminatesOnlyUnused
  <1>2. Init => AskingOK
    <2>1. << >> \in Seq(Asking) OBVIOUS
    <2> QED BY <2>1 DEF Init, AskingOK
  <1> QED BY <1>1, <1>2, NextAsking, InitIInv, NextIInv, PTL DEF Spec

-----------------------------------------------------------------------------
(* Induction and recursion over the places of a queue.                      *)

LEMMA Induct ==
    ASSUME NEW n \in Nat, NEW T, 0 \in T, \A k \in 1..n : k - 1 \in T => k \in T
    PROVE  0..n \subseteq T
  <1> DEFINE F == (0..n) \ T
  <1> SUFFICES ASSUME F # {} PROVE FALSE OBVIOUS
  <1>1. PICK x \in F : \A y \in F : ~(<<y, x>> \in OpToRel(<, Nat))
    <2>1. F \subseteq Nat OBVIOUS
    <2> HIDE DEF F
    <2> QED BY <2>1, NatLessThanWellFounded, WFMin
  <1>2. x \in 1..n /\ x - 1 \in 0..n OBVIOUS
  <1>3. x - 1 \notin T BY <1>2
  <1>4. <<x - 1, x>> \in OpToRel(<, Nat) BY <1>2 DEF OpToRel
  <1> QED BY <1>1, <1>2, <1>3, <1>4

(* What the steps of F make of b, one after the other.                      *)
Iterates(g, n, b, F) ==
    g[0] = b /\ \A k \in 1..n : g[k] = F[<<k, g[k - 1]>>]

LEMMA Recursion ==
    ASSUME NEW S, NEW b \in S, NEW n \in Nat, NEW F \in [(1..n) \X S -> S]
    PROVE  \E g \in [0..n -> S] : Iterates(g, n, b, F)
  <1> DEFINE T == {m \in 0..n : \E g \in [0..m -> S] : Iterates(g, m, b, F)}
  <1>1. 0 \in T
    <2>1. [k \in 0..0 |-> b] \in [0..0 -> S] OBVIOUS
    <2>2. Iterates([k \in 0..0 |-> b], 0, b, F) BY DEF Iterates
    <2> QED BY <2>1, <2>2
  <1>2. ASSUME NEW k \in 1..n, k - 1 \in T PROVE k \in T
    <2>0. k \in Nat /\ k - 1 \in 0..n /\ k \in 0..n OBVIOUS
    <2>1. PICK g \in [0..(k - 1) -> S] : Iterates(g, k - 1, b, F) BY <1>2
    <2> DEFINE h == [j \in 0..k |-> IF j = k THEN F[<<k, g[k - 1]>>] ELSE g[j]]
    <2>2. F[<<k, g[k - 1]>>] \in S BY <2>0
    <2>3. h \in [0..k -> S] BY <2>0, <2>2
    <2>4. /\ h[0] = g[0] /\ h[k] = F[<<k, g[k - 1]>>]
          /\ \A j \in 0..(k - 1) : h[j] = g[j]
      BY <2>0
    <2> HIDE DEF h
    <2>5. \A j \in 1..(k - 1) : j \in 1..k /\ j \in 0..(k - 1) /\ j - 1 \in 0..(k - 1) BY <2>0
    <2>6. ASSUME NEW j \in 1..k PROVE h[j] = F[<<j, h[j - 1]>>]
      <3>1. CASE j = k
        <4>1. k - 1 \in 0..(k - 1) BY <2>0
        <4> QED BY <2>4, <3>1, <4>1
      <3>2. CASE j # k
        <4>1. j \in 1..(k - 1) BY <2>0, <3>2
        <4> QED BY <2>1, <2>4, <2>5, <4>1 DEF Iterates
      <3> QED BY <3>1, <3>2
    <2>7. Iterates(h, k, b, F) BY <2>1, <2>4, <2>6 DEF Iterates
    <2> QED BY <2>0, <2>3, <2>7
  <1> HIDE DEF T
  <1>3. 0..n \subseteq T BY <1>1, <1>2, Induct
  <1>4. n \in T BY <1>3
  <1> QED BY <1>4 DEF T

-----------------------------------------------------------------------------
(* Queues.                                                                  *)

LEMMA TakenOut ==
    ASSUME NEW T, NEW s \in Seq(T), NEW k \in DOMAIN s
    PROVE  /\ RemoveAt(s, k) \in Seq(T) /\ Len(RemoveAt(s, k)) = Len(s) - 1
           /\ \A j \in DOMAIN RemoveAt(s, k) :
                 RemoveAt(s, k)[j] = IF j < k THEN s[j] ELSE s[j + 1]
  <1> DEFINE a == SubSeq(s, 1, k - 1)
             b == SubSeq(s, k + 1, Len(s))
  <1>1. /\ a \in Seq(T) /\ b \in Seq(T) /\ Len(a) = k - 1 /\ Len(b) = Len(s) - k
        /\ \A j \in 1..(k - 1) : a[j] = s[j]
        /\ \A j \in 1..(Len(s) - k) : b[j] = s[k + j]
    OBVIOUS
  <1>2. RemoveAt(s, k) = a \o b BY DEF RemoveAt
  <1> HIDE DEF a, b
  <1>3. k \in 1..Len(s) /\ Len(s) \in Nat OBVIOUS
  <1>4. a \o b \in Seq(T) /\ Len(a \o b) = Len(s) - 1 BY <1>1, <1>3
  <1>5. ASSUME NEW j \in DOMAIN (a \o b)
        PROVE  (a \o b)[j] = IF j < k THEN s[j] ELSE s[j + 1]
    <2>1. CASE j < k BY <1>1, <1>3, <2>1
    <2>2. CASE ~(j < k)
      <3>1. j - (k - 1) \in 1..(Len(s) - k) /\ k + (j - (k - 1)) = j + 1 BY <1>1, <1>3, <1>4, <2>2
      <3>2. (a \o b)[j] = b[j - (k - 1)] BY <1>1, <1>3, <1>4, <2>2
      <3> QED BY <1>1, <2>2, <3>1, <3>2
    <2> QED BY <2>1, <2>2
  <1> QED BY <1>2, <1>4, <1>5

LEMMA CountTakenOut ==
    ASSUME NEW T, NEW s \in Seq(T), NEW k \in DOMAIN s, NEW M
    PROVE  Count(RemoveAt(s, k), M) = Count(s, M) - (IF s[k] \in M THEN 1 ELSE 0)
  <1> DEFINE a == SubSeq(s, 1, k - 1)
             b == SubSeq(s, k, Len(s))
             c == SubSeq(s, k + 1, Len(s))
  <1>0. k \in 1..Len(s) /\ Len(s) \in Nat OBVIOUS
  <1>1. a \in Seq(T) /\ b \in Seq(T) /\ c \in Seq(T) OBVIOUS
  <1>2. RemoveAt(s, k) = a \o c BY DEF RemoveAt
  <1>3. s = a \o b
    <2>1. 1 \in 1..(Len(s) + 1) /\ k - 1 \in (1 - 1)..Len(s) /\ Len(s) \in (k - 1)..Len(s)
          /\ (k - 1) + 1 = k
      BY <1>0
    <2>2. SubSeq(s, 1, k - 1) \o SubSeq(s, (k - 1) + 1, Len(s)) = SubSeq(s, 1, Len(s))
      BY <2>1, ConcatAdjacentSubSeq
    <2>3. SubSeq(s, 1, Len(s)) = s BY SubSeqFull
    <2> QED BY <2>1, <2>2, <2>3
  <1>4. b # << >> /\ Head(b) = s[k] /\ Tail(b) = c
    <2>1. k \in 1..Len(s) /\ Len(s) \in k..Len(s) BY <1>0
    <2>2. Head(b) = s[k] /\ Tail(b) = c BY <2>1, HeadTailOfSubSeq
    <2>3. Len(b) = Len(s) - k + 1 BY <1>0
    <2>4. b # << >>
      <3>1. Len(b) # 0 /\ Len(<< >>) = 0 BY <1>0, <2>3
      <3> HIDE DEF b
      <3> QED BY <3>1, Zenon
    <2> QED BY <2>2, <2>4
  <1> HIDE DEF a, b, c
  <1>5. Count(a, M) \in Nat /\ Count(b, M) \in Nat /\ Count(c, M) \in Nat BY <1>1, CountType
  <1>6. Count(a \o b, M) = Count(a, M) + Count(b, M) BY <1>1, CountConcat
  <1>7. Count(a \o c, M) = Count(a, M) + Count(c, M) BY <1>1, CountConcat
  <1>8. Count(Tail(b), M) = Count(b, M) - (IF Head(b) \in M THEN 1 ELSE 0)
    BY <1>1, <1>4, CountTail
  <1>9. Count(s, M) = Count(a, M) + Count(b, M) BY <1>3, <1>6, Zenon
  <1>10. Count(RemoveAt(s, k), M) = Count(a, M) + Count(c, M) BY <1>2, <1>7, Zenon
  <1>11. Count(c, M) = Count(b, M) - (IF s[k] \in M THEN 1 ELSE 0) BY <1>4, <1>8, Zenon
  <1> QED BY <1>5, <1>9, <1>10, <1>11

(* Nothing of a queue counts.                                               *)
LEMMA CountNone ==
    ASSUME NEW T, NEW s \in Seq(T), NEW M, \A k \in DOMAIN s : s[k] \notin M
    PROVE  Count(s, M) = 0
  BY CountType

LEMMA CountAll ==
    ASSUME NEW T, NEW s \in Seq(T), NEW M, \A k \in DOMAIN s : s[k] \in M
    PROVE  Count(s, M) = Len(s)
  <1>1. Len(s) \in Nat /\ Places(s, M) = 1..Len(s) BY DEF Places
  <1>2. Cardinality(1..Len(s)) = Len(s) BY <1>1, FS_Interval
  <1> QED BY <1>1, <1>2 DEF Count

(* What occurs once has one place.                                          *)
LEMMA CountOne ==
    ASSUME NEW T, NEW s \in Seq(T), NEW M, Count(s, M) <= 1,
           NEW j \in DOMAIN s, s[j] \in M, NEW k \in DOMAIN s, s[k] \in M
    PROVE  j = k
  <1>1. IsFiniteSet(Places(s, M)) /\ Count(s, M) \in Nat BY CountType
  <1>2. j \in Places(s, M) /\ k \in Places(s, M) BY DEF Places
  <1>3. IsFiniteSet(Places(s, M) \ {j})
        /\ Cardinality(Places(s, M) \ {j}) = Cardinality(Places(s, M)) - 1
    BY <1>1, <1>2, FS_RemoveElement
  <1>4. Cardinality(Places(s, M) \ {j}) \in Nat BY <1>3, FS_CardinalityType
  <1>5. Cardinality(Places(s, M) \ {j}) = 0 BY <1>1, <1>3, <1>4 DEF Count
  <1>6. Places(s, M) \ {j} = {} BY <1>3, <1>5, FS_EmptySet
  <1> QED BY <1>2, <1>6

-----------------------------------------------------------------------------
(* The messages between the processes, and the state of the UI process.     *)

SiteMessage == [op : {"site"}, marked : {FALSE}, callback : SiteCallback]

PluginMessage ==
    [op : {"initialize"}, marked : {FALSE}] \cup [op : {"connect"}, marked : BOOLEAN]
    \cup SiteMessage

ChildMessage ==
    [op : {"connection"}, conn : Nat \ {0}] \cup [op : {"site"}, callback : SiteCallback]

WebMessage ==
    [op : {"reply"}, instance : Instance, conn : {Failed} \cup (Nat \ {0})]
    \cup [op : {"crashed"}, path : Path]

SiteSet == {S \in SUBSET SiteCallback : IsFiniteSet(S)}

ProxyState ==
    [state : {"none", "launching", "running"}, replies : Seq(Instance), requests : Nat,
     sites : SiteSet, getRequests : Seq(SiteCallback), clearRequests : Seq(SiteCallback)]

SiteState == [state : {"idle", "running", "performed"}, left : Seq(Path)]

UIPart ==
    [site : [SiteCallback -> SiteState], proxy : [Path -> ProxyState],
     toPlugin : [Path -> Seq(PluginMessage)]]

LEMMA ProxyFields ==
    ASSUME NEW x \in ProxyState
    PROVE  /\ x.state \in {"none", "launching", "running"} /\ x.replies \in Seq(Instance)
           /\ x.requests \in Nat /\ x.sites \in SiteSet
           /\ x.getRequests \in Seq(SiteCallback) /\ x.clearRequests \in Seq(SiteCallback)
  BY DEF ProxyState

LEMMA SiteMessages ==
    /\ SiteMessage \subseteq PluginMessage
    /\ \A s \in SiteCallback : SiteDataMessage(s) \in SiteMessage
    /\ \A b \in BOOLEAN : CreateWebProcessConnection(b) \in PluginMessage
    /\ InitializePluginProcess \in PluginMessage
  BY DEF SiteMessage, PluginMessage, SiteDataMessage, CreateWebProcessConnection,
         InitializePluginProcess

LEMMA PathsAndWebs ==
    PathOf \in [Instance -> Path] /\ OwnerOf \in [Instance -> Web] /\ IsFiniteSet(Instance)
  BY PluginAssumption DEF Path

-----------------------------------------------------------------------------
(* Requests for site data.                                                  *)

(* A proxy with state px and messages tp is asked for site data: it may be  *)
(* launched for that, or sent messages if it runs.                          *)
GrowsAt(px, tp, py, tq) ==
    /\ py.replies = px.replies /\ py.requests = px.requests
    /\ py.state = px.state \/ (px.state = "none" /\ py.state = "launching")
    /\ \E t \in Seq(SiteMessage) : tq = tp \o t /\ (px.state # "running" => t = << >>)

Grows(u, v) == \A p \in Path : GrowsAt(u.proxy[p], u.toPlugin[p], v.proxy[p], v.toPlugin[p])

LEMMA GrowsStill ==
    ASSUME NEW px, NEW T, NEW tp \in Seq(T), NEW py, py.state = px.state, py.replies = px.replies,
           py.requests = px.requests
    PROVE  GrowsAt(px, tp, py, tp)
  <1>1. << >> \in Seq(SiteMessage) /\ tp = tp \o << >> OBVIOUS
  <1> QED BY <1>1 DEF GrowsAt

LEMMA GrowsOn ==
    ASSUME NEW px, NEW T, NEW tp \in Seq(T), NEW py, NEW tq, NEW pz, NEW tr,
           GrowsAt(px, tp, py, tq), GrowsAt(py, tq, pz, tr)
    PROVE  GrowsAt(px, tp, pz, tr)
  <1>1. PICK t \in Seq(SiteMessage) : tq = tp \o t /\ (px.state # "running" => t = << >>)
    BY DEF GrowsAt
  <1>2. PICK v \in Seq(SiteMessage) : tr = tq \o v /\ (py.state # "running" => v = << >>)
    BY DEF GrowsAt
  <1>3. t \o v \in Seq(SiteMessage) /\ tr = tp \o (t \o v)
    <2>1. t \o v \in Seq(SiteMessage) OBVIOUS
    <2>2. (tp \o t) \o v = tp \o (t \o v) OBVIOUS
    <2> QED BY <1>1, <1>2, <2>1, <2>2
  <1>4. px.state # "running" => t \o v = << >>
    <2>1. px.state # "running" => py.state # "running" BY DEF GrowsAt
    <2> QED BY <1>1, <1>2, <2>1
  <1> QED BY <1>3, <1>4 DEF GrowsAt

LEMMA GrowsThen ==
    ASSUME NEW u \in UIPart, NEW v, NEW x, Grows(u, v), Grows(v, x)
    PROVE  Grows(u, x)
  <1>1. \A p \in Path : u.toPlugin[p] \in Seq(PluginMessage) BY DEF UIPart
  <1> QED BY <1>1, GrowsOn DEF Grows

LEMMA GetOrCreated ==
    ASSUME NEW px \in [Path -> ProxyState], NEW p \in Path
    PROVE  LET py == GetOrCreatePluginProcess(px, p)
           IN  /\ py \in [Path -> ProxyState]
               /\ py[p].state \in {"launching", "running"}
               /\ py[p].state = px[p].state \/ (px[p].state = "none" /\ py[p].state = "launching")
               /\ py[p].replies = px[p].replies /\ py[p].requests = px[p].requests
               /\ py[p].sites = px[p].sites
               /\ \A q \in Path \ {p} : py[q] = px[q]
  <1> DEFINE py == GetOrCreatePluginProcess(px, p)
  <1>1. px[p] \in ProxyState OBVIOUS
  <1>2. CASE px[p].state = "none"
    <2> DEFINE x == [px[p] EXCEPT !.state = "launching"]
    <2>1. /\ x \in ProxyState /\ x.state = "launching" /\ x.replies = px[p].replies
          /\ x.requests = px[p].requests /\ x.sites = px[p].sites
      BY <1>1 DEF ProxyState
    <2>2. py = [px EXCEPT ![p] = x] BY <1>2 DEF GetOrCreatePluginProcess
    <2> HIDE DEF x, py
    <2>3. py \in [Path -> ProxyState] /\ py[p] = x /\ \A q \in Path \ {p} : py[q] = px[q]
      BY <2>1, <2>2
    <2> QED BY <1>2, <2>1, <2>3 DEF py
  <1>3. CASE px[p].state # "none"
    <2>1. py = px BY <1>3 DEF GetOrCreatePluginProcess
    <2> HIDE DEF py
    <2>2. px[p].state \in {"launching", "running"} BY <1>1, <1>3, ProxyFields
    <2> QED BY <2>1, <2>2 DEF py
  <1> QED BY <1>2, <1>3

LEMMA LastPath ==
    ASSUME NEW s \in Seq(Path), s # << >>
    PROVE  Last(s) \in Path /\ Front(s) \in Seq(Path)
  BY DEF Last, Front

(* One request goes on to its next plug-in, or is performed.                *)
LEMMA GoesOn ==
    ASSUME NEW u \in UIPart, NEW s \in SiteCallback
    PROVE  ForNextPlugin(u, s) \in UIPart /\ Grows(u, ForNextPlugin(u, s))
  <1> DEFINE left == u.site[s].left
             p == Last(left)
             px == GetOrCreatePluginProcess(u.proxy, p)
             asked == [px EXCEPT ![p].sites = @ \cup {s}]
             kept == IF s \in IsClear
                     THEN [asked EXCEPT ![p].clearRequests = Append(@, s)]
                     ELSE [asked EXCEPT ![p].getRequests = Append(@, s)]
             rest == [u.site EXCEPT ![s].left = Front(@)]
             v == ForNextPlugin(u, s)
  <1>1. /\ u.site \in [SiteCallback -> SiteState] /\ u.proxy \in [Path -> ProxyState]
        /\ u.toPlugin \in [Path -> Seq(PluginMessage)]
    BY DEF UIPart
  <1>2. u.site[s] \in SiteState /\ left \in Seq(Path) BY <1>1 DEF SiteState
  <1>3. CASE left = << >>
    <2> DEFINE y == [u.site[s] EXCEPT !.state = "performed"]
               z == [u.site EXCEPT ![s] = y]
    <2>1. y \in SiteState BY <1>2 DEF SiteState
    <2>2. v = [u EXCEPT !.site = z] BY <1>3 DEF ForNextPlugin
    <2> HIDE DEF y
    <2>3. z \in [SiteCallback -> SiteState] BY <1>1, <2>1
    <2> HIDE DEF z, v, left
    <2>4. v \in UIPart /\ v.proxy = u.proxy /\ v.toPlugin = u.toPlugin
      BY <2>2, <2>3 DEF UIPart
    <2>5. Grows(u, v) BY <1>1, <2>4, GrowsStill DEF Grows
    <2> QED BY <2>4, <2>5 DEF v
  <1>4. CASE left # << >>
    <2>1. p \in Path /\ Front(left) \in Seq(Path) BY <1>2, <1>4, LastPath
    <2>2. rest \in [SiteCallback -> SiteState]
      <3> DEFINE y == [u.site[s] EXCEPT !.left = Front(left)]
      <3>1. y \in SiteState BY <1>2, <2>1 DEF SiteState
      <3>2. rest = [u.site EXCEPT ![s] = y] OBVIOUS
      <3> HIDE DEF y, rest
      <3> QED BY <1>1, <3>1, <3>2
    <2> HIDE DEF left, p, rest
    <2>3. /\ px \in [Path -> ProxyState] /\ px[p].state \in {"launching", "running"}
          /\ px[p].state = u.proxy[p].state
             \/ (u.proxy[p].state = "none" /\ px[p].state = "launching")
          /\ px[p].replies = u.proxy[p].replies /\ px[p].requests = u.proxy[p].requests
          /\ \A q \in Path \ {p} : px[q] = u.proxy[q]
      BY <1>1, <2>1, GetOrCreated
    <2> HIDE DEF px
    <2> DEFINE x == [px[p] EXCEPT !.sites = @ \cup {s}]
    <2>4. px[p] \in ProxyState BY <2>1, <2>3
    <2>5. px[p].sites \cup {s} \in SiteSet
      <3>1. px[p].sites \in SiteSet BY <2>4, ProxyFields
      <3>2. IsFiniteSet(px[p].sites \cup {s}) BY <3>1, FS_AddElement DEF SiteSet
      <3> QED BY <3>1, <3>2 DEF SiteSet
    <2>6. /\ x \in ProxyState /\ x.state = px[p].state /\ x.replies = px[p].replies
          /\ x.requests = px[p].requests
      BY <2>4, <2>5 DEF ProxyState
    <2>7. asked = [px EXCEPT ![p] = x] OBVIOUS
    <2> HIDE DEF x
    <2>8. asked \in [Path -> ProxyState] /\ asked[p] = x /\ \A q \in Path \ {p} : asked[q] = px[q]
      BY <2>1, <2>3, <2>6, <2>7
    <2> HIDE DEF asked
    <2>9. PICK y : /\ y \in ProxyState /\ y.state = x.state /\ y.replies = x.replies
                   /\ y.requests = x.requests /\ kept = [asked EXCEPT ![p] = y]
      <3>1. x.getRequests \in Seq(SiteCallback) /\ x.clearRequests \in Seq(SiteCallback)
        BY <2>6, ProxyFields
      <3>2. CASE s \in IsClear
        <4> DEFINE y == [x EXCEPT !.clearRequests = Append(@, s)]
        <4>1. Append(x.clearRequests, s) \in Seq(SiteCallback) BY <3>1
        <4>2. y \in ProxyState /\ y.state = x.state /\ y.replies = x.replies /\ y.requests = x.requests
          BY <2>6, <4>1 DEF ProxyState
        <4>3. kept = [asked EXCEPT ![p] = y] BY <2>8, <3>2
        <4> QED BY <4>2, <4>3
      <3>3. CASE s \notin IsClear
        <4> DEFINE y == [x EXCEPT !.getRequests = Append(@, s)]
        <4>1. Append(x.getRequests, s) \in Seq(SiteCallback) BY <3>1
        <4>2. y \in ProxyState /\ y.state = x.state /\ y.replies = x.replies /\ y.requests = x.requests
          BY <2>6, <4>1 DEF ProxyState
        <4>3. kept = [asked EXCEPT ![p] = y] BY <2>8, <3>3
        <4> QED BY <4>2, <4>3
      <3> QED BY <3>2, <3>3
    <2> HIDE DEF kept
    <2>10. kept \in [Path -> ProxyState] /\ kept[p] = y /\ \A q \in Path \ {p} : kept[q] = asked[q]
      BY <2>1, <2>8, <2>9
    <2>11. CASE px[p].state = "launching"
      <3>1. v = [u EXCEPT !.site = rest, !.proxy = kept]
        BY <1>4, <2>11 DEF ForNextPlugin, left, p, px, asked, kept, rest
      <3> HIDE DEF v
      <3>2. v \in UIPart /\ v.proxy = kept /\ v.toPlugin = u.toPlugin
        BY <2>2, <2>10, <3>1 DEF UIPart
      <3>3. ASSUME NEW q \in Path
            PROVE  GrowsAt(u.proxy[q], u.toPlugin[q], v.proxy[q], v.toPlugin[q])
        <4>1. CASE q = p
          <5>1. /\ v.proxy[q].replies = u.proxy[q].replies /\ v.proxy[q].requests = u.proxy[q].requests
                /\ v.proxy[q].state = u.proxy[q].state
                   \/ (u.proxy[q].state = "none" /\ v.proxy[q].state = "launching")
            BY <2>3, <2>6, <2>9, <2>10, <3>2, <4>1
          <5>2. << >> \in Seq(SiteMessage) /\ u.toPlugin[q] = u.toPlugin[q] \o << >> BY <1>1
          <5> QED BY <3>2, <5>1, <5>2 DEF GrowsAt
        <4>2. CASE q # p
          <5>1. v.proxy[q] = u.proxy[q] BY <2>3, <2>8, <2>10, <3>2, <4>2
          <5>2. u.toPlugin[q] \in Seq(PluginMessage) BY <1>1
          <5> QED BY <3>2, <5>1, <5>2, GrowsStill
        <4> QED BY <4>1, <4>2
      <3> QED BY <3>2, <3>3 DEF Grows, v
    <2>12. CASE px[p].state = "running"
      <3> DEFINE m == SiteDataMessage(s)
                 tq == [u.toPlugin EXCEPT ![p] = Append(@, m)]
      <3>1. v = [u EXCEPT !.site = rest, !.proxy = asked, !.toPlugin = tq]
        BY <1>4, <2>12 DEF ForNextPlugin, left, p, px, asked, rest
      <3>2. m \in SiteMessage /\ m \in PluginMessage BY SiteMessages
      <3> HIDE DEF m, v
      <3>3. Append(u.toPlugin[p], m) \in Seq(PluginMessage) BY <1>1, <2>1, <3>2
      <3>4. tq \in [Path -> Seq(PluginMessage)] /\ tq[p] = Append(u.toPlugin[p], m)
            /\ \A q \in Path \ {p} : tq[q] = u.toPlugin[q]
        BY <1>1, <2>1, <3>3
      <3> HIDE DEF tq
      <3>5. v \in UIPart /\ v.proxy = asked /\ v.toPlugin = tq
        BY <2>2, <2>8, <3>1, <3>4 DEF UIPart
      <3>6. ASSUME NEW q \in Path
            PROVE  GrowsAt(u.proxy[q], u.toPlugin[q], v.proxy[q], v.toPlugin[q])
        <4>1. CASE q = p
          <5>1. /\ v.proxy[q].replies = u.proxy[q].replies /\ v.proxy[q].requests = u.proxy[q].requests
                /\ v.proxy[q].state = u.proxy[q].state /\ u.proxy[q].state = "running"
            BY <2>3, <2>6, <2>8, <2>12, <3>5, <4>1
          <5>2. PICK t \in Seq(SiteMessage) : v.toPlugin[q] = u.toPlugin[q] \o t
            <6> DEFINE t == <<m>>
            <6>1. t \in Seq(SiteMessage) BY <3>2
            <6>2. u.toPlugin[p] \in Seq(PluginMessage) BY <1>1, <2>1
            <6>3. Append(u.toPlugin[p], m) = u.toPlugin[p] \o t BY <3>2, <6>2
            <6> HIDE DEF t
            <6> QED BY <3>4, <3>5, <4>1, <6>1, <6>3
          <5> QED BY <5>1, <5>2 DEF GrowsAt
        <4>2. CASE q # p
          <5>1. v.proxy[q] = u.proxy[q] /\ v.toPlugin[q] = u.toPlugin[q]
            BY <2>3, <2>8, <3>4, <3>5, <4>2
          <5>2. u.toPlugin[q] \in Seq(PluginMessage) BY <1>1
          <5> QED BY <5>1, <5>2, GrowsStill
        <4> QED BY <4>1, <4>2
      <3> QED BY <3>5, <3>6 DEF Grows, v
    <2> QED BY <2>3, <2>11, <2>12
  <1> QED BY <1>3, <1>4

-----------------------------------------------------------------------------

(* The requests in sites go on, one after the other.                        *)
LEMMA AllGoOn ==
    ASSUME NEW u \in UIPart, NEW sites \in Seq(SiteCallback)
    PROVE  Advanced(u, sites) \in UIPart /\ Grows(u, Advanced(u, sites))
  <1> DEFINE n == Len(sites)
             Def(t) == t = [k \in 0..n |->
                              IF k = 0 THEN u ELSE ForNextPlugin(t[k - 1], sites[k])]
             after == CHOOSE t : Def(t)
  <1>1. Advanced(u, sites) = after[n] BY Zenon DEF Advanced
  <1>2. n \in Nat /\ \A k \in 1..n : sites[k] \in SiteCallback OBVIOUS
  <1>3. Def(after)
    <2> DEFINE F == [x \in (1..n) \X UIPart |-> ForNextPlugin(x[2], sites[x[1]])]
    <2>1. F \in [(1..n) \X UIPart -> UIPart] BY <1>2, GoesOn
    <2>2. PICK g \in [0..n -> UIPart] : Iterates(g, n, u, F) BY <1>2, <2>1, Recursion
    <2>3. \A k \in 1..n : k - 1 \in 0..n /\ k # 0 BY <1>2
    <2>4. \A k \in 1..n : g[k] = ForNextPlugin(g[k - 1], sites[k])
      <3> SUFFICES ASSUME NEW k \in 1..n PROVE g[k] = ForNextPlugin(g[k - 1], sites[k]) OBVIOUS
      <3>1. g[k - 1] \in UIPart BY <2>2, <2>3
      <3>2. g[k] = F[<<k, g[k - 1]>>] BY <2>2 DEF Iterates
      <3>3. <<k, g[k - 1]>> \in (1..n) \X UIPart BY <3>1
      <3> QED BY <3>2, <3>3
    <2>5. g[0] = u BY <2>2 DEF Iterates
    <2>6. Def(g)
      <3> HIDE DEF F, n
      <3>1. \A k \in 0..n : k = 0 \/ k \in 1..n BY <1>2
      <3>2. \A k \in 0..n : g[k] = IF k = 0 THEN u ELSE ForNextPlugin(g[k - 1], sites[k])
        BY <2>4, <2>5, <3>1
      <3> QED BY <2>2, <3>2
    <2> QED BY <2>6, Zenon
  <1> HIDE DEF after
  <1>4. after[0] = u /\ \A k \in 1..n : after[k] = ForNextPlugin(after[k - 1], sites[k])
    <2>1. 0 \in 0..n /\ \A k \in 1..n : k \in 0..n /\ k # 0 BY <1>2
    <2> HIDE DEF n
    <2> QED BY <1>3, <2>1
  <1> DEFINE T == {k \in 0..n : after[k] \in UIPart /\ Grows(u, after[k])}
  <1>5. 0 \in T
    <2>1. \A p \in Path : u.toPlugin[p] \in Seq(PluginMessage) BY DEF UIPart
    <2>2. Grows(u, u) BY <2>1, GrowsStill DEF Grows
    <2> QED BY <1>2, <1>4, <2>2
  <1>6. ASSUME NEW k \in 1..n, k - 1 \in T PROVE k \in T
    <2>1. after[k - 1] \in UIPart /\ Grows(u, after[k - 1]) BY <1>6
    <2>2. after[k] \in UIPart /\ Grows(after[k - 1], after[k]) BY <1>2, <1>4, <2>1, GoesOn
    <2>3. Grows(u, after[k]) BY <2>1, <2>2, GrowsThen
    <2>4. k \in 0..n BY <1>2
    <2> QED BY <2>2, <2>3, <2>4
  <1> HIDE DEF T, n
  <1>7. n \in T
    <2>1. 0..n \subseteq T BY <1>2, <1>5, <1>6, Induct
    <2> QED BY <1>2, <2>1
  <1> QED BY <1>1, <1>7 DEF T

LEMMA InAnyOrder ==
    ASSUME NEW S \in SiteSet, NEW s \in SetToSeqs(S)
    PROVE  s \in Seq(SiteCallback)
  <1>1. Cardinality(S) \in Nat /\ S \subseteq SiteCallback BY FS_CardinalityType DEF SiteSet
  <1>2. s \in [1..Cardinality(S) -> S] BY DEF SetToSeqs
  <1> QED BY <1>1, <1>2

(* The requests of a plug-in process that is lost.  Every other proxy is    *)
(* asked for what it had not been asked, this one is gone.                  *)
LEMMA SitesMoved ==
    ASSUME NEW p \in Path, [site |-> site, proxy |-> proxy, toPlugin |-> toPlugin] \in UIPart,
           SitesGoOn(p)
    PROVE  /\ [site |-> site', proxy |-> proxy', toPlugin |-> toPlugin'] \in UIPart
           /\ proxy'[p] = NoProxy /\ toPlugin'[p] = << >>
           /\ \A q \in Path \ {p} : GrowsAt(proxy[q], toPlugin[q], proxy'[q], toPlugin'[q])
  <1> DEFINE x == [proxy[p] EXCEPT !.sites = {}]
             px == [proxy EXCEPT ![p].sites = {}]
             u == [site |-> site, proxy |-> px, toPlugin |-> toPlugin]
  <1>1. /\ site \in [SiteCallback -> SiteState] /\ proxy \in [Path -> ProxyState]
        /\ toPlugin \in [Path -> Seq(PluginMessage)]
    BY DEF UIPart
  <1>2. x \in ProxyState
    <2>1. {} \in SiteSet BY FS_EmptySet DEF SiteSet
    <2>2. proxy[p] \in ProxyState BY <1>1
    <2> QED BY <2>1, <2>2 DEF ProxyState
  <1>3. px = [proxy EXCEPT ![p] = x] OBVIOUS
  <1>4. proxy[p].sites \in SiteSet BY <1>1, ProxyFields
  <1>5. proxy[p].sites \ IsClear \in SiteSet /\ proxy[p].sites \cap IsClear \in SiteSet
    BY <1>4, FS_Subset DEF SiteSet
  <1>6. PICK gets \in SetToSeqs(proxy[p].sites \ IsClear),
             clears \in SetToSeqs(proxy[p].sites \cap IsClear) :
               LET w == Advanced(u, gets \o clears)
               IN  InUI([w EXCEPT !.proxy[p] = NoProxy, !.toPlugin[p] = << >>])
    BY DEF SitesGoOn
  <1>7. gets \o clears \in Seq(SiteCallback)
    <2>1. gets \in Seq(SiteCallback) /\ clears \in Seq(SiteCallback) BY <1>5, InAnyOrder
    <2> QED BY <2>1
  <1> HIDE DEF x
  <1>8. px \in [Path -> ProxyState] /\ \A q \in Path \ {p} : px[q] = proxy[q] BY <1>1, <1>2, <1>3
  <1> HIDE DEF px
  <1>9. u \in UIPart BY <1>1, <1>8 DEF UIPart
  <1>10. u.proxy = px /\ u.toPlugin = toPlugin OBVIOUS
  <1> HIDE DEF u
  <1> DEFINE w == Advanced(u, gets \o clears)
             py == [w.proxy EXCEPT ![p] = NoProxy]
             tp == [w.toPlugin EXCEPT ![p] = << >>]
  <1>11. w \in UIPart /\ Grows(u, w) BY <1>7, <1>9, AllGoOn
  <1>12. InUI([w EXCEPT !.proxy = py, !.toPlugin = tp])
    BY <1>6, Zenon
  <1>13. NoProxy \in ProxyState BY FS_EmptySet DEF NoProxy, ProxyState, SiteSet
  <1> HIDE DEF w
  <1>14. w.site \in [SiteCallback -> SiteState] /\ w.proxy \in [Path -> ProxyState]
         /\ w.toPlugin \in [Path -> Seq(PluginMessage)]
    BY <1>11 DEF UIPart
  <1>15. py \in [Path -> ProxyState] /\ py[p] = NoProxy /\ \A q \in Path \ {p} : py[q] = w.proxy[q]
    BY <1>13, <1>14
  <1>16. tp \in [Path -> Seq(PluginMessage)] /\ tp[p] = << >>
         /\ \A q \in Path \ {p} : tp[q] = w.toPlugin[q]
    BY <1>14
  <1> HIDE DEF py, tp
  <1>17. site' = w.site /\ proxy' = py /\ toPlugin' = tp BY <1>11, <1>12 DEF InUI, UIPart
  <1>18. [site |-> site', proxy |-> proxy', toPlugin |-> toPlugin'] \in UIPart
    BY <1>14, <1>15, <1>16, <1>17 DEF UIPart
  <1>19. ASSUME NEW q \in Path \ {p}
         PROVE  GrowsAt(proxy[q], toPlugin[q], proxy'[q], toPlugin'[q])
    <2>1. GrowsAt(u.proxy[q], u.toPlugin[q], w.proxy[q], w.toPlugin[q]) BY <1>11 DEF Grows
    <2> QED BY <1>8, <1>10, <1>15, <1>16, <1>17, <2>1
  <1> QED BY <1>15, <1>16, <1>17, <1>18, <1>19

-----------------------------------------------------------------------------
(* The web processes that wait when a plug-in process is lost.              *)

AliveOK == alive \in [Web -> BOOLEAN]

RepliesTo(i) == {m \in WebMessage : m.op = "reply" /\ m.instance = i}

Refusal == [op : {"reply"}, instance : Instance, conn : {Failed}]

(* The refusals t that web process w is sent for the replies in s.          *)
RefusalsTo(w, t, s) ==
    /\ t \in Seq(Refusal)
    /\ \A k \in DOMAIN t : OwnerOf[t[k].instance] = w
    /\ ~alive[w] => t = << >>
    /\ \A i \in Instance : OwnerOf[i] = w /\ alive[w] => Count(t, RepliesTo(i)) = Count(s, {i})

ToldWhat(lines, r, s) ==
    \A w \in Web : \E t : RefusalsTo(w, t, s) /\ r[w] = lines[w] \o t

LEMMA OneMorePlace ==
    ASSUME NEW T, NEW s \in Seq(T), NEW k \in 1..Len(s)
    PROVE  SubSeq(s, 1, k - 1) \in Seq(T) /\ SubSeq(s, 1, k) = Append(SubSeq(s, 1, k - 1), s[k])
  <1> DEFINE a == SubSeq(s, 1, k)
             c == SubSeq(s, 1, k - 1)
             b == Append(c, s[k])
  <1>1. \A j \in 1..k : a[j] = s[j] OBVIOUS
  <1>2. \A j \in 1..(k-1) : c[j] = s[j] OBVIOUS
  <1>3. c \in Seq(T) /\ a \in Seq(T) /\ Len(c) = k - 1 /\ Len(a) = k /\ s[k] \in T OBVIOUS
  <1> HIDE DEF c, a
  <1>4. Len(b) = k /\ b \in Seq(T) /\ \A j \in 1..k : b[j] = s[j] BY <1>2, <1>3
  <1> HIDE DEF b
  <1>5. a = b BY <1>1, <1>3, <1>4
  <1> QED BY <1>3, <1>5 DEF a, b, c

LEMMA Refusals ==
    /\ Refusal \subseteq WebMessage
    /\ \A i \in Instance : [op |-> "reply", instance |-> i, conn |-> Failed] \in Refusal
    /\ \A m \in Refusal, i \in Instance : m \in RepliesTo(i) <=> m.instance = i
  BY DEF Refusal, WebMessage, RepliesTo, Failed

LEMMA ToldOneMore ==
    ASSUME NEW lines \in [Web -> Seq(WebMessage)], NEW r \in [Web -> Seq(WebMessage)],
           NEW s \in Seq(Instance), NEW j \in Instance, ToldWhat(lines, r, s),
           NEW z, z = Append(s, j), AliveOK
    PROVE  /\ ReplyTo(r, j, Failed) \in [Web -> Seq(WebMessage)]
           /\ ToldWhat(lines, ReplyTo(r, j, Failed), z)
  <1> DEFINE o == OwnerOf[j]
             m == [op |-> "reply", instance |-> j, conn |-> Failed]
             v == ReplyTo(r, j, Failed)
  <1>1. o \in Web /\ m \in Refusal /\ m \in WebMessage /\ m.instance = j
    BY PathsAndWebs, Refusals
  <1>2. \A i \in Instance : Count(Append(s, j), {i}) = Count(s, {i}) + (IF j = i THEN 1 ELSE 0)
    BY CountAppend
  <1>3. v = IF alive[o] THEN [r EXCEPT ![o] = Append(@, m)] ELSE r BY DEF ReplyTo
  <1> HIDE DEF v, m
  <1>4. r[o] \in Seq(WebMessage) BY <1>1
  <1>5. Append(r[o], m) \in Seq(WebMessage) BY <1>1, <1>4
  <1>6. v \in [Web -> Seq(WebMessage)] BY <1>1, <1>3, <1>5
  <1>7. ASSUME NEW w \in Web PROVE \E t : RefusalsTo(w, t, Append(s, j)) /\ v[w] = lines[w] \o t
    <2>1. PICK t : RefusalsTo(w, t, s) /\ r[w] = lines[w] \o t BY DEF ToldWhat
    <2>2. t \in Seq(Refusal) BY <2>1 DEF RefusalsTo
    <2>3. CASE alive[o] /\ w = o
      <3> DEFINE y == Append(t, m)
      <3>1. y \in Seq(Refusal) BY <1>1, <2>2
      <3>2. v[w] = Append(r[w], m) BY <1>1, <1>3, <2>3
      <3>3. Append(lines[w] \o t, m) = lines[w] \o y
        <4>1. t \in Seq(WebMessage) BY <2>2, Refusals
        <4> DEFINE l == lines[w]
        <4>2. l \in Seq(WebMessage) OBVIOUS
        <4> HIDE DEF l
        <4>3. l \o t \in Seq(WebMessage) /\ <<m>> \in Seq(WebMessage) BY <1>1, <4>1, <4>2
        <4>4. Append(l \o t, m) = (l \o t) \o <<m>> BY <1>1, <4>3, AppendIsConcat
        <4>5. y = t \o <<m>> BY <1>1, <4>1, AppendIsConcat
        <4> QED BY <4>1, <4>2, <4>3, <4>4, <4>5, ConcatAssociative DEF l
      <3>4. \A i \in Instance : Count(y, RepliesTo(i)) = Count(t, RepliesTo(i)) + (IF j = i THEN 1 ELSE 0)
        <4>1. \A i \in Instance : m \in RepliesTo(i) <=> j = i BY <1>1, Refusals
        <4>2. \A i \in Instance : Count(y, RepliesTo(i)) =
                 Count(t, RepliesTo(i)) + (IF m \in RepliesTo(i) THEN 1 ELSE 0)
          BY <1>1, <2>2, CountAppend
        <4> QED BY <4>1, <4>2
      <3>5. \A k \in DOMAIN y : OwnerOf[y[k].instance] = w
        <4>1. \A k \in DOMAIN y : y[k] = m \/ (k \in DOMAIN t /\ y[k] = t[k]) BY <1>1, <2>2
        <4>2. \A k \in DOMAIN t : OwnerOf[t[k].instance] = w BY <2>1 DEF RefusalsTo
        <4> HIDE DEF y
        <4> SUFFICES ASSUME NEW k \in DOMAIN y PROVE OwnerOf[y[k].instance] = w OBVIOUS
        <4>3. CASE y[k] = m BY <1>1, <2>3, <4>3
        <4>4. CASE k \in DOMAIN t /\ y[k] = t[k] BY <4>2, <4>4
        <4> QED BY <4>1, <4>3, <4>4
      <3> HIDE DEF y
      <3>6. \A i \in Instance : OwnerOf[i] = w /\ alive[w] => Count(y, RepliesTo(i)) = Count(Append(s, j), {i})
        BY <1>2, <2>1, <3>4 DEF RefusalsTo
      <3>7. RefusalsTo(w, y, Append(s, j)) BY <2>3, <3>1, <3>5, <3>6 DEF RefusalsTo
      <3>8. v[w] = lines[w] \o y BY <2>1, <3>2, <3>3
      <3> QED BY <3>7, <3>8
    <2>4. CASE ~(alive[o] /\ w = o)
      <3>1. v[w] = r[w] BY <1>1, <1>3, <2>4
      <3>2. \A i \in Instance : OwnerOf[i] = w /\ alive[w] => Count(s, {i}) = Count(Append(s, j), {i})
        <4>1. \A i \in Instance : OwnerOf[i] = w /\ alive[w] => j # i BY <2>4
        <4>2. \A i \in Instance : Count(s, {i}) \in Nat BY CountType
        <4> SUFFICES ASSUME NEW i \in Instance, OwnerOf[i] = w, alive[w]
                     PROVE  Count(s, {i}) = Count(Append(s, j), {i})
          OBVIOUS
        <4>3. Count(Append(s, j), {i}) = Count(s, {i}) + 0 BY <1>2, <4>1
        <4>4. Count(s, {i}) \in Nat BY <4>2
        <4> QED BY <4>3, <4>4
      <3>3. RefusalsTo(w, t, Append(s, j)) BY <2>1, <3>2 DEF RefusalsTo
      <3> QED BY <2>1, <3>1, <3>3
    <2> QED BY <2>3, <2>4
  <1> QED BY <1>6, <1>7 DEF ToldWhat, v

LEMMA ToldAll ==
    ASSUME NEW lines \in [Web -> Seq(WebMessage)], NEW replies \in Seq(Instance),
           AliveOK
    PROVE  /\ Refused(lines, replies) \in [Web -> Seq(WebMessage)]
           /\ ToldWhat(lines, Refused(lines, replies), replies)
  <1> DEFINE n == Len(replies)
             L == [Web -> Seq(WebMessage)]
             Def(t) == t = [k \in 0..n |->
                              IF k = 0 THEN lines ELSE ReplyTo(t[k - 1], replies[k], Failed)]
             told == CHOOSE t : Def(t)
  <1>1. Refused(lines, replies) = told[n] BY Zenon DEF Refused
  <1>2. n \in Nat /\ \A k \in 1..n : replies[k] \in Instance OBVIOUS
  <1>3. Def(told)
    <2> DEFINE F == [x \in (1..n) \X L |-> ReplyTo(x[2], replies[x[1]], Failed)]
    <2>1. F \in [(1..n) \X L -> L]
      <3> SUFFICES ASSUME NEW k \in 1..n, NEW r \in L PROVE ReplyTo(r, replies[k], Failed) \in L
        OBVIOUS
      <3>1. [op |-> "reply", instance |-> replies[k], conn |-> Failed] \in WebMessage
        BY <1>2, Refusals
      <3>2. OwnerOf[replies[k]] \in Web BY <1>2, PathsAndWebs
      <3> QED BY <3>1, <3>2 DEF ReplyTo
    <2>2. PICK g \in [0..n -> L] : Iterates(g, n, lines, F) BY <1>2, <2>1, Recursion
    <2>3. \A k \in 1..n : k - 1 \in 0..n /\ k # 0 BY <1>2
    <2>4. \A k \in 1..n : g[k] = ReplyTo(g[k - 1], replies[k], Failed)
      <3> SUFFICES ASSUME NEW k \in 1..n PROVE g[k] = ReplyTo(g[k - 1], replies[k], Failed) OBVIOUS
      <3> HIDE DEF L
      <3>1. g[k - 1] \in L BY <2>2, <2>3
      <3>2. g[k] = F[<<k, g[k - 1]>>] BY <2>2 DEF Iterates
      <3>3. <<k, g[k - 1]>> \in (1..n) \X L BY <3>1
      <3> QED BY <3>2, <3>3
    <2>5. g[0] = lines BY <2>2 DEF Iterates
    <2>6. Def(g)
      <3> HIDE DEF F, n, L
      <3>1. \A k \in 0..n : k = 0 \/ k \in 1..n BY <1>2
      <3>2. \A k \in 0..n : g[k] = IF k = 0 THEN lines ELSE ReplyTo(g[k - 1], replies[k], Failed)
        BY <2>4, <2>5, <3>1
      <3> QED BY <2>2, <3>2
    <2> QED BY <2>6, Zenon
  <1> HIDE DEF told
  <1>4. told[0] = lines /\ \A k \in 1..n : told[k] = ReplyTo(told[k - 1], replies[k], Failed)
    <2>1. 0 \in 0..n /\ \A k \in 1..n : k \in 0..n /\ k # 0 BY <1>2
    <2> HIDE DEF n
    <2> QED BY <1>3, <2>1
  <1> DEFINE first(k) == SubSeq(replies, 1, k)
             T == {k \in 0..n : told[k] \in L /\ ToldWhat(lines, told[k], first(k))}
  <1>5. 0 \in T
    <2>1. first(0) = << >> OBVIOUS
    <2>2. ASSUME NEW w \in Web PROVE RefusalsTo(w, << >>, << >>) /\ lines[w] = lines[w] \o << >>
      BY CountEmpty DEF RefusalsTo
    <2>3. ToldWhat(lines, lines, << >>) BY <2>2 DEF ToldWhat
    <2> HIDE DEF first
    <2> QED BY <1>2, <1>4, <2>1, <2>3
  <1>6. ASSUME NEW k \in 1..n, k - 1 \in T PROVE k \in T
    <2>1. told[k - 1] \in L /\ ToldWhat(lines, told[k - 1], first(k - 1)) BY <1>6
    <2> DEFINE f == first(k - 1)
               j == replies[k]
               r == told[k - 1]
    <2>2. f \in Seq(Instance) /\ first(k) = Append(f, j) BY OneMorePlace
    <2> HIDE DEF first
    <2>3. told[k] \in L /\ ToldWhat(lines, told[k], first(k))
      <3>1. told[k] = ReplyTo(r, j, Failed) BY <1>4
      <3>2. j \in Instance BY <1>2
      <3> DEFINE z == first(k)
      <3> HIDE DEF f, j, r
      <3>3. r \in [Web -> Seq(WebMessage)] /\ ToldWhat(lines, r, f) BY <2>1 DEF r, f
      <3>4. f \in Seq(Instance) /\ z = Append(f, j) BY <2>2
      <3> HIDE DEF z
      <3>5. ReplyTo(r, j, Failed) \in L /\ ToldWhat(lines, ReplyTo(r, j, Failed), z)
        BY <3>2, <3>3, <3>4, ToldOneMore
      <3> QED BY <3>1, <3>5 DEF z
    <2>4. k \in 0..n BY <1>2
    <2> QED BY <2>2, <2>3, <2>4
  <1>7. first(n) = replies BY SubSeqFull
  <1> HIDE DEF T, n
  <1>8. n \in T
    <2>1. 0..n \subseteq T BY <1>2, <1>5, <1>6, Induct
    <2> QED BY <1>2, <2>1
  <1> QED BY <1>1, <1>7, <1>8 DEF T

-----------------------------------------------------------------------------
(* A proxy, its process and the messages between them.                      *)

Made == {m \in ChildMessage : m.op = "connection"}
Connects == {m \in PluginMessage : m.op = "connect"}

(* Proxy and process are there together: nothing is sent before the launch  *)
(* is over, InitializePluginProcess goes first, and neither a connection    *)
(* nor a call into plug-in code comes before it.                            *)
Life(px, ch, tp, fp) ==
    /\ px.state = "none" => px.replies = << >> /\ px.requests = 0 /\ ch.state = "none"
    /\ px.state # "running" => tp = << >> /\ fp = << >>
    /\ px.state = "running" => px.requests = 0 /\ ch.state # "none"
    /\ ch.state # "running" => ch.conns = {} /\ ch.stack = << >>
    /\ ch.state = "running" /\ ~ch.initialized =>
          /\ ch.conns = {} /\ ch.stack = << >>
          /\ px.state = "running" => tp # << >> /\ tp[1].op = "initialize"

(* Every reply that is kept has its request, or its connection.             *)
Matched(px, ch, tp, fp) ==
    /\ Count(fp, Made) <= Len(px.replies)
    /\ ch.state # "gone" =>
          Len(px.replies) = Count(fp, Made) + px.requests + Count(tp, Connects)

Typed(px, ch, tp, fp) ==
    px \in ProxyState /\ ch \in ChildState /\ tp \in Seq(PluginMessage) /\ fp \in Seq(ChildMessage)

PathOK(px, ch, tp, fp) ==
    Typed(px, ch, tp, fp) /\ Life(px, ch, tp, fp) /\ Matched(px, ch, tp, fp)

LEMMA PathCounts ==
    ASSUME NEW px, NEW ch, NEW tp, NEW fp, Typed(px, ch, tp, fp)
    PROVE  /\ Count(fp, Made) \in Nat /\ Count(tp, Connects) \in Nat
           /\ px.requests \in Nat /\ Len(px.replies) \in Nat /\ px.replies \in Seq(Instance)
  <1>1. Count(fp, Made) \in Nat /\ Count(tp, Connects) \in Nat BY CountType DEF Typed
  <1>2. px.requests \in Nat /\ px.replies \in Seq(Instance) BY ProxyFields DEF Typed
  <1> QED BY <1>1, <1>2

(* The sums of Matched, when each of their numbers changes as told.         *)
LEMMA MatchedStill ==
    ASSUME NEW px, NEW ch, NEW tp, NEW fp, PathOK(px, ch, tp, fp),
           NEW py, NEW tq, NEW fq, NEW a \in Int, NEW b \in Int, NEW c \in Int,
           Len(py.replies) = Len(px.replies) + a, Count(fq, Made) = Count(fp, Made) + b,
           py.requests = px.requests + c,
           Count(tq, Connects) = Count(tp, Connects) + ((a - b) - c), a >= b
    PROVE  Matched(py, ch, tq, fq)
  <1> DEFINE lx == Len(px.replies)
             ly == Len(py.replies)
             fx == Count(fp, Made)
             fy == Count(fq, Made)
             tx == Count(tp, Connects)
             ty == Count(tq, Connects)
             rx == px.requests
             ry == py.requests
  <1>1. lx \in Nat /\ fx \in Nat /\ tx \in Nat /\ rx \in Nat BY PathCounts DEF PathOK
  <1>2. fx <= lx /\ (ch.state # "gone" => lx = fx + rx + tx) BY DEF PathOK, Matched
  <1>3. ly = lx + a /\ fy = fx + b /\ ry = rx + c /\ ty = tx + ((a - b) - c) OBVIOUS
  <1> HIDE DEF lx, ly, fx, fy, tx, ty, rx, ry
  <1>4. fy <= ly /\ (ch.state # "gone" => ly = fy + ry + ty) BY <1>1, <1>2, <1>3
  <1> QED BY <1>4 DEF Matched, ly, fy, ry, ty

LEMMA PathGrows ==
    ASSUME NEW px, NEW ch, NEW tp, NEW fp, PathOK(px, ch, tp, fp), NEW py \in ProxyState,
           NEW tq \in Seq(PluginMessage), GrowsAt(px, tp, py, tq)
    PROVE  PathOK(py, ch, tq, fp)
  <1>1. PICK t \in Seq(SiteMessage) : tq = tp \o t /\ (px.state # "running" => t = << >>)
    BY DEF GrowsAt
  <1>2. tp \in Seq(PluginMessage) /\ t \in Seq(PluginMessage) /\ Typed(py, ch, tq, fp)
        /\ Typed(px, ch, tp, fp)
    BY <1>1, SiteMessages DEF PathOK, Typed
  <1>3. Count(tq, Connects) = Count(tp, Connects)
    <2>1. \A k \in DOMAIN t : t[k] \notin Connects
      <3>1. \A k \in DOMAIN t : t[k] \in SiteMessage BY <1>1
      <3>2. \A m \in SiteMessage : m \notin Connects BY DEF Connects, SiteMessage
      <3> QED BY <3>1, <3>2
    <2>2. Count(t, Connects) = 0 BY <1>2, <2>1, CountNone
    <2>3. Count(tq, Connects) = Count(tp, Connects) + Count(t, Connects) BY <1>1, <1>2, CountConcat
    <2>4. Count(tp, Connects) \in Nat BY <1>2, CountType
    <2> QED BY <2>2, <2>3, <2>4
  <1>4. tp # << >> => tq # << >> /\ tq[1] = tp[1] BY <1>1, <1>2
  <1>5. px.state # "running" => tq = tp BY <1>1, <1>2
  <1>6. /\ py.replies = px.replies /\ py.requests = px.requests
        /\ py.state = px.state \/ (px.state = "none" /\ py.state = "launching")
    BY DEF GrowsAt
  <1>7. Life(py, ch, tq, fp) BY <1>4, <1>5, <1>6 DEF PathOK, Life
  <1>8. Matched(py, ch, tq, fp) BY <1>3, <1>6 DEF PathOK, Matched
  <1> QED BY <1>2, <1>7, <1>8 DEF PathOK

(* The process goes on, without a message.                                  *)
LEMMA PathRuns ==
    ASSUME NEW px, NEW ch, NEW tp, NEW fp, PathOK(px, ch, tp, fp), NEW cg \in ChildState,
           cg.state = ch.state, cg.initialized = ch.initialized,
           ch.conns = {} => cg.conns = {},
           ch.conns = {} /\ ch.stack = << >> => cg.stack = << >>
    PROVE  PathOK(px, cg, tp, fp)
  BY DEF PathOK, Typed, Life, Matched

(* Whatever is taken before the initialization is the initialization.       *)
LEMMA PathTakes ==
    ASSUME NEW px, NEW ch, NEW tp, NEW fp, PathOK(px, ch, tp, fp), ch.state = "running",
           NEW k \in DOMAIN tp, ch.stack = << >> => k = 1
    PROVE  px.state = "running" /\ (ch.initialized \/ tp[k].op = "initialize")
  <1>1. tp # << >> BY DEF PathOK, Typed
  <1> QED BY <1>1 DEF PathOK, Life

(* The process takes a message, and may answer it.                          *)
LEMMA PathHandles ==
    ASSUME NEW px, NEW ch, NEW tp, NEW fp, PathOK(px, ch, tp, fp), ch.state = "running",
           NEW k \in DOMAIN tp, ch.stack = << >> => k = 1,
           NEW cg \in ChildState, cg.state = "running", cg.initialized,
           NEW fq \in Seq(ChildMessage),
           Count(fq, Made) = Count(fp, Made) + (IF tp[k] \in Connects THEN 1 ELSE 0)
    PROVE  PathOK(px, cg, RemoveAt(tp, k), fq)
  <1>1. Typed(px, ch, tp, fp) BY DEF PathOK
  <1>2. RemoveAt(tp, k) \in Seq(PluginMessage) BY <1>1, TakenOut DEF Typed
  <1>3. Count(RemoveAt(tp, k), Connects) = Count(tp, Connects) - (IF tp[k] \in Connects THEN 1 ELSE 0)
    BY <1>1, CountTakenOut DEF Typed
  <1>4. px.state = "running" BY PathTakes
  <1>5. Typed(px, cg, RemoveAt(tp, k), fq) BY <1>1, <1>2 DEF Typed
  <1>6. Life(px, cg, RemoveAt(tp, k), fq) BY <1>4 DEF PathOK, Life
  <1>7. Matched(px, cg, RemoveAt(tp, k), fq)
    <2> DEFINE tq == RemoveAt(tp, k)
    <2>1. /\ Count(fp, Made) \in Nat /\ Count(tp, Connects) \in Nat /\ px.requests \in Nat
          /\ Count(tq, Connects) \in Nat
      BY <1>1, <1>5, PathCounts
    <2>2. Len(px.replies) = Count(fp, Made) + px.requests + Count(tp, Connects)
      BY DEF PathOK, Matched
    <2> HIDE DEF tq
    <2>3. Count(tq, Connects) = Count(tp, Connects) - (IF tp[k] \in Connects THEN 1 ELSE 0)
      BY <1>3 DEF tq
    <2>4. Len(px.replies) = Count(fq, Made) + px.requests + Count(tq, Connects)
      <3> DEFINE a == Count(fp, Made)
                 b == Count(tp, Connects)
                 n == Len(px.replies)
                 v == px.requests
      <3>0. a \in Nat /\ b \in Nat /\ v \in Nat /\ n = a + v + b BY <2>1, <2>2
      <3>1. CASE tp[k] \in Connects
        <4>1. Count(fq, Made) = a + 1 /\ Count(tq, Connects) = b - 1 BY <2>3, <3>1
        <4> HIDE DEF a, b, n, v
        <4>2. n = (a + 1) + v + (b - 1) BY <3>0
        <4> QED BY <4>1, <4>2 DEF n, v
      <3>2. CASE tp[k] \notin Connects
        <4>1. Count(fq, Made) = a + 0 /\ Count(tq, Connects) = b - 0 BY <2>3, <3>2
        <4> HIDE DEF a, b, n, v
        <4>2. n = (a + 0) + v + (b - 0) BY <3>0
        <4> QED BY <4>1, <4>2 DEF n, v
      <3> QED BY <3>1, <3>2
    <2>5. Count(fq, Made) \in Nat BY <1>5, PathCounts
    <2>6. Count(fq, Made) <= Len(px.replies) BY <2>1, <2>4, <2>5
    <2> QED BY <2>4, <2>6 DEF Matched, tq
  <1> QED BY <1>5, <1>6, <1>7 DEF PathOK

(* The process is launched, or is gone.                                     *)
LEMMA PathLaunches ==
    ASSUME NEW px, NEW ch, NEW tp, NEW fp, PathOK(px, ch, tp, fp), NEW cg \in ChildState,
           cg.conns = {}, cg.stack = << >>,
           \/ px.state = "launching" /\ ch.state = "none" /\ cg.state \in {"running", "gone"}
           \/ ch.state = "running" /\ cg.state = "gone"
    PROVE  PathOK(px, cg, tp, fp)
  BY DEF PathOK, Typed, Life, Matched

(* A web process asks for a connection.                                     *)
LEMMA PathAsked ==
    ASSUME NEW px, NEW ch, NEW tp, NEW fp, PathOK(px, ch, tp, fp), NEW i \in Instance,
           NEW py \in ProxyState, NEW tq \in Seq(PluginMessage), NEW m \in Connects,
           py.replies = Append(px.replies, i),
           \/ /\ px.state \in {"none", "launching"} /\ py.state = "launching"
              /\ py.requests = px.requests + 1 /\ tq = tp
           \/ /\ px.state = "running" /\ py.state = "running" /\ py.requests = px.requests
              /\ tq = Append(tp, m)
    PROVE  PathOK(py, ch, tq, fp)
  <1>1. Typed(px, ch, tp, fp) /\ Typed(py, ch, tq, fp) BY DEF PathOK, Typed
  <1>2. /\ Count(fp, Made) \in Nat /\ Count(tp, Connects) \in Nat /\ px.requests \in Nat
        /\ px.replies \in Seq(Instance) /\ Len(px.replies) \in Nat
    BY <1>1, PathCounts
  <1>3. Len(py.replies) = Len(px.replies) + 1 BY <1>2
  <1>4. m \in PluginMessage /\ tp \in Seq(PluginMessage) BY <1>1 DEF Connects, Typed
  <1>5. CASE /\ px.state \in {"none", "launching"} /\ py.state = "launching"
             /\ py.requests = px.requests + 1 /\ tq = tp
    <2>1. Life(py, ch, tq, fp) BY <1>5 DEF PathOK, Life
    <2>2. PICK a \in Int : a = 1 OBVIOUS
    <2>3. PICK z \in Int : z = 0 OBVIOUS
    <2>4. /\ Len(py.replies) = Len(px.replies) + a /\ Count(fp, Made) = Count(fp, Made) + z
          /\ py.requests = px.requests + a /\ a >= z
          /\ Count(tq, Connects) = Count(tp, Connects) + ((a - z) - a)
      BY <1>2, <1>3, <1>5, <2>2, <2>3
    <2>5. Matched(py, ch, tq, fp) BY <2>4, MatchedStill
    <2> QED BY <1>1, <2>1, <2>5 DEF PathOK
  <1>6. CASE /\ px.state = "running" /\ py.state = "running" /\ py.requests = px.requests
             /\ tq = Append(tp, m)
    <2>1. tp # << >> => tq # << >> /\ tq[1] = tp[1] BY <1>4, <1>6
    <2>2. Life(py, ch, tq, fp) BY <1>6, <2>1 DEF PathOK, Life
    <2>3. Count(tq, Connects) = Count(tp, Connects) + 1 BY <1>4, <1>6, CountAppend
    <2>4. PICK a \in Int : a = 1 OBVIOUS
    <2>5. PICK z \in Int : z = 0 OBVIOUS
    <2>6. /\ Len(py.replies) = Len(px.replies) + a /\ Count(fp, Made) = Count(fp, Made) + z
          /\ py.requests = px.requests + z /\ a >= z
          /\ Count(tq, Connects) = Count(tp, Connects) + ((a - z) - z)
      BY <1>2, <1>3, <1>6, <2>3, <2>4, <2>5
    <2>7. Matched(py, ch, tq, fp) BY <2>6, MatchedStill
    <2> QED BY <1>1, <2>2, <2>7 DEF PathOK
  <1> QED BY <1>5, <1>6

(* The launch is over.                                                      *)
LEMMA PathLaunched ==
    ASSUME NEW px, NEW ch, NEW tp, NEW fp, PathOK(px, ch, tp, fp), px.state = "launching",
           ch.state # "none", NEW py \in ProxyState, py.state = "running", py.requests = 0,
           py.replies = px.replies, NEW tq \in Seq(PluginMessage), tq # << >>,
           tq[1].op = "initialize", Count(tq, Connects) = px.requests
    PROVE  PathOK(py, ch, tq, fp)
  <1>1. Typed(px, ch, tp, fp) /\ Typed(py, ch, tq, fp) BY DEF PathOK, Typed
  <1>2. /\ Count(fp, Made) \in Nat /\ Count(tp, Connects) \in Nat /\ px.requests \in Nat
    BY <1>1, PathCounts
  <1>3. tp = << >> /\ Count(tp, Connects) = 0 BY CountEmpty DEF PathOK, Life
  <1>4. Life(py, ch, tq, fp) BY DEF PathOK, Life
  <1>5. Matched(py, ch, tq, fp) BY <1>2, <1>3 DEF PathOK, Matched
  <1> QED BY <1>1, <1>4, <1>5 DEF PathOK

(* A message of the process is dispatched; a connection takes a reply.      *)
LEMMA PathAnswers ==
    ASSUME NEW px, NEW ch, NEW tp, NEW fp, PathOK(px, ch, tp, fp), px.state = "running",
           fp # << >>, NEW py \in ProxyState, py.state = "running", py.requests = px.requests,
           \/ Head(fp).op = "connection" /\ px.replies # << >> /\ py.replies = Tail(px.replies)
           \/ Head(fp).op = "site" /\ py.replies = px.replies
    PROVE  PathOK(py, ch, tp, Tail(fp))
  <1>1. Typed(px, ch, tp, fp) BY DEF PathOK
  <1>2. fp \in Seq(ChildMessage) /\ Head(fp) \in ChildMessage /\ Tail(fp) \in Seq(ChildMessage)
    BY <1>1 DEF Typed
  <1>3. Typed(py, ch, tp, Tail(fp)) BY <1>1, <1>2 DEF Typed
  <1>4. /\ Count(fp, Made) \in Nat /\ Count(tp, Connects) \in Nat /\ px.requests \in Nat
        /\ px.replies \in Seq(Instance) /\ Len(px.replies) \in Nat
    BY <1>1, PathCounts
  <1>5. Head(fp) \in Made <=> Head(fp).op = "connection" BY <1>2 DEF Made
  <1> DEFINE fq == Tail(fp)
  <1>6. Count(fq, Made) = Count(fp, Made) - (IF Head(fp) \in Made THEN 1 ELSE 0)
    BY <1>2, CountTail
  <1> HIDE DEF fq
  <1>7. Life(py, ch, tp, fq) BY DEF PathOK, Life
  <1>8. CASE Head(fp).op = "connection" /\ px.replies # << >> /\ py.replies = Tail(px.replies)
    <2>1. Len(py.replies) = Len(px.replies) - 1 BY <1>4, <1>8
    <2>2. Count(fq, Made) = Count(fp, Made) - 1 BY <1>5, <1>6, <1>8
    <2>3. PICK a \in Int : a = -1 OBVIOUS
    <2>4. PICK z \in Int : z = 0 OBVIOUS
    <2>5. /\ Len(py.replies) = Len(px.replies) + a /\ Count(fq, Made) = Count(fp, Made) + a
          /\ py.requests = px.requests + z /\ a >= a
          /\ Count(tp, Connects) = Count(tp, Connects) + ((a - a) - z)
      BY <1>4, <2>1, <2>2, <2>3, <2>4
    <2>6. Matched(py, ch, tp, fq) BY <2>5, MatchedStill
    <2> QED BY <1>3, <1>7, <2>6 DEF PathOK, fq
  <1>9. CASE Head(fp).op = "site" /\ py.replies = px.replies
    <2>1. Count(fq, Made) = Count(fp, Made) - 0 BY <1>5, <1>6, <1>9
    <2>2. Matched(py, ch, tp, fq) BY <1>4, <1>9, <2>1 DEF PathOK, Matched
    <2> QED BY <1>3, <1>7, <2>2 DEF PathOK, fq
  <1> QED BY <1>8, <1>9

LEMMA PathEnds == PathOK(NoProxy, NoChild, << >>, << >>)
  <1>1. NoProxy \in ProxyState /\ NoChild \in ChildState
    <2>1. << >> \in Seq(Call) OBVIOUS
    <2> QED BY <2>1, FS_EmptySet DEF NoProxy, ProxyState, SiteSet, NoChild, ChildState
  <1>2. Count(<< >>, Made) = 0 /\ Count(<< >>, Connects) = 0 BY CountEmpty
  <1> QED BY <1>1, <1>2 DEF PathOK, Typed, Life, Matched, NoProxy, NoChild

-----------------------------------------------------------------------------
(* What the plug-in process does by itself.                                 *)

ChildRuns(x, y) ==
    /\ y.state = x.state /\ y.initialized = x.initialized /\ y.conns \subseteq x.conns
    /\ x.conns = {} /\ x.stack = << >> => y.stack = << >>

RunsOn(p) ==
    ChildRuns(child[p], child'[p]) /\ \A q \in Path \ {p} : child'[q] = child[q]

LEMMA RunsTo ==
    ASSUME IInv, NEW p \in Path, NEW y, child' = [child EXCEPT ![p] = y], ChildRuns(child[p], y)
    PROVE  RunsOn(p)
  <1>1. child \in [Path -> ChildState] BY DEF IInv
  <1> QED BY <1>1 DEF RunsOn

LEMMA RunsOnSteps ==
    ASSUME IInv, NEW p \in Path, NEW c, NEW i,
           \/ BeginCreatePlugin(p, c) \/ DestroyPlugin(p, c) \/ WebProcessConnectionDidClose(p, c)
           \/ DestroyTimerFires(p, c, i) \/ EndCreatePlugin(p) \/ LeavePlugin(p) \/ EnterPlugin(p, i)
    PROVE  RunsOn(p)
  <1> DEFINE x == child[p]
  <1>1. x \in ChildState /\ child \in [Path -> ChildState] BY DEF IInv
  <1>2. ASSUME NEW d, NEW gone PROVE ChildRuns(x, AfterRemoval(p, d, gone))
                                     /\ AfterRemoval(p, d, gone).stack = x.stack
    <2>1. CASE controllers[d] \subseteq gone
      <3> DEFINE b == x.counter = 1
                 y == [x EXCEPT !.conns = @ \ {d}, !.counter = @ - 1, !.timer = b,
                                !.destroyTimers = @ \ gone]
      <3>1. AfterRemoval(p, d, gone) = y BY <2>1 DEF AfterRemoval
      <3> HIDE DEF b, x
      <3>2. /\ y.state = x.state /\ y.initialized = x.initialized /\ y.conns = x.conns \ {d}
            /\ y.stack = x.stack
        BY <1>1 DEF ChildState
      <3> HIDE DEF y
      <3> QED BY <3>1, <3>2 DEF ChildRuns
    <2>2. CASE ~(controllers[d] \subseteq gone)
      <3> DEFINE y == [x EXCEPT !.destroyTimers = @ \ gone]
      <3>1. AfterRemoval(p, d, gone) = y BY <2>2 DEF AfterRemoval
      <3> HIDE DEF x
      <3>2. /\ y.state = x.state /\ y.initialized = x.initialized /\ y.conns = x.conns
            /\ y.stack = x.stack
        BY <1>1 DEF ChildState
      <3> HIDE DEF y
      <3> QED BY <3>1, <3>2 DEF ChildRuns
    <2> QED BY <2>1, <2>2
  <1>3. ASSUME NEW s, x.conns = {} /\ x.stack = << >> => s = << >>,
               child' = [child EXCEPT ![p] = [x EXCEPT !.stack = s]]
        PROVE  RunsOn(p)
    <2> DEFINE y == [x EXCEPT !.stack = s]
    <2> HIDE DEF x
    <2>1. y.state = x.state /\ y.initialized = x.initialized /\ y.conns = x.conns /\ y.stack = s
      BY <1>1 DEF ChildState
    <2>2. ChildRuns(x, y) BY <1>3, <2>1 DEF ChildRuns
    <2> HIDE DEF y
    <2> QED BY <1>3, <2>2, RunsTo DEF x, y
  <1>4. CASE BeginCreatePlugin(p, c)
    <2> DEFINE s == Append(x.stack, [instance |-> Head(requests[c]).instance, conn |-> c, making |-> TRUE])
    <2>1. child' = [child EXCEPT ![p] = [x EXCEPT !.stack = s]] BY <1>4 DEF BeginCreatePlugin
    <2>2. x.conns # {} BY <1>4 DEF BeginCreatePlugin, TakesRequest
    <2> HIDE DEF s
    <2> QED BY <1>3, <2>1, <2>2
  <1>5. CASE DestroyPlugin(p, c)
    <2> DEFINE j == Head(requests[c]).instance
    <2>1. CASE OnStack(p, j)
      <3> DEFINE y == [x EXCEPT !.destroyTimers = @ \cup {j}]
      <3>1. child' = [child EXCEPT ![p] = y] BY <1>5, <2>1 DEF DestroyPlugin
      <3> HIDE DEF j, x
      <3>2. /\ y.state = x.state /\ y.initialized = x.initialized /\ y.conns = x.conns
            /\ y.stack = x.stack
        BY <1>1 DEF ChildState
      <3>3. ChildRuns(x, y) BY <3>2 DEF ChildRuns
      <3> HIDE DEF y
      <3> QED BY <3>1, <3>3, RunsTo DEF x
    <2>2. CASE ~OnStack(p, j)
      <3>1. child' = [child EXCEPT ![p] = AfterRemoval(p, c, {j})] BY <1>5, <2>2 DEF DestroyPlugin
      <3> QED BY <1>2, <3>1, RunsTo
    <2> QED BY <2>1, <2>2
  <1>6. CASE WebProcessConnectionDidClose(p, c)
    <2>1. CASE child' = child BY <1>1, <2>1 DEF RunsOn, ChildRuns
    <2>2. CASE child' = [child EXCEPT ![p] = AfterRemoval(p, c, controllers[c])]
      BY <1>2, <2>2, RunsTo
    <2> QED BY <1>6, <2>1, <2>2 DEF WebProcessConnectionDidClose
  <1>7. CASE DestroyTimerFires(p, c, i)
    BY <1>2, <1>7, RunsTo DEF DestroyTimerFires
  <1>8. CASE EndCreatePlugin(p)
    <2> DEFINE s == Front(x.stack)
               d == Top(p).conn
               j == Top(p).instance
               popped == [child EXCEPT ![p] = [x EXCEPT !.stack = s]]
               y == [AfterRemoval(p, d, {j}) EXCEPT !.stack = Front(@)]
    <2>0. x.stack # << >> BY <1>8 DEF EndCreatePlugin
    <2>1. child' = popped \/ child' = [popped EXCEPT ![p] = y] BY <1>8 DEF EndCreatePlugin
    <2>2. CASE child' = popped BY <1>3, <2>0, <2>2
    <2>3. CASE child' = [popped EXCEPT ![p] = y]
      <3>1. child' = [child EXCEPT ![p] = y] BY <1>1, <2>3
      <3>2. ChildRuns(x, AfterRemoval(p, d, {j})) BY <1>2
      <3>3. /\ y.state = AfterRemoval(p, d, {j}).state
            /\ y.initialized = AfterRemoval(p, d, {j}).initialized
            /\ y.conns = AfterRemoval(p, d, {j}).conns
        OBVIOUS
      <3>4. ChildRuns(x, y) BY <2>0, <3>2, <3>3 DEF ChildRuns
      <3> QED BY <3>1, <3>4, RunsTo
    <2> QED BY <2>1, <2>2, <2>3
  <1>9. CASE LeavePlugin(p)
    <2> DEFINE s == Front(x.stack)
    <2>1. child' = [child EXCEPT ![p] = [x EXCEPT !.stack = s]] /\ x.stack # << >>
      BY <1>9 DEF LeavePlugin
    <2> HIDE DEF s
    <2> QED BY <1>3, <2>1
  <1>10. CASE EnterPlugin(p, i)
    <2> DEFINE s == <<[instance |-> i, conn |-> connOf[i], making |-> FALSE]>>
    <2>1. child' = [child EXCEPT ![p] = [x EXCEPT !.stack = s]] /\ x.conns # {}
      BY <1>10 DEF EnterPlugin
    <2> HIDE DEF s
    <2> QED BY <1>3, <2>1
  <1> QED BY <1>4, <1>5, <1>6, <1>7, <1>8, <1>9, <1>10

-----------------------------------------------------------------------------
(* The invariant of all proxies and processes.                              *)

UIOK == [site |-> site, proxy |-> proxy, toPlugin |-> toPlugin] \in UIPart

PInv ==
    /\ UIOK /\ fromPlugin \in [Path -> Seq(ChildMessage)]
    /\ \A p \in Path : PathOK(proxy[p], child[p], toPlugin[p], fromPlugin[p])

LEMMA UIFields ==
    /\ UIOK <=> /\ site \in [SiteCallback -> SiteState] /\ proxy \in [Path -> ProxyState]
                /\ toPlugin \in [Path -> Seq(PluginMessage)]
    /\ UIOK' <=> /\ site' \in [SiteCallback -> SiteState] /\ proxy' \in [Path -> ProxyState]
                 /\ toPlugin' \in [Path -> Seq(PluginMessage)]
  BY DEF UIOK, UIPart

(* What a step does to one path; the others may be asked for site data.     *)
LEMMA PathStep ==
    ASSUME PInv, NEW p \in Path, UIOK', fromPlugin' \in [Path -> Seq(ChildMessage)],
           PathOK(proxy'[p], child'[p], toPlugin'[p], fromPlugin'[p]),
           \A q \in Path \ {p} :
              /\ child'[q] = child[q] /\ fromPlugin'[q] = fromPlugin[q]
              /\ GrowsAt(proxy[q], toPlugin[q], proxy'[q], toPlugin'[q])
    PROVE  PInv'
  <1>1. ASSUME NEW q \in Path PROVE PathOK(proxy'[q], child'[q], toPlugin'[q], fromPlugin'[q])
    <2>1. CASE q = p BY <2>1
    <2>2. CASE q # p
      <3>1. PathOK(proxy[q], child[q], toPlugin[q], fromPlugin[q]) BY DEF PInv
      <3>2. proxy'[q] \in ProxyState /\ toPlugin'[q] \in Seq(PluginMessage) BY UIFields
      <3>3. GrowsAt(proxy[q], toPlugin[q], proxy'[q], toPlugin'[q]) /\ child'[q] = child[q]
            /\ fromPlugin'[q] = fromPlugin[q]
        BY <2>2
      <3>4. PathOK(proxy'[q], child[q], toPlugin'[q], fromPlugin[q])
        BY <3>1, <3>2, <3>3, PathGrows
      <3> QED BY <3>3, <3>4
    <2> QED BY <2>1, <2>2
  <1> QED BY <1>1 DEF PInv

LEMMA PInvStill ==
    ASSUME PInv, UNCHANGED <<proxy, toPlugin, site, child, fromPlugin>>
    PROVE  PInv'
  BY DEF PInv, UIOK

(* Only the process changes.                                                *)
LEMMA ChildAlone ==
    ASSUME PInv, NEW p \in Path, UNCHANGED <<proxy, toPlugin, site, fromPlugin>>,
           \A q \in Path \ {p} : child'[q] = child[q],
           PathOK(proxy[p], child'[p], toPlugin[p], fromPlugin[p])
    PROVE  PInv'
  <1>1. ASSUME NEW q \in Path PROVE PathOK(proxy[q], child'[q], toPlugin[q], fromPlugin[q])
    <2>1. CASE q = p BY <2>1
    <2>2. CASE q # p BY <2>2 DEF PInv
    <2> QED BY <2>1, <2>2
  <1> QED BY <1>1 DEF PInv, UIOK

(* One proxy and the messages between it and its process change.            *)
LEMMA ProxyAlone ==
    ASSUME PInv, IInv', NEW p \in Path, UNCHANGED site,
           NEW px, NEW tp, NEW fp, PathOK(px, child'[p], tp, fp),
           proxy' = [proxy EXCEPT ![p] = px], toPlugin' = [toPlugin EXCEPT ![p] = tp],
           fromPlugin' = [fromPlugin EXCEPT ![p] = fp],
           \A q \in Path \ {p} : child'[q] = child[q]
    PROVE  PInv'
  <1>1. /\ site \in [SiteCallback -> SiteState] /\ proxy \in [Path -> ProxyState]
        /\ toPlugin \in [Path -> Seq(PluginMessage)] /\ fromPlugin \in [Path -> Seq(ChildMessage)]
    BY UIFields DEF PInv
  <1>2. px \in ProxyState /\ tp \in Seq(PluginMessage) /\ fp \in Seq(ChildMessage)
    BY DEF PathOK, Typed
  <1>3. /\ proxy' \in [Path -> ProxyState] /\ toPlugin' \in [Path -> Seq(PluginMessage)]
        /\ fromPlugin' \in [Path -> Seq(ChildMessage)]
    BY <1>1, <1>2
  <1>4. UIOK' BY <1>1, <1>3, UIFields
  <1>5. proxy'[p] = px /\ toPlugin'[p] = tp /\ fromPlugin'[p] = fp BY <1>1
  <1>6. ASSUME NEW q \in Path \ {p}
        PROVE  /\ child'[q] = child[q] /\ fromPlugin'[q] = fromPlugin[q]
               /\ GrowsAt(proxy[q], toPlugin[q], proxy'[q], toPlugin'[q])
    <2>1. proxy'[q] = proxy[q] /\ toPlugin'[q] = toPlugin[q] /\ fromPlugin'[q] = fromPlugin[q]
      BY <1>1
    <2>2. toPlugin[q] \in Seq(PluginMessage) BY <1>1
    <2> QED BY <2>1, <2>2, GrowsStill
  <1> QED BY <1>3, <1>4, <1>5, <1>6, PathStep

-----------------------------------------------------------------------------
(* Steps of the plug-in processes.                                          *)

LEMMA RunningKeepsPInv ==
    ASSUME PInv, IInv', NEW p \in Path, RunsOn(p), UNCHANGED <<proxy, toPlugin, site, fromPlugin>>
    PROVE  PInv'
  <1>1. child'[p] \in ChildState BY DEF IInv
  <1>2. PathOK(proxy[p], child[p], toPlugin[p], fromPlugin[p]) BY DEF PInv
  <1>3. PathOK(proxy[p], child'[p], toPlugin[p], fromPlugin[p])
    BY <1>1, <1>2, PathRuns DEF RunsOn, ChildRuns
  <1> QED BY <1>3, ChildAlone DEF RunsOn

LEMMA GoneKeepsPInv ==
    ASSUME PInv, IInv, IInv', NEW p \in Path, Gone(p), child[p].state = "running",
           UNCHANGED <<proxy, toPlugin, site, fromPlugin>>
    PROVE  PInv'
  <1> DEFINE y == [NoChild EXCEPT !.state = "gone"]
  <1>1. child \in [Path -> ChildState] /\ child' = [child EXCEPT ![p] = y] BY DEF IInv, Gone
  <1>2. y.state = "gone" /\ y.conns = {} /\ y.stack = << >> BY DEF NoChild
  <1> HIDE DEF y
  <1>3. child'[p] = y /\ \A q \in Path \ {p} : child'[q] = child[q] BY <1>1
  <1>4. child'[p] \in ChildState BY DEF IInv
  <1>5. PathOK(proxy[p], child[p], toPlugin[p], fromPlugin[p]) BY DEF PInv
  <1>6. PathOK(proxy[p], child'[p], toPlugin[p], fromPlugin[p])
    BY <1>2, <1>3, <1>4, <1>5, PathLaunches
  <1> QED BY <1>3, <1>6, ChildAlone

LEMMA LaunchKeepsPInv ==
    ASSUME PInv, IInv, IInv', NEW p \in Path, LaunchProcess(p)
    PROVE  PInv'
  <1>1. PICK st \in {"running", "gone"} : child' = [child EXCEPT ![p].state = st]
    BY DEF LaunchProcess
  <1>2. /\ proxy[p].state = "launching" /\ child[p].state = "none"
        /\ UNCHANGED <<proxy, toPlugin, site, fromPlugin>>
    BY DEF LaunchProcess, uiVars
  <1>3. child \in [Path -> ChildState] /\ child' \in [Path -> ChildState] BY DEF IInv
  <1>4. /\ child'[p].state = st /\ child'[p].conns = child[p].conns
        /\ child'[p].stack = child[p].stack
        /\ \A q \in Path \ {p} : child'[q] = child[q]
    BY <1>1, <1>3 DEF ChildState
  <1>5. PathOK(proxy[p], child[p], toPlugin[p], fromPlugin[p]) BY DEF PInv
  <1>6. child[p].conns = {} /\ child[p].stack = << >> BY <1>2, <1>5 DEF PathOK, Life
  <1>7. child'[p] \in ChildState BY <1>3
  <1>8. PathOK(proxy[p], child'[p], toPlugin[p], fromPlugin[p])
    BY <1>2, <1>4, <1>5, <1>6, <1>7, PathLaunches
  <1> QED BY <1>2, <1>4, <1>8, ChildAlone

(* The process dispatches a message of the UI process.                      *)
LEMMA TakenMessage ==
    ASSUME PInv, NEW p \in Path, NEW k \in DOMAIN toPlugin[p], Takes(p, k)
    PROVE  /\ proxy[p].state = "running" /\ child[p].state = "running"
           /\ toPlugin[p] \in Seq(PluginMessage) /\ toPlugin[p][k] \in PluginMessage
           /\ child[p].stack = << >> => k = 1
           /\ child[p].initialized \/ toPlugin[p][k].op = "initialize"
  <1>1. PathOK(proxy[p], child[p], toPlugin[p], fromPlugin[p]) BY DEF PInv
  <1>2. child[p].state = "running" /\ (child[p].stack = << >> => k = 1) BY DEF Takes
  <1>3. toPlugin[p] \in Seq(PluginMessage) BY <1>1 DEF PathOK, Typed
  <1>4. proxy[p].state = "running" /\ (child[p].initialized \/ toPlugin[p][k].op = "initialize")
    BY <1>1, <1>2, PathTakes
  <1> QED BY <1>2, <1>3, <1>4

LEMMA HandledKeepsPInv ==
    ASSUME PInv, IInv', NEW p \in Path, NEW k \in DOMAIN toPlugin[p], Takes(p, k), Take(p, k),
           UNCHANGED <<proxy, site>>, NEW fp \in Seq(ChildMessage),
           fromPlugin' = [fromPlugin EXCEPT ![p] = fp],
           Count(fp, Made) = Count(fromPlugin[p], Made) + (IF toPlugin[p][k] \in Connects THEN 1 ELSE 0),
           child'[p].state = "running", child'[p].initialized,
           \A q \in Path \ {p} : child'[q] = child[q]
    PROVE  PInv'
  <1> DEFINE tp == RemoveAt(toPlugin[p], k)
  <1>1. child'[p] \in ChildState BY DEF IInv
  <1>2. PathOK(proxy[p], child[p], toPlugin[p], fromPlugin[p]) BY DEF PInv
  <1>3. child[p].state = "running" /\ (child[p].stack = << >> => k = 1) BY TakenMessage
  <1>4. PathOK(proxy[p], child'[p], tp, fp) BY <1>1, <1>2, <1>3, PathHandles
  <1>5. toPlugin' = [toPlugin EXCEPT ![p] = tp] BY DEF Take
  <1> HIDE DEF tp
  <1>6. proxy \in [Path -> ProxyState] BY UIFields DEF PInv
  <1>7. proxy' = [proxy EXCEPT ![p] = proxy[p]] BY <1>6
  <1> QED BY <1>4, <1>5, <1>7, ProxyAlone

LEMMA MessageSteps ==
    ASSUME PInv, IInv, IInv', NEW p \in Path,
           ReceiveInitialize(p) \/ CreateConnection(p) \/ HandleSiteData(p)
    PROVE  PInv'
  <1>0. /\ child \in [Path -> ChildState] /\ child[p] \in ChildState
        /\ fromPlugin \in [Path -> Seq(ChildMessage)] /\ nconn \in Nat
    BY DEF IInv, PInv
  <1>1. CASE ReceiveInitialize(p)
    <2>1. PICK k \in DOMAIN toPlugin[p] :
             /\ Takes(p, k) /\ toPlugin[p][k].op = "initialize" /\ Take(p, k)
             /\ child' = [child EXCEPT ![p].initialized = TRUE]
             /\ UNCHANGED <<proxy, site, fromPlugin>>
      BY <1>1 DEF ReceiveInitialize, uiVars
    <2>2. toPlugin[p][k] \notin Connects BY <2>1 DEF Connects
    <2>3. child'[p].state = "running" /\ child'[p].initialized /\ \A q \in Path \ {p} : child'[q] = child[q]
      BY <1>0, <2>1 DEF ChildState, Takes
    <2> DEFINE fp == fromPlugin[p]
    <2>4. fp \in Seq(ChildMessage) /\ fromPlugin' = [fromPlugin EXCEPT ![p] = fp] BY <1>0, <2>1
    <2> HIDE DEF fp
    <2>5. Count(fp, Made) \in Nat BY <2>4, CountType
    <2>6. Count(fp, Made) = Count(fromPlugin[p], Made) + (IF toPlugin[p][k] \in Connects THEN 1 ELSE 0)
      BY <2>2, <2>5 DEF fp
    <2> QED BY <2>1, <2>3, <2>4, <2>6, HandledKeepsPInv
  <1>2. CASE CreateConnection(p)
    <2> DEFINE m == [op |-> "connection", conn |-> nconn + 1]
               fp == Append(fromPlugin[p], m)
    <2>1. PICK k \in DOMAIN toPlugin[p] :
             /\ Takes(p, k) /\ toPlugin[p][k].op = "connect" /\ Take(p, k)
             /\ child' = [child EXCEPT ![p].conns = @ \cup {nconn + 1}, ![p].counter = @ + 1,
                                       ![p].timer = FALSE]
             /\ fromPlugin' = [fromPlugin EXCEPT ![p] = fp]
             /\ UNCHANGED <<proxy, site>>
      BY <1>2 DEF CreateConnection, uiVars
    <2>2. /\ toPlugin[p][k] \in PluginMessage /\ child[p].state = "running" /\ child[p].initialized
      BY <2>1, TakenMessage
    <2>3. toPlugin[p][k] \in Connects BY <2>1, <2>2 DEF Connects
    <2>4. child'[p].state = "running" /\ child'[p].initialized /\ \A q \in Path \ {p} : child'[q] = child[q]
      BY <1>0, <2>1, <2>2 DEF ChildState
    <2>5. m \in ChildMessage /\ m \in Made BY <1>0 DEF ChildMessage, Made
    <2>6. fromPlugin[p] \in Seq(ChildMessage) BY <1>0
    <2> HIDE DEF m
    <2>7. fp \in Seq(ChildMessage) /\ Count(fp, Made) = Count(fromPlugin[p], Made) + 1
      BY <2>5, <2>6, CountAppend
    <2> HIDE DEF fp
    <2>8. Count(fp, Made) = Count(fromPlugin[p], Made) + (IF toPlugin[p][k] \in Connects THEN 1 ELSE 0)
      BY <2>3, <2>7
    <2> QED BY <2>1, <2>4, <2>7, <2>8, HandledKeepsPInv
  <1>3. CASE HandleSiteData(p)
    <2>1. PICK k \in DOMAIN toPlugin[p] :
             /\ Takes(p, k) /\ toPlugin[p][k].op = "site" /\ Take(p, k)
             /\ child' = [child EXCEPT ![p].timer = (child[p].counter = 0)]
             /\ fromPlugin' = [fromPlugin EXCEPT ![p] =
                   Append(@, [op |-> "site", callback |-> toPlugin[p][k].callback])]
             /\ UNCHANGED <<proxy, site>>
      BY <1>3 DEF HandleSiteData, uiVars
    <2>2. /\ toPlugin[p][k] \in PluginMessage /\ child[p].state = "running" /\ child[p].initialized
      BY <2>1, TakenMessage
    <2>3. toPlugin[p][k] \notin Connects /\ toPlugin[p][k].callback \in SiteCallback
      BY <2>1, <2>2 DEF Connects, PluginMessage, SiteMessage
    <2>4. child'[p].state = "running" /\ child'[p].initialized /\ \A q \in Path \ {p} : child'[q] = child[q]
      <3> DEFINE b == child[p].counter = 0
      <3>1. child' = [child EXCEPT ![p].timer = b] BY <2>1
      <3> HIDE DEF b
      <3> QED BY <1>0, <2>2, <3>1 DEF ChildState
    <2> DEFINE m == [op |-> "site", callback |-> toPlugin[p][k].callback]
               fp == Append(fromPlugin[p], m)
    <2>5. m \in ChildMessage /\ m \notin Made BY <2>3 DEF ChildMessage, Made
    <2>6. fromPlugin[p] \in Seq(ChildMessage) BY <1>0
    <2>6a. fromPlugin' = [fromPlugin EXCEPT ![p] = fp] BY <2>1
    <2> HIDE DEF m
    <2>7. fp \in Seq(ChildMessage) /\ Count(fp, Made) = Count(fromPlugin[p], Made) + 0
      BY <2>5, <2>6, CountAppend
    <2> HIDE DEF fp
    <2>8. Count(fp, Made) = Count(fromPlugin[p], Made) + (IF toPlugin[p][k] \in Connects THEN 1 ELSE 0)
      BY <2>3, <2>7
    <2> QED BY <2>1, <2>4, <2>6a, <2>7, <2>8, HandledKeepsPInv
  <1> QED BY <1>1, <1>2, <1>3

-----------------------------------------------------------------------------
(* Steps of the UI process.                                                 *)

LEMMA NextMessage ==
    ASSUME AskingOK, NEW w \in Web, toUI[w] # << >>
    PROVE  /\ Head(toUI[w]) \in Asking /\ Head(toUI[w]).instance \in Instance
           /\ PathOf[Head(toUI[w]).instance] \in Path
  <1>1. toUI[w] \in Seq(Asking) BY DEF AskingOK
  <1>2. Head(toUI[w]) \in Asking BY <1>1
  <1> QED BY <1>2, PathsAndWebs DEF Asking

(* What getPluginProcessConnection makes of a proxy.                        *)
AskedAt(px, tp, py, tq, i) ==
    /\ py \in ProxyState /\ tq \in Seq(PluginMessage) /\ py.replies = Append(px.replies, i)
    /\ \/ /\ px.state \in {"none", "launching"} /\ py.state = "launching"
          /\ py.requests = px.requests + 1 /\ tq = tp
       \/ /\ px.state = "running" /\ py.state = "running" /\ py.requests = px.requests
          /\ \E m \in Connects : tq = Append(tp, m)

LEMMA Asked ==
    ASSUME PInv, NEW p \in Path, NEW i \in Instance, GetPluginProcessConnection(p, i)
    PROVE  \E px, tp : /\ proxy' = [proxy EXCEPT ![p] = px]
                       /\ toPlugin' = [toPlugin EXCEPT ![p] = tp]
                       /\ AskedAt(proxy[p], toPlugin[p], px, tp, i)
  <1> DEFINE py == GetOrCreatePluginProcess(proxy, p)
             r == Append(proxy[p].replies, i)
  <1>1. proxy \in [Path -> ProxyState] /\ toPlugin \in [Path -> Seq(PluginMessage)]
    BY UIFields DEF PInv
  <1>2. /\ py \in [Path -> ProxyState] /\ py[p].state \in {"launching", "running"}
        /\ py[p].state = proxy[p].state \/ (proxy[p].state = "none" /\ py[p].state = "launching")
        /\ py[p].replies = proxy[p].replies /\ py[p].requests = proxy[p].requests
        /\ \A q \in Path \ {p} : py[q] = proxy[q]
    BY <1>1, GetOrCreated
  <1>3. py[p] \in ProxyState /\ proxy[p] \in ProxyState BY <1>1, <1>2
  <1>4. py[p].requests \in Nat /\ r \in Seq(Instance) BY <1>3, ProxyFields
  <1>5. CASE py[p].state = "launching"
    <2> DEFINE n == py[p].requests + 1
               x == [py[p] EXCEPT !.replies = r, !.requests = n]
    <2>1. proxy' = [py EXCEPT ![p].replies = Append(@, i), ![p].requests = @ + 1]
          /\ UNCHANGED toPlugin
      BY <1>5 DEF GetPluginProcessConnection
    <2>2. proxy' = [py EXCEPT ![p] = x]
      <3> HIDE DEF py
      <3> QED BY <1>2, <1>3, <2>1 DEF ProxyState
    <2>3. n \in Nat BY <1>4
    <2> HIDE DEF n, r, py
    <2>4. /\ x \in ProxyState /\ x.state = py[p].state /\ x.replies = r /\ x.requests = n
      BY <1>3, <1>4, <2>3 DEF ProxyState
    <2> HIDE DEF x
    <2>5. proxy' = [proxy EXCEPT ![p] = x] BY <1>1, <1>2, <2>2
    <2> DEFINE tp == toPlugin[p]
    <2>6. toPlugin' = [toPlugin EXCEPT ![p] = tp] /\ tp \in Seq(PluginMessage) BY <1>1, <2>1
    <2>7. x.requests = proxy[p].requests + 1 BY <1>2, <2>4 DEF n
    <2>8. AskedAt(proxy[p], toPlugin[p], x, tp, i) BY <1>2, <1>5, <2>4, <2>6, <2>7 DEF AskedAt, r
    <2> QED BY <2>5, <2>6, <2>8
  <1>6. CASE py[p].state = "running"
    <2> DEFINE m == CreateWebProcessConnection(TRUE)
               x == [py[p] EXCEPT !.replies = r]
               tp == Append(toPlugin[p], m)
    <2>1. proxy' = [py EXCEPT ![p].replies = Append(@, i)] /\ toPlugin' = [toPlugin EXCEPT ![p] = tp]
      BY <1>6 DEF GetPluginProcessConnection
    <2>2. proxy' = [py EXCEPT ![p] = x]
      <3> HIDE DEF py
      <3> QED BY <1>2, <1>3, <2>1 DEF ProxyState
    <2>3. m \in Connects /\ m \in PluginMessage
      BY SiteMessages DEF Connects, CreateWebProcessConnection
    <2> HIDE DEF r, py, m
    <2>4. /\ x \in ProxyState /\ x.state = py[p].state /\ x.replies = r
          /\ x.requests = py[p].requests
      BY <1>3, <1>4 DEF ProxyState
    <2> HIDE DEF x
    <2>5. proxy' = [proxy EXCEPT ![p] = x] BY <1>1, <1>2, <2>2
    <2>6. tp \in Seq(PluginMessage) BY <1>1, <2>3
    <2>7. AskedAt(proxy[p], toPlugin[p], x, tp, i)
      BY <1>2, <1>6, <2>3, <2>4, <2>6 DEF AskedAt, r
    <2> HIDE DEF tp
    <2> QED BY <2>1, <2>5, <2>7
  <1> QED BY <1>2, <1>5, <1>6

LEMMA GetConnectionKeepsPInv ==
    ASSUME PInv, IInv', AskingOK, NEW w \in Web, ReceiveGetConnection(w)
    PROVE  PInv'
  <1> DEFINE i == Head(toUI[w]).instance
             p == PathOf[i]
  <1>1. toUI[w] # << >> /\ GetPluginProcessConnection(p, i) /\ UNCHANGED <<site, child, fromPlugin>>
    BY DEF ReceiveGetConnection
  <1>2. i \in Instance /\ p \in Path BY <1>1, NextMessage
  <1> HIDE DEF p, i
  <1>3. PICK px, tp : /\ proxy' = [proxy EXCEPT ![p] = px]
                      /\ toPlugin' = [toPlugin EXCEPT ![p] = tp]
                      /\ AskedAt(proxy[p], toPlugin[p], px, tp, i)
    BY <1>1, <1>2, Asked
  <1>4. PathOK(proxy[p], child[p], toPlugin[p], fromPlugin[p]) BY <1>2 DEF PInv
  <1>5. PICK m \in Connects :
            /\ px \in ProxyState /\ tp \in Seq(PluginMessage)
            /\ px.replies = Append(proxy[p].replies, i)
            /\ \/ /\ proxy[p].state \in {"none", "launching"} /\ px.state = "launching"
                  /\ px.requests = proxy[p].requests + 1 /\ tp = toPlugin[p]
               \/ /\ proxy[p].state = "running" /\ px.state = "running"
                  /\ px.requests = proxy[p].requests /\ tp = Append(toPlugin[p], m)
    <2>1. Connects # {}
      <3>1. CreateWebProcessConnection(TRUE) \in Connects
        BY SiteMessages DEF Connects, CreateWebProcessConnection
      <3> QED BY <3>1
    <2> QED BY <1>3, <2>1 DEF AskedAt
  <1>6. PathOK(px, child[p], tp, fromPlugin[p]) BY <1>2, <1>4, <1>5, PathAsked
  <1>7. fromPlugin' = [fromPlugin EXCEPT ![p] = fromPlugin[p]] BY <1>1, <1>2 DEF PInv
  <1> QED BY <1>1, <1>2, <1>3, <1>6, <1>7, ProxyAlone

(* What didFinishLaunching sends.                                           *)
LEMMA LaunchMessages ==
    ASSUME NEW a \in Seq(SiteCallback), NEW b \in Seq(SiteCallback), NEW n \in Nat
    PROVE  LET t == <<InitializePluginProcess>> \o SiteRequests(a) \o SiteRequests(b) \o Unmarked(n)
           IN  /\ t \in Seq(PluginMessage) /\ t # << >> /\ t[1].op = "initialize"
               /\ Count(t, Connects) = n
  <1> DEFINE i == <<InitializePluginProcess>>
             sa == SiteRequests(a)
             sb == SiteRequests(b)
             u == Unmarked(n)
  <1>1. i \in Seq(PluginMessage) /\ i # << >> /\ i[1].op = "initialize" /\ Count(i, Connects) = 0
    <2>1. InitializePluginProcess \in PluginMessage /\ InitializePluginProcess \notin Connects
          /\ InitializePluginProcess.op = "initialize"
      BY SiteMessages DEF Connects, InitializePluginProcess
    <2>2. i \in Seq(PluginMessage) /\ i # << >> /\ i[1] = InitializePluginProcess
          /\ \A k \in DOMAIN i : i[k] = InitializePluginProcess
      BY <2>1
    <2>3. Count(i, Connects) = 0 BY <2>1, <2>2, CountNone
    <2> QED BY <2>1, <2>2, <2>3
  <1>2. ASSUME NEW s \in Seq(SiteCallback)
        PROVE  SiteRequests(s) \in Seq(PluginMessage) /\ Count(SiteRequests(s), Connects) = 0
    <2> DEFINE r == SiteRequests(s)
    <2>1. Len(s) \in Nat /\ DOMAIN s = 1..Len(s) OBVIOUS
    <2>2. \A k \in 1..Len(s) : SiteDataMessage(s[k]) \in PluginMessage /\ SiteDataMessage(s[k]) \notin Connects
      BY SiteMessages DEF Connects, SiteDataMessage
    <2>3. r = [k \in 1..Len(s) |-> SiteDataMessage(s[k])] BY <2>1 DEF SiteRequests
    <2>4. r \in [1..Len(s) -> PluginMessage] /\ \A k \in DOMAIN r : r[k] \notin Connects BY <2>2, <2>3
    <2> HIDE DEF r
    <2>5. r \in Seq(PluginMessage) BY <2>1, <2>4
    <2>6. Count(r, Connects) = 0 BY <2>4, <2>5, CountNone
    <2> QED BY <2>5, <2>6 DEF r
  <1>3. u \in Seq(PluginMessage) /\ Count(u, Connects) = n
    <2> DEFINE m == CreateWebProcessConnection(FALSE)
    <2>1. m \in PluginMessage /\ m \in Connects
      BY SiteMessages DEF Connects, CreateWebProcessConnection
    <2>2. u = [k \in 1..n |-> m] BY DEF Unmarked
    <2> HIDE DEF m
    <2>3. u \in [1..n -> PluginMessage] /\ \A k \in DOMAIN u : u[k] \in Connects BY <2>1, <2>2
    <2>4. DOMAIN u = 1..n BY <2>2
    <2> HIDE DEF u
    <2>5. u \in Seq(PluginMessage) /\ Len(u) = n BY <2>3, <2>4
    <2>6. Count(u, Connects) = Len(u) BY <2>3, <2>5, CountAll
    <2> QED BY <2>5, <2>6
  <1>4. sa \in Seq(PluginMessage) /\ Count(sa, Connects) = 0 BY <1>2
  <1>5. sb \in Seq(PluginMessage) /\ Count(sb, Connects) = 0 BY <1>2
  <1> HIDE DEF i, sa, sb, u
  <1> DEFINE x == i \o sa
             y == x \o sb
             z == y \o u
  <1>6. x \in Seq(PluginMessage) /\ x # << >> /\ x[1] = i[1] /\ Count(x, Connects) = 0
    <2>1. x \in Seq(PluginMessage) /\ x # << >> /\ x[1] = i[1] BY <1>1, <1>4
    <2>2. Count(x, Connects) = Count(i, Connects) + Count(sa, Connects) BY <1>1, <1>4, CountConcat
    <2> QED BY <1>1, <1>4, <2>1, <2>2
  <1> HIDE DEF x
  <1>7. y \in Seq(PluginMessage) /\ y # << >> /\ y[1] = i[1] /\ Count(y, Connects) = 0
    <2>1. y \in Seq(PluginMessage) /\ y # << >> /\ y[1] = x[1] BY <1>5, <1>6
    <2>2. Count(y, Connects) = Count(x, Connects) + Count(sb, Connects) BY <1>5, <1>6, CountConcat
    <2> QED BY <1>5, <1>6, <2>1, <2>2
  <1> HIDE DEF y
  <1>8. z \in Seq(PluginMessage) /\ z # << >> /\ z[1] = i[1] /\ Count(z, Connects) = n
    <2>1. z \in Seq(PluginMessage) /\ z # << >> /\ z[1] = y[1] BY <1>3, <1>7
    <2>2. Count(z, Connects) = Count(y, Connects) + Count(u, Connects) BY <1>3, <1>7, CountConcat
    <2> QED BY <1>3, <1>7, <2>1, <2>2
  <1> HIDE DEF z
  <1>9. z = <<InitializePluginProcess>> \o SiteRequests(a) \o SiteRequests(b) \o Unmarked(n)
    BY Zenon DEF x, y, z, i, sa, sb, u
  <1> QED BY <1>1, <1>8, <1>9, Zenon

LEMMA LaunchedKeepsPInv ==
    ASSUME PInv, IInv', NEW p \in Path, DidFinishLaunching(p)
    PROVE  PInv'
  <1> DEFINE x == proxy[p]
             e == << >>
             y == [x EXCEPT !.state = "running", !.requests = 0, !.getRequests = e, !.clearRequests = e]
             t == <<InitializePluginProcess>> \o SiteRequests(x.getRequests)
                     \o SiteRequests(x.clearRequests) \o Unmarked(x.requests)
  <1>1. /\ x.state = "launching" /\ child[p].state # "none" /\ toPlugin' = [toPlugin EXCEPT ![p] = t]
        /\ UNCHANGED <<site, child, fromPlugin>>
    BY DEF DidFinishLaunching
  <1>2. proxy \in [Path -> ProxyState] /\ x \in ProxyState BY UIFields DEF PInv
  <1>3. proxy' = [proxy EXCEPT ![p] = y] BY <1>2 DEF DidFinishLaunching, ProxyState
  <1>4. /\ x.getRequests \in Seq(SiteCallback) /\ x.clearRequests \in Seq(SiteCallback)
        /\ x.requests \in Nat
    BY <1>2, ProxyFields
  <1>5. t \in Seq(PluginMessage) /\ t # << >> /\ t[1].op = "initialize" /\ Count(t, Connects) = x.requests
    BY <1>4, LaunchMessages
  <1>6. e \in Seq(SiteCallback) OBVIOUS
  <1>7. PathOK(x, child[p], toPlugin[p], fromPlugin[p]) BY DEF PInv
  <1> HIDE DEF x, t, e
  <1>8. y \in ProxyState /\ y.state = "running" /\ y.requests = 0 /\ y.replies = x.replies
    BY <1>2, <1>6 DEF ProxyState
  <1> HIDE DEF y
  <1>9. PathOK(y, child[p], t, fromPlugin[p]) BY <1>1, <1>5, <1>7, <1>8, PathLaunched
  <1>10. fromPlugin' = [fromPlugin EXCEPT ![p] = fromPlugin[p]] BY <1>1 DEF PInv
  <1> QED BY <1>1, <1>3, <1>9, <1>10, ProxyAlone

LEMMA ConnectedKeepsPInv ==
    ASSUME PInv, IInv', NEW p \in Path, DidCreateWebProcessConnection(p)
    PROVE  PInv'
  <1> DEFINE x == proxy[p]
             r == Tail(x.replies)
             y == [x EXCEPT !.replies = r]
             fp == Tail(fromPlugin[p])
  <1>1. /\ x.state = "running" /\ fromPlugin[p] # << >> /\ Head(fromPlugin[p]).op = "connection"
        /\ x.replies # << >> /\ fromPlugin' = [fromPlugin EXCEPT ![p] = fp]
        /\ UNCHANGED <<site, child, toPlugin>>
    BY DEF DidCreateWebProcessConnection
  <1>2. proxy \in [Path -> ProxyState] /\ x \in ProxyState BY UIFields DEF PInv
  <1>3. proxy' = [proxy EXCEPT ![p] = y] BY <1>2 DEF DidCreateWebProcessConnection
  <1>4. x.replies \in Seq(Instance) BY <1>2, ProxyFields
  <1>5. r \in Seq(Instance) BY <1>1, <1>4
  <1>6. PathOK(x, child[p], toPlugin[p], fromPlugin[p]) BY DEF PInv
  <1> HIDE DEF x, r
  <1>7. y \in ProxyState /\ y.state = x.state /\ y.requests = x.requests /\ y.replies = r
    BY <1>2, <1>5 DEF ProxyState
  <1> HIDE DEF y
  <1>8. PathOK(y, child[p], toPlugin[p], fp) BY <1>1, <1>6, <1>7, PathAnswers DEF r
  <1> HIDE DEF fp
  <1>9. toPlugin' = [toPlugin EXCEPT ![p] = toPlugin[p]]
    <2>1. toPlugin \in [Path -> Seq(PluginMessage)] BY UIFields DEF PInv
    <2> QED BY <1>1, <2>1
  <1> QED BY <1>1, <1>3, <1>8, <1>9, ProxyAlone

(* A request for site data begins, or goes on.                              *)
LEMMA AskedForSites ==
    ASSUME NEW u \in UIPart, NEW s \in SiteCallback, InUI(ForNextPlugin(u, s))
    PROVE  /\ UIOK'
           /\ \A q \in Path : GrowsAt(u.proxy[q], u.toPlugin[q], proxy'[q], toPlugin'[q])
  <1> DEFINE v == ForNextPlugin(u, s)
  <1>1. v \in UIPart /\ Grows(u, v) BY GoesOn
  <1>2. site' = v.site /\ proxy' = v.proxy /\ toPlugin' = v.toPlugin BY DEF InUI
  <1> HIDE DEF v
  <1>3. UIOK' BY <1>1, <1>2, UIFields DEF UIPart
  <1> QED BY <1>1, <1>2, <1>3 DEF Grows

LEMMA SiteDataKeepsPInv ==
    ASSUME PInv, NEW s \in SiteCallback, GetSiteData(s)
    PROVE  PInv'
  <1> DEFINE a == [state |-> "running", left |-> Plugins]
             si == [site EXCEPT ![s] = a]
             u == [site |-> si, proxy |-> proxy, toPlugin |-> toPlugin]
  <1>1. InUI(ForNextPlugin(u, s)) /\ UNCHANGED <<child, fromPlugin>> BY DEF GetSiteData
  <1>2. /\ site \in [SiteCallback -> SiteState] /\ proxy \in [Path -> ProxyState]
        /\ toPlugin \in [Path -> Seq(PluginMessage)]
    BY UIFields DEF PInv
  <1>3. a \in SiteState BY PluginAssumption DEF SiteState, Path
  <1> HIDE DEF a
  <1>4. si \in [SiteCallback -> SiteState] BY <1>2, <1>3
  <1> HIDE DEF si
  <1>5. u \in UIPart BY <1>2, <1>4 DEF UIPart
  <1>6. u.proxy = proxy /\ u.toPlugin = toPlugin OBVIOUS
  <1> HIDE DEF u
  <1>7. UIOK' /\ \A q \in Path : GrowsAt(u.proxy[q], u.toPlugin[q], proxy'[q], toPlugin'[q])
    BY <1>1, <1>5, AskedForSites
  <1>8. proxy' \in [Path -> ProxyState] /\ toPlugin' \in [Path -> Seq(PluginMessage)]
    BY <1>7, UIFields
  <1>9. ASSUME NEW q \in Path PROVE PathOK(proxy'[q], child[q], toPlugin'[q], fromPlugin[q])
    <2>1. PathOK(proxy[q], child[q], toPlugin[q], fromPlugin[q]) BY DEF PInv
    <2>2. GrowsAt(proxy[q], toPlugin[q], proxy'[q], toPlugin'[q]) BY <1>6, <1>7
    <2>3. proxy'[q] \in ProxyState /\ toPlugin'[q] \in Seq(PluginMessage) BY <1>8
    <2> QED BY <2>1, <2>2, <2>3, PathGrows
  <1> QED BY <1>1, <1>7, <1>9 DEF PInv

(* The answer of a plug-in process to such a request.                       *)
LEMMA SiteAnswered ==
    ASSUME PInv, NEW p \in Path, DidGetSiteData(p)
    PROVE  \E px \in ProxyState :
              /\ px.state = proxy[p].state /\ px.requests = proxy[p].requests
              /\ px.replies = proxy[p].replies
              /\ GrowsAt(px, toPlugin[p], proxy'[p], toPlugin'[p])
              /\ \A q \in Path \ {p} : GrowsAt(proxy[q], toPlugin[q], proxy'[q], toPlugin'[q])
              /\ UIOK'
  <1> DEFINE s == Head(fromPlugin[p]).callback
             x == proxy[p]
             S == x.sites \ {s}
             y == [x EXCEPT !.sites = S]
             py == [proxy EXCEPT ![p] = y]
             u == [site |-> site, proxy |-> py, toPlugin |-> toPlugin]
  <1>1. fromPlugin[p] # << >> /\ Head(fromPlugin[p]).op = "site" BY DEF DidGetSiteData
  <1>2. /\ site \in [SiteCallback -> SiteState] /\ proxy \in [Path -> ProxyState]
        /\ toPlugin \in [Path -> Seq(PluginMessage)] /\ x \in ProxyState
        /\ fromPlugin \in [Path -> Seq(ChildMessage)]
    BY UIFields DEF PInv
  <1>3. s \in SiteCallback
    <2>1. fromPlugin[p] \in Seq(ChildMessage) BY <1>2
    <2>2. Head(fromPlugin[p]) \in ChildMessage BY <1>1, <2>1
    <2> QED BY <1>1, <2>2 DEF ChildMessage
  <1>4. S \in SiteSet
    <2>1. x.sites \in SiteSet BY <1>2, ProxyFields
    <2> QED BY <2>1, FS_RemoveElement, FS_Subset DEF SiteSet
  <1>5. InUI(ForNextPlugin(u, s))
    <2>1. [proxy EXCEPT ![p].sites = @ \ {s}] = py BY <1>2
    <2> HIDE DEF py, s
    <2> QED BY <2>1 DEF DidGetSiteData, s
  <1> HIDE DEF s, x, S
  <1>6. y \in ProxyState /\ y.state = x.state /\ y.requests = x.requests /\ y.replies = x.replies
    BY <1>2, <1>4 DEF ProxyState
  <1> HIDE DEF y
  <1>7. py \in [Path -> ProxyState] /\ py[p] = y /\ \A q \in Path \ {p} : py[q] = proxy[q]
    BY <1>2, <1>6
  <1> HIDE DEF py
  <1>8. u \in UIPart /\ u.proxy = py /\ u.toPlugin = toPlugin BY <1>2, <1>7 DEF UIPart
  <1> HIDE DEF u
  <1>9. UIOK' /\ \A q \in Path : GrowsAt(u.proxy[q], u.toPlugin[q], proxy'[q], toPlugin'[q])
    BY <1>3, <1>5, <1>8, AskedForSites
  <1>10. GrowsAt(y, toPlugin[p], proxy'[p], toPlugin'[p])
         /\ \A q \in Path \ {p} : GrowsAt(proxy[q], toPlugin[q], proxy'[q], toPlugin'[q])
    BY <1>7, <1>8, <1>9
  <1> QED BY <1>6, <1>9, <1>10 DEF x

LEMMA SiteAnswerKeepsPInv ==
    ASSUME PInv, NEW p \in Path, DidGetSiteData(p)
    PROVE  PInv'
  <1> DEFINE fp == Tail(fromPlugin[p])
  <1>1. PICK px \in ProxyState :
              /\ px.state = proxy[p].state /\ px.requests = proxy[p].requests
              /\ px.replies = proxy[p].replies
              /\ GrowsAt(px, toPlugin[p], proxy'[p], toPlugin'[p])
              /\ \A q \in Path \ {p} : GrowsAt(proxy[q], toPlugin[q], proxy'[q], toPlugin'[q])
              /\ UIOK'
    BY SiteAnswered
  <1>2. /\ proxy[p].state = "running" /\ fromPlugin[p] # << >> /\ Head(fromPlugin[p]).op = "site"
        /\ fromPlugin' = [fromPlugin EXCEPT ![p] = fp] /\ UNCHANGED child
    BY DEF DidGetSiteData
  <1>3. PathOK(proxy[p], child[p], toPlugin[p], fromPlugin[p]) BY DEF PInv
  <1>4. PathOK(px, child[p], toPlugin[p], fp) BY <1>1, <1>2, <1>3, PathAnswers
  <1>5. proxy'[p] \in ProxyState /\ toPlugin'[p] \in Seq(PluginMessage) BY <1>1, UIFields
  <1>6. PathOK(proxy'[p], child[p], toPlugin'[p], fp) BY <1>1, <1>4, <1>5, PathGrows
  <1>7. fp \in Seq(ChildMessage) BY <1>6 DEF PathOK, Typed
  <1> HIDE DEF fp
  <1>8. fromPlugin' \in [Path -> Seq(ChildMessage)] /\ fromPlugin'[p] = fp
        /\ \A q \in Path \ {p} : fromPlugin'[q] = fromPlugin[q]
    BY <1>2, <1>7 DEF PInv
  <1> QED BY <1>1, <1>2, <1>6, <1>8, PathStep

LEMMA ClosedKeepsPInv ==
    ASSUME PInv, IInv, NEW p \in Path, DidClose(p)
    PROVE  PInv'
  <1>1. /\ SitesGoOn(p) /\ child' = [child EXCEPT ![p] = NoChild]
        /\ fromPlugin' = [fromPlugin EXCEPT ![p] = << >>]
    BY DEF DidClose, CrashedOrFailedToLaunch
  <1>2. [site |-> site, proxy |-> proxy, toPlugin |-> toPlugin] \in UIPart BY DEF PInv, UIOK
  <1>3. /\ [site |-> site', proxy |-> proxy', toPlugin |-> toPlugin'] \in UIPart
        /\ proxy'[p] = NoProxy /\ toPlugin'[p] = << >>
        /\ \A q \in Path \ {p} : GrowsAt(proxy[q], toPlugin[q], proxy'[q], toPlugin'[q])
    BY <1>1, <1>2, SitesMoved
  <1>4. UIOK' BY <1>3 DEF UIOK
  <1>5. << >> \in Seq(ChildMessage) OBVIOUS
  <1>6. /\ fromPlugin' \in [Path -> Seq(ChildMessage)] /\ fromPlugin'[p] = << >>
        /\ \A q \in Path \ {p} : fromPlugin'[q] = fromPlugin[q]
    BY <1>1, <1>5 DEF PInv
  <1>7. child'[p] = NoChild /\ \A q \in Path \ {p} : child'[q] = child[q] BY <1>1 DEF IInv
  <1>8. PathOK(proxy'[p], child'[p], toPlugin'[p], fromPlugin'[p])
    BY <1>3, <1>6, <1>7, PathEnds
  <1> QED BY <1>3, <1>4, <1>6, <1>7, <1>8, PathStep

-----------------------------------------------------------------------------

LEMMA InitPInv == Init => PInv
  <1> SUFFICES ASSUME Init PROVE PInv OBVIOUS
  <1>1. NoProxy \in ProxyState BY PathEnds DEF PathOK, Typed
  <1>2. proxy \in [Path -> ProxyState] BY <1>1 DEF Init
  <1>3. << >> \in Seq(PluginMessage) /\ << >> \in Seq(ChildMessage) /\ << >> \in Seq(Path) OBVIOUS
  <1>4. toPlugin \in [Path -> Seq(PluginMessage)] /\ fromPlugin \in [Path -> Seq(ChildMessage)]
    BY <1>3 DEF Init
  <1>5. site \in [SiteCallback -> SiteState] BY <1>3 DEF Init, SiteState
  <1>6. UIOK BY <1>2, <1>4, <1>5, UIFields
  <1>7. \A p \in Path : PathOK(proxy[p], child[p], toPlugin[p], fromPlugin[p])
    BY PathEnds DEF Init
  <1> QED BY <1>4, <1>6, <1>7 DEF PInv

LEMMA NextPInv == AskingOK /\ IInv /\ IInv' /\ PInv /\ [Next]_vars => PInv'
  <1> SUFFICES ASSUME AskingOK, IInv, IInv', PInv, [Next]_vars PROVE PInv' OBVIOUS
  <1>1. CASE Environment
    <2>1. ASSUME NEW i \in Instance, Initialize(i) \/ Destroy(i) PROVE PInv'
      BY <2>1, PInvStill DEF Initialize, Destroy, uiVars, plugVars
    <2>2. ASSUME NEW w \in Web, WebProcessDies(w) PROVE PInv'
      BY <2>2, PInvStill DEF WebProcessDies, plugVars
    <2>3. ASSUME NEW p \in Path, PluginProcessDies(p) \/ TerminationTimerFires(p) PROVE PInv'
      BY <2>3, GoneKeepsPInv DEF PluginProcessDies, TerminationTimerFires, uiVars
    <2>4. ASSUME NEW p \in Path, NEW i \in Instance, EnterPlugin(p, i) PROVE PInv'
      <3>1. RunsOn(p) BY <2>4, RunsOnSteps
      <3> QED BY <2>4, <3>1, RunningKeepsPInv DEF EnterPlugin, uiVars
    <2> QED BY <1>1, <2>1, <2>2, <2>3, <2>4, SiteDataKeepsPInv DEF Environment
  <1>2. CASE UIProcess
    <2>1. ASSUME NEW w \in Web, ReceiveTimedOut(w) PROVE PInv'
      <3> DEFINE p == PathOf[Head(toUI[w]).instance]
      <3>1. UNCHANGED <<proxy, toPlugin, site, fromPlugin>> /\ toUI[w] # << >>
        BY <2>1 DEF ReceiveTimedOut
      <3>2. p \in Path BY <3>1, NextMessage
      <3>3. CASE child[p].state = "running" /\ Gone(p)
        <4> HIDE DEF p
        <4> QED BY <3>1, <3>2, <3>3, GoneKeepsPInv
      <3>4. CASE UNCHANGED child BY <3>1, <3>4, PInvStill
      <3> QED BY <2>1, <3>3, <3>4 DEF ReceiveTimedOut
    <2> QED BY <1>2, <2>1, GetConnectionKeepsPInv, LaunchKeepsPInv, LaunchedKeepsPInv,
               ConnectedKeepsPInv, SiteAnswerKeepsPInv, ClosedKeepsPInv DEF UIProcess
  <1>3. ASSUME NEW p \in Path, PluginProcessStep(p) PROVE PInv'
    <2>1. CASE ReceiveInitialize(p) \/ CreateConnection(p) \/ HandleSiteData(p)
      BY <2>1, MessageSteps
    <2>2. CASE EndCreatePlugin(p) \/ LeavePlugin(p)
      <3>1. RunsOn(p) BY <2>2, RunsOnSteps
      <3> QED BY <2>2, <3>1, RunningKeepsPInv DEF EndCreatePlugin, LeavePlugin, uiVars
    <2>3. ASSUME NEW c \in Conn, BeginCreatePlugin(p, c) \/ DestroyPlugin(p, c)
                                   \/ WebProcessConnectionDidClose(p, c)
          PROVE  PInv'
      <3>1. RunsOn(p) BY <2>3, RunsOnSteps
      <3> QED BY <2>3, <3>1, RunningKeepsPInv
              DEF BeginCreatePlugin, DestroyPlugin, WebProcessConnectionDidClose, uiVars
    <2>4. ASSUME NEW c \in Conn, NEW i \in Instance, DestroyTimerFires(p, c, i) PROVE PInv'
      <3>1. RunsOn(p) BY <2>4, RunsOnSteps
      <3> QED BY <2>4, <3>1, RunningKeepsPInv DEF DestroyTimerFires, uiVars
    <2> QED BY <1>3, <2>1, <2>2, <2>3, <2>4 DEF PluginProcessStep
  <1>4. ASSUME NEW w \in Web, WebProcess(w) PROVE PInv'
    <2>1. CASE ReceiveFromUI(w) BY <2>1, PInvStill DEF ReceiveFromUI, plugVars
    <2>2. ASSUME NEW i \in Instance,
                 \/ GotConnection(i) \/ GotNothing(i) \/ GotGarbage(i)
                 \/ CreateReturns(i) \/ DestroyReturns(i) \/ CallTimesOut(i)
          PROVE  PInv'
      BY <2>2, PInvStill DEF GotConnection, GotNothing, GotGarbage, Enter, CreateReturns,
                             DestroyReturns, CallTimesOut, uiVars, plugVars
    <2> QED BY <1>4, <2>1, <2>2 DEF WebProcess
  <1>5. ASSUME NEW c \in Conn, HangUp(c) PROVE PInv'
    BY <1>5, PInvStill DEF HangUp, uiVars, plugVars
  <1>6. CASE UNCHANGED vars BY <1>6, PInvStill DEF vars
  <1> QED BY <1>1, <1>2, <1>3, <1>4, <1>5, <1>6 DEF Next

LEMMA InitAsking == Init => AskingOK
  <1>1. << >> \in Seq(Asking) OBVIOUS
  <1> QED BY <1>1 DEF Init, AskingOK

LEMMA AlwaysPInv == Spec => [](AskingOK /\ IInv /\ PInv)
  BY InitAsking, InitIInv, InitPInv, NextAsking, NextIInv, NextPInv, PTL DEF Spec

(* ASSERT(!m_pluginPath.isNull()) in PluginProcess: nothing that the UI     *)
(* process asks of a plug-in process overtakes InitializePluginProcess,     *)
(* although connections are asked for with messages that are dispatched     *)
(* while the process waits.                                                 *)
THEOREM InitializedFirst == Spec => []InitializedBeforeUse
  <1>1. PInv => InitializedBeforeUse
    <2> SUFFICES ASSUME PInv, NEW p \in Path, NEW k \in DOMAIN toPlugin[p], Takes(p, k),
                        toPlugin[p][k].op # "initialize"
                 PROVE  child[p].initialized
      BY DEF InitializedBeforeUse
    <2> QED BY TakenMessage
  <1> QED BY <1>1, AlwaysPInv, PTL

(* ASSERT(!m_pendingConnectionReplies.isEmpty()) in                         *)
(* PluginProcessProxy::didCreateWebProcessConnection: every connection that *)
(* arrives takes the reply that was kept for it.                            *)
THEOREM RequestIsFound == Spec => []ConnectionFindsItsRequest
  <1>1. PInv => ConnectionFindsItsRequest
    <2> SUFFICES ASSUME PInv, NEW p \in Path
                 PROVE  LET made == NumberOf(fromPlugin[p], LAMBDA m : m.op = "connection")
                        IN  /\ made <= Len(proxy[p].replies)
                            /\ child[p].state # "gone" =>
                                  Len(proxy[p].replies)
                                    = made + proxy[p].requests
                                      + NumberOf(toPlugin[p], LAMBDA m : m.op = "connect")
      BY DEF ConnectionFindsItsRequest
    <2>1. PathOK(proxy[p], child[p], toPlugin[p], fromPlugin[p]) BY DEF PInv
    <2>2. toPlugin[p] \in Seq(PluginMessage) /\ fromPlugin[p] \in Seq(ChildMessage)
      BY <2>1 DEF PathOK, Typed
    <2>3. {k \in DOMAIN fromPlugin[p] : fromPlugin[p][k].op = "connection"} = Places(fromPlugin[p], Made)
      BY <2>2 DEF Places, Made
    <2>4. {k \in DOMAIN toPlugin[p] : toPlugin[p][k].op = "connect"} = Places(toPlugin[p], Connects)
      BY <2>2 DEF Places, Connects
    <2>5. NumberOf(fromPlugin[p], LAMBDA m : m.op = "connection") = Count(fromPlugin[p], Made)
      BY <2>3, Zenon DEF NumberOf, Count
    <2>6. NumberOf(toPlugin[p], LAMBDA m : m.op = "connect") = Count(toPlugin[p], Connects)
      BY <2>4, Zenon DEF NumberOf, Count
    <2> QED BY <2>1, <2>5, <2>6 DEF PathOK, Matched
  <1> QED BY <1>1, AlwaysPInv, PTL

-----------------------------------------------------------------------------
(* Where the calls are that wait for a connection.                          *)

AskingFrom(w) == {m \in Asking : OwnerOf[m.instance] = w}
WebMessageTo(w) == {m \in WebMessage : m.op = "reply" => OwnerOf[m.instance] = w}
InstancesOf(p) == {i \in Instance : PathOf[i] = p}

(* Every message is in the queue of its web process, every reply is kept at *)
(* the proxy of its plug-in.                                                *)
QueuesOK ==
    /\ toWeb \in [Web -> Seq(WebMessage)] /\ AliveOK /\ answer \in [Instance -> Int]
    /\ \A w \in Web : toUI[w] \in Seq(AskingFrom(w)) /\ toWeb[w] \in Seq(WebMessageTo(w))
    /\ \A p \in Path : proxy[p].replies \in Seq(InstancesOf(p))

AsksFor(i) == {m \in Asking : m.op = "getConnection" /\ m.instance = i}

Asks(lines, i) == Count(lines[OwnerOf[i]], AsksFor(i))
Kept(px, i) == Count(px[PathOf[i]].replies, {i})
Told(lines, i) == Count(lines[OwnerOf[i]], RepliesTo(i))

(* The request of instance i, in a state f: asked for a times, kept r       *)
(* times, told t times.  It is in one place while the call waits, and       *)
(* nowhere before and after; the request of a process that died is left in  *)
(* the UI process.                                                          *)
InOnePlace(a, r, t, f, ans, al) ==
    /\ a + r <= 1
    /\ f = "unborn" => a + r + t = 0 /\ ans = NoAnswer
    /\ f = "asking" => al /\ a + r + t + (IF ans # NoAnswer THEN 1 ELSE 0) = 1
    /\ f \notin {"unborn", "asking"} /\ al => a + r + t = 0
    /\ ~al => f = "gone" /\ t = 0

PlaceOf(i) ==
    InOnePlace(Asks(toUI, i), Kept(proxy, i), Told(toWeb, i), phase[i], answer[i], alive[OwnerOf[i]])

WInv == QueuesOK /\ \A i \in Instance : PlaceOf(i)

SameReplies == \A p \in Path : proxy'[p].replies = proxy[p].replies

(* Nothing changes for instance j.                                          *)
SameFor(j) ==
    /\ Asks(toUI', j) = Asks(toUI, j) /\ Kept(proxy', j) = Kept(proxy, j)
    /\ Told(toWeb', j) = Told(toWeb, j)
    /\ phase'[j] = phase[j] /\ answer'[j] = answer[j] /\ alive'[OwnerOf[j]] = alive[OwnerOf[j]]

LEMMA PlaceStill ==
    ASSUME NEW j \in Instance, PlaceOf(j), SameFor(j)
    PROVE  PlaceOf(j)'
  BY DEF PlaceOf, SameFor

LEMMA PlaceStep ==
    ASSUME WInv, QueuesOK', NEW i \in Instance, PlaceOf(i)',
           \A j \in Instance \ {i} : SameFor(j)
    PROVE  WInv'
  <1>1. ASSUME NEW j \in Instance PROVE PlaceOf(j)'
    <2>1. CASE j = i BY <2>1
    <2>2. CASE j # i BY <2>2, PlaceStill DEF WInv
    <2> QED BY <2>1, <2>2
  <1> QED BY <1>1 DEF WInv

LEMMA PlaceNumbers ==
    ASSUME QueuesOK, NEW i \in Instance
    PROVE  /\ Asks(toUI, i) \in Nat /\ Kept(proxy, i) \in Nat /\ Told(toWeb, i) \in Nat
           /\ OwnerOf[i] \in Web /\ PathOf[i] \in Path /\ alive[OwnerOf[i]] \in BOOLEAN
           /\ toUI[OwnerOf[i]] \in Seq(AskingFrom(OwnerOf[i]))
           /\ toWeb[OwnerOf[i]] \in Seq(WebMessageTo(OwnerOf[i]))
           /\ proxy[PathOf[i]].replies \in Seq(InstancesOf(PathOf[i]))
           /\ answer[i] \in Int
  <1>1. OwnerOf[i] \in Web /\ PathOf[i] \in Path BY PathsAndWebs
  <1>2. /\ toUI[OwnerOf[i]] \in Seq(AskingFrom(OwnerOf[i]))
        /\ toWeb[OwnerOf[i]] \in Seq(WebMessageTo(OwnerOf[i]))
        /\ proxy[PathOf[i]].replies \in Seq(InstancesOf(PathOf[i]))
        /\ answer[i] \in Int
    BY <1>1 DEF QueuesOK
  <1>3. alive[OwnerOf[i]] \in BOOLEAN BY <1>1 DEF QueuesOK, AliveOK
  <1>4. Asks(toUI, i) \in Nat BY <1>2, CountType DEF Asks
  <1>5. Kept(proxy, i) \in Nat BY <1>2, CountType DEF Kept
  <1>6. Told(toWeb, i) \in Nat BY <1>2, CountType DEF Told
  <1> QED BY <1>1, <1>2, <1>3, <1>4, <1>5, <1>6

LEMMA KeptStill ==
    ASSUME SameReplies, NEW i \in Instance
    PROVE  Kept(proxy', i) = Kept(proxy, i)
  BY PathsAndWebs DEF SameReplies, Kept

LEMMA QueuesStill ==
    ASSUME QueuesOK, SameReplies, UNCHANGED <<toUI, toWeb, alive>>, answer' \in [Instance -> Int]
    PROVE  QueuesOK'
  BY DEF QueuesOK, SameReplies, AliveOK

(* Nothing changes but how plug-in processes run.                           *)
LEMMA WInvStill ==
    ASSUME WInv, SameReplies, UNCHANGED <<toUI, toWeb, alive, phase, answer>>
    PROVE  WInv'
  <1>1. QueuesOK /\ answer \in [Instance -> Int] BY DEF WInv, QueuesOK
  <1>2. QueuesOK' BY <1>1, QueuesStill
  <1>3. ASSUME NEW j \in Instance PROVE PlaceOf(j)'
    <2>1. Kept(proxy', j) = Kept(proxy, j) BY KeptStill
    <2>2. SameFor(j) BY <2>1 DEF SameFor
    <2> QED BY <2>2, PlaceStill DEF WInv
  <1> QED BY <1>2, <1>3 DEF WInv

(* A call into the plug-in process is answered.                             *)
LEMMA CallAnswered ==
    ASSUME WInv, SameReplies, UNCHANGED <<toUI, toWeb, alive, phase>>, NEW i \in Instance,
           NEW v \in Int, answer' = [answer EXCEPT ![i] = v],
           phase[i] \in {"creating", "destroying"}
    PROVE  WInv'
  <1>1. QueuesOK /\ answer \in [Instance -> Int] BY DEF WInv, QueuesOK
  <1>2. QueuesOK' BY <1>1, QueuesStill
  <1>3. ASSUME NEW j \in Instance \ {i} PROVE SameFor(j)
    <2>1. Kept(proxy', j) = Kept(proxy, j) BY KeptStill
    <2>2. answer'[j] = answer[j] BY <1>1
    <2> QED BY <2>1, <2>2 DEF SameFor
  <1>4. PlaceOf(i)'
    <2>1. Kept(proxy', i) = Kept(proxy, i) BY KeptStill
    <2>2. PlaceOf(i) BY DEF WInv
    <2> QED BY <2>1, <2>2 DEF PlaceOf, InOnePlace
  <1> QED BY <1>2, <1>3, <1>4, PlaceStep

(* The call that waited for a connection is over, or another one goes on.   *)
LEMMA WaitIsOver ==
    ASSUME WInv, SameReplies, UNCHANGED <<toWeb, alive>>, NEW i \in Instance,
           \A w \in Web : toUI'[w] \in Seq(AskingFrom(w)),
           \A j \in Instance : Asks(toUI', j) = Asks(toUI, j),
           answer' \in {answer, [answer EXCEPT ![i] = NoAnswer]},
           phase[i] = "asking" => answer[i] # NoAnswer, alive[OwnerOf[i]],
           NEW f \in Phase \ {"unborn", "asking"}, phase' = [phase EXCEPT ![i] = f],
           phase \in [Instance -> Phase]
    PROVE  WInv'
  <1>1. QueuesOK /\ answer \in [Instance -> Int] BY DEF WInv, QueuesOK
  <1>2. answer' \in [Instance -> Int] /\ \A j \in Instance \ {i} : answer'[j] = answer[j]
    BY <1>1 DEF NoAnswer
  <1>3. QueuesOK' BY <1>1, <1>2 DEF QueuesOK, SameReplies, AliveOK
  <1>4. ASSUME NEW j \in Instance \ {i} PROVE SameFor(j)
    <2>1. Kept(proxy', j) = Kept(proxy, j) BY KeptStill
    <2> QED BY <1>2, <2>1 DEF SameFor
  <1>5. PlaceOf(i)'
    <2>1. Kept(proxy', i) = Kept(proxy, i) /\ Asks(toUI', i) = Asks(toUI, i) BY KeptStill
    <2>2. PlaceOf(i) BY DEF WInv
    <2>3. Asks(toUI, i) \in Nat /\ Kept(proxy, i) \in Nat /\ Told(toWeb, i) \in Nat
      BY <1>1, PlaceNumbers
    <2>4. phase'[i] = f /\ phase[i] \in Phase OBVIOUS
    <2>5. Asks(toUI, i) + Kept(proxy, i) + Told(toWeb, i) = 0
      BY <2>2, <2>3 DEF PlaceOf, InOnePlace
    <2> QED BY <2>1, <2>3, <2>4, <2>5 DEF PlaceOf, InOnePlace
  <1> QED BY <1>3, <1>4, <1>5, PlaceStep

-----------------------------------------------------------------------------
(* Steps of the web processes.                                              *)

(* A message to the UI process.                                             *)
LEMMA MessageSent ==
    ASSUME AskingOK, QueuesOK, NEW i \in Instance, NEW op \in {"getConnection", "timedOut"},
           toUI' = [toUI EXCEPT ![OwnerOf[i]] = Append(@, [op |-> op, instance |-> i])]
    PROVE  /\ \A w \in Web : toUI'[w] \in Seq(AskingFrom(w))
           /\ \A j \in Instance : op = "timedOut" \/ j # i => Asks(toUI', j) = Asks(toUI, j)
           /\ op = "getConnection" => Asks(toUI', i) = Asks(toUI, i) + 1
  <1> DEFINE m == [op |-> op, instance |-> i]
             o == OwnerOf[i]
             q == Append(toUI[o], m)
  <1>1. m \in Asking /\ m \in AskingFrom(o) BY DEF Asking, AskingFrom
  <1>2. o \in Web BY PathsAndWebs
  <1>3. \A j \in Instance : m \in AsksFor(j) <=> op = "getConnection" /\ j = i
    BY <1>1 DEF AsksFor
  <1>4. toUI \in [Web -> Seq(Asking)] /\ \A w \in Web : toUI[w] \in Seq(AskingFrom(w))
    BY DEF AskingOK, QueuesOK
  <1>5. toUI' = [toUI EXCEPT ![o] = q] OBVIOUS
  <1> HIDE DEF m, o
  <1>6. q \in Seq(AskingFrom(o)) BY <1>1, <1>2, <1>4
  <1>7. \A j \in Instance : Count(q, AsksFor(j)) = Count(toUI[o], AsksFor(j))
                                                     + (IF m \in AsksFor(j) THEN 1 ELSE 0)
    BY <1>1, <1>2, <1>4, CountAppend
  <1> HIDE DEF q
  <1>8. toUI'[o] = q /\ \A w \in Web \ {o} : toUI'[w] = toUI[w] BY <1>2, <1>4, <1>5
  <1>9. \A w \in Web : toUI'[w] \in Seq(AskingFrom(w))
    <2> SUFFICES ASSUME NEW w \in Web PROVE toUI'[w] \in Seq(AskingFrom(w)) OBVIOUS
    <2>1. CASE w = o BY <1>6, <1>8, <2>1
    <2>2. CASE w # o BY <1>4, <1>8, <2>2
    <2> QED BY <2>1, <2>2
  <1>10. ASSUME NEW j \in Instance
         PROVE  Asks(toUI', j) = Asks(toUI, j) + (IF op = "getConnection" /\ j = i THEN 1 ELSE 0)
    <2>1. Asks(toUI, j) \in Nat /\ OwnerOf[j] \in Web BY PlaceNumbers
    <2>2. CASE OwnerOf[j] = o
      <3>1. Asks(toUI', j) = Count(q, AsksFor(j)) /\ Asks(toUI, j) = Count(toUI[o], AsksFor(j))
        BY <1>8, <2>2 DEF Asks
      <3> QED BY <1>3, <1>7, <3>1
    <2>3. CASE OwnerOf[j] # o
      <3>1. Asks(toUI', j) = Asks(toUI, j) BY <1>8, <2>1, <2>3 DEF Asks
      <3>2. j # i BY <2>3 DEF o
      <3> QED BY <2>1, <3>1, <3>2
    <2> QED BY <2>2, <2>3
  <1>11. ASSUME NEW j \in Instance, op = "timedOut" \/ j # i PROVE Asks(toUI', j) = Asks(toUI, j)
    <2>1. Asks(toUI', j) = Asks(toUI, j) + 0 BY <1>10, <1>11
    <2>2. Asks(toUI, j) \in Nat BY PlaceNumbers
    <2> QED BY <2>1, <2>2
  <1>12. op = "getConnection" => Asks(toUI', i) = Asks(toUI, i) + 1 BY <1>10
  <1> QED BY <1>9, <1>11, <1>12

LEMMA InstancesInPlace ==
    ASSUME AskingOK, IInv, WInv, NEW i \in Instance,
           \/ Initialize(i) \/ Destroy(i) \/ GotConnection(i) \/ GotNothing(i) \/ GotGarbage(i)
           \/ CreateReturns(i) \/ DestroyReturns(i) \/ CallTimesOut(i)
    PROVE  WInv'
  <1>0. /\ phase \in [Instance -> Phase] /\ answer \in [Instance -> Int] /\ QueuesOK
        /\ \A w \in Web : toUI[w] \in Seq(AskingFrom(w))
    BY DEF IInv, LineOK, WInv, QueuesOK
  <1>1. CASE Initialize(i) /\ phase' = [phase EXCEPT ![i] = "asking"]
    <2>1. /\ toUI' = [toUI EXCEPT ![OwnerOf[i]] = Append(@, [op |-> "getConnection", instance |-> i])]
          /\ UNCHANGED <<answer, proxy, toWeb, alive>> /\ phase[i] = "unborn" /\ alive[OwnerOf[i]]
      BY <1>0, <1>1 DEF Initialize, MainThreadRuns, CreateOn
    <2> DEFINE op == "getConnection"
    <2>2. op \in {"getConnection", "timedOut"} /\ op # "timedOut" OBVIOUS
    <2>3. toUI' = [toUI EXCEPT ![OwnerOf[i]] = Append(@, [op |-> op, instance |-> i])] BY <2>1
    <2> HIDE DEF op
    <2>4. /\ \A w \in Web : toUI'[w] \in Seq(AskingFrom(w))
          /\ \A j \in Instance : j # i => Asks(toUI', j) = Asks(toUI, j)
          /\ op = "getConnection" => Asks(toUI', i) = Asks(toUI, i) + 1
      BY <1>0, <2>2, <2>3, MessageSent
    <2>5. QueuesOK' BY <1>0, <2>1, <2>4 DEF QueuesOK, AliveOK
    <2>6. SameReplies BY <2>1 DEF SameReplies
    <2>7. ASSUME NEW j \in Instance \ {i} PROVE SameFor(j)
      <3>1. Kept(proxy', j) = Kept(proxy, j) BY <2>6, KeptStill
      <3>2. phase'[j] = phase[j] BY <1>0, <1>1
      <3> QED BY <2>1, <2>4, <3>1, <3>2 DEF SameFor
    <2>8. PlaceOf(i)'
      <3>1. Asks(toUI', i) = Asks(toUI, i) + 1 BY <2>4 DEF op
      <3>2. Kept(proxy', i) = Kept(proxy, i) BY <2>6, KeptStill
      <3>3. PlaceOf(i) BY DEF WInv
      <3>4. Asks(toUI, i) \in Nat /\ Kept(proxy, i) \in Nat /\ Told(toWeb, i) \in Nat
        BY <1>0, PlaceNumbers
      <3>5. phase'[i] = "asking" BY <1>0, <1>1
      <3>6. Asks(toUI, i) = 0 /\ Kept(proxy, i) = 0 /\ Told(toWeb, i) = 0 /\ answer[i] = NoAnswer
        BY <2>1, <3>3, <3>4 DEF PlaceOf, InOnePlace
      <3> QED BY <2>1, <3>1, <3>2, <3>5, <3>6 DEF PlaceOf, InOnePlace
    <2> QED BY <2>5, <2>7, <2>8, PlaceStep DEF WInv
  <1>2. CASE ~(Initialize(i) /\ phase' = [phase EXCEPT ![i] = "asking"])
    <2>1. PICK f \in Phase \ {"unborn", "asking"} : phase' = [phase EXCEPT ![i] = f]
      BY <1>2 DEF Initialize, Destroy, GotConnection, GotNothing, GotGarbage, CreateReturns,
                  DestroyReturns, CallTimesOut, Enter, CreateOn, Phase
    <2>2. UNCHANGED <<proxy, toWeb, alive>>
      BY DEF Initialize, Destroy, GotConnection, GotNothing, GotGarbage, CreateReturns,
             DestroyReturns, CallTimesOut, Enter, uiVars
    <2>3. alive[OwnerOf[i]] /\ (phase[i] = "asking" => answer[i] # NoAnswer)
      BY DEF Initialize, Destroy, GotConnection, GotNothing, GotGarbage, CreateReturns,
             DestroyReturns, CallTimesOut, MainThreadRuns, Waits, NoAnswer, Failed
    <2>4. answer' \in {answer, [answer EXCEPT ![i] = NoAnswer]}
      BY <1>2 DEF Initialize, Destroy, GotConnection, GotNothing, GotGarbage, CreateReturns,
                  DestroyReturns, CallTimesOut, Enter, CreateOn
    <2>5. /\ \A w \in Web : toUI'[w] \in Seq(AskingFrom(w))
          /\ \A j \in Instance : Asks(toUI', j) = Asks(toUI, j)
      <3>1. CASE UNCHANGED toUI BY <1>0, <3>1
      <3>2. CASE toUI' = [toUI EXCEPT ![OwnerOf[i]] = Append(@, [op |-> "timedOut", instance |-> i])]
        <4> DEFINE op == "timedOut"
        <4>1. op \in {"getConnection", "timedOut"} /\ op = "timedOut"
              /\ toUI' = [toUI EXCEPT ![OwnerOf[i]] = Append(@, [op |-> op, instance |-> i])]
          BY <3>2
        <4> HIDE DEF op
        <4> QED BY <1>0, <4>1, MessageSent
      <3>3. UNCHANGED toUI \/ toUI' = [toUI EXCEPT ![OwnerOf[i]] =
                                          Append(@, [op |-> "timedOut", instance |-> i])]
        BY <1>2 DEF Initialize, Destroy, GotConnection, GotNothing, GotGarbage, CreateReturns,
                    DestroyReturns, CallTimesOut, Enter, CreateOn, uiVars
      <3> QED BY <3>1, <3>2, <3>3
    <2>6. SameReplies BY <2>2 DEF SameReplies
    <2> QED BY <1>0, <2>1, <2>2, <2>3, <2>4, <2>5, <2>6, WaitIsOver
  <1> QED BY <1>1, <1>2

LEMMA ReceivedInPlace ==
    ASSUME WInv, NEW w \in Web, ReceiveFromUI(w)
    PROVE  WInv'
  <1> DEFINE m == Head(toWeb[w])
             q == Tail(toWeb[w])
  <1>0. QueuesOK /\ answer \in [Instance -> Int] /\ toWeb \in [Web -> Seq(WebMessage)]
    BY DEF WInv, QueuesOK
  <1>1. /\ alive[w] /\ toWeb[w] # << >> /\ toWeb' = [toWeb EXCEPT ![w] = q]
        /\ \/ m.op = "reply" /\ answer' = [answer EXCEPT ![m.instance] = m.conn]
           \/ m.op = "crashed" /\ UNCHANGED answer
        /\ UNCHANGED <<proxy, toUI, alive, phase>>
    BY DEF ReceiveFromUI
  <1>2. toWeb[w] \in Seq(WebMessageTo(w)) BY <1>0 DEF QueuesOK
  <1>3. m \in WebMessageTo(w) /\ q \in Seq(WebMessageTo(w)) BY <1>1, <1>2
  <1>4. m \in WebMessage /\ (m.op = "reply" => OwnerOf[m.instance] = w)
    BY <1>3 DEF WebMessageTo
  <1>5. \A j \in Instance : Count(q, RepliesTo(j)) = Count(toWeb[w], RepliesTo(j))
                                                     - (IF m \in RepliesTo(j) THEN 1 ELSE 0)
    BY <1>1, <1>2, CountTail
  <1>6. \A j \in Instance : m \in RepliesTo(j) <=> m.op = "reply" /\ j = m.instance
    BY <1>4 DEF RepliesTo
  <1>6a. m.op = "reply" => m.instance \in Instance /\ m.conn \in Int /\ m.conn # NoAnswer
    BY <1>4 DEF WebMessage, Failed, NoAnswer
  <1>6b. q \in Seq(WebMessage) BY <1>3 DEF WebMessageTo
  <1> HIDE DEF m, q
  <1>7. toWeb'[w] = q /\ \A v \in Web \ {w} : toWeb'[v] = toWeb[v] BY <1>0, <1>1
  <1>8. toWeb' \in [Web -> Seq(WebMessage)] BY <1>0, <1>1, <1>6b
  <1>9. \A v \in Web : toWeb'[v] \in Seq(WebMessageTo(v))
    <2> SUFFICES ASSUME NEW v \in Web PROVE toWeb'[v] \in Seq(WebMessageTo(v)) OBVIOUS
    <2>1. CASE v = w BY <1>3, <1>7, <2>1
    <2>2. CASE v # w BY <1>0, <1>7, <2>2 DEF QueuesOK
    <2> QED BY <2>1, <2>2
  <1>10. answer' \in [Instance -> Int] BY <1>0, <1>1, <1>6a
  <1>11. QueuesOK' BY <1>0, <1>1, <1>8, <1>9, <1>10 DEF QueuesOK, AliveOK
  <1>12. SameReplies BY <1>1 DEF SameReplies
  <1>13. ASSUME NEW j \in Instance, m \notin RepliesTo(j) PROVE PlaceOf(j)'
    <2>1. Kept(proxy', j) = Kept(proxy, j) BY <1>12, KeptStill
    <2>2. OwnerOf[j] \in Web /\ Told(toWeb, j) \in Nat BY <1>0, PlaceNumbers
    <2>3. Told(toWeb', j) = Told(toWeb, j)
      <3>1. CASE OwnerOf[j] = w
        <4>1. Told(toWeb', j) = Count(q, RepliesTo(j)) /\ Told(toWeb, j) = Count(toWeb[w], RepliesTo(j))
          BY <1>7, <3>1 DEF Told
        <4>2. Count(q, RepliesTo(j)) = Count(toWeb[w], RepliesTo(j)) - 0 BY <1>5, <1>13
        <4> QED BY <2>2, <4>1, <4>2
      <3>2. CASE OwnerOf[j] # w BY <1>7, <2>2, <3>2 DEF Told
      <3> QED BY <3>1, <3>2
    <2>4. answer'[j] = answer[j]
      <3>1. CASE m.op = "crashed" /\ UNCHANGED answer BY <3>1
      <3>2. CASE m.op = "reply" /\ answer' = [answer EXCEPT ![m.instance] = m.conn]
        <4>1. j # m.instance BY <1>6, <1>13, <3>2
        <4> QED BY <1>0, <3>2, <4>1
      <3> QED BY <1>1, <3>1, <3>2
    <2>5. SameFor(j) BY <1>1, <2>1, <2>3, <2>4 DEF SameFor
    <2> QED BY <2>5, PlaceStill DEF WInv
  <1>14. ASSUME NEW j \in Instance, m \in RepliesTo(j) PROVE PlaceOf(j)'
    <2>1. Kept(proxy', j) = Kept(proxy, j) BY <1>12, KeptStill
    <2>2. m.op = "reply" /\ j = m.instance /\ OwnerOf[j] = w BY <1>4, <1>6, <1>14
    <2>3. Asks(toUI, j) \in Nat /\ Kept(proxy, j) \in Nat /\ Told(toWeb, j) \in Nat
      BY <1>0, PlaceNumbers
    <2>4. Told(toWeb', j) = Told(toWeb, j) - 1
      <3>1. Told(toWeb', j) = Count(q, RepliesTo(j)) /\ Told(toWeb, j) = Count(toWeb[w], RepliesTo(j))
        BY <1>7, <2>2 DEF Told
      <3>2. Count(q, RepliesTo(j)) = Count(toWeb[w], RepliesTo(j)) - 1 BY <1>5, <1>14
      <3> QED BY <3>1, <3>2
    <2>5. Told(toWeb', j) \in Nat
      <3>1. QueuesOK' /\ toWeb'[w] \in Seq(WebMessageTo(w)) BY <1>9, <1>11
      <3> QED BY <2>2, <3>1, CountType DEF Told
    <2>6. answer'[j] = m.conn /\ m.conn # NoAnswer BY <1>0, <1>1, <1>6a, <2>2
    <2>7. PlaceOf(j) /\ alive[OwnerOf[j]] BY <1>1, <2>2 DEF WInv
    <2>8. phase[j] = "asking" /\ Asks(toUI, j) = 0 /\ Kept(proxy, j) = 0 /\ Told(toWeb, j) = 1
      <3>1. Told(toWeb, j) >= 1 BY <2>3, <2>4, <2>5
      <3> QED BY <2>3, <2>7, <3>1 DEF PlaceOf, InOnePlace
    <2> QED BY <1>1, <2>1, <2>4, <2>6, <2>7, <2>8 DEF PlaceOf, InOnePlace
  <1> QED BY <1>11, <1>13, <1>14 DEF WInv

LEMMA DiesInPlace ==
    ASSUME AskingOK, IInv, WInv, NEW w \in Web, WebProcessDies(w)
    PROVE  WInv'
  <1>0. /\ QueuesOK /\ toWeb \in [Web -> Seq(WebMessage)] /\ toUI \in [Web -> Seq(Asking)]
        /\ phase \in [Instance -> Phase] /\ alive \in [Web -> BOOLEAN]
    BY DEF WInv, QueuesOK, AskingOK, IInv, LineOK, AliveOK
  <1>1. /\ alive' = [alive EXCEPT ![w] = FALSE] /\ toWeb' = [toWeb EXCEPT ![w] = << >>]
        /\ phase' = [i \in Instance |-> IF OwnerOf[i] = w THEN "gone" ELSE phase[i]]
        /\ UNCHANGED <<proxy, answer>>
    BY DEF WebProcessDies
  <1>2. toUI' \in {toUI, [toUI EXCEPT ![w] = << >>]} BY Zenon DEF WebProcessDies
  <1>3. << >> \in Seq(WebMessage) /\ << >> \in Seq(WebMessageTo(w)) /\ << >> \in Seq(AskingFrom(w)) OBVIOUS
  <1>4. /\ toWeb' \in [Web -> Seq(WebMessage)] /\ toWeb'[w] = << >>
        /\ \A v \in Web \ {w} : toWeb'[v] = toWeb[v]
    BY <1>0, <1>1, <1>3
  <1>5. (toUI'[w] = toUI[w] \/ toUI'[w] = << >>) /\ \A v \in Web \ {w} : toUI'[v] = toUI[v]
    BY <1>0, <1>2
  <1>6. alive' \in [Web -> BOOLEAN] /\ alive'[w] = FALSE /\ \A v \in Web \ {w} : alive'[v] = alive[v]
    BY <1>0, <1>1
  <1>7. \A v \in Web : toUI'[v] \in Seq(AskingFrom(v)) /\ toWeb'[v] \in Seq(WebMessageTo(v))
    <2> SUFFICES ASSUME NEW v \in Web
                 PROVE  toUI'[v] \in Seq(AskingFrom(v)) /\ toWeb'[v] \in Seq(WebMessageTo(v))
      OBVIOUS
    <2>1. toUI[v] \in Seq(AskingFrom(v)) /\ toWeb[v] \in Seq(WebMessageTo(v)) BY <1>0 DEF QueuesOK
    <2>2. CASE v = w BY <1>3, <1>4, <1>5, <2>1, <2>2
    <2>3. CASE v # w BY <1>4, <1>5, <2>1, <2>3
    <2> QED BY <2>2, <2>3
  <1>8. QueuesOK' BY <1>0, <1>1, <1>4, <1>6, <1>7 DEF QueuesOK, AliveOK
  <1>9. ASSUME NEW j \in Instance PROVE PlaceOf(j)'
    <2>1. Kept(proxy', j) = Kept(proxy, j) BY <1>1, KeptStill DEF SameReplies
    <2>2. PlaceOf(j) BY DEF WInv
    <2>3. OwnerOf[j] \in Web /\ Asks(toUI, j) \in Nat /\ Kept(proxy, j) \in Nat BY <1>0, PlaceNumbers
    <2>4. CASE OwnerOf[j] = w
      <3>1. Told(toWeb', j) = 0 BY <1>4, <2>4, CountEmpty DEF Told
      <3>2. Asks(toUI', j) = Asks(toUI, j) \/ Asks(toUI', j) = 0 BY <1>5, <2>4, CountEmpty DEF Asks
      <3>3. phase'[j] = "gone" /\ ~alive'[OwnerOf[j]] BY <1>1, <1>6, <2>4
      <3>4. Asks(toUI', j) + Kept(proxy, j) <= 1 BY <2>2, <2>3, <3>2 DEF PlaceOf, InOnePlace
      <3> QED BY <2>1, <3>1, <3>3, <3>4 DEF PlaceOf, InOnePlace
    <2>5. CASE OwnerOf[j] # w
      <3>1. SameFor(j) BY <1>0, <1>1, <1>4, <1>5, <1>6, <2>1, <2>3, <2>5 DEF SameFor, Told, Asks
      <3> QED BY <2>2, <3>1, PlaceStill
    <2> QED BY <2>4, <2>5
  <1> QED BY <1>8, <1>9 DEF WInv

-----------------------------------------------------------------------------
(* Steps of the UI process.                                                 *)

(* The request is given to the proxy, and the proxy answers it.             *)
LEMMA IntoTheProxy ==
    ASSUME NEW a \in Nat, NEW r \in Nat, NEW t \in Nat, NEW a2, NEW r2, a2 = a - 1, r2 = r + 1,
           NEW f, NEW ans, NEW al, InOnePlace(a, r, t, f, ans, al)
    PROVE  InOnePlace(a2, r2, t, f, ans, al)
  <1>1. a2 + r2 = a + r /\ a2 + r2 + t = a + r + t OBVIOUS
  <1> QED BY <1>1 DEF InOnePlace

LEMMA OutOfTheProxy ==
    ASSUME NEW a \in Nat, NEW r \in Nat, NEW t \in Nat, NEW r2, NEW t2, r2 = r - 1,
           NEW f, NEW ans, NEW al \in BOOLEAN, t2 = IF al THEN t + 1 ELSE t,
           InOnePlace(a, r, t, f, ans, al)
    PROVE  InOnePlace(a, r2, t2, f, ans, al)
  <1>1. CASE al
    <2>1. a + r2 <= a + r /\ a + r2 + t2 = a + r + t BY <1>1
    <2> QED BY <1>1, <2>1 DEF InOnePlace
  <1>2. CASE ~al BY <1>2 DEF InOnePlace
  <1> QED BY <1>1, <1>2

LEMMA MessageTaken ==
    ASSUME AskingOK, QueuesOK, NEW w \in Web, toUI[w] # << >>, toUI' = [toUI EXCEPT ![w] = Tail(@)]
    PROVE  LET m == Head(toUI[w]) IN
           /\ \A v \in Web : toUI'[v] \in Seq(AskingFrom(v))
           /\ m \in Asking /\ OwnerOf[m.instance] = w
           /\ \A j \in Instance : m.op # "getConnection" \/ j # m.instance =>
                 Asks(toUI', j) = Asks(toUI, j)
           /\ m.op = "getConnection" => Asks(toUI', m.instance) = Asks(toUI, m.instance) - 1
  <1> DEFINE m == Head(toUI[w])
             q == Tail(toUI[w])
  <1>1. toUI \in [Web -> Seq(Asking)] /\ \A v \in Web : toUI[v] \in Seq(AskingFrom(v))
    BY DEF AskingOK, QueuesOK
  <1>2. toUI[w] \in Seq(AskingFrom(w)) BY <1>1
  <1>3. m \in AskingFrom(w) /\ q \in Seq(AskingFrom(w)) BY <1>2
  <1>4. m \in Asking /\ OwnerOf[m.instance] = w BY <1>3 DEF AskingFrom
  <1>5. \A j \in Instance : m \in AsksFor(j) <=> m.op = "getConnection" /\ j = m.instance
    BY <1>4 DEF AsksFor
  <1>6. \A j \in Instance : Count(q, AsksFor(j)) = Count(toUI[w], AsksFor(j))
                                                   - (IF m \in AsksFor(j) THEN 1 ELSE 0)
    BY <1>2, CountTail
  <1>7. toUI'[w] = q /\ \A v \in Web \ {w} : toUI'[v] = toUI[v] BY <1>1
  <1> HIDE DEF m, q
  <1>8. ASSUME NEW v \in Web PROVE toUI'[v] \in Seq(AskingFrom(v))
    <2>1. CASE v = w BY <1>3, <1>7, <2>1
    <2>2. CASE v # w BY <1>1, <1>7, <2>2
    <2> QED BY <2>1, <2>2
  <1>9. ASSUME NEW j \in Instance, m.op # "getConnection" \/ j # m.instance
        PROVE  Asks(toUI', j) = Asks(toUI, j)
    <2>1. Asks(toUI, j) \in Nat /\ OwnerOf[j] \in Web BY PlaceNumbers
    <2>2. CASE OwnerOf[j] = w
      <3>1. Asks(toUI', j) = Count(q, AsksFor(j)) /\ Asks(toUI, j) = Count(toUI[w], AsksFor(j))
        BY <1>7, <2>2 DEF Asks
      <3>2. Count(q, AsksFor(j)) = Count(toUI[w], AsksFor(j)) - 0 BY <1>5, <1>6, <1>9
      <3> QED BY <2>1, <3>1, <3>2
    <2>3. CASE OwnerOf[j] # w BY <1>7, <2>1, <2>3 DEF Asks
    <2> QED BY <2>2, <2>3
  <1>10. ASSUME m.op = "getConnection" PROVE Asks(toUI', m.instance) = Asks(toUI, m.instance) - 1
    <2>1. m.instance \in Instance BY <1>4 DEF Asking
    <2>2. Asks(toUI', m.instance) = Count(q, AsksFor(m.instance))
          /\ Asks(toUI, m.instance) = Count(toUI[w], AsksFor(m.instance))
      BY <1>4, <1>7 DEF Asks
    <2>3. m \in AsksFor(m.instance) BY <1>5, <1>10, <2>1
    <2> QED BY <1>6, <2>1, <2>2, <2>3
  <1> QED BY <1>4, <1>8, <1>9, <1>10 DEF m

LEMMA TimedOutInPlace ==
    ASSUME AskingOK, WInv, NEW w \in Web, ReceiveTimedOut(w)
    PROVE  WInv'
  <1>1. /\ toUI[w] # << >> /\ Head(toUI[w]).op = "timedOut" /\ toUI' = [toUI EXCEPT ![w] = Tail(@)]
        /\ UNCHANGED <<proxy, toWeb, alive, phase, answer>>
    BY DEF ReceiveTimedOut, webVars
  <1>2. QueuesOK BY DEF WInv
  <1>3. /\ \A v \in Web : toUI'[v] \in Seq(AskingFrom(v))
        /\ \A j \in Instance : Asks(toUI', j) = Asks(toUI, j)
    BY <1>1, <1>2, MessageTaken
  <1>4. QueuesOK' BY <1>1, <1>2, <1>3 DEF QueuesOK, AliveOK
  <1>5. ASSUME NEW j \in Instance PROVE PlaceOf(j)'
    <2>1. SameFor(j) BY <1>1, <1>3 DEF SameFor
    <2> QED BY <2>1, PlaceStill DEF WInv
  <1> QED BY <1>4, <1>5 DEF WInv

LEMMA GetConnectionInPlace ==
    ASSUME AskingOK, PInv, PInv', WInv, NEW w \in Web, ReceiveGetConnection(w)
    PROVE  WInv'
  <1> DEFINE m == Head(toUI[w])
             i == m.instance
             p == PathOf[i]
  <1>1. /\ toUI[w] # << >> /\ m.op = "getConnection" /\ toUI' = [toUI EXCEPT ![w] = Tail(@)]
        /\ GetPluginProcessConnection(p, i) /\ UNCHANGED <<toWeb, alive, phase, answer>>
    BY DEF ReceiveGetConnection, webVars
  <1>2. QueuesOK BY DEF WInv
  <1>3. /\ \A v \in Web : toUI'[v] \in Seq(AskingFrom(v))
        /\ \A j \in Instance : j # i => Asks(toUI', j) = Asks(toUI, j)
        /\ Asks(toUI', i) = Asks(toUI, i) - 1
    BY <1>1, <1>2, MessageTaken
  <1>4. i \in Instance /\ p \in Path BY <1>1, NextMessage
  <1> HIDE DEF m, i
  <1>5. PICK px, tp : /\ proxy' = [proxy EXCEPT ![p] = px]
                      /\ AskedAt(proxy[p], toPlugin[p], px, tp, i)
    BY <1>1, <1>4, Asked
  <1>6. px.replies = Append(proxy[p].replies, i) BY <1>5 DEF AskedAt
  <1>7. proxy \in [Path -> ProxyState] BY UIFields DEF PInv
  <1>8. proxy'[p] = px /\ \A q \in Path \ {p} : proxy'[q] = proxy[q] BY <1>4, <1>5, <1>7
  <1>9. i \in InstancesOf(p) /\ proxy[p].replies \in Seq(InstancesOf(p)) BY <1>2, <1>4 DEF InstancesOf, QueuesOK
  <1>10. px.replies \in Seq(InstancesOf(p)) BY <1>6, <1>9
  <1>11. \A q \in Path : proxy'[q].replies \in Seq(InstancesOf(q))
    <2> SUFFICES ASSUME NEW q \in Path PROVE proxy'[q].replies \in Seq(InstancesOf(q)) OBVIOUS
    <2>1. CASE q = p BY <1>8, <1>10, <2>1
    <2>2. CASE q # p BY <1>2, <1>8, <2>2 DEF QueuesOK
    <2> QED BY <2>1, <2>2
  <1>12. QueuesOK' BY <1>1, <1>2, <1>3, <1>11 DEF QueuesOK, AliveOK
  <1>13. ASSUME NEW j \in Instance
         PROVE  Kept(proxy', j) = Kept(proxy, j) + (IF j = i THEN 1 ELSE 0)
    <2>1. Kept(proxy, j) \in Nat /\ PathOf[j] \in Path BY <1>2, PlaceNumbers
    <2>2. CASE PathOf[j] = p
      <3>1. Kept(proxy', j) = Count(px.replies, {j}) /\ Kept(proxy, j) = Count(proxy[p].replies, {j})
        BY <1>8, <2>2 DEF Kept
      <3>2. Count(px.replies, {j}) = Count(proxy[p].replies, {j}) + (IF i \in {j} THEN 1 ELSE 0)
        BY <1>6, <1>9, CountAppend
      <3>3. i \in {j} <=> j = i OBVIOUS
      <3> QED BY <3>1, <3>2, <3>3
    <2>3. CASE PathOf[j] # p
      <3>1. Kept(proxy', j) = Kept(proxy, j) /\ j # i BY <1>8, <2>1, <2>3 DEF Kept
      <3> QED BY <2>1, <3>1
    <2> QED BY <2>2, <2>3
  <1>14. ASSUME NEW j \in Instance \ {i} PROVE SameFor(j)
    <2>1. Kept(proxy', j) = Kept(proxy, j) + 0 BY <1>13
    <2>2. Kept(proxy, j) \in Nat BY <1>2, PlaceNumbers
    <2>3. Kept(proxy', j) = Kept(proxy, j) BY <2>1, <2>2
    <2> QED BY <1>1, <1>3, <2>3 DEF SameFor
  <1>15. PICK k \in Instance : k = i BY <1>4
  <1>16. PlaceOf(k)'
    <2>1. Asks(toUI, i) \in Nat /\ Kept(proxy, i) \in Nat /\ Told(toWeb, i) \in Nat
      BY <1>2, <1>4, PlaceNumbers
    <2>2. Kept(proxy', i) = Kept(proxy, i) + 1 BY <1>4, <1>13
    <2>3. PlaceOf(i) BY <1>4 DEF WInv
    <2>4. InOnePlace(Asks(toUI', i), Kept(proxy', i), Told(toWeb, i), phase[i], answer[i],
                     alive[OwnerOf[i]])
      BY <1>3, <2>1, <2>2, <2>3, IntoTheProxy DEF PlaceOf
    <2>5. Told(toWeb', i) = Told(toWeb, i) BY <1>1
    <2> QED BY <1>1, <1>15, <2>4, <2>5 DEF PlaceOf
  <1> QED BY <1>12, <1>14, <1>15, <1>16, PlaceStep

LEMMA ConnectedInPlace ==
    ASSUME PInv, WInv, NEW p \in Path, DidCreateWebProcessConnection(p)
    PROVE  WInv'
  <1> DEFINE c == Head(fromPlugin[p]).conn
             r == proxy[p].replies
             i == Head(r)
             o == OwnerOf[i]
             m == [op |-> "reply", instance |-> i, conn |-> c]
  <1>0. QueuesOK /\ toWeb \in [Web -> Seq(WebMessage)] BY DEF WInv, QueuesOK
  <1>1. /\ fromPlugin[p] # << >> /\ Head(fromPlugin[p]).op = "connection" /\ r # << >>
        /\ proxy' = [proxy EXCEPT ![p].replies = Tail(@)]
        /\ toWeb' = IF alive[o] THEN [toWeb EXCEPT ![o] = Append(@, m)] ELSE toWeb
        /\ UNCHANGED <<toUI, alive, phase, answer>>
    BY DEF DidCreateWebProcessConnection, ReplyTo, webVars
  <1>2. r \in Seq(InstancesOf(p)) BY <1>0 DEF QueuesOK
  <1>3. i \in InstancesOf(p) /\ Tail(r) \in Seq(InstancesOf(p)) BY <1>1, <1>2
  <1>4. i \in Instance /\ PathOf[i] = p /\ o \in Web BY <1>3, PathsAndWebs DEF InstancesOf
  <1>5. c \in Nat \ {0}
    <2>1. fromPlugin[p] \in Seq(ChildMessage) BY DEF PInv
    <2>2. Head(fromPlugin[p]) \in ChildMessage BY <1>1, <2>1
    <2> QED BY <1>1, <2>2 DEF ChildMessage
  <1>6. m \in WebMessage /\ m \in WebMessageTo(o) /\ \A j \in Instance : m \in RepliesTo(j) <=> j = i
    BY <1>4, <1>5 DEF WebMessage, WebMessageTo, RepliesTo
  <1>7. proxy \in [Path -> ProxyState] BY UIFields DEF PInv
  <1>8. proxy'[p].replies = Tail(r) /\ \A q \in Path \ {p} : proxy'[q] = proxy[q]
    BY <1>1, <1>7 DEF ProxyState
  <1>9. \A j \in Instance : Count(Tail(r), {j}) = Count(r, {j}) - (IF i \in {j} THEN 1 ELSE 0)
    BY <1>1, <1>2, CountTail
  <1> HIDE DEF m, c, r, i
  <1>10. \A q \in Path : proxy'[q].replies \in Seq(InstancesOf(q))
    <2> SUFFICES ASSUME NEW q \in Path PROVE proxy'[q].replies \in Seq(InstancesOf(q)) OBVIOUS
    <2>1. CASE q = p BY <1>3, <1>8, <2>1
    <2>2. CASE q # p BY <1>0, <1>8, <2>2 DEF QueuesOK
    <2> QED BY <2>1, <2>2
  <1>11. ASSUME NEW j \in Instance
         PROVE  Kept(proxy', j) = Kept(proxy, j) - (IF j = i THEN 1 ELSE 0)
    <2>1. Kept(proxy, j) \in Nat /\ PathOf[j] \in Path BY <1>0, PlaceNumbers
    <2>2. CASE PathOf[j] = p
      <3>1. Kept(proxy', j) = Count(Tail(r), {j}) /\ Kept(proxy, j) = Count(r, {j})
        BY <1>8, <2>2 DEF Kept, r
      <3>2. i \in {j} <=> j = i OBVIOUS
      <3> QED BY <1>9, <3>1, <3>2
    <2>3. CASE PathOf[j] # p
      <3>1. Kept(proxy', j) = Kept(proxy, j) /\ j # i BY <1>4, <1>8, <2>1, <2>3 DEF Kept
      <3> QED BY <2>1, <3>1
    <2> QED BY <2>2, <2>3
  <1> DEFINE q == Append(toWeb[o], m)
  <1>12. toWeb[o] \in Seq(WebMessage) /\ toWeb[o] \in Seq(WebMessageTo(o)) BY <1>0, <1>4 DEF QueuesOK
  <1>13. q \in Seq(WebMessage) /\ q \in Seq(WebMessageTo(o)) BY <1>6, <1>12
  <1>14. \A j \in Instance : Count(q, RepliesTo(j)) = Count(toWeb[o], RepliesTo(j))
                                                     + (IF m \in RepliesTo(j) THEN 1 ELSE 0)
    BY <1>6, <1>12, CountAppend
  <1>15. toWeb' = IF alive[o] THEN [toWeb EXCEPT ![o] = q] ELSE toWeb BY <1>1
  <1> HIDE DEF q, o
  <1>16. /\ toWeb' \in [Web -> Seq(WebMessage)] /\ (alive[o] => toWeb'[o] = q)
         /\ (~alive[o] => toWeb' = toWeb) /\ \A v \in Web \ {o} : toWeb'[v] = toWeb[v]
    BY <1>0, <1>4, <1>13, <1>15
  <1>17. \A v \in Web : toWeb'[v] \in Seq(WebMessageTo(v))
    <2> SUFFICES ASSUME NEW v \in Web PROVE toWeb'[v] \in Seq(WebMessageTo(v)) OBVIOUS
    <2>1. toWeb[v] \in Seq(WebMessageTo(v)) BY <1>0 DEF QueuesOK
    <2>2. CASE v = o /\ alive[o] BY <1>13, <1>16, <2>2
    <2>3. CASE v # o \/ ~alive[o] BY <1>15, <1>0, <1>4, <2>1, <2>3
    <2> QED BY <2>2, <2>3
  <1>18. QueuesOK' BY <1>0, <1>1, <1>10, <1>16, <1>17 DEF QueuesOK, AliveOK
  <1>19. ASSUME NEW j \in Instance \ {i} PROVE SameFor(j)
    <2>1. Kept(proxy, j) \in Nat /\ Told(toWeb, j) \in Nat /\ OwnerOf[j] \in Web BY <1>0, PlaceNumbers
    <2>2. Kept(proxy', j) = Kept(proxy, j) - 0 BY <1>11
    <2>3. Told(toWeb', j) = Told(toWeb, j)
      <3>1. CASE OwnerOf[j] = o /\ alive[o]
        <4>1. Told(toWeb', j) = Count(q, RepliesTo(j)) /\ Told(toWeb, j) = Count(toWeb[o], RepliesTo(j))
          BY <1>16, <3>1 DEF Told
        <4>2. Count(q, RepliesTo(j)) = Count(toWeb[o], RepliesTo(j)) + 0 BY <1>6, <1>14
        <4> QED BY <2>1, <4>1, <4>2
      <3>2. CASE ~(OwnerOf[j] = o /\ alive[o])
        <4>1. toWeb'[OwnerOf[j]] = toWeb[OwnerOf[j]] BY <1>0, <1>4, <1>15, <2>1, <3>2
        <4> QED BY <4>1 DEF Told
      <3> QED BY <3>1, <3>2
    <2> QED BY <1>1, <2>1, <2>2, <2>3 DEF SameFor
  <1>20. PICK k \in Instance : k = i BY <1>4
  <1>21. PlaceOf(k)'
    <2>1. Asks(toUI, i) \in Nat /\ Kept(proxy, i) \in Nat /\ Told(toWeb, i) \in Nat
      BY <1>0, <1>4, PlaceNumbers
    <2>2. Kept(proxy', i) = Kept(proxy, i) - 1 BY <1>4, <1>11
    <2>3. PlaceOf(i) BY <1>4 DEF WInv
    <2>4. Told(toWeb', i) = IF alive[OwnerOf[i]] THEN Told(toWeb, i) + 1 ELSE Told(toWeb, i)
      <3>1. CASE alive[o]
        <4>1. Told(toWeb', i) = Count(q, RepliesTo(i)) /\ Told(toWeb, i) = Count(toWeb[o], RepliesTo(i))
          BY <1>16, <3>1 DEF Told, o
        <4>2. Told(toWeb', i) = Told(toWeb, i) + 1 BY <1>4, <1>6, <1>14, <4>1
        <4> QED BY <3>1, <4>2 DEF o
      <3>2. CASE ~alive[o]
        <4>1. Told(toWeb', i) = Told(toWeb, i) BY <1>16, <3>2
        <4> QED BY <3>2, <4>1 DEF o
      <3> QED BY <3>1, <3>2
    <2>5. alive[OwnerOf[i]] \in BOOLEAN BY <1>0, <1>4, PlaceNumbers
    <2>6. InOnePlace(Asks(toUI, i), Kept(proxy', i), Told(toWeb', i), phase[i], answer[i],
                     alive[OwnerOf[i]])
      BY <2>1, <2>2, <2>3, <2>4, <2>5, OutOfTheProxy DEF PlaceOf
    <2> QED BY <1>1, <1>20, <2>6 DEF PlaceOf
  <1> QED BY <1>18, <1>19, <1>20, <1>21, PlaceStep

-----------------------------------------------------------------------------

(* The k requests that the proxy held are refused.                          *)
LEMMA LeftByTheProxy ==
    ASSUME NEW a \in Nat, NEW r \in Nat, NEW t \in Nat, NEW k \in Nat, NEW r2, NEW t2, r2 = r - k,
           NEW f, NEW ans, NEW al \in BOOLEAN, t2 = IF al THEN t + k ELSE t,
           InOnePlace(a, r, t, f, ans, al)
    PROVE  InOnePlace(a, r2, t2, f, ans, al)
  <1>1. CASE al
    <2>1. a + r2 <= a + r /\ a + r2 + t2 = a + r + t BY <1>1
    <2> QED BY <1>1, <2>1 DEF InOnePlace
  <1>2. CASE ~al BY <1>2 DEF InOnePlace
  <1> QED BY <1>1, <1>2

LEMMA AreSequences ==
    ASSUME NEW T, NEW n \in Nat, NEW t \in [1..n -> T]
    PROVE  t \in Seq(T)
  OBVIOUS

LEMMA AllAreTold ==
    ASSUME QueuesOK, NEW p \in Path
    PROVE  /\ TellAll(p) \in [Web -> Seq(WebMessage)]
           /\ \A w \in Web : TellAll(p)[w] \in Seq(WebMessageTo(w))
           /\ \A w \in Web : ~alive[w] => TellAll(p)[w] = toWeb[w]
           /\ \A i \in Instance : Told(TellAll(p), i) = Told(toWeb, i)
  <1> DEFINE m == [op |-> "crashed", path |-> p]
             told == TellAll(p)
  <1>1. m \in WebMessage /\ m.op = "crashed" BY DEF WebMessage
  <1>2. told = [w \in Web |-> IF alive[w] THEN Append(toWeb[w], m) ELSE toWeb[w]] BY DEF TellAll
  <1>3. m \notin UNION {RepliesTo(i) : i \in Instance} /\ \A w \in Web : m \in WebMessageTo(w)
    BY <1>1 DEF RepliesTo, WebMessageTo
  <1>4. \A w \in Web : toWeb[w] \in Seq(WebMessage) /\ toWeb[w] \in Seq(WebMessageTo(w)) BY DEF QueuesOK
  <1> HIDE DEF m, told
  <1>5. ASSUME NEW w \in Web
        PROVE  told[w] \in Seq(WebMessage) /\ told[w] \in Seq(WebMessageTo(w))
    <2>1. m \in WebMessageTo(w) /\ toWeb[w] \in Seq(WebMessage) /\ toWeb[w] \in Seq(WebMessageTo(w))
      BY <1>3, <1>4
    <2>2. Append(toWeb[w], m) \in Seq(WebMessage) /\ Append(toWeb[w], m) \in Seq(WebMessageTo(w))
      BY <1>1, <2>1
    <2> QED BY <1>2, <2>1, <2>2
  <1>6. ASSUME NEW i \in Instance PROVE Told(told, i) = Told(toWeb, i)
    <2> DEFINE o == OwnerOf[i]
    <2>1. o \in Web /\ toWeb[o] \in Seq(WebMessage) /\ Told(toWeb, i) \in Nat
      BY <1>4, PlaceNumbers
    <2>2. m \notin RepliesTo(i) BY <1>3
    <2>3. Count(Append(toWeb[o], m), RepliesTo(i)) = Count(toWeb[o], RepliesTo(i))
                                                   + (IF m \in RepliesTo(i) THEN 1 ELSE 0)
      BY <1>1, <2>1, CountAppend
    <2>4. Count(Append(toWeb[o], m), RepliesTo(i)) = Told(toWeb, i) + 0 BY <2>2, <2>3 DEF Told
    <2>5. Count(Append(toWeb[o], m), RepliesTo(i)) = Told(toWeb, i) BY <2>1, <2>4
    <2>6. told[o] = toWeb[o] \/ told[o] = Append(toWeb[o], m) BY <1>2, <2>1
    <2> QED BY <2>5, <2>6 DEF Told
  <1>7. told \in [Web -> Seq(WebMessage)] BY <1>2, <1>5
  <1>8. \A w \in Web : ~alive[w] => told[w] = toWeb[w] BY <1>2
  <1> QED BY <1>5, <1>6, <1>7, <1>8 DEF told

LEMMA ClosedInPlace ==
    ASSUME PInv, WInv, NEW p \in Path, DidClose(p)
    PROVE  WInv'
  <1> DEFINE r == proxy[p].replies
             lines == TellAll(p)
  <1>0. QueuesOK /\ AliveOK BY DEF WInv, QueuesOK
  <1>1. /\ SitesGoOn(p) /\ toWeb' = Refused(lines, r)
        /\ UNCHANGED <<toUI, alive, phase, answer>>
    BY DEF DidClose, CrashedOrFailedToLaunch, webVars
  <1>2. /\ proxy'[p].replies = << >>
        /\ \A q \in Path \ {p} : proxy'[q].replies = proxy[q].replies
    <2>1. [site |-> site, proxy |-> proxy, toPlugin |-> toPlugin] \in UIPart BY DEF PInv, UIOK
    <2>2. /\ proxy'[p] = NoProxy
          /\ \A q \in Path \ {p} : GrowsAt(proxy[q], toPlugin[q], proxy'[q], toPlugin'[q])
      BY <1>1, <2>1, SitesMoved
    <2> QED BY <2>2 DEF NoProxy, GrowsAt
  <1>3. r \in Seq(InstancesOf(p)) BY <1>0 DEF QueuesOK
  <1>4. r \in Seq(Instance) BY <1>3 DEF InstancesOf
  <1>5. /\ lines \in [Web -> Seq(WebMessage)]
        /\ \A w \in Web : lines[w] \in Seq(WebMessageTo(w))
        /\ \A w \in Web : ~alive[w] => lines[w] = toWeb[w]
        /\ \A i \in Instance : Told(lines, i) = Told(toWeb, i)
    BY <1>0, AllAreTold
  <1> HIDE DEF lines, r
  <1>6. toWeb' \in [Web -> Seq(WebMessage)] /\ ToldWhat(lines, toWeb', r)
    BY <1>0, <1>1, <1>4, <1>5, ToldAll
  <1>7. ASSUME NEW w \in Web PROVE toWeb'[w] \in Seq(WebMessageTo(w))
    <2>1. PICK t : RefusalsTo(w, t, r) /\ toWeb'[w] = lines[w] \o t BY <1>6 DEF ToldWhat
    <2>2. t \in Seq(Refusal) /\ \A k \in DOMAIN t : OwnerOf[t[k].instance] = w
      BY <2>1 DEF RefusalsTo
    <2>3. \A k \in 1..Len(t) : t[k] \in WebMessageTo(w)
      <3> SUFFICES ASSUME NEW k \in 1..Len(t) PROVE t[k] \in WebMessageTo(w) OBVIOUS
      <3>1. t[k] \in Refusal /\ OwnerOf[t[k].instance] = w BY <2>2
      <3> QED BY <3>1, Refusals DEF WebMessageTo
    <2>4. t \in Seq(WebMessageTo(w))
      <3> DEFINE n == Len(t)
      <3>1. n \in Nat /\ t \in [1..n -> Refusal] BY <2>2
      <3> HIDE DEF n
      <3>2. t \in [1..n -> WebMessageTo(w)] BY <2>3, <3>1 DEF n
      <3> QED BY <3>1, <3>2, AreSequences
    <2>5. lines[w] \in Seq(WebMessageTo(w)) BY <1>5
    <2> QED BY <2>1, <2>4, <2>5
  <1>8. \A q \in Path : proxy'[q].replies \in Seq(InstancesOf(q))
    <2> SUFFICES ASSUME NEW q \in Path PROVE proxy'[q].replies \in Seq(InstancesOf(q)) OBVIOUS
    <2>1. CASE q = p
      <3>1. << >> \in Seq(InstancesOf(q)) OBVIOUS
      <3> QED BY <1>2, <2>1, <3>1
    <2>2. CASE q # p BY <1>0, <1>2, <2>2 DEF QueuesOK
    <2> QED BY <2>1, <2>2
  <1>9. QueuesOK' BY <1>0, <1>1, <1>6, <1>7, <1>8 DEF QueuesOK, AliveOK
  <1>10. ASSUME NEW i \in Instance PROVE PlaceOf(i)'
    <2> DEFINE o == OwnerOf[i]
               k == Count(r, {i})
    <2>1. /\ Asks(toUI, i) \in Nat /\ Kept(proxy, i) \in Nat /\ Told(toWeb, i) \in Nat
          /\ o \in Web /\ PathOf[i] \in Path /\ alive[o] \in BOOLEAN
      BY <1>0, PlaceNumbers
    <2>2. k \in Nat BY <1>4, CountType
    <2>3. Kept(proxy', i) = Kept(proxy, i) - k
      <3>1. CASE PathOf[i] = p
        <4>1. Kept(proxy', i) = 0 BY <1>2, <3>1, CountEmpty DEF Kept
        <4>2. Kept(proxy, i) = k BY <3>1 DEF Kept, r
        <4> QED BY <2>2, <4>1, <4>2
      <3>2. CASE PathOf[i] # p
        <4>1. \A n \in DOMAIN r : r[n] \notin {i}
          <5>1. \A n \in DOMAIN r : r[n] \in InstancesOf(p) BY <1>3
          <5> QED BY <3>2, <5>1 DEF InstancesOf
        <4>2. k = 0 BY <1>4, <4>1, CountNone
        <4>3. Kept(proxy', i) = Kept(proxy, i) BY <1>2, <2>1, <3>2 DEF Kept
        <4> QED BY <2>1, <4>2, <4>3
      <3> QED BY <3>1, <3>2
    <2>4. Told(toWeb', i) = IF alive[o] THEN Told(toWeb, i) + k ELSE Told(toWeb, i)
      <3>1. PICK t : RefusalsTo(o, t, r) /\ toWeb'[o] = lines[o] \o t BY <1>6, <2>1 DEF ToldWhat
      <3>2. CASE alive[o]
        <4>1. t \in Seq(WebMessage) /\ Count(t, RepliesTo(i)) = k
          BY <3>1, <3>2, Refusals DEF RefusalsTo
        <4>2. lines[o] \in Seq(WebMessage) BY <1>5, <2>1
        <4>3. Count(lines[o] \o t, RepliesTo(i)) = Count(lines[o], RepliesTo(i)) + Count(t, RepliesTo(i))
          BY <4>1, <4>2, CountConcat
        <4>4. Count(lines[o], RepliesTo(i)) = Told(toWeb, i) BY <1>5 DEF Told
        <4> HIDE DEF k
        <4> QED BY <3>1, <3>2, <4>1, <4>3, <4>4 DEF Told
      <3>3. CASE ~alive[o]
        <4>1. t = << >> /\ lines[o] = toWeb[o] BY <1>5, <2>1, <3>1, <3>3 DEF RefusalsTo
        <4>2. toWeb[o] \in Seq(WebMessage) BY <1>0, <2>1 DEF QueuesOK
        <4>3. toWeb'[o] = toWeb[o] BY <3>1, <4>1, <4>2
        <4> QED BY <3>3, <4>3 DEF Told
      <3> QED BY <2>1, <3>2, <3>3
    <2>5. InOnePlace(Asks(toUI, i), Kept(proxy, i), Told(toWeb, i), phase[i], answer[i], alive[o])
      BY DEF WInv, PlaceOf
    <2> HIDE DEF k, o
    <2>6. InOnePlace(Asks(toUI, i), Kept(proxy', i), Told(toWeb', i), phase[i], answer[i], alive[o])
      BY <2>1, <2>2, <2>3, <2>4, <2>5, LeftByTheProxy
    <2> QED BY <1>1, <2>6 DEF PlaceOf, o
  <1> QED BY <1>9, <1>10 DEF WInv

-----------------------------------------------------------------------------
(* Steps of the plug-in processes and requests for site data.               *)

LEMMA EndCreateInPlace ==
    ASSUME IInv, WInv, NEW p \in Path, EndCreatePlugin(p)
    PROVE  WInv'
  <1> DEFINE i == Top(p).instance
             c == Top(p).conn
  <1>1. /\ child[p].stack # << >> /\ UNCHANGED <<proxy, toUI, toWeb, alive, phase>>
        /\ UNCHANGED answer \/ Reply(i, c, "creating", Done) \/ Reply(i, c, "creating", Failed)
    BY DEF EndCreatePlugin, uiVars
  <1>2. i \in Instance
    <2>1. child[p].stack \in Seq(Call) BY ChildFields DEF IInv
    <2>2. Top(p) \in Call BY <1>1, <2>1 DEF Top
    <2> QED BY <2>2 DEF Call
  <1>3. SameReplies BY <1>1 DEF SameReplies
  <1> HIDE DEF i, c
  <1>4. CASE UNCHANGED answer BY <1>1, <1>3, <1>4, WInvStill
  <1>5. ASSUME NEW v \in {Done, Failed}, answer' = [answer EXCEPT ![i] = v], phase[i] = "creating"
        PROVE  WInv'
    <2>1. v \in Int BY DEF Done, Failed
    <2>2. PICK k \in Instance : k = i BY <1>2
    <2> QED BY <1>1, <1>3, <1>5, <2>1, <2>2, CallAnswered
  <1>6. UNCHANGED answer \/ (phase[i] = "creating" /\ \E v \in {Done, Failed} : answer' = [answer EXCEPT ![i] = v])
    BY <1>1 DEF Reply
  <1> QED BY <1>4, <1>5, <1>6

LEMMA DestroyInPlace ==
    ASSUME IInv, WInv, NEW p \in Path, NEW c \in Conn, DestroyPlugin(p, c)
    PROVE  WInv'
  <1> DEFINE i == Head(requests[c]).instance
  <1>1. /\ requests[c] # << >> /\ UNCHANGED <<proxy, toUI, toWeb, alive, phase>>
        /\ UNCHANGED answer \/ Reply(i, c, "destroying", Done)
    BY DEF DestroyPlugin, TakesRequest, uiVars
  <1>2. i \in Instance
    <2>1. requests[c] \in Seq(SyncRequest) BY DEF IInv, LineOK
    <2>2. Head(requests[c]) \in SyncRequest BY <1>1, <2>1
    <2> QED BY <2>2 DEF SyncRequest
  <1>3. SameReplies BY <1>1 DEF SameReplies
  <1> HIDE DEF i
  <1>4. CASE UNCHANGED answer BY <1>1, <1>3, <1>4, WInvStill
  <1>5. ASSUME NEW v \in {Done}, answer' = [answer EXCEPT ![i] = v], phase[i] = "destroying"
        PROVE  WInv'
    <2>1. v \in Int BY DEF Done
    <2>2. PICK k \in Instance : k = i BY <1>2
    <2> QED BY <1>1, <1>3, <1>5, <2>1, <2>2, CallAnswered
  <1>6. UNCHANGED answer \/ (phase[i] = "destroying" /\ \E v \in {Done} : answer' = [answer EXCEPT ![i] = v])
    BY <1>1 DEF Reply
  <1> QED BY <1>4, <1>5, <1>6

LEMMA SitesKeepReplies ==
    ASSUME PInv, \/ \E s \in SiteCallback : GetSiteData(s)
                 \/ \E p \in Path : DidGetSiteData(p) \/ DidFinishLaunching(p)
    PROVE  SameReplies
  <1>1. proxy \in [Path -> ProxyState] /\ toPlugin \in [Path -> Seq(PluginMessage)]
        /\ site \in [SiteCallback -> SiteState]
    BY UIFields DEF PInv
  <1>2. ASSUME NEW s \in SiteCallback, GetSiteData(s) PROVE SameReplies
    <2> DEFINE a == [state |-> "running", left |-> Plugins]
               si == [site EXCEPT ![s] = a]
               u == [site |-> si, proxy |-> proxy, toPlugin |-> toPlugin]
    <2>1. InUI(ForNextPlugin(u, s)) BY <1>2 DEF GetSiteData
    <2>2. a \in SiteState BY PluginAssumption DEF SiteState, Path
    <2> HIDE DEF a
    <2>3. si \in [SiteCallback -> SiteState] BY <1>1, <2>2
    <2> HIDE DEF si
    <2>4. u \in UIPart BY <1>1, <2>3 DEF UIPart
    <2>5. u.proxy = proxy OBVIOUS
    <2> HIDE DEF u
    <2>6. \A q \in Path : GrowsAt(u.proxy[q], u.toPlugin[q], proxy'[q], toPlugin'[q])
      BY <2>1, <2>4, AskedForSites
    <2> QED BY <2>5, <2>6 DEF GrowsAt, SameReplies
  <1>3. ASSUME NEW p \in Path, DidGetSiteData(p) PROVE SameReplies
    <2>1. PICK px \in ProxyState :
              /\ px.state = proxy[p].state /\ px.requests = proxy[p].requests
              /\ px.replies = proxy[p].replies
              /\ GrowsAt(px, toPlugin[p], proxy'[p], toPlugin'[p])
              /\ \A q \in Path \ {p} : GrowsAt(proxy[q], toPlugin[q], proxy'[q], toPlugin'[q])
              /\ UIOK'
      BY <1>3, SiteAnswered
    <2>2. proxy'[p].replies = proxy[p].replies BY <2>1 DEF GrowsAt
    <2>3. \A q \in Path \ {p} : proxy'[q].replies = proxy[q].replies BY <2>1 DEF GrowsAt
    <2> QED BY <2>2, <2>3 DEF SameReplies
  <1>4. ASSUME NEW p \in Path, DidFinishLaunching(p) PROVE SameReplies
    <2> DEFINE x == proxy[p]
               e == << >>
               y == [x EXCEPT !.state = "running", !.requests = 0, !.getRequests = e, !.clearRequests = e]
    <2>1. x \in ProxyState BY <1>1
    <2>2. proxy' = [proxy EXCEPT ![p] = y] BY <1>1, <1>4, <2>1 DEF DidFinishLaunching, ProxyState
    <2> HIDE DEF x, e
    <2>3. y.replies = x.replies BY <2>1 DEF ProxyState
    <2> HIDE DEF y
    <2>4. proxy'[p] = y /\ \A q \in Path \ {p} : proxy'[q] = proxy[q] BY <1>1, <2>2
    <2> QED BY <2>3, <2>4 DEF SameReplies, x
  <1> QED BY <1>2, <1>3, <1>4

LEMMA InitWInv == Init => WInv
  <1> SUFFICES ASSUME Init PROVE WInv OBVIOUS
  <1>1. /\ toUI = [w \in Web |-> << >>] /\ toWeb = [w \in Web |-> << >>]
        /\ proxy = [p \in Path |-> NoProxy] /\ alive = [w \in Web |-> TRUE]
        /\ phase = [i \in Instance |-> "unborn"] /\ answer = [i \in Instance |-> NoAnswer]
    BY DEF Init
  <1>2. /\ \A w \in Web : toUI[w] = << >> /\ toWeb[w] = << >> /\ alive[w]
        /\ \A p \in Path : proxy[p].replies = << >>
    BY <1>1 DEF NoProxy
  <1>3. ASSUME NEW T PROVE << >> \in Seq(T) OBVIOUS
  <1>4. QueuesOK
    <2>1. toWeb \in [Web -> Seq(WebMessage)] BY <1>1, <1>3
    <2>2. alive \in [Web -> BOOLEAN] /\ answer \in [Instance -> Int] BY <1>1 DEF NoAnswer
    <2>3. \A w \in Web : toUI[w] \in Seq(AskingFrom(w)) /\ toWeb[w] \in Seq(WebMessageTo(w))
      BY <1>2, <1>3
    <2>4. \A p \in Path : proxy[p].replies \in Seq(InstancesOf(p)) BY <1>2, <1>3
    <2> QED BY <2>1, <2>2, <2>3, <2>4 DEF QueuesOK, AliveOK
  <1>5. ASSUME NEW i \in Instance PROVE PlaceOf(i)
    <2>1. OwnerOf[i] \in Web /\ PathOf[i] \in Path BY PathsAndWebs
    <2>2. Asks(toUI, i) = 0 /\ Kept(proxy, i) = 0 /\ Told(toWeb, i) = 0
      BY <1>2, <2>1, CountEmpty DEF Asks, Kept, Told
    <2>3. phase[i] = "unborn" /\ answer[i] = NoAnswer /\ alive[OwnerOf[i]] BY <1>1, <1>2, <2>1
    <2> QED BY <2>2, <2>3 DEF PlaceOf, InOnePlace
  <1> QED BY <1>4, <1>5 DEF WInv

LEMMA NextWInv == AskingOK /\ IInv /\ PInv /\ PInv' /\ WInv /\ [Next]_vars => WInv'
  <1> SUFFICES ASSUME AskingOK, IInv, PInv, PInv', WInv, [Next]_vars PROVE WInv' OBVIOUS
  <1>1. CASE Environment
    <2>1. ASSUME NEW p \in Path, PluginProcessDies(p) \/ TerminationTimerFires(p) PROVE WInv'
      BY <2>1, WInvStill DEF PluginProcessDies, TerminationTimerFires, uiVars, webVars, SameReplies
    <2>2. ASSUME NEW p \in Path, NEW i \in Instance, EnterPlugin(p, i) PROVE WInv'
      BY <2>2, WInvStill DEF EnterPlugin, uiVars, webVars, SameReplies
    <2>3. ASSUME NEW s \in SiteCallback, GetSiteData(s) PROVE WInv'
      <3>1. SameReplies BY <2>3, SitesKeepReplies
      <3> QED BY <2>3, <3>1, WInvStill DEF GetSiteData, webVars
    <2> QED BY <1>1, <2>1, <2>2, <2>3, InstancesInPlace, DiesInPlace DEF Environment
  <1>2. CASE UIProcess
    <2>1. ASSUME NEW p \in Path, LaunchProcess(p) PROVE WInv'
      BY <2>1, WInvStill DEF LaunchProcess, uiVars, webVars, SameReplies
    <2>2. ASSUME NEW p \in Path, DidFinishLaunching(p) \/ DidGetSiteData(p) PROVE WInv'
      <3>1. SameReplies BY <2>2, SitesKeepReplies
      <3> QED BY <2>2, <3>1, WInvStill DEF DidFinishLaunching, DidGetSiteData, webVars
    <2> QED BY <1>2, <2>1, <2>2, GetConnectionInPlace, TimedOutInPlace, ConnectedInPlace,
               ClosedInPlace DEF UIProcess
  <1>3. ASSUME NEW p \in Path, PluginProcessStep(p) PROVE WInv'
    <2>1. CASE ReceiveInitialize(p) \/ CreateConnection(p) \/ HandleSiteData(p) \/ LeavePlugin(p)
      BY <2>1, WInvStill DEF ReceiveInitialize, CreateConnection, HandleSiteData, LeavePlugin,
                             uiVars, webVars, SameReplies
    <2>2. ASSUME NEW c \in Conn, BeginCreatePlugin(p, c) \/ WebProcessConnectionDidClose(p, c)
          PROVE  WInv'
      BY <2>2, WInvStill DEF BeginCreatePlugin, WebProcessConnectionDidClose, uiVars, webVars,
                             SameReplies
    <2>3. ASSUME NEW c \in Conn, NEW i \in Instance, DestroyTimerFires(p, c, i) PROVE WInv'
      BY <2>3, WInvStill DEF DestroyTimerFires, uiVars, webVars, SameReplies
    <2> QED BY <1>3, <2>1, <2>2, <2>3, EndCreateInPlace, DestroyInPlace DEF PluginProcessStep
  <1>4. ASSUME NEW w \in Web, WebProcess(w) PROVE WInv'
    <2>1. ASSUME NEW i \in Instance,
                 \/ GotConnection(i) \/ GotNothing(i) \/ GotGarbage(i)
                 \/ CreateReturns(i) \/ DestroyReturns(i) \/ CallTimesOut(i)
          PROVE  WInv'
      BY <2>1, InstancesInPlace
    <2> QED BY <1>4, <2>1, ReceivedInPlace DEF WebProcess
  <1>5. ASSUME NEW c \in Conn, HangUp(c) PROVE WInv'
    BY <1>5, WInvStill DEF HangUp, uiVars, webVars, SameReplies
  <1>6. CASE UNCHANGED vars BY <1>6, WInvStill DEF vars, SameReplies
  <1> QED BY <1>1, <1>2, <1>3, <1>4, <1>5, <1>6 DEF Next

LEMMA AlwaysWInv == Spec => [](AskingOK /\ IInv /\ PInv /\ WInv)
  BY InitAsking, InitIInv, InitPInv, InitWInv, NextAsking, NextIInv, NextPInv, NextWInv, PTL DEF Spec

(* A web process that waits in getPluginProcessConnection has its request   *)
(* in one place: on its way, kept by the proxy, on its way back, or         *)
(* answered.  Nobody is forgotten when a plug-in process is launched, lost  *)
(* or terminated meanwhile, and nobody is answered twice.                   *)
THEOREM NobodyForgotten == Spec => []NobodyIsForgotten
  <1>1. WInv => NobodyIsForgotten
    <2> SUFFICES ASSUME WInv, NEW i \in Instance, phase[i] = "asking" PROVE WhereAsked(i) = 1
      BY DEF NobodyIsForgotten
    <2>1. QueuesOK BY DEF WInv
    <2>2. /\ Asks(toUI, i) \in Nat /\ Kept(proxy, i) \in Nat /\ Told(toWeb, i) \in Nat
          /\ toUI[OwnerOf[i]] \in Seq(AskingFrom(OwnerOf[i]))
          /\ toWeb[OwnerOf[i]] \in Seq(WebMessageTo(OwnerOf[i]))
      BY <2>1, PlaceNumbers
    <2>3. toUI[OwnerOf[i]] \in Seq(Asking) /\ toWeb[OwnerOf[i]] \in Seq(WebMessage)
      BY <2>2 DEF AskingFrom, WebMessageTo
    <2>4. {k \in DOMAIN toUI[OwnerOf[i]] : /\ toUI[OwnerOf[i]][k].op = "getConnection"
                                           /\ toUI[OwnerOf[i]][k].instance = i}
          = Places(toUI[OwnerOf[i]], AsksFor(i))
      BY <2>3 DEF Places, AsksFor
    <2>5. {k \in DOMAIN proxy[PathOf[i]].replies : proxy[PathOf[i]].replies[k] = i}
          = Places(proxy[PathOf[i]].replies, {i})
      BY DEF Places
    <2>6. {k \in DOMAIN toWeb[OwnerOf[i]] : /\ toWeb[OwnerOf[i]][k].op = "reply"
                                            /\ toWeb[OwnerOf[i]][k].instance = i}
          = Places(toWeb[OwnerOf[i]], RepliesTo(i))
      BY <2>3 DEF Places, RepliesTo
    <2>7. NumberOf(toUI[OwnerOf[i]], LAMBDA m : m.op = "getConnection" /\ m.instance = i) = Asks(toUI, i)
      BY <2>4, Zenon DEF NumberOf, Count, Asks
    <2>8. NumberOf(proxy[PathOf[i]].replies, LAMBDA j : j = i) = Kept(proxy, i)
      BY <2>5, Zenon DEF NumberOf, Count, Kept
    <2>9. NumberOf(toWeb[OwnerOf[i]], LAMBDA m : m.op = "reply" /\ m.instance = i) = Told(toWeb, i)
      BY <2>6, Zenon DEF NumberOf, Count, Told
    <2>10. WhereAsked(i) = Asks(toUI, i) + Kept(proxy, i) + Told(toWeb, i)
                             + (IF answer[i] # NoAnswer THEN 1 ELSE 0)
      BY <2>7, <2>8, <2>9 DEF WhereAsked
    <2>11. PlaceOf(i) BY DEF WInv
    <2> QED BY <2>10, <2>11 DEF PlaceOf, InOnePlace
  <1> QED BY <1>1, AlwaysWInv, PTL

-----------------------------------------------------------------------------
(* Whose connections are.                                                   *)

(* Connection c was made, and by no other process than that of plug-in p.   *)
MadeBy(p, c) == c \in 1..nconn /\ \A q \in Path \ {p} : c \notin child[q].conns

(* Connection c was made, and the process that made it has closed it.       *)
Shut(c) == c \in 1..nconn /\ ~PluginEndOpen(c)

(* No process gets back a connection it closed.                             *)
OnlyNewOnes ==
    /\ nconn' \in Nat /\ nconn <= nconn'
    /\ \A q \in Path : \A c \in child'[q].conns : c \in child[q].conns \/ c > nconn

LEMMA StaysMadeBy ==
    ASSUME IInv, OnlyNewOnes, NEW p \in Path, NEW c, MadeBy(p, c)
    PROVE  MadeBy(p, c)'
  <1>1. nconn \in Nat /\ c \in 1..nconn BY DEF IInv, MadeBy
  <1>2. c \in 1..nconn' /\ ~(c > nconn) BY <1>1 DEF OnlyNewOnes
  <1>3. \A q \in Path \ {p} : c \notin child'[q].conns BY <1>2 DEF OnlyNewOnes, MadeBy
  <1> QED BY <1>2, <1>3 DEF MadeBy

LEMMA StaysShut ==
    ASSUME IInv, OnlyNewOnes, NEW c, Shut(c)
    PROVE  Shut(c)'
  <1>1. nconn \in Nat /\ c \in 1..nconn BY DEF IInv, Shut
  <1>2. c \in 1..nconn' /\ ~(c > nconn) BY <1>1 DEF OnlyNewOnes
  <1>3. \A q \in Path : c \notin child'[q].conns BY <1>2 DEF OnlyNewOnes, Shut, PluginEndOpen
  <1> QED BY <1>2, <1>3 DEF Shut, PluginEndOpen

LEMMA ConnsStay ==
    ASSUME IInv, NEW p \in Path, UNCHANGED nconn, child'[p].conns \subseteq child[p].conns,
           \A q \in Path \ {p} : child'[q] = child[q]
    PROVE  OnlyNewOnes
  <1>1. nconn' \in Nat /\ nconn <= nconn' BY DEF IInv
  <1>2. ASSUME NEW q \in Path PROVE child'[q].conns \subseteq child[q].conns
    <2>1. CASE q = p BY <2>1
    <2>2. CASE q # p BY <2>2
    <2> QED BY <2>1, <2>2
  <1> QED BY <1>1, <1>2 DEF OnlyNewOnes

LEMMA ConnsSame ==
    ASSUME IInv, UNCHANGED child, nconn' = nconn \/ nconn' = nconn + 1
    PROVE  OnlyNewOnes
  BY DEF IInv, OnlyNewOnes

LEMMA GoneConns ==
    ASSUME IInv, NEW p \in Path, Gone(p), UNCHANGED nconn
    PROVE  OnlyNewOnes
  <1> DEFINE y == [NoChild EXCEPT !.state = "gone"]
  <1>1. child \in [Path -> ChildState] /\ child' = [child EXCEPT ![p] = y] BY DEF IInv, Gone
  <1>2. y.conns = {} BY DEF NoChild
  <1> HIDE DEF y
  <1>3. child'[p] = y /\ \A q \in Path \ {p} : child'[q] = child[q] BY <1>1
  <1> QED BY <1>2, <1>3, ConnsStay

LEMMA RunsConns ==
    ASSUME IInv, NEW p \in Path, RunsOn(p), UNCHANGED nconn
    PROVE  OnlyNewOnes
  BY ConnsStay DEF RunsOn, ChildRuns

LEMMA NextConns ==
    ASSUME AskingOK, IInv, [Next]_vars
    PROVE  OnlyNewOnes
  <1>0. child \in [Path -> ChildState] /\ nconn \in Nat BY DEF IInv
  <1>1. CASE Environment
    <2>1. ASSUME NEW i \in Instance, Initialize(i) \/ Destroy(i) PROVE OnlyNewOnes
      BY <2>1, ConnsSame DEF Initialize, Destroy, plugVars
    <2>2. ASSUME NEW w \in Web, WebProcessDies(w) PROVE OnlyNewOnes
      BY <2>2, ConnsSame DEF WebProcessDies, plugVars
    <2>3. ASSUME NEW p \in Path, PluginProcessDies(p) \/ TerminationTimerFires(p) PROVE OnlyNewOnes
      BY <2>3, GoneConns DEF PluginProcessDies, TerminationTimerFires
    <2>4. ASSUME NEW p \in Path, NEW i \in Instance, EnterPlugin(p, i) PROVE OnlyNewOnes
      <3>1. RunsOn(p) BY <2>4, RunsOnSteps
      <3> QED BY <2>4, <3>1, RunsConns DEF EnterPlugin, lineVars
    <2>5. ASSUME NEW s \in SiteCallback, GetSiteData(s) PROVE OnlyNewOnes
      BY <2>5, ConnsSame DEF GetSiteData, lineVars
    <2> QED BY <1>1, <2>1, <2>2, <2>3, <2>4, <2>5 DEF Environment
  <1>2. CASE UIProcess
    <2>1. ASSUME NEW w \in Web, ReceiveTimedOut(w) PROVE OnlyNewOnes
      <3> DEFINE p == PathOf[Head(toUI[w]).instance]
      <3>1. UNCHANGED nconn /\ toUI[w] # << >> BY <2>1 DEF ReceiveTimedOut
      <3>2. p \in Path BY <3>1, NextMessage
      <3>3. CASE Gone(p)
        <4> HIDE DEF p
        <4> QED BY <3>1, <3>2, <3>3, GoneConns
      <3>4. CASE UNCHANGED child BY <3>1, <3>4, ConnsSame
      <3> QED BY <2>1, <3>3, <3>4 DEF ReceiveTimedOut
    <2>2. ASSUME NEW w \in Web, ReceiveGetConnection(w) PROVE OnlyNewOnes
      BY <2>2, ConnsSame DEF ReceiveGetConnection, lineVars
    <2>3. ASSUME NEW p \in Path,
                 DidFinishLaunching(p) \/ DidCreateWebProcessConnection(p) \/ DidGetSiteData(p)
          PROVE  OnlyNewOnes
      BY <2>3, ConnsSame DEF DidFinishLaunching, DidCreateWebProcessConnection, DidGetSiteData, lineVars
    <2>4. ASSUME NEW p \in Path, LaunchProcess(p) PROVE OnlyNewOnes
      <3>1. PICK st \in {"running", "gone"} : child' = [child EXCEPT ![p].state = st]
        BY <2>4 DEF LaunchProcess
      <3>2. UNCHANGED nconn BY <2>4 DEF LaunchProcess, lineVars
      <3>3. child'[p].conns = child[p].conns /\ \A q \in Path \ {p} : child'[q] = child[q]
        BY <1>0, <3>1 DEF ChildState
      <3> QED BY <3>2, <3>3, ConnsStay
    <2>5. ASSUME NEW p \in Path, DidClose(p) PROVE OnlyNewOnes
      <3>1. child' = [child EXCEPT ![p] = NoChild] /\ UNCHANGED nconn
        BY <2>5 DEF DidClose, lineVars
      <3>2. NoChild.conns = {} BY DEF NoChild
      <3>3. child'[p] = NoChild /\ \A q \in Path \ {p} : child'[q] = child[q] BY <1>0, <3>1
      <3> QED BY <3>1, <3>2, <3>3, ConnsStay
    <2> QED BY <1>2, <2>1, <2>2, <2>3, <2>4, <2>5 DEF UIProcess
  <1>3. ASSUME NEW p \in Path, PluginProcessStep(p) PROVE OnlyNewOnes
    <2>1. CASE ReceiveInitialize(p)
      <3>1. child' = [child EXCEPT ![p].initialized = TRUE] /\ UNCHANGED nconn
        BY <2>1 DEF ReceiveInitialize, lineVars
      <3>2. child'[p].conns = child[p].conns /\ \A q \in Path \ {p} : child'[q] = child[q]
        BY <1>0, <3>1 DEF ChildState
      <3> QED BY <3>1, <3>2, ConnsStay
    <2>2. CASE HandleSiteData(p)
      <3> DEFINE b == child[p].counter = 0
      <3>1. child' = [child EXCEPT ![p].timer = b] /\ UNCHANGED nconn
        BY <2>2 DEF HandleSiteData, lineVars
      <3> HIDE DEF b
      <3>2. child'[p].conns = child[p].conns /\ \A q \in Path \ {p} : child'[q] = child[q]
        BY <1>0, <3>1 DEF ChildState
      <3> QED BY <3>1, <3>2, ConnsStay
    <2>3. CASE CreateConnection(p)
      <3> DEFINE n == nconn + 1
      <3>1. /\ child' = [child EXCEPT ![p].conns = @ \cup {n}, ![p].counter = @ + 1, ![p].timer = FALSE]
            /\ nconn' = n
        BY <2>3 DEF CreateConnection
      <3>2. n \in Nat /\ nconn <= n /\ n > nconn BY <1>0
      <3> HIDE DEF n
      <3>3. child'[p].conns = child[p].conns \cup {n} /\ \A q \in Path \ {p} : child'[q] = child[q]
        BY <1>0, <3>1 DEF ChildState
      <3>4. ASSUME NEW q \in Path, NEW c \in child'[q].conns PROVE c \in child[q].conns \/ c > nconn
        <4>1. CASE q = p BY <3>2, <3>3, <3>4, <4>1
        <4>2. CASE q # p BY <3>3, <3>4, <4>2
        <4> QED BY <4>1, <4>2
      <3> QED BY <3>1, <3>2, <3>4 DEF OnlyNewOnes
    <2>4. CASE EndCreatePlugin(p) \/ LeavePlugin(p)
      <3>1. RunsOn(p) BY <2>4, RunsOnSteps
      <3> QED BY <2>4, <3>1, RunsConns DEF EndCreatePlugin, LeavePlugin, lineVars
    <2>5. ASSUME NEW c \in Conn, BeginCreatePlugin(p, c) \/ DestroyPlugin(p, c)
                                   \/ WebProcessConnectionDidClose(p, c)
          PROVE  OnlyNewOnes
      <3>1. RunsOn(p) BY <2>5, RunsOnSteps
      <3> QED BY <2>5, <3>1, RunsConns
              DEF BeginCreatePlugin, DestroyPlugin, WebProcessConnectionDidClose
    <2>6. ASSUME NEW c \in Conn, NEW i \in Instance, DestroyTimerFires(p, c, i) PROVE OnlyNewOnes
      <3>1. RunsOn(p) BY <2>6, RunsOnSteps
      <3> QED BY <2>6, <3>1, RunsConns DEF DestroyTimerFires
    <2> QED BY <1>3, <2>1, <2>2, <2>3, <2>4, <2>5, <2>6 DEF PluginProcessStep
  <1>4. ASSUME NEW w \in Web, WebProcess(w) PROVE OnlyNewOnes
    <2>1. CASE ReceiveFromUI(w) BY <2>1, ConnsSame DEF ReceiveFromUI, plugVars
    <2>2. ASSUME NEW i \in Instance,
                 \/ GotConnection(i) \/ GotNothing(i) \/ GotGarbage(i)
                 \/ CreateReturns(i) \/ DestroyReturns(i) \/ CallTimesOut(i)
          PROVE  OnlyNewOnes
      BY <2>2, ConnsSame DEF GotConnection, GotNothing, GotGarbage, Enter, CreateReturns,
                             DestroyReturns, CallTimesOut, plugVars, lineVars
    <2> QED BY <1>4, <2>1, <2>2 DEF WebProcess
  <1>5. ASSUME NEW c \in Conn, HangUp(c) PROVE OnlyNewOnes
    BY <1>5, ConnsSame DEF HangUp, plugVars
  <1>6. CASE UNCHANGED vars BY <1>6, ConnsSame DEF vars
  <1> QED BY <1>1, <1>2, <1>3, <1>4, <1>5, <1>6 DEF Next

-----------------------------------------------------------------------------
(* A notice that a plug-in process crashed, and the connections of that     *)
(* plug-in that a web process knows when it arrives.                        *)

(* A reply with a connection.                                               *)
Brings(m) == m.op = "reply" /\ m.conn > 0

Got(i) == phase[i] = "asking" /\ answer[i] > 0

(* Every connection on its way is one of the plug-in it was asked for.      *)
ArrivesOK ==
    \A p \in Path : \A k \in DOMAIN fromPlugin[p] :
        fromPlugin[p][k].op = "connection" => MadeBy(p, fromPlugin[p][k].conn)
RepliesOK ==
    \A w \in Web : \A k \in DOMAIN toWeb[w] :
        Brings(toWeb[w][k]) => MadeBy(PathOf[toWeb[w][k].instance], toWeb[w][k].conn)
AnswersOK == \A i \in Instance : Got(i) => MadeBy(PathOf[i], answer[i])
KnownOK ==
    \A w \in Web, p \in Path : pathsAndConns[w][p] # NoConn => MadeBy(p, pathsAndConns[w][p])

(* What web process w knows, and will know from the messages before the     *)
(* k-th of queue s, of plug-in p.                                           *)
KnownShut(w, p) == pathsAndConns[w][p] # NoConn => Shut(pathsAndConns[w][p])
GotShut(w, p) ==
    \A i \in Instance : OwnerOf[i] = w /\ PathOf[i] = p /\ Got(i) => Shut(answer[i])
ShutBefore(s, k, p) ==
    \A j \in DOMAIN s : j < k /\ Brings(s[j]) /\ PathOf[s[j].instance] = p => Shut(s[j].conn)

Noticed(w, s, k) ==
    s[k].op = "crashed" =>
        KnownShut(w, s[k].path) /\ GotShut(w, s[k].path) /\ ShutBefore(s, k, s[k].path)

NoticesOK == \A w \in Web : \A k \in DOMAIN toWeb[w] : Noticed(w, toWeb[w], k)

NInv ==
    /\ pathsAndConns \in [Web -> [Path -> Nat]]
    /\ ArrivesOK /\ RepliesOK /\ AnswersOK /\ KnownOK /\ NoticesOK

-----------------------------------------------------------------------------
(* Parts that a step leaves alone.                                          *)

NoNewArrival ==
    \A p \in Path : \A k \in DOMAIN fromPlugin'[p] : fromPlugin'[p][k].op = "connection" =>
        \E j \in DOMAIN fromPlugin[p] : fromPlugin[p][j] = fromPlugin'[p][k]

NoNewAnswer == \A i \in Instance : Got(i)' => Got(i) /\ answer'[i] = answer[i]

NothingLearned ==
    /\ pathsAndConns' \in [Web -> [Path -> Nat]]
    /\ \A w \in Web, p \in Path :
          pathsAndConns'[w][p] = NoConn \/ pathsAndConns'[w][p] = pathsAndConns[w][p]

NoNewReply ==
    \A w \in Web : \A k \in DOMAIN toWeb'[w] : Brings(toWeb'[w][k]) =>
        \E j \in DOMAIN toWeb[w] : toWeb[w][j] = toWeb'[w][k]

LEMMA ArrivesStill ==
    ASSUME IInv, OnlyNewOnes, ArrivesOK, NoNewArrival
    PROVE  ArrivesOK'
  <1> SUFFICES ASSUME NEW p \in Path, NEW k \in DOMAIN fromPlugin'[p],
                      fromPlugin'[p][k].op = "connection"
               PROVE  MadeBy(p, fromPlugin[p][k].conn)'
    BY DEF ArrivesOK
  <1>1. PICK j \in DOMAIN fromPlugin[p] : fromPlugin[p][j] = fromPlugin'[p][k] BY DEF NoNewArrival
  <1>2. PICK c : c = fromPlugin'[p][k].conn OBVIOUS
  <1>3. MadeBy(p, c) BY <1>1, <1>2 DEF ArrivesOK
  <1>4. MadeBy(p, c)' BY <1>3, StaysMadeBy
  <1> QED BY <1>2, <1>4 DEF MadeBy

LEMMA RepliesStill ==
    ASSUME IInv, QueuesOK, OnlyNewOnes, RepliesOK, NoNewReply
    PROVE  RepliesOK'
  <1> SUFFICES ASSUME NEW w \in Web, NEW k \in DOMAIN toWeb'[w], Brings(toWeb'[w][k])
               PROVE  MadeBy(PathOf[toWeb[w][k].instance], toWeb[w][k].conn)'
    BY DEF RepliesOK, Brings
  <1>1. PICK j \in DOMAIN toWeb[w] : toWeb[w][j] = toWeb'[w][k] BY DEF NoNewReply
  <1>2. toWeb[w] \in Seq(WebMessage) BY DEF QueuesOK
  <1>3. toWeb[w][j] \in WebMessage BY <1>1, <1>2
  <1>4. toWeb[w][j].instance \in Instance BY <1>1, <1>3 DEF WebMessage, Brings
  <1>5. PICK p \in Path : p = PathOf[toWeb[w][j].instance] BY <1>4, PathsAndWebs
  <1>6. PICK c : c = toWeb[w][j].conn OBVIOUS
  <1>7. MadeBy(p, c) BY <1>1, <1>5, <1>6 DEF RepliesOK
  <1>8. MadeBy(p, c)' BY <1>7, StaysMadeBy
  <1> QED BY <1>1, <1>5, <1>6, <1>8 DEF MadeBy

LEMMA AnswersStill ==
    ASSUME IInv, OnlyNewOnes, AnswersOK, NoNewAnswer
    PROVE  AnswersOK'
  <1> SUFFICES ASSUME NEW i \in Instance, Got(i)' PROVE MadeBy(PathOf[i], answer[i])'
    BY DEF AnswersOK
  <1>1. Got(i) /\ answer'[i] = answer[i] BY DEF NoNewAnswer
  <1>2a. PICK p \in Path : p = PathOf[i] BY PathsAndWebs
  <1>2b. PICK c : c = answer[i] OBVIOUS
  <1>2. p = PathOf[i] /\ c = answer[i] BY <1>2a, <1>2b
  <1>3. MadeBy(p, c) BY <1>1, <1>2 DEF AnswersOK
  <1>4. MadeBy(p, c)' BY <1>3, StaysMadeBy
  <1> QED BY <1>1, <1>2, <1>4 DEF MadeBy

LEMMA KnownStill ==
    ASSUME IInv, OnlyNewOnes, KnownOK, NothingLearned
    PROVE  KnownOK'
  <1> SUFFICES ASSUME NEW w \in Web, NEW p \in Path, pathsAndConns'[w][p] # NoConn
               PROVE  MadeBy(p, pathsAndConns[w][p])'
    BY DEF KnownOK, NoConn
  <1>1. pathsAndConns'[w][p] = pathsAndConns[w][p] BY DEF NothingLearned
  <1>2. PICK c : c = pathsAndConns[w][p] OBVIOUS
  <1>3. MadeBy(p, c) BY <1>1, <1>2 DEF KnownOK
  <1>4. MadeBy(p, c)' BY <1>3, StaysMadeBy
  <1> QED BY <1>1, <1>2, <1>4 DEF MadeBy

LEMMA KnownShutStill ==
    ASSUME IInv, OnlyNewOnes, NEW w \in Web, NEW p \in Path, KnownShut(w, p),
           pathsAndConns'[w][p] = NoConn \/ pathsAndConns'[w][p] = pathsAndConns[w][p]
    PROVE  KnownShut(w, p)'
  <1> SUFFICES ASSUME pathsAndConns'[w][p] # NoConn PROVE Shut(pathsAndConns[w][p])'
    BY DEF KnownShut, NoConn
  <1>1. PICK c : c = pathsAndConns[w][p] OBVIOUS
  <1>2. Shut(c) BY <1>1 DEF KnownShut
  <1>3. Shut(c)' BY <1>2, StaysShut
  <1> QED BY <1>1, <1>3 DEF Shut

LEMMA GotShutStill ==
    ASSUME IInv, OnlyNewOnes, NEW w \in Web, NEW p \in Path, GotShut(w, p),
           \A i \in Instance : OwnerOf[i] = w /\ PathOf[i] = p /\ Got(i)' =>
               Got(i) /\ answer'[i] = answer[i]
    PROVE  GotShut(w, p)'
  <1> SUFFICES ASSUME NEW i \in Instance, OwnerOf[i] = w, PathOf[i] = p, Got(i)'
               PROVE  Shut(answer[i])'
    BY DEF GotShut
  <1>1. Got(i) /\ answer'[i] = answer[i] OBVIOUS
  <1>2. PICK c : c = answer[i] OBVIOUS
  <1>3. Shut(c) BY <1>1, <1>2 DEF GotShut
  <1>4. Shut(c)' BY <1>3, StaysShut
  <1> QED BY <1>1, <1>2, <1>4 DEF Shut

LEMMA ShutBeforeStill ==
    ASSUME IInv, OnlyNewOnes, NEW s, NEW k, NEW p, ShutBefore(s, k, p)
    PROVE  ShutBefore(s, k, p)'
  <1> SUFFICES ASSUME NEW j \in DOMAIN s, j < k, Brings(s[j]), PathOf[s[j].instance] = p
               PROVE  Shut(s[j].conn)'
    BY DEF ShutBefore
  <1>1. PICK c : c = s[j].conn OBVIOUS
  <1>2. Shut(c) BY <1>1 DEF ShutBefore
  <1>3. Shut(c)' BY <1>2, StaysShut
  <1> QED BY <1>1, <1>3 DEF Shut

LEMMA NoticesStill ==
    ASSUME IInv, QueuesOK, OnlyNewOnes, NoticesOK, NoNewAnswer, NothingLearned,
           \A w \in Web : toWeb'[w] = toWeb[w] \/ toWeb'[w] = << >>
    PROVE  NoticesOK'
  <1> SUFFICES ASSUME NEW w \in Web, NEW k \in DOMAIN toWeb'[w], toWeb'[w][k].op = "crashed"
               PROVE  Noticed(w, toWeb[w], k)'
    BY DEF NoticesOK, Noticed
  <1>1. toWeb'[w] = toWeb[w]
    <2>1. DOMAIN << >> = {} OBVIOUS
    <2> QED BY <2>1
  <1>2. toWeb[w] \in Seq(WebMessage) BY DEF QueuesOK
  <1>3. toWeb[w][k] \in WebMessage BY <1>1, <1>2
  <1>4. toWeb[w][k].path \in Path BY <1>1, <1>3 DEF WebMessage
  <1>5a. PICK s : s = toWeb[w] OBVIOUS
  <1>5b. PICK p \in Path : p = toWeb[w][k].path BY <1>4
  <1>5. s = toWeb[w] /\ p = toWeb[w][k].path BY <1>5a, <1>5b
  <1>6. KnownShut(w, p) /\ GotShut(w, p) /\ ShutBefore(s, k, p)
    BY <1>1, <1>5 DEF NoticesOK, Noticed
  <1>7. KnownShut(w, p)' BY <1>6, KnownShutStill DEF NothingLearned
  <1>8. GotShut(w, p)' BY <1>6, GotShutStill DEF NoNewAnswer
  <1>9. ShutBefore(s, k, p)' BY <1>6, ShutBeforeStill
  <1> QED BY <1>1, <1>5, <1>7, <1>8, <1>9 DEF Noticed, ShutBefore

LEMMA NInvStill ==
    ASSUME IInv, WInv, OnlyNewOnes, NInv, NoNewArrival, NoNewAnswer, NothingLearned,
           \A w \in Web : toWeb'[w] = toWeb[w] \/ toWeb'[w] = << >>
    PROVE  NInv'
  <1>1. QueuesOK BY DEF WInv
  <1>2. ArrivesOK' BY ArrivesStill DEF NInv
  <1>3. RepliesOK'
    <2>1. NoNewReply
      <3>1. DOMAIN << >> = {} OBVIOUS
      <3> QED BY <3>1 DEF NoNewReply
    <2> QED BY <1>1, <2>1, RepliesStill DEF NInv
  <1>4. AnswersOK' BY AnswersStill DEF NInv
  <1>5. KnownOK' BY KnownStill DEF NInv
  <1>6. NoticesOK' BY <1>1, NoticesStill DEF NInv
  <1> QED BY <1>2, <1>3, <1>4, <1>5, <1>6 DEF NInv, NothingLearned

-----------------------------------------------------------------------------

(* The queue s of web process w gets longer.                                *)
LEMMA QueueGrows ==
    ASSUME IInv, QueuesOK, OnlyNewOnes, NoticesOK, NoNewAnswer, NothingLearned, NEW w \in Web,
           NEW z, DOMAIN toWeb[w] \subseteq DOMAIN z, \A j \in DOMAIN toWeb[w] : z[j] = toWeb[w][j],
           NEW k \in DOMAIN toWeb[w], \A j \in DOMAIN z : j < k => j \in DOMAIN toWeb[w]
    PROVE  Noticed(w, z, k)'
  <1> SUFFICES ASSUME z[k].op = "crashed" PROVE Noticed(w, z, k)'
    BY DEF Noticed
  <1>1. toWeb[w] \in Seq(WebMessage) BY DEF QueuesOK
  <1>2. toWeb[w][k] \in WebMessage BY <1>1
  <1>3. toWeb[w][k].path \in Path BY <1>2 DEF WebMessage
  <1>4. PICK p \in Path : p = z[k].path BY <1>3
  <1>5. KnownShut(w, p) /\ GotShut(w, p) /\ ShutBefore(toWeb[w], k, p)
    BY <1>4 DEF NoticesOK, Noticed
  <1>6. ShutBefore(z, k, p) BY <1>5 DEF ShutBefore
  <1>7. KnownShut(w, p)' BY <1>5, KnownShutStill DEF NothingLearned
  <1>8. GotShut(w, p)' BY <1>5, GotShutStill DEF NoNewAnswer
  <1>9. ShutBefore(z, k, p)' BY <1>6, ShutBeforeStill
  <1> QED BY <1>4, <1>7, <1>8, <1>9 DEF Noticed

LEMMA LostIsShut ==
    ASSUME IInv, OnlyNewOnes, NEW p \in Path, child'[p].conns = {}, NEW c, MadeBy(p, c)
    PROVE  Shut(c)'
  <1>1. MadeBy(p, c)' BY StaysMadeBy
  <1>2. \A q \in Path : c \notin child'[q].conns BY <1>1 DEF MadeBy
  <1> QED BY <1>1, <1>2 DEF Shut, MadeBy, PluginEndOpen

(* A connection that nobody had before.                                     *)
LEMMA NewOne ==
    ASSUME IInv, nconn' = nconn + 1, NEW c, c = nconn + 1
    PROVE  /\ c \in 1..nconn' /\ \A q \in Path : c \notin child[q].conns
  <1>1. nconn \in Nat /\ \A q \in Path : child[q].conns \subseteq 1..nconn
    BY DEF IInv, ChildOK, CountOK
  <1>2. c \in 1..nconn' /\ c \notin 1..nconn BY <1>1
  <1> QED BY <1>1, <1>2

LEMMA ReceivedNotice ==
    ASSUME IInv, WInv, OnlyNewOnes, NInv, NEW w \in Web, ReceiveFromUI(w)
    PROVE  NInv'
  <1> DEFINE m == Head(toWeb[w])
             q == Tail(toWeb[w])
  <1>0. /\ QueuesOK /\ answer \in [Instance -> Int] /\ toWeb \in [Web -> Seq(WebMessage)]
        /\ toWeb[w] \in Seq(WebMessageTo(w))
    BY DEF WInv, QueuesOK
  <1>1. /\ alive[w] /\ toWeb[w] # << >> /\ toWeb' = [toWeb EXCEPT ![w] = q]
        /\ \/ m.op = "reply" /\ answer' = [answer EXCEPT ![m.instance] = m.conn]
           \/ m.op = "crashed" /\ UNCHANGED answer
        /\ UNCHANGED <<fromPlugin, phase, pathsAndConns>>
    BY DEF ReceiveFromUI, plugVars
  <1>2. m = toWeb[w][1] /\ 1 \in DOMAIN toWeb[w] /\ m \in WebMessageTo(w) BY <1>0, <1>1
  <1>3. q \in Seq(WebMessage) /\ \A k \in DOMAIN q : k + 1 \in DOMAIN toWeb[w] /\ q[k] = toWeb[w][k + 1]
    BY <1>0, <1>1
  <1>4. m \in WebMessage /\ (m.op = "reply" => OwnerOf[m.instance] = w) BY <1>2 DEF WebMessageTo
  <1>5. m.op = "reply" => m.instance \in Instance /\ m.conn \in Int BY <1>4 DEF WebMessage, Failed
  <1> HIDE DEF m, q
  <1>6. toWeb'[w] = q /\ \A v \in Web \ {w} : toWeb'[v] = toWeb[v] BY <1>0, <1>1
  <1>7. ArrivesOK'
    <2>1. NoNewArrival BY <1>1 DEF NoNewArrival
    <2> QED BY <2>1, ArrivesStill DEF NInv
  <1>8. KnownOK' /\ NothingLearned
    <2>1. NothingLearned BY <1>1 DEF NothingLearned, NInv
    <2> QED BY <2>1, KnownStill DEF NInv
  <1>9. RepliesOK'
    <2>1. ASSUME NEW v \in Web, NEW k \in DOMAIN toWeb'[v]
          PROVE  \E j \in DOMAIN toWeb[v] : toWeb[v][j] = toWeb'[v][k]
      <3>1. CASE v = w BY <1>3, <1>6, <2>1, <3>1
      <3>2. CASE v # w BY <1>6, <2>1, <3>2
      <3> QED BY <3>1, <3>2
    <2>2. NoNewReply BY <2>1 DEF NoNewReply
    <2> QED BY <1>0, <2>2, RepliesStill DEF NInv
  (* What is new of an answer.                                              *)
  <1>10. ASSUME NEW i \in Instance, Got(i)'
         PROVE  \/ Got(i) /\ answer'[i] = answer[i]
                \/ m.op = "reply" /\ i = m.instance /\ answer'[i] = m.conn /\ m.conn > 0
    <2>1. phase[i] = "asking" /\ answer'[i] > 0 BY <1>1, <1>10 DEF Got
    <2>2. CASE m.op = "reply" /\ answer' = [answer EXCEPT ![m.instance] = m.conn]
      <3>1. CASE i = m.instance BY <1>0, <2>1, <2>2, <3>1
      <3>2. CASE i # m.instance
        <4>1. answer'[i] = answer[i] BY <1>0, <1>5, <2>2, <3>2
        <4> QED BY <2>1, <4>1 DEF Got
      <3> QED BY <3>1, <3>2
    <2>3. CASE UNCHANGED answer BY <2>1, <2>3 DEF Got
    <2> QED BY <1>1, <2>2, <2>3
  <1>11. AnswersOK'
    <2> SUFFICES ASSUME NEW i \in Instance, Got(i)' PROVE MadeBy(PathOf[i], answer[i])'
      BY DEF AnswersOK
    <2>1. PICK p \in Path : p = PathOf[i] BY PathsAndWebs
    <2>2. PICK c : c = answer'[i] OBVIOUS
    <2>3. MadeBy(p, c)
      <3>1. CASE Got(i) /\ answer'[i] = answer[i] BY <2>1, <2>2, <3>1 DEF NInv, AnswersOK
      <3>2. CASE m.op = "reply" /\ i = m.instance /\ answer'[i] = m.conn /\ m.conn > 0
        <4>1. Brings(toWeb[w][1]) BY <1>2, <3>2 DEF Brings
        <4> QED BY <1>2, <2>1, <2>2, <3>2, <4>1 DEF NInv, RepliesOK
      <3> QED BY <1>10, <3>1, <3>2
    <2>4. MadeBy(p, c)' BY <2>3, StaysMadeBy
    <2> QED BY <2>1, <2>2, <2>4 DEF MadeBy
  <1>12. NoticesOK'
    <2> SUFFICES ASSUME NEW v \in Web, NEW k \in DOMAIN toWeb'[v], toWeb'[v][k].op = "crashed"
                 PROVE  Noticed(v, toWeb[v], k)'
      BY DEF NoticesOK, Noticed
    <2>1. CASE v # w
      <3>1. toWeb'[v] = toWeb[v] /\ toWeb[v] \in Seq(WebMessage) BY <1>0, <1>6, <2>1
      <3>2. toWeb[v][k] \in WebMessage BY <3>1
      <3>3. PICK p \in Path : p = toWeb[v][k].path BY <3>1, <3>2 DEF WebMessage
      <3>4. PICK s : s = toWeb[v] OBVIOUS
      <3>5. KnownShut(v, p) /\ GotShut(v, p) /\ ShutBefore(s, k, p)
        BY <3>1, <3>3, <3>4 DEF NInv, NoticesOK, Noticed
      <3>6. KnownShut(v, p)' BY <1>8, <3>5, KnownShutStill DEF NothingLearned
      <3>7. GotShut(v, p)' BY <1>4, <1>10, <2>1, <3>5, GotShutStill
      <3>8. ShutBefore(s, k, p)' BY <3>5, ShutBeforeStill
      <3> QED BY <3>1, <3>3, <3>4, <3>6, <3>7, <3>8 DEF Noticed, ShutBefore
    <2>2. CASE v = w
      <3>1. k \in DOMAIN q /\ toWeb'[v] = q BY <1>6, <2>2
      <3>2. k + 1 \in DOMAIN toWeb[w] /\ q[k] = toWeb[w][k + 1] /\ k \in Nat \ {0} BY <1>3, <3>1
      <3>3. toWeb[w][k + 1] \in WebMessage BY <1>0, <3>2
      <3>4. PICK p \in Path : p = q[k].path BY <3>1, <3>2, <3>3 DEF WebMessage
      <3>5. PICK s : s = q OBVIOUS
      <3>6. KnownShut(w, p) /\ GotShut(w, p) /\ ShutBefore(toWeb[w], k + 1, p)
        BY <3>1, <3>2, <3>4 DEF NInv, NoticesOK, Noticed
      <3>7. KnownShut(w, p)' BY <1>8, <3>6, KnownShutStill DEF NothingLearned
      <3>8. ShutBefore(s, k, p)
        <4> SUFFICES ASSUME NEW j \in DOMAIN s, j < k, Brings(s[j]), PathOf[s[j].instance] = p
                     PROVE  Shut(s[j].conn)
          BY DEF ShutBefore
        <4>1. j + 1 \in DOMAIN toWeb[w] /\ s[j] = toWeb[w][j + 1] /\ j \in Nat BY <1>3, <3>5
        <4>2. j + 1 < k + 1 BY <3>2, <4>1
        <4> QED BY <3>6, <4>1, <4>2 DEF ShutBefore
      <3>9. ShutBefore(s, k, p)' BY <3>8, ShutBeforeStill
      <3>10. GotShut(w, p)'
        <4> SUFFICES ASSUME NEW i \in Instance, OwnerOf[i] = w, PathOf[i] = p, Got(i)'
                     PROVE  Shut(answer[i])'
          BY DEF GotShut
        <4>1. PICK c : c = answer'[i] OBVIOUS
        <4>2. Shut(c)
          <5>1. CASE Got(i) /\ answer'[i] = answer[i] BY <3>6, <4>1, <5>1 DEF GotShut
          <5>2. CASE m.op = "reply" /\ i = m.instance /\ answer'[i] = m.conn /\ m.conn > 0
            <6>1. Brings(toWeb[w][1]) /\ 1 < k + 1 BY <1>2, <3>2, <5>2 DEF Brings
            <6> QED BY <1>2, <3>6, <4>1, <5>2, <6>1 DEF ShutBefore
          <5> QED BY <1>10, <5>1, <5>2
        <4>3. Shut(c)' BY <4>2, StaysShut
        <4> QED BY <4>1, <4>3 DEF Shut
      <3> QED BY <2>2, <3>1, <3>4, <3>5, <3>7, <3>9, <3>10 DEF Noticed, ShutBefore
    <2> QED BY <2>1, <2>2
  <1> QED BY <1>1, <1>7, <1>8, <1>9, <1>11, <1>12 DEF NInv

-----------------------------------------------------------------------------

(* A web process enters connection c for the plug-in of instance i.         *)
LEMMA EntersConnection ==
    ASSUME IInv, WInv, OnlyNewOnes, NInv, NEW i \in Instance, NEW c \in Nat,
           pathsAndConns' = [pathsAndConns EXCEPT ![OwnerOf[i]][PathOf[i]] = c],
           UNCHANGED <<fromPlugin, toWeb>>, NoNewAnswer, MadeBy(PathOf[i], c)',
           GotShut(OwnerOf[i], PathOf[i]) => Shut(c)'
    PROVE  NInv'
  <1>0. QueuesOK /\ pathsAndConns \in [Web -> [Path -> Nat]] BY DEF WInv, NInv
  <1>1. PICK w \in Web : w = OwnerOf[i] BY PathsAndWebs
  <1>2. PICK p \in Path : p = PathOf[i] BY PathsAndWebs
  <1>3. /\ pathsAndConns' \in [Web -> [Path -> Nat]] /\ pathsAndConns'[w][p] = c
        /\ \A v \in Web, q \in Path : ~(v = w /\ q = p) => pathsAndConns'[v][q] = pathsAndConns[v][q]
    BY <1>0, <1>1, <1>2
  <1>4. ArrivesOK'
    <2>1. NoNewArrival BY DEF NoNewArrival
    <2> QED BY <2>1, ArrivesStill DEF NInv
  <1>5. RepliesOK'
    <2>1. NoNewReply BY DEF NoNewReply
    <2> QED BY <1>0, <2>1, RepliesStill DEF NInv
  <1>6. AnswersOK' BY AnswersStill DEF NInv
  <1>7. KnownOK'
    <2> SUFFICES ASSUME NEW v \in Web, NEW q \in Path, pathsAndConns'[v][q] # NoConn
                 PROVE  MadeBy(q, pathsAndConns[v][q])'
      BY DEF KnownOK, NoConn
    <2>1. CASE v = w /\ q = p
      <3>1. MadeBy(p, c)' BY <1>2
      <3> QED BY <1>3, <2>1, <3>1 DEF MadeBy
    <2>2. CASE ~(v = w /\ q = p)
      <3>1. PICK d : d = pathsAndConns[v][q] OBVIOUS
      <3>2. MadeBy(q, d) BY <1>3, <2>2, <3>1 DEF NInv, KnownOK
      <3>3. MadeBy(q, d)' BY <3>2, StaysMadeBy
      <3> QED BY <1>3, <2>2, <3>1, <3>3 DEF MadeBy
    <2> QED BY <2>1, <2>2
  <1>8. NoticesOK'
    <2> SUFFICES ASSUME NEW v \in Web, NEW k \in DOMAIN toWeb'[v], toWeb'[v][k].op = "crashed"
                 PROVE  Noticed(v, toWeb[v], k)'
      BY DEF NoticesOK, Noticed
    <2>1. toWeb'[v] = toWeb[v] /\ toWeb[v] \in Seq(WebMessage) BY <1>0 DEF QueuesOK
    <2>2. toWeb[v][k] \in WebMessage BY <2>1
    <2>3. PICK q \in Path : q = toWeb[v][k].path BY <2>1, <2>2 DEF WebMessage
    <2>4. PICK s : s = toWeb[v] OBVIOUS
    <2>5. KnownShut(v, q) /\ GotShut(v, q) /\ ShutBefore(s, k, q)
      BY <2>1, <2>3, <2>4 DEF NInv, NoticesOK, Noticed
    <2>6. KnownShut(v, q)'
      <3>1. CASE v = w /\ q = p
        <4>1. Shut(c)' BY <1>1, <1>2, <2>5, <3>1
        <4>2. pathsAndConns'[v][q] = c BY <1>3, <3>1
        <4> QED BY <4>1, <4>2 DEF KnownShut, Shut
      <3>2. CASE ~(v = w /\ q = p) BY <1>3, <2>5, <3>2, KnownShutStill
      <3> QED BY <3>1, <3>2
    <2>7. GotShut(v, q)' BY <2>5, GotShutStill DEF NoNewAnswer
    <2>8. ShutBefore(s, k, q)' BY <2>5, ShutBeforeStill
    <2> QED BY <2>1, <2>3, <2>4, <2>6, <2>7, <2>8 DEF Noticed, ShutBefore
  <1> QED BY <1>3, <1>4, <1>5, <1>6, <1>7, <1>8 DEF NInv

LEMMA NotAsking ==
    ASSUME NEW i \in Instance, phase \in [Instance -> Phase], answer \in [Instance -> Int],
           phase' = [phase EXCEPT ![i] = "creating"], answer' = [answer EXCEPT ![i] = NoAnswer]
    PROVE  NoNewAnswer
  BY DEF NoNewAnswer, Got

LEMMA EnteredConnection ==
    ASSUME IInv, WInv, OnlyNewOnes, NInv, NEW i \in Instance, GotConnection(i) \/ GotGarbage(i)
    PROVE  NInv'
  <1>0. phase \in [Instance -> Phase] /\ answer \in [Instance -> Int] /\ nconn \in Nat
    BY DEF IInv, LineOK, WInv, QueuesOK
  <1>1. /\ UNCHANGED <<fromPlugin, toWeb>> /\ phase' = [phase EXCEPT ![i] = "creating"]
        /\ answer' = [answer EXCEPT ![i] = NoAnswer] /\ phase[i] = "asking"
    BY DEF GotConnection, GotGarbage, Enter, CreateOn, Waits, uiVars, plugVars
  <1>2. NoNewAnswer BY <1>0, <1>1, NotAsking
  <1>3. CASE GotConnection(i)
    <2>1. answer[i] > 0 /\ pathsAndConns' = [pathsAndConns EXCEPT ![OwnerOf[i]][PathOf[i]] = answer[i]]
      BY <1>3 DEF GotConnection, Enter
    <2>2. answer[i] \in Nat /\ Got(i) BY <1>0, <1>1, <2>1 DEF Got
    <2>3. PICK c \in Nat : c = answer[i] BY <2>2
    <2>4. PICK p \in Path : p = PathOf[i] BY PathsAndWebs
    <2>5. MadeBy(p, c) BY <2>2, <2>3, <2>4 DEF NInv, AnswersOK
    <2>6. MadeBy(p, c)' BY <2>5, StaysMadeBy
    <2>7. ASSUME GotShut(OwnerOf[i], PathOf[i]) PROVE Shut(c)'
      <3>1. Shut(c) BY <2>2, <2>3, <2>7 DEF GotShut
      <3> QED BY <3>1, StaysShut
    <2> QED BY <1>1, <1>2, <2>1, <2>3, <2>4, <2>6, <2>7, EntersConnection
  <1>4. CASE GotGarbage(i)
    <2>1. /\ nconn' = nconn + 1 /\ UNCHANGED child
          /\ pathsAndConns' = [pathsAndConns EXCEPT ![OwnerOf[i]][PathOf[i]] = nconn + 1]
      BY <1>4 DEF GotGarbage, Enter, plugVars
    <2>2. PICK c \in Nat : c = nconn + 1 BY <1>0
    <2>3. c \in 1..nconn' /\ \A q \in Path : c \notin child'[q].conns BY <2>1, <2>2, NewOne
    <2>4. MadeBy(PathOf[i], c)' /\ Shut(c)' BY <2>3 DEF MadeBy, Shut, PluginEndOpen
    <2> QED BY <1>1, <1>2, <2>1, <2>2, <2>4, EntersConnection
  <1> QED BY <1>3, <1>4

LEMMA MadeConnection ==
    ASSUME IInv, PInv, WInv, OnlyNewOnes, NInv, NEW p \in Path, CreateConnection(p)
    PROVE  NInv'
  <1> DEFINE m == [op |-> "connection", conn |-> nconn + 1]
  <1>0. QueuesOK /\ child \in [Path -> ChildState] /\ fromPlugin \in [Path -> Seq(ChildMessage)]
        /\ nconn \in Nat
    BY DEF IInv, WInv, PInv
  <1>1. /\ nconn' = nconn + 1 /\ fromPlugin' = [fromPlugin EXCEPT ![p] = Append(@, m)]
        /\ child' = [child EXCEPT ![p].conns = @ \cup {nconn + 1}, ![p].counter = @ + 1,
                                  ![p].timer = FALSE]
        /\ UNCHANGED <<toWeb, phase, answer, pathsAndConns>>
    BY DEF CreateConnection, uiVars, webVars
  <1>2. PICK c : c = nconn + 1 OBVIOUS
  <1>3. m.conn = c /\ m \in ChildMessage BY <1>0, <1>2 DEF ChildMessage
  <1>4. c \in 1..nconn' /\ \A q \in Path : c \notin child[q].conns BY <1>1, <1>2, NewOne
  <1>5. \A q \in Path \ {p} : child'[q] = child[q] BY <1>0, <1>1
  <1>6. MadeBy(p, c)' BY <1>4, <1>5 DEF MadeBy
  <1> HIDE DEF m
  <1>7. fromPlugin[p] \in Seq(ChildMessage) BY <1>0
  <1>8. fromPlugin'[p] = Append(fromPlugin[p], m) /\ \A q \in Path \ {p} : fromPlugin'[q] = fromPlugin[q]
    BY <1>0, <1>1
  <1>9. ArrivesOK'
    <2> SUFFICES ASSUME NEW q \in Path, NEW k \in DOMAIN fromPlugin'[q],
                        fromPlugin'[q][k].op = "connection"
                 PROVE  MadeBy(q, fromPlugin[q][k].conn)'
      BY DEF ArrivesOK
    <2>1. CASE q = p /\ fromPlugin'[q][k] = m BY <1>3, <1>6, <2>1 DEF MadeBy
    <2>2. CASE k \in DOMAIN fromPlugin[q] /\ fromPlugin'[q][k] = fromPlugin[q][k]
      <3>1. PICK d : d = fromPlugin[q][k].conn OBVIOUS
      <3>2. MadeBy(q, d) BY <2>2, <3>1 DEF NInv, ArrivesOK
      <3>3. MadeBy(q, d)' BY <3>2, StaysMadeBy
      <3> QED BY <2>2, <3>1, <3>3 DEF MadeBy
    <2>3. CASE q # p BY <1>8, <2>2, <2>3
    <2>4. CASE q = p
      <3>1. k \in DOMAIN Append(fromPlugin[p], m) /\ fromPlugin'[p][k] = Append(fromPlugin[p], m)[k]
        BY <1>8, <2>4
      <3>2. (k \in DOMAIN fromPlugin[p] /\ fromPlugin'[p][k] = fromPlugin[p][k]) \/ fromPlugin'[p][k] = m
        BY <1>3, <1>7, <3>1
      <3> QED BY <2>1, <2>2, <2>4, <3>2
    <2> QED BY <2>3, <2>4
  <1>10. NoNewAnswer /\ NothingLearned /\ NoNewReply
    BY <1>1 DEF NoNewAnswer, Got, NothingLearned, NoNewReply, NInv
  <1>11. RepliesOK' BY <1>0, <1>10, RepliesStill DEF NInv
  <1>12. AnswersOK' BY <1>10, AnswersStill DEF NInv
  <1>13. KnownOK' BY <1>10, KnownStill DEF NInv
  <1>14. NoticesOK' BY <1>0, <1>1, <1>10, NoticesStill DEF NInv
  <1> QED BY <1>1, <1>9, <1>11, <1>12, <1>13, <1>14 DEF NInv

LEMMA ConnectedNotice ==
    ASSUME IInv, PInv, WInv, OnlyNewOnes, NInv, NEW p \in Path, DidCreateWebProcessConnection(p)
    PROVE  NInv'
  <1> DEFINE c == Head(fromPlugin[p]).conn
             i == Head(proxy[p].replies)
             o == OwnerOf[i]
             m == [op |-> "reply", instance |-> i, conn |-> c]
             fp == Tail(fromPlugin[p])
  <1>0. /\ QueuesOK /\ toWeb \in [Web -> Seq(WebMessage)]
        /\ fromPlugin \in [Path -> Seq(ChildMessage)]
        /\ fromPlugin[p] \in Seq(ChildMessage) /\ proxy[p].replies \in Seq(InstancesOf(p))
    BY DEF PInv, WInv, QueuesOK
  <1>1. /\ fromPlugin[p] # << >> /\ Head(fromPlugin[p]).op = "connection" /\ proxy[p].replies # << >>
        /\ fromPlugin' = [fromPlugin EXCEPT ![p] = fp]
        /\ toWeb' = IF alive[o] THEN [toWeb EXCEPT ![o] = Append(@, m)] ELSE toWeb
        /\ UNCHANGED <<phase, answer, pathsAndConns>>
    BY DEF DidCreateWebProcessConnection, ReplyTo, webVars
  <1>2. i \in Instance /\ PathOf[i] = p /\ o \in Web
    <2>1. i \in InstancesOf(p) BY <1>0, <1>1
    <2> QED BY <2>1, PathsAndWebs DEF InstancesOf
  <1>3. MadeBy(p, c)
    <2>1. 1 \in DOMAIN fromPlugin[p] /\ Head(fromPlugin[p]) = fromPlugin[p][1] BY <1>0, <1>1
    <2> QED BY <1>1, <2>1 DEF NInv, ArrivesOK
  <1>4. NoNewArrival
    <2> SUFFICES ASSUME NEW q \in Path, NEW k \in DOMAIN fromPlugin'[q]
                 PROVE  \E j \in DOMAIN fromPlugin[q] : fromPlugin[q][j] = fromPlugin'[q][k]
      BY DEF NoNewArrival
    <2>1. CASE q # p BY <1>0, <1>1, <2>1
    <2>2. CASE q = p
      <3>1. fromPlugin'[p] = fp BY <1>0, <1>1
      <3>2. k + 1 \in DOMAIN fromPlugin[p] /\ fp[k] = fromPlugin[p][k + 1] BY <1>0, <1>1, <2>2, <3>1
      <3> QED BY <2>2, <3>1, <3>2
    <2> QED BY <2>1, <2>2
  <1>5. m.op = "reply" /\ m.instance = i /\ m.conn = c OBVIOUS
  <1>5a. DOMAIN Append(toWeb[o], m) = DOMAIN toWeb[o] \cup {Len(toWeb[o]) + 1}
         /\ Append(toWeb[o], m)[Len(toWeb[o]) + 1] = m
         /\ \A j \in DOMAIN toWeb[o] : Append(toWeb[o], m)[j] = toWeb[o][j] /\ j < Len(toWeb[o]) + 1
    <2>1. toWeb[o] \in Seq(WebMessage) BY <1>0, <1>2
    <2> HIDE DEF m, o
    <2> QED BY <2>1
  <1> HIDE DEF m, c, i, fp
  <1>6. \A v \in Web : toWeb'[v] = toWeb[v] \/ (v = o /\ toWeb'[v] = Append(toWeb[o], m))
    BY <1>0, <1>1, <1>2
  <1> HIDE DEF o
  <1>7. NoNewAnswer /\ NothingLearned BY <1>1 DEF NoNewAnswer, Got, NothingLearned, NInv
  <1>8. ArrivesOK' BY <1>4, ArrivesStill DEF NInv
  <1>9. AnswersOK' BY <1>7, AnswersStill DEF NInv
  <1>10. KnownOK' BY <1>7, KnownStill DEF NInv
  <1>11. RepliesOK'
    <2> SUFFICES ASSUME NEW v \in Web, NEW k \in DOMAIN toWeb'[v], Brings(toWeb'[v][k])
                 PROVE  MadeBy(PathOf[toWeb[v][k].instance], toWeb[v][k].conn)'
      BY DEF RepliesOK, Brings
    <2>1. PICK mm : mm = toWeb'[v][k] OBVIOUS
    <2>2. (k \in DOMAIN toWeb[v] /\ toWeb[v][k] = mm) \/ mm = m
      <3>1. CASE toWeb'[v] = toWeb[v] BY <2>1, <3>1
      <3>2. CASE v = o /\ toWeb'[v] = Append(toWeb[o], m) BY <1>5a, <2>1, <3>2
      <3> QED BY <1>6, <3>1, <3>2
    <2>4. mm.instance \in Instance /\ MadeBy(PathOf[mm.instance], mm.conn)
      <3>1. CASE mm = m BY <1>2, <1>3, <1>5, <3>1
      <3>2. CASE k \in DOMAIN toWeb[v] /\ toWeb[v][k] = mm
        <4>1. toWeb[v] \in Seq(WebMessage) BY <1>0
        <4>2. mm \in WebMessage /\ Brings(mm) BY <2>1, <3>2, <4>1
        <4> QED BY <3>2, <4>2 DEF NInv, RepliesOK, WebMessage, Brings
      <3> QED BY <2>2, <3>1, <3>2
    <2>5. PICK q \in Path : q = PathOf[mm.instance] BY <2>4, PathsAndWebs
    <2>6. PICK d : d = mm.conn OBVIOUS
    <2>7. MadeBy(q, d)' BY <2>4, <2>5, <2>6, StaysMadeBy
    <2> QED BY <2>1, <2>5, <2>6, <2>7 DEF MadeBy
  <1>12. NoticesOK'
    <2> SUFFICES ASSUME NEW v \in Web, NEW k \in DOMAIN toWeb'[v], toWeb'[v][k].op = "crashed"
                 PROVE  Noticed(v, toWeb[v], k)'
      BY DEF NoticesOK, Noticed
    <2>1. PICK z : z = toWeb'[v] OBVIOUS
    <2>2. /\ k \in DOMAIN toWeb[v] /\ DOMAIN toWeb[v] \subseteq DOMAIN z
          /\ \A j \in DOMAIN toWeb[v] : z[j] = toWeb[v][j]
          /\ \A j \in DOMAIN z : j < k => j \in DOMAIN toWeb[v]
      <3>1. CASE z = toWeb[v] BY <2>1, <3>1
      <3>2. CASE v = o /\ z = Append(toWeb[o], m)
        <4>1. k \in DOMAIN toWeb[v] BY <1>5, <1>5a, <2>1, <3>2
        <4>2. ASSUME NEW j \in DOMAIN z, j < k PROVE j \in DOMAIN toWeb[v]
          <5>1. toWeb[v] \in Seq(WebMessage) BY <1>0
          <5>2. k \in 1..Len(toWeb[v]) /\ j \in 1..(Len(toWeb[v]) + 1) BY <1>5a, <3>2, <4>1, <4>2, <5>1
          <5> QED BY <4>2, <5>1, <5>2
        <4> QED BY <1>5a, <3>2, <4>1, <4>2
      <3> QED BY <1>6, <2>1, <3>1, <3>2
    <2>3. Noticed(v, z, k)' BY <1>0, <1>7, <2>2, QueueGrows DEF NInv
    <2> QED BY <2>1, <2>3 DEF Noticed, ShutBefore
  <1> QED BY <1>1, <1>8, <1>9, <1>10, <1>11, <1>12 DEF NInv

-----------------------------------------------------------------------------

LEMMA ClosedNotice ==
    ASSUME IInv, PInv, WInv, OnlyNewOnes, NInv, NEW p \in Path, DidClose(p)
    PROVE  NInv'
  <1> DEFINE r == proxy[p].replies
             lines == TellAll(p)
             m == [op |-> "crashed", path |-> p]
  <1>0. /\ QueuesOK /\ AliveOK /\ child \in [Path -> ChildState]
        /\ fromPlugin \in [Path -> Seq(ChildMessage)]
        /\ \A w \in Web : toWeb[w] \in Seq(WebMessage)
    BY DEF WInv, QueuesOK, IInv, PInv
  <1>1. /\ toWeb' = Refused(lines, r) /\ child' = [child EXCEPT ![p] = NoChild]
        /\ fromPlugin' = [fromPlugin EXCEPT ![p] = << >>]
        /\ UNCHANGED <<phase, answer, pathsAndConns>>
    BY DEF DidClose, CrashedOrFailedToLaunch, webVars
  <1>2. child'[p].conns = {} BY <1>0, <1>1 DEF NoChild
  <1>3. r \in Seq(Instance)
    <2>1. r \in Seq(InstancesOf(p)) BY <1>0 DEF QueuesOK
    <2> QED BY <2>1 DEF InstancesOf
  <1>4. lines \in [Web -> Seq(WebMessage)] BY <1>0, AllAreTold
  <1>5. \A w \in Web : lines[w] = toWeb[w] \/ lines[w] = Append(toWeb[w], m) BY DEF TellAll
  <1>6. m.op = "crashed" /\ m.path = p OBVIOUS
  <1> HIDE DEF lines, r, m
  <1>7. ToldWhat(lines, toWeb', r) BY <1>0, <1>1, <1>3, <1>4, ToldAll
  (* The queue of a web process: what was in it, the notice, refusals.      *)
  <1>8. ASSUME NEW w \in Web, NEW k \in DOMAIN toWeb'[w]
        PROVE  LET z == toWeb'[w] IN
               /\ \/ k \in DOMAIN toWeb[w] /\ z[k] = toWeb[w][k]
                  \/ k = Len(toWeb[w]) + 1 /\ z[k] = m
                  \/ z[k] \in Refusal
               /\ \A j \in DOMAIN z : j < Len(toWeb[w]) + 1 => j \in DOMAIN toWeb[w]
               /\ DOMAIN toWeb[w] \subseteq DOMAIN z
               /\ \A j \in DOMAIN toWeb[w] : z[j] = toWeb[w][j]
    <2> DEFINE s == toWeb[w]
               l == lines[w]
               z == toWeb'[w]
    <2>1. PICK t : RefusalsTo(w, t, r) /\ z = l \o t BY <1>7 DEF ToldWhat
    <2>2. s \in Seq(WebMessage) /\ l \in Seq(WebMessage) /\ t \in Seq(Refusal)
      BY <1>0, <1>4, <2>1 DEF RefusalsTo
    <2>3. l = s \/ l = Append(s, m) BY <1>5
    <2>4. k \in DOMAIN z OBVIOUS
    <2> HIDE DEF s, l, z
    <2>5. /\ Len(s) \in Nat /\ DOMAIN s = 1..Len(s) /\ Len(l) \in Nat /\ DOMAIN l = 1..Len(l)
          /\ Len(t) \in Nat
      BY <2>2
    <2> DEFINE a == Len(s)
               b == Len(l)
               c == Len(l) + Len(t)
    <2>6a. DOMAIN z = 1..c /\ \A n \in 1..b : z[n] = l[n] BY <2>1, <2>2
    <2>6b. \A n \in 1..c : n > b => z[n] \in Refusal
      <3> SUFFICES ASSUME NEW n \in 1..c, n > b PROVE z[n] \in Refusal OBVIOUS
      <3>1. z[n] = t[n - b] /\ n - b \in 1..Len(t) BY <2>1, <2>2, <2>5
      <3> QED BY <2>2, <3>1
    <2>8. /\ \A n \in 1..a : l[n] = s[n]
          /\ b = a \/ (b = a + 1 /\ l[a + 1] = m)
      <3>1. CASE l = s BY <3>1
      <3>2. CASE l = Append(s, m) BY <2>2, <3>2
      <3> QED BY <2>3, <3>1, <3>2
    <2>5a. a \in Nat /\ b \in Nat /\ c \in Nat /\ b <= c /\ DOMAIN s = 1..a BY <2>5
    <2> HIDE DEF a, b, c
    <2>8a. 1..a \subseteq 1..b /\ 1..b \subseteq 1..c BY <2>5a, <2>8
    <2>9. \/ k \in DOMAIN s /\ z[k] = s[k]
          \/ k = a + 1 /\ z[k] = m
          \/ z[k] \in Refusal
      <3>1. k \in 1..c BY <2>4, <2>6a
      <3>2. k \in 1..a \/ (k = a + 1 /\ b = a + 1) \/ k > b BY <2>5a, <2>8, <3>1
      <3>3. CASE k \in 1..a BY <2>5a, <2>6a, <2>8, <2>8a, <3>3
      <3>4. CASE k = a + 1 /\ b = a + 1
        <4>1. k \in 1..b BY <2>5a, <3>4
        <4>2. l[a + 1] = m BY <2>5a, <2>8, <3>4
        <4> QED BY <2>6a, <3>4, <4>1, <4>2
      <3>5. CASE k > b BY <2>6b, <3>1, <3>5
      <3> QED BY <3>2, <3>3, <3>4, <3>5
    <2>10. \A n \in DOMAIN z : n < a + 1 => n \in DOMAIN s BY <2>5a, <2>6a
    <2>11. DOMAIN s \subseteq DOMAIN z /\ \A n \in DOMAIN s : z[n] = s[n]
      BY <2>5a, <2>6a, <2>8, <2>8a
    <2> QED BY <2>9, <2>10, <2>11 DEF a, s, z
  <1>9. NoNewArrival
    <2> SUFFICES ASSUME NEW q \in Path, NEW k \in DOMAIN fromPlugin'[q]
                 PROVE  \E j \in DOMAIN fromPlugin[q] : fromPlugin[q][j] = fromPlugin'[q][k]
      BY DEF NoNewArrival
    <2>1. CASE q # p BY <1>0, <1>1, <2>1
    <2>2. CASE q = p
      <3>1. fromPlugin'[p] = << >> /\ DOMAIN << >> = {} BY <1>0, <1>1
      <3> QED BY <2>2, <3>1
    <2> QED BY <2>1, <2>2
  <1>10. NoNewReply
    <2> SUFFICES ASSUME NEW w \in Web, NEW k \in DOMAIN toWeb'[w], Brings(toWeb'[w][k])
                 PROVE  \E j \in DOMAIN toWeb[w] : toWeb[w][j] = toWeb'[w][k]
      BY DEF NoNewReply
    <2>1. toWeb'[w][k] # m BY <1>6 DEF Brings
    <2>2. toWeb'[w][k] \notin Refusal BY DEF Brings, Refusal, Failed
    <2> QED BY <1>8, <2>1, <2>2
  <1>11. NoNewAnswer /\ NothingLearned BY <1>1 DEF NoNewAnswer, Got, NothingLearned, NInv
  <1>12. ArrivesOK' BY <1>9, ArrivesStill DEF NInv
  <1>13. RepliesOK' BY <1>0, <1>10, RepliesStill DEF NInv
  <1>14. AnswersOK' BY <1>11, AnswersStill DEF NInv
  <1>15. KnownOK' BY <1>11, KnownStill DEF NInv
  <1>16. NoticesOK'
    <2> SUFFICES ASSUME NEW w \in Web, NEW k \in DOMAIN toWeb'[w], toWeb'[w][k].op = "crashed"
                 PROVE  Noticed(w, toWeb[w], k)'
      BY DEF NoticesOK, Noticed
    <2>1. PICK z : z = toWeb'[w] OBVIOUS
    <2>2. /\ \/ k \in DOMAIN toWeb[w] /\ z[k] = toWeb[w][k]
             \/ k = Len(toWeb[w]) + 1 /\ z[k] = m
             \/ z[k] \in Refusal
          /\ \A j \in DOMAIN z : j < Len(toWeb[w]) + 1 => j \in DOMAIN toWeb[w]
          /\ DOMAIN toWeb[w] \subseteq DOMAIN z
          /\ \A j \in DOMAIN toWeb[w] : z[j] = toWeb[w][j]
      BY <1>8, <2>1
    <2>3. z[k] \notin Refusal BY <2>1 DEF Refusal
    <2>4. CASE k \in DOMAIN toWeb[w] /\ z[k] = toWeb[w][k]
      <3>1. toWeb[w] \in Seq(WebMessage) BY <1>0
      <3>2. k \in 1..Len(toWeb[w]) /\ Len(toWeb[w]) \in Nat BY <2>4, <3>1
      <3>3. ASSUME NEW j \in DOMAIN z, j < k PROVE j \in DOMAIN toWeb[w]
        <4>1. CASE j \in Int
          <5>1. j < Len(toWeb[w]) + 1 BY <3>2, <3>3, <4>1
          <5> QED BY <2>2, <5>1
        <4>2. j \in Int
          <5>1. PICK t : t \in Seq(Refusal) /\ z = lines[w] \o t BY <1>7, <2>1 DEF ToldWhat, RefusalsTo
          <5>2. lines[w] \in Seq(WebMessage) BY <1>4
          <5> QED BY <5>1, <5>2
        <4> QED BY <4>1, <4>2
      <3>4. Noticed(w, z, k)' BY <1>0, <1>11, <2>2, <2>4, <3>3, QueueGrows DEF NInv
      <3> QED BY <2>1, <3>4 DEF Noticed, ShutBefore
    <2>5. CASE k = Len(toWeb[w]) + 1 /\ z[k] = m
      <3>1. z[k].path = p BY <1>6, <2>5
      <3>2. KnownShut(w, p)'
        <4> SUFFICES ASSUME pathsAndConns'[w][p] # NoConn PROVE Shut(pathsAndConns[w][p])'
          BY DEF KnownShut, NoConn
        <4>1. PICK c : c = pathsAndConns[w][p] OBVIOUS
        <4>2. MadeBy(p, c) BY <1>1, <4>1 DEF NInv, KnownOK
        <4>3. Shut(c)' BY <1>2, <4>2, LostIsShut
        <4> QED BY <1>1, <4>1, <4>3 DEF Shut
      <3>3. GotShut(w, p)'
        <4> SUFFICES ASSUME NEW i \in Instance, OwnerOf[i] = w, PathOf[i] = p, Got(i)'
                     PROVE  Shut(answer[i])'
          BY DEF GotShut
        <4>1. PICK c : c = answer[i] OBVIOUS
        <4>2. Got(i) BY <1>1 DEF Got
        <4>3. MadeBy(p, c) BY <4>1, <4>2 DEF NInv, AnswersOK
        <4>4. Shut(c)' BY <1>2, <4>3, LostIsShut
        <4> QED BY <1>1, <4>1, <4>4 DEF Shut
      <3>4. ShutBefore(z, k, p)'
        <4> SUFFICES ASSUME NEW j \in DOMAIN z, j < k, Brings(z[j]), PathOf[z[j].instance] = p
                     PROVE  Shut(z[j].conn)'
          BY DEF ShutBefore
        <4>1. j \in DOMAIN toWeb[w] /\ z[j] = toWeb[w][j] BY <2>2, <2>5
        <4>2. PICK c : c = z[j].conn OBVIOUS
        <4>3. MadeBy(p, c) BY <4>1, <4>2 DEF NInv, RepliesOK
        <4>4. Shut(c)' BY <1>2, <4>3, LostIsShut
        <4> QED BY <4>2, <4>4 DEF Shut
      <3> QED BY <2>1, <3>1, <3>2, <3>3, <3>4 DEF Noticed, ShutBefore
    <2> QED BY <2>2, <2>3, <2>4, <2>5
  <1> QED BY <1>1, <1>12, <1>13, <1>14, <1>15, <1>16 DEF NInv

-----------------------------------------------------------------------------
(* The other steps.                                                         *)

(* Neither the messages nor the answers change.                             *)
LEMMA NothingNoticed ==
    ASSUME IInv, WInv, OnlyNewOnes, NInv,
           UNCHANGED <<fromPlugin, toWeb, phase, answer, pathsAndConns>>
    PROVE  NInv'
  BY NInvStill DEF NInv, NoNewArrival, NoNewAnswer, Got, NothingLearned

(* A call into the plug-in process is answered.                             *)
LEMMA RepliedNotice ==
    ASSUME IInv, WInv, OnlyNewOnes, NInv, UNCHANGED <<fromPlugin, toWeb, phase, pathsAndConns>>,
           NEW i, NEW c, NEW what \in {"creating", "destroying"}, NEW v,
           UNCHANGED answer \/ Reply(i, c, what, v)
    PROVE  NInv'
  <1>1. answer \in [Instance -> Int] BY DEF WInv, QueuesOK
  <1>2. NoNewAnswer
    <2> SUFFICES ASSUME NEW j \in Instance, Got(j)' PROVE Got(j) /\ answer'[j] = answer[j]
      BY DEF NoNewAnswer
    <2>1. phase[j] = "asking" /\ answer'[j] > 0 BY DEF Got
    <2>2. answer'[j] = answer[j] BY <1>1, <2>1 DEF Reply
    <2> QED BY <2>1, <2>2 DEF Got
  <1> QED BY <1>2, NInvStill DEF NInv, NoNewArrival, NothingLearned

LEMMA InstancesNotice ==
    ASSUME IInv, WInv, OnlyNewOnes, NInv, NEW i \in Instance,
           \/ Initialize(i) \/ Destroy(i) \/ GotConnection(i) \/ GotNothing(i) \/ GotGarbage(i)
           \/ CreateReturns(i) \/ DestroyReturns(i) \/ CallTimesOut(i)
    PROVE  NInv'
  <1>0. /\ phase \in [Instance -> Phase] /\ answer \in [Instance -> Int]
        /\ pathsAndConns \in [Web -> [Path -> Nat]]
    BY DEF IInv, LineOK, WInv, QueuesOK, NInv
  <1>1. CASE GotConnection(i) \/ GotGarbage(i) BY <1>1, EnteredConnection
  <1>2. CASE \/ Initialize(i) \/ Destroy(i) \/ GotNothing(i)
             \/ CreateReturns(i) \/ DestroyReturns(i) \/ CallTimesOut(i)
    <2>1. UNCHANGED <<toWeb, fromPlugin>>
      BY <1>2 DEF Initialize, Destroy, GotNothing, CreateReturns, DestroyReturns, CallTimesOut,
                  uiVars, plugVars
    <2>2. /\ answer' \in {answer, [answer EXCEPT ![i] = NoAnswer]}
          /\ \E f \in Phase : phase' = [phase EXCEPT ![i] = f]
          /\ phase'[i] = "asking" => answer[i] = NoAnswer \/ phase[i] = "asking"
      <3>1. CASE Initialize(i)
        <4>1. PlaceOf(i) /\ phase[i] = "unborn" BY <3>1 DEF Initialize, WInv
        <4>2. answer[i] = NoAnswer BY <4>1 DEF PlaceOf, InOnePlace
        <4>3. /\ answer' \in {answer, [answer EXCEPT ![i] = NoAnswer]}
              /\ \E f \in Phase : phase' = [phase EXCEPT ![i] = f]
          BY <3>1 DEF Initialize, CreateOn, Phase
        <4> QED BY <4>2, <4>3
      <3>2. CASE Destroy(i) \/ GotNothing(i) \/ CreateReturns(i) \/ DestroyReturns(i) \/ CallTimesOut(i)
        <4>1. /\ answer' \in {answer, [answer EXCEPT ![i] = NoAnswer]}
              /\ \E f \in Phase \ {"asking"} : phase' = [phase EXCEPT ![i] = f]
          BY <3>2 DEF Destroy, GotNothing, CreateReturns, DestroyReturns, CallTimesOut, Phase
        <4> QED BY <1>0, <4>1
      <3> QED BY <1>2, <3>1, <3>2
    <2>3. NoNewAnswer
      <3> SUFFICES ASSUME NEW j \in Instance, Got(j)' PROVE Got(j) /\ answer'[j] = answer[j]
        BY DEF NoNewAnswer
      <3>1. phase'[j] = "asking" /\ answer'[j] > 0 BY DEF Got
      <3>2. NoAnswer < 0 BY DEF NoAnswer
      <3>3. CASE j # i BY <1>0, <2>2, <3>1, <3>3 DEF Got
      <3>4. CASE j = i
        <4>1. answer'[i] = answer[i] \/ answer'[i] = NoAnswer BY <1>0, <2>2
        <4>2. answer'[i] = answer[i] BY <3>1, <3>2, <3>4, <4>1 DEF NoAnswer
        <4>3. answer[i] # NoAnswer BY <3>1, <3>4, <4>2 DEF NoAnswer
        <4>4. phase[i] = "asking" BY <2>2, <3>1, <3>4, <4>3
        <4> QED BY <3>1, <3>4, <4>2, <4>4 DEF Got
      <3> QED BY <3>3, <3>4
    <2>4. \/ UNCHANGED pathsAndConns
          \/ pathsAndConns' = [pathsAndConns EXCEPT ![OwnerOf[i]][PathOf[i]] = NoConn]
      BY <1>2 DEF Initialize, Destroy, GotNothing, CreateReturns, DestroyReturns, CallTimesOut,
                  RemovePluginProxy
    <2>5. NothingLearned
      <3>1. CASE UNCHANGED pathsAndConns BY <1>0, <3>1 DEF NothingLearned
      <3>2. CASE pathsAndConns' = [pathsAndConns EXCEPT ![OwnerOf[i]][PathOf[i]] = NoConn]
        BY <1>0, <3>2, PathsAndWebs DEF NothingLearned, NoConn
      <3> QED BY <2>4, <3>1, <3>2
    <2>6. NoNewArrival BY <2>1 DEF NoNewArrival
    <2> QED BY <2>1, <2>3, <2>5, <2>6, NInvStill
  <1> QED BY <1>1, <1>2

LEMMA DiesNotice ==
    ASSUME IInv, WInv, OnlyNewOnes, NInv, NEW w \in Web, WebProcessDies(w)
    PROVE  NInv'
  <1>0. /\ phase \in [Instance -> Phase] /\ toWeb \in [Web -> Seq(WebMessage)]
        /\ pathsAndConns \in [Web -> [Path -> Nat]]
    BY DEF IInv, LineOK, WInv, QueuesOK, NInv
  <1> DEFINE none == [p \in Path |-> NoConn]
  <1>1. /\ toWeb' = [toWeb EXCEPT ![w] = << >>]
        /\ phase' = [i \in Instance |-> IF OwnerOf[i] = w THEN "gone" ELSE phase[i]]
        /\ pathsAndConns' = [pathsAndConns EXCEPT ![w] = none]
        /\ UNCHANGED <<answer, fromPlugin>>
    BY DEF WebProcessDies, plugVars
  <1>2. none \in [Path -> Nat] /\ \A p \in Path : none[p] = NoConn BY DEF NoConn
  <1> HIDE DEF none
  <1>3. \A v \in Web : toWeb'[v] = toWeb[v] \/ toWeb'[v] = << >> BY <1>0, <1>1
  <1>4. NoNewAnswer BY <1>0, <1>1 DEF NoNewAnswer, Got
  <1>5. NothingLearned BY <1>0, <1>1, <1>2 DEF NothingLearned
  <1>6. NoNewArrival BY <1>1 DEF NoNewArrival
  <1> QED BY <1>3, <1>4, <1>5, <1>6, NInvStill

(* A process or the UI process takes or sends messages about site data.     *)
LEMMA SiteMessageNotice ==
    ASSUME IInv, PInv, WInv, OnlyNewOnes, NInv, NEW p \in Path, HandleSiteData(p) \/ DidGetSiteData(p)
    PROVE  NInv'
  <1>0. fromPlugin \in [Path -> Seq(ChildMessage)] /\ fromPlugin[p] \in Seq(ChildMessage) BY DEF PInv
  <1>1. UNCHANGED <<toWeb, phase, answer, pathsAndConns>>
    BY DEF HandleSiteData, DidGetSiteData, uiVars, webVars
  <1>2. NoNewArrival
    <2> SUFFICES ASSUME NEW q \in Path, NEW k \in DOMAIN fromPlugin'[q],
                        fromPlugin'[q][k].op = "connection"
                 PROVE  \E j \in DOMAIN fromPlugin[q] : fromPlugin[q][j] = fromPlugin'[q][k]
      BY DEF NoNewArrival
    <2>1. CASE HandleSiteData(p)
      <3>1. PICK m : m.op = "site" /\ fromPlugin' = [fromPlugin EXCEPT ![p] = Append(@, m)]
        BY <2>1 DEF HandleSiteData
      <3>2. CASE q # p BY <1>0, <3>1, <3>2
      <3>3. CASE q = p
        <4>1. fromPlugin'[p] = Append(fromPlugin[p], m) BY <1>0, <3>1
        <4>2. (k \in DOMAIN fromPlugin[p] /\ Append(fromPlugin[p], m)[k] = fromPlugin[p][k])
              \/ Append(fromPlugin[p], m)[k] = m
          BY <1>0, <3>3, <4>1
        <4> QED BY <3>1, <3>3, <4>1, <4>2
      <3> QED BY <3>2, <3>3
    <2>2. CASE DidGetSiteData(p)
      <3>1. fromPlugin[p] # << >> /\ fromPlugin' = [fromPlugin EXCEPT ![p] = Tail(@)]
        BY <2>2 DEF DidGetSiteData
      <3>2. CASE q # p BY <1>0, <3>1, <3>2
      <3>3. CASE q = p
        <4>1. fromPlugin'[p] = Tail(fromPlugin[p]) BY <1>0, <3>1
        <4>2. k + 1 \in DOMAIN fromPlugin[p] /\ Tail(fromPlugin[p])[k] = fromPlugin[p][k + 1]
          BY <1>0, <3>1, <3>3, <4>1
        <4> QED BY <3>3, <4>1, <4>2
      <3> QED BY <3>2, <3>3
    <2> QED BY <2>1, <2>2
  <1>3. NoNewAnswer /\ NothingLearned BY <1>1 DEF NoNewAnswer, Got, NothingLearned, NInv
  <1> QED BY <1>1, <1>2, <1>3, NInvStill

-----------------------------------------------------------------------------

LEMMA InitNInv == Init => NInv
  <1> SUFFICES ASSUME Init PROVE NInv OBVIOUS
  <1> DEFINE none == [p \in Path |-> NoConn]
  <1>1. /\ toWeb = [w \in Web |-> << >>] /\ fromPlugin = [p \in Path |-> << >>]
        /\ phase = [i \in Instance |-> "unborn"] /\ pathsAndConns = [w \in Web |-> none]
    BY DEF Init
  <1>2. none \in [Path -> Nat] /\ \A p \in Path : none[p] = NoConn BY DEF NoConn
  <1> HIDE DEF none
  <1>3. DOMAIN << >> = {} OBVIOUS
  <1>4. ArrivesOK BY <1>1, <1>3 DEF ArrivesOK
  <1>5. RepliesOK /\ NoticesOK BY <1>1, <1>3 DEF RepliesOK, NoticesOK
  <1>6. AnswersOK BY <1>1 DEF AnswersOK, Got
  <1>7. KnownOK BY <1>1, <1>2 DEF KnownOK
  <1>8. pathsAndConns \in [Web -> [Path -> Nat]] BY <1>1, <1>2
  <1> QED BY <1>4, <1>5, <1>6, <1>7, <1>8 DEF NInv

LEMMA NextNInv == AskingOK /\ IInv /\ PInv /\ WInv /\ NInv /\ [Next]_vars => NInv'
  <1> SUFFICES ASSUME AskingOK, IInv, PInv, WInv, NInv, [Next]_vars PROVE NInv' OBVIOUS
  <1>0. OnlyNewOnes BY NextConns
  <1>1. CASE Environment
    <2>1. ASSUME NEW p \in Path, PluginProcessDies(p) \/ TerminationTimerFires(p) PROVE NInv'
      BY <1>0, <2>1, NothingNoticed DEF PluginProcessDies, TerminationTimerFires, uiVars, webVars
    <2>2. ASSUME NEW p \in Path, NEW i \in Instance, EnterPlugin(p, i) PROVE NInv'
      BY <1>0, <2>2, NothingNoticed DEF EnterPlugin, uiVars, webVars
    <2>3. ASSUME NEW s \in SiteCallback, GetSiteData(s) PROVE NInv'
      BY <1>0, <2>3, NothingNoticed DEF GetSiteData, webVars
    <2> QED BY <1>0, <1>1, <2>1, <2>2, <2>3, InstancesNotice, DiesNotice DEF Environment
  <1>2. CASE UIProcess
    <2>1. ASSUME NEW p \in Path, LaunchProcess(p) \/ DidFinishLaunching(p) PROVE NInv'
      BY <1>0, <2>1, NothingNoticed DEF LaunchProcess, DidFinishLaunching, uiVars, webVars
    <2>2. ASSUME NEW w \in Web, ReceiveGetConnection(w) \/ ReceiveTimedOut(w) PROVE NInv'
      BY <1>0, <2>2, NothingNoticed DEF ReceiveGetConnection, ReceiveTimedOut, webVars
    <2> QED BY <1>0, <1>2, <2>1, <2>2, ConnectedNotice, SiteMessageNotice, ClosedNotice DEF UIProcess
  <1>3. ASSUME NEW p \in Path, PluginProcessStep(p) PROVE NInv'
    <2>1. CASE ReceiveInitialize(p) \/ LeavePlugin(p)
      BY <1>0, <2>1, NothingNoticed DEF ReceiveInitialize, LeavePlugin, uiVars, webVars
    <2>2. ASSUME NEW c \in Conn, BeginCreatePlugin(p, c) \/ WebProcessConnectionDidClose(p, c)
          PROVE  NInv'
      BY <1>0, <2>2, NothingNoticed DEF BeginCreatePlugin, WebProcessConnectionDidClose, uiVars, webVars
    <2>3. ASSUME NEW c \in Conn, NEW i \in Instance, DestroyTimerFires(p, c, i) PROVE NInv'
      BY <1>0, <2>3, NothingNoticed DEF DestroyTimerFires, uiVars, webVars
    <2>4. CASE EndCreatePlugin(p)
      <3>1. PICK i, c, v : UNCHANGED answer \/ Reply(i, c, "creating", v)
        BY <2>4 DEF EndCreatePlugin
      <3>2. UNCHANGED <<fromPlugin, toWeb, phase, pathsAndConns>> BY <2>4 DEF EndCreatePlugin, uiVars
      <3>3. PICK what \in {"creating", "destroying"} : what = "creating" OBVIOUS
      <3> QED BY <1>0, <3>1, <3>2, <3>3, RepliedNotice
    <2>5. ASSUME NEW c \in Conn, DestroyPlugin(p, c) PROVE NInv'
      <3>1. PICK i, v : UNCHANGED answer \/ Reply(i, c, "destroying", v)
        BY <2>5 DEF DestroyPlugin
      <3>2. UNCHANGED <<fromPlugin, toWeb, phase, pathsAndConns>> BY <2>5 DEF DestroyPlugin, uiVars
      <3>3. PICK what \in {"creating", "destroying"} : what = "destroying" OBVIOUS
      <3> QED BY <1>0, <3>1, <3>2, <3>3, RepliedNotice
    <2> QED BY <1>0, <1>3, <2>1, <2>2, <2>3, <2>4, <2>5, MadeConnection, SiteMessageNotice
            DEF PluginProcessStep
  <1>4. ASSUME NEW w \in Web, WebProcess(w) PROVE NInv'
    <2>1. ASSUME NEW i \in Instance,
                 \/ GotConnection(i) \/ GotNothing(i) \/ GotGarbage(i)
                 \/ CreateReturns(i) \/ DestroyReturns(i) \/ CallTimesOut(i)
          PROVE  NInv'
      BY <1>0, <2>1, InstancesNotice
    <2> QED BY <1>0, <1>4, <2>1, ReceivedNotice DEF WebProcess
  <1>5. ASSUME NEW c \in Conn, HangUp(c) PROVE NInv'
    BY <1>0, <1>5, NothingNoticed DEF HangUp, uiVars, plugVars, webVars
  <1>6. CASE UNCHANGED vars BY <1>0, <1>6, NothingNoticed DEF vars
  <1> QED BY <1>1, <1>2, <1>3, <1>4, <1>5, <1>6 DEF Next

LEMMA AlwaysNInv == Spec => [](AskingOK /\ IInv /\ PInv /\ WInv /\ NInv)
  BY InitNInv, NextNInv, AlwaysWInv, PTL DEF Spec

(* PluginProcessCrashed names a path, not a connection.  However crashes,   *)
(* new launches, replies and notices follow one another, the connection     *)
(* that a web process finds by that path when the notice is dispatched is   *)
(* one whose plug-in process is gone, never one to the next process.        *)
THEOREM NoticeIsForTheDead == Spec => []CrashNoticeIsForTheDead
  <1>1. WInv /\ NInv => CrashNoticeIsForTheDead
    <2> SUFFICES ASSUME WInv, NInv, NEW w \in Web, toWeb[w] # << >>, Head(toWeb[w]).op = "crashed",
                        pathsAndConns[w][Head(toWeb[w]).path] # NoConn
                 PROVE  ~PluginEndOpen(pathsAndConns[w][Head(toWeb[w]).path])
      BY DEF CrashNoticeIsForTheDead
    <2>1. toWeb[w] \in Seq(WebMessage) BY DEF WInv, QueuesOK
    <2>2. 1 \in DOMAIN toWeb[w] /\ Head(toWeb[w]) = toWeb[w][1] BY <2>1
    <2>3. Noticed(w, toWeb[w], 1) BY <2>2 DEF NInv, NoticesOK
    <2>4. KnownShut(w, Head(toWeb[w]).path) BY <2>2, <2>3 DEF Noticed
    <2>5. Shut(pathsAndConns[w][Head(toWeb[w]).path]) BY <2>4 DEF KnownShut
    <2> QED BY <2>5 DEF Shut, PluginEndOpen
  <1> QED BY <1>1, AlwaysNInv, PTL

-----------------------------------------------------------------------------
(* Destroying an instance finds its controller.                             *)

(* NPP_New of instance i is on the stack, for connection c.                 *)
InNew(x, i, c) ==
    \E k \in DOMAIN x.stack :
        x.stack[k].making /\ x.stack[k].instance = i /\ x.stack[k].conn = c
Making(i, c) == \E p \in Path : InNew(child[p], i, c)

(* Its controller is there, with its plug-in.                               *)
Settled(i, c) == i \in controllers[c] /\ ~Making(i, c)

Timed(i) == \E p \in Path : i \in child[p].destroyTimers

DestroysIt(m, i) == m.op = "destroy" /\ m.instance = i
Doomed(i, c) == \E k \in DOMAIN requests[c] : DestroysIt(requests[c][k], i)

Dying(i) == phase[i] \in {"destroying", "gone"}

(* The web process knows, or will when its call returns, that the plug-in   *)
(* was created.                                                             *)
Created(i) == phase[i] = "started" \/ (phase[i] = "creating" /\ answer[i] = Done)

SettledThere(i) ==
    connOf[i] \in Conn /\ PluginEndOpen(connOf[i]) => Settled(i, connOf[i])

RequestsOpen == \A c \in Conn : requests[c] # << >> => PluginEndOpen(c)

DoomedOK ==
    \A i \in Instance, c \in Conn : Doomed(i, c) => Settled(i, c) /\ Dying(i) /\ ~Timed(i)

OnceDoomed(q) ==
    \A j, k \in DOMAIN q : q[j].op = "destroy" /\ q[k].op = "destroy"
                             /\ q[j].instance = q[k].instance => j = k
OneDestroy ==
    /\ \A i \in Instance : \A c, d \in Conn : Doomed(i, c) /\ Doomed(i, d) => c = d
    /\ \A c \in Conn : OnceDoomed(requests[c])

TimedOK == \A i \in Instance : Timed(i) => Dying(i)
CreatedOK == \A i \in Instance : Created(i) => SettledThere(i)

TableEntry(n) == [path : Path, conn : 1..n]
ConnsKnown ==
    /\ connOf \in [Instance -> 0..nconn]
    /\ table \in [Web -> Seq(TableEntry(nconn))]

DInv ==
    RequestsOpen /\ DoomedOK /\ OneDestroy /\ TimedOK /\ CreatedOK /\ ConnsKnown

-----------------------------------------------------------------------------
(* What a step may do to the requests, the controllers and the timers.      *)

QueueShrinks(q, r) == r = q \/ r = << >> \/ (q # << >> /\ r = Tail(q))
RequestsShrink == \A c \in Conn : QueueShrinks(requests[c], requests'[c])

StaysSettled ==
    \A i \in Instance, c \in Conn : Settled(i, c) /\ PluginEndOpen(c)' =>
        Settled(i, c)' \/ (Dying(i) /\ ~Doomed(i, c)')
NewlyTimed ==
    \A i \in Instance : Timed(i)' =>
        Timed(i) \/ (Dying(i) /\ \A c \in Conn : ~Doomed(i, c)')
NewlyCreated == \A i \in Instance : Created(i)' => Created(i) \/ SettledThere(i)'

LEMMA ShrunkQueue ==
    ASSUME NEW q \in Seq(SyncRequest), NEW r, QueueShrinks(q, r), OnceDoomed(q)
    PROVE  /\ OnceDoomed(r)
           /\ \A k \in DOMAIN r : \E j \in DOMAIN q : q[j] = r[k]
  <1>1. CASE r = q BY <1>1
  <1>2. CASE r = << >> BY <1>2 DEF OnceDoomed
  <1>3. CASE q # << >> /\ r = Tail(q)
    <2>1. \A k \in DOMAIN r : k \in Nat /\ k + 1 \in DOMAIN q /\ r[k] = q[k + 1] BY <1>3
    <2>2. OnceDoomed(r)
      <3> SUFFICES ASSUME NEW j \in DOMAIN r, NEW k \in DOMAIN r, r[j].op = "destroy",
                          r[k].op = "destroy", r[j].instance = r[k].instance
                   PROVE  j = k
        BY DEF OnceDoomed
      <3>1. j + 1 \in DOMAIN q /\ k + 1 \in DOMAIN q /\ r[j] = q[j + 1] /\ r[k] = q[k + 1] BY <2>1
      <3>2. j + 1 = k + 1 BY <3>1 DEF OnceDoomed
      <3> QED BY <2>1, <3>2
    <2> QED BY <2>1, <2>2
  <1> QED BY <1>1, <1>2, <1>3 DEF QueueShrinks

LEMMA ShrunkRequests ==
    ASSUME IInv, OneDestroy, RequestsShrink
    PROVE  /\ OneDestroy'
           /\ \A i \in Instance, c \in Conn : Doomed(i, c)' => Doomed(i, c)
  <1>1. ASSUME NEW c \in Conn
        PROVE  OnceDoomed(requests'[c]) /\ \A k \in DOMAIN requests'[c] :
                   \E j \in DOMAIN requests[c] : requests[c][j] = requests'[c][k]
    <2>1. requests[c] \in Seq(SyncRequest) BY DEF IInv, LineOK
    <2>2. QueueShrinks(requests[c], requests'[c]) /\ OnceDoomed(requests[c])
      BY DEF RequestsShrink, OneDestroy
    <2> QED BY <2>1, <2>2, ShrunkQueue
  <1>2. ASSUME NEW i \in Instance, NEW c \in Conn, Doomed(i, c)' PROVE Doomed(i, c)
    BY <1>1, <1>2 DEF Doomed
  <1>3. OneDestroy' BY <1>1, <1>2 DEF OneDestroy, OnceDoomed
  <1> QED BY <1>2, <1>3

LEMMA KnownConnsStay ==
    ASSUME ConnsKnown, nconn \in Nat, nconn' \in Nat, nconn <= nconn', UNCHANGED <<connOf, table>>
    PROVE  ConnsKnown'
  <1>1. 0..nconn \subseteq 0..nconn' /\ 1..nconn \subseteq 1..nconn' OBVIOUS
  <1>2. TableEntry(nconn) \subseteq TableEntry(nconn') BY <1>1 DEF TableEntry
  <1>3. ASSUME NEW w \in Web PROVE table[w] \in Seq(TableEntry(nconn'))
    <2>1. table[w] \in Seq(TableEntry(nconn)) BY DEF ConnsKnown
    <2> QED BY <1>2, <2>1
  <1>4. table \in [Web -> Seq(TableEntry(nconn'))] BY <1>3 DEF ConnsKnown
  <1> QED BY <1>1, <1>4 DEF ConnsKnown, TableEntry

(* A step of a plug-in process, or of the UI process.                       *)
LEMMA DInvStep ==
    ASSUME IInv, DInv, OnlyNewOnes, UNCHANGED <<phase, connOf, table>>, RequestsShrink,
           RequestsOpen', StaysSettled, NewlyTimed, NewlyCreated
    PROVE  DInv'
  <1>1. OneDestroy' /\ \A i \in Instance, c \in Conn : Doomed(i, c)' => Doomed(i, c)
    BY ShrunkRequests DEF DInv
  <1>2. \A i \in Instance : Dying(i)' <=> Dying(i) BY DEF Dying
  <1>3. DoomedOK'
    <2> SUFFICES ASSUME NEW i \in Instance, NEW c \in Conn, Doomed(i, c)'
                 PROVE  (Settled(i, c) /\ Dying(i) /\ ~Timed(i))'
      BY DEF DoomedOK
    <2>1. Settled(i, c) /\ Dying(i) /\ ~Timed(i) BY <1>1 DEF DInv, DoomedOK
    <2>2. requests'[c] # << >> BY DEF Doomed
    <2>3. PluginEndOpen(c)' BY <2>2 DEF RequestsOpen, PluginEndOpen
    <2>4. Settled(i, c)' BY <2>1, <2>3 DEF StaysSettled
    <2>5. ~Timed(i)' BY <2>1 DEF NewlyTimed
    <2> QED BY <1>2, <2>1, <2>4, <2>5
  <1>4. TimedOK' BY <1>2 DEF TimedOK, NewlyTimed, DInv
  <1>5. CreatedOK'
    <2> SUFFICES ASSUME NEW i \in Instance, Created(i)', ~SettledThere(i)' PROVE FALSE
      BY DEF CreatedOK
    <2>1. Created(i) BY DEF NewlyCreated
    <2>2. SettledThere(i) BY <2>1 DEF DInv, CreatedOK
    <2>3. PICK c : c = connOf[i] OBVIOUS
    <2>4. c \in Conn /\ PluginEndOpen(c)' /\ ~Settled(i, c)'
      BY <2>3 DEF SettledThere, Settled, Making, PluginEndOpen
    <2>5. c \in 0..nconn /\ nconn \in Nat BY <2>3 DEF DInv, ConnsKnown, IInv
    <2>6. PluginEndOpen(c) BY <2>4, <2>5 DEF OnlyNewOnes, PluginEndOpen
    <2>7. Settled(i, c) BY <2>2, <2>3, <2>4, <2>6 DEF SettledThere
    <2>8. Dying(i) BY <2>4, <2>7 DEF StaysSettled
    <2> QED BY <2>1, <2>8 DEF Created, Dying
  <1>6. ConnsKnown' BY KnownConnsStay DEF DInv, IInv, OnlyNewOnes
  <1> QED BY <1>1, <1>3, <1>4, <1>5, <1>6 DEF DInv

-----------------------------------------------------------------------------
(* Steps of a plug-in process.                                              *)

(* No call of NPP_New is added.                                             *)
FewerCalls(s, t) ==
    \A k \in DOMAIN t : t[k].making => \E j \in DOMAIN s : s[j] = t[k]

LEMMA OneChanges ==
    ASSUME IInv, NEW p \in Path, NEW y, child' = [child EXCEPT ![p] = y]
    PROVE  child'[p] = y /\ \A q \in Path \ {p} : child'[q] = child[q]
  BY DEF IInv

LEMMA MakingOnly ==
    ASSUME IInv, NEW p \in Path, NEW y, child' = [child EXCEPT ![p] = y],
           FewerCalls(child[p].stack, y.stack), NEW i, NEW c, Making(i, c)'
    PROVE  Making(i, c)
  <1>1. child'[p] = y /\ \A q \in Path \ {p} : child'[q] = child[q] BY OneChanges
  <1>2. PICK q \in Path : InNew(child'[q], i, c) BY DEF Making, InNew
  <1>3. InNew(child[q], i, c) BY <1>1, <1>2 DEF InNew, FewerCalls
  <1> QED BY <1>3 DEF Making

LEMMA TimedOnly ==
    ASSUME IInv, NEW p \in Path, NEW y, child' = [child EXCEPT ![p] = y],
           y.destroyTimers \subseteq child[p].destroyTimers
    PROVE  NewlyTimed
  <1>1. child'[p] = y /\ \A q \in Path \ {p} : child'[q] = child[q] BY OneChanges
  <1> QED BY <1>1 DEF NewlyTimed, Timed

LEMMA NothingNewCreated ==
    ASSUME UNCHANGED <<phase, connOf>>,
           \A i \in Instance : phase[i] = "creating" /\ answer'[i] = Done => answer[i] = Done
    PROVE  NewlyCreated
  BY DEF NewlyCreated, Created

(* The process runs on with its connections.                                *)
LEMMA RunsStep ==
    ASSUME IInv, DInv, OnlyNewOnes, NEW p \in Path, NEW y, child' = [child EXCEPT ![p] = y],
           child[p].conns \subseteq y.conns, y.destroyTimers \subseteq child[p].destroyTimers,
           FewerCalls(child[p].stack, y.stack), NewlyCreated,
           UNCHANGED <<phase, connOf, table, controllers, requests>>
    PROVE  DInv'
  <1>1. child'[p] = y /\ \A q \in Path \ {p} : child'[q] = child[q] BY OneChanges
  <1>2. \A c \in Conn : PluginEndOpen(c) => PluginEndOpen(c)' BY <1>1 DEF PluginEndOpen
  <1>3. RequestsOpen' BY <1>2 DEF RequestsOpen, DInv
  <1>4. StaysSettled BY MakingOnly DEF StaysSettled, Settled
  <1>5. NewlyTimed BY TimedOnly
  <1>6. RequestsShrink BY DEF RequestsShrink, QueueShrinks
  <1> QED BY <1>3, <1>4, <1>5, <1>6, DInvStep

(* Nothing changes that DInv is about.                                      *)
LEMMA NothingDestroyed ==
    ASSUME IInv, DInv, OnlyNewOnes,
           UNCHANGED <<child, phase, answer, connOf, table, controllers, requests>>
    PROVE  DInv'
  <1>1. RequestsOpen' BY DEF RequestsOpen, DInv, PluginEndOpen
  <1>2. StaysSettled BY DEF StaysSettled, Settled, Making, InNew
  <1>3. NewlyTimed BY DEF NewlyTimed, Timed
  <1>4. RequestsShrink BY DEF RequestsShrink, QueueShrinks
  <1>5. NewlyCreated BY NothingNewCreated
  <1> QED BY <1>1, <1>2, <1>3, <1>4, <1>5, DInvStep

(* WebProcessConnection c loses instances.                                  *)
LEMMA RemovedStep ==
    ASSUME IInv, DInv, OnlyNewOnes, NEW p \in Path, NEW c \in Conn, c \in child[p].conns,
           NEW gone, NEW y, child' = [child EXCEPT ![p] = y],
           y.conns = AfterRemoval(p, c, gone).conns,
           y.destroyTimers \subseteq child[p].destroyTimers,
           FewerCalls(child[p].stack, y.stack), RemoveControllers(c, gone), NewlyCreated,
           RequestsShrink, controllers[c] \subseteq gone => requests'[c] = << >>,
           UNCHANGED <<phase, connOf, table>>,
           \A i \in Instance : i \in gone /\ Settled(i, c) /\ ~(controllers[c] \subseteq gone) =>
               Dying(i) /\ ~Doomed(i, c)'
    PROVE  DInv'
  <1>1. child'[p] = y /\ \A q \in Path \ {p} : child'[q] = child[q] BY OneChanges
  <1>2. IF controllers[c] \subseteq gone THEN y.conns = child[p].conns \ {c}
        ELSE y.conns = child[p].conns
    BY AfterRemovalFields
  <1>3. /\ controllers \in [Conn -> SUBSET Instance] /\ requests \in [Conn -> Seq(SyncRequest)]
        /\ controllers' = [controllers EXCEPT ![c] = @ \ gone]
    BY DEF IInv, LineOK, RemoveControllers
  <1>4. controllers[c] \subseteq gone => ~PluginEndOpen(c)'
    <2> SUFFICES ASSUME controllers[c] \subseteq gone, NEW q \in Path, c \in child'[q].conns
                 PROVE  FALSE
      BY DEF PluginEndOpen
    <2>1. CASE q = p BY <1>1, <1>2, <2>1
    <2>2. CASE q # p BY <1>1, <2>2 DEF IInv, Disjoint
    <2> QED BY <2>1, <2>2
  <1>5. RequestsOpen'
    <2> SUFFICES ASSUME NEW d \in Conn, requests'[d] # << >> PROVE PluginEndOpen(d)'
      BY DEF RequestsOpen
    <2>1. requests[d] # << >> BY DEF RequestsShrink, QueueShrinks
    <2>2. PICK q \in Path : d \in child[q].conns BY <2>1 DEF DInv, RequestsOpen, PluginEndOpen
    <2>3. d \in child'[q].conns BY <1>1, <1>2, <2>2
    <2> QED BY <2>3 DEF PluginEndOpen
  <1>6. StaysSettled
    <2> SUFFICES ASSUME NEW i \in Instance, NEW d \in Conn, Settled(i, d), PluginEndOpen(d)'
                 PROVE  Settled(i, d)' \/ (Dying(i) /\ ~Doomed(i, d)')
      BY DEF StaysSettled
    <2>1. i \in controllers[d] /\ ~Making(i, d)' BY MakingOnly DEF Settled
    <2>2. CASE d # c \/ i \notin gone BY <1>3, <2>1, <2>2 DEF Settled
    <2>3. CASE d = c /\ i \in gone BY <1>4, <2>3
    <2> QED BY <2>2, <2>3
  <1>7. NewlyTimed BY TimedOnly
  <1> QED BY <1>5, <1>6, <1>7, DInvStep

LEMMA AfterRemovalTimers ==
    ASSUME IInv, NEW p \in Path, NEW c, NEW gone
    PROVE  LET y == AfterRemoval(p, c, gone)
           IN  y.stack = child[p].stack /\ y.destroyTimers \subseteq child[p].destroyTimers
  <1> DEFINE x == child[p]
             y == AfterRemoval(p, c, gone)
             b == x.counter = 1
  <1>1. x \in ChildState BY DEF IInv
  <1>2. CASE controllers[c] \subseteq gone
    <2>1. y = [x EXCEPT !.conns = @ \ {c}, !.counter = @ - 1, !.timer = b, !.destroyTimers = @ \ gone]
      BY <1>2 DEF AfterRemoval
    <2> HIDE DEF x, y, b
    <2>2. y.stack = x.stack /\ y.destroyTimers \subseteq x.destroyTimers BY <1>1, <2>1 DEF ChildState
    <2> QED BY <2>2 DEF x, y
  <1>3. CASE ~(controllers[c] \subseteq gone)
    <2>1. y = [x EXCEPT !.destroyTimers = @ \ gone] BY <1>3 DEF AfterRemoval
    <2> HIDE DEF x, y
    <2>2. y.stack = x.stack /\ y.destroyTimers \subseteq x.destroyTimers BY <1>1, <2>1 DEF ChildState
    <2> QED BY <2>2 DEF x, y
  <1> QED BY <1>2, <1>3

(* The process is gone.                                                     *)
LEMMA GoneDestroys ==
    ASSUME IInv, DInv, OnlyNewOnes, NEW p \in Path, Gone(p),
           UNCHANGED <<phase, answer, connOf, table>>
    PROVE  DInv'
  <1> DEFINE y == [NoChild EXCEPT !.state = "gone"]
  <1>0. child' = [child EXCEPT ![p] = y] /\ y.conns = {} /\ y.stack = << >> /\ y.destroyTimers = {}
    BY DEF Gone, NoChild
  <1> HIDE DEF y
  <1>1. child'[p] = y /\ \A q \in Path \ {p} : child'[q] = child[q] BY <1>0, OneChanges
  <1>2. /\ controllers' = [c \in Conn |-> IF c \in child[p].conns THEN {} ELSE controllers[c]]
        /\ requests' = [c \in Conn |-> IF c \in child[p].conns THEN << >> ELSE requests[c]]
    BY DEF Gone
  <1>3. RequestsShrink BY <1>2 DEF RequestsShrink, QueueShrinks
  <1>4. RequestsOpen'
    <2> SUFFICES ASSUME NEW d \in Conn, requests'[d] # << >> PROVE PluginEndOpen(d)'
      BY DEF RequestsOpen
    <2>1. requests[d] # << >> /\ d \notin child[p].conns BY <1>2
    <2>2. PICK q \in Path : d \in child[q].conns BY <2>1 DEF DInv, RequestsOpen, PluginEndOpen
    <2>3. d \in child'[q].conns BY <1>1, <2>1, <2>2
    <2> QED BY <2>3 DEF PluginEndOpen
  <1>5. FewerCalls(child[p].stack, y.stack) BY <1>0 DEF FewerCalls
  <1>6. StaysSettled
    <2> SUFFICES ASSUME NEW i \in Instance, NEW d \in Conn, Settled(i, d), PluginEndOpen(d)'
                 PROVE  Settled(i, d)'
      BY DEF StaysSettled
    <2>1. i \in controllers[d] /\ ~Making(i, d)' BY <1>0, <1>5, MakingOnly DEF Settled
    <2>2. PICK q \in Path : d \in child'[q].conns BY DEF PluginEndOpen
    <2>3. d \notin child[p].conns BY <1>0, <1>1, <2>2 DEF IInv, Disjoint
    <2> QED BY <1>2, <2>1, <2>3 DEF Settled
  <1>7. NewlyTimed BY <1>0, TimedOnly
  <1>8. NewlyCreated BY NothingNewCreated
  <1> QED BY <1>3, <1>4, <1>6, <1>7, <1>8, DInvStep

LEMMA ClosedDestroys ==
    ASSUME IInv, PInv, DInv, OnlyNewOnes, NEW p \in Path, DidClose(p)
    PROVE  DInv'
  <1>1. /\ child' = [child EXCEPT ![p] = NoChild] /\ child[p].state = "gone"
        /\ UNCHANGED <<phase, answer, connOf, table, controllers, requests>>
    BY DEF DidClose, lineVars, webVars
  <1>2. NoChild.conns = {} /\ NoChild.stack = << >> /\ NoChild.destroyTimers = {} BY DEF NoChild
  <1>3. child[p].conns = {} BY <1>1 DEF PInv, PathOK, Life
  <1>4. FewerCalls(child[p].stack, NoChild.stack) BY <1>2 DEF FewerCalls
  <1>5. NewlyCreated BY <1>1, NothingNewCreated
  <1> QED BY <1>1, <1>2, <1>3, <1>4, <1>5, RunsStep

-----------------------------------------------------------------------------

(* Steps that leave the requests and the controllers alone.                 *)
LEMMA CallsDestroyNothing ==
    ASSUME IInv, DInv, OnlyNewOnes, NEW p \in Path, NEW i,
           \/ ReceiveInitialize(p) \/ HandleSiteData(p) \/ CreateConnection(p) \/ LeavePlugin(p)
           \/ LaunchProcess(p) \/ EnterPlugin(p, i)
    PROVE  DInv'
  <1> DEFINE x == child[p]
  <1>1. x \in ChildState /\ child \in [Path -> ChildState] /\ x.stack \in Seq(Call)
    BY ChildFields DEF IInv
  <1>2. UNCHANGED <<phase, answer, connOf, table, controllers, requests>>
    BY DEF ReceiveInitialize, HandleSiteData, CreateConnection, LeavePlugin, LaunchProcess,
           EnterPlugin, lineVars, webVars
  <1>3. NewlyCreated BY <1>2, NothingNewCreated
  <1>4. FewerCalls(x.stack, x.stack) BY DEF FewerCalls
  <1>5. ASSUME NEW y, child' = [child EXCEPT ![p] = y], x.conns \subseteq y.conns,
               y.destroyTimers = x.destroyTimers, FewerCalls(x.stack, y.stack)
        PROVE  DInv'
    <2>1. y.destroyTimers \subseteq child[p].destroyTimers BY <1>5
    <2> QED BY <1>2, <1>3, <1>5, <2>1, RunsStep
  <1>6. CASE ReceiveInitialize(p)
    <2> DEFINE y == [x EXCEPT !.initialized = TRUE]
    <2>1. child' = [child EXCEPT ![p] = y] BY <1>1, <1>6 DEF ReceiveInitialize
    <2> HIDE DEF x
    <2>2. y.conns = x.conns /\ y.destroyTimers = x.destroyTimers /\ y.stack = x.stack
      BY <1>1 DEF ChildState
    <2> HIDE DEF y
    <2> QED BY <1>4, <1>5, <2>1, <2>2
  <1>7. CASE HandleSiteData(p)
    <2> DEFINE b == x.counter = 0
               y == [x EXCEPT !.timer = b]
    <2>1. child' = [child EXCEPT ![p] = y] BY <1>1, <1>7 DEF HandleSiteData
    <2> HIDE DEF x, b
    <2>2. y.conns = x.conns /\ y.destroyTimers = x.destroyTimers /\ y.stack = x.stack
      BY <1>1 DEF ChildState
    <2> HIDE DEF y
    <2> QED BY <1>4, <1>5, <2>1, <2>2
  <1>8. CASE CreateConnection(p)
    <2> DEFINE n == nconn + 1
               y == [x EXCEPT !.conns = @ \cup {n}, !.counter = @ + 1, !.timer = FALSE]
    <2>1. child' = [child EXCEPT ![p] = y] BY <1>1, <1>8 DEF CreateConnection
    <2> HIDE DEF x, n
    <2>2. /\ y.conns = x.conns \cup {n} /\ y.destroyTimers = x.destroyTimers /\ y.stack = x.stack
      BY <1>1 DEF ChildState
    <2> HIDE DEF y
    <2> QED BY <1>4, <1>5, <2>1, <2>2
  <1>9. CASE LaunchProcess(p)
    <2>1. PICK st \in {"running", "gone"} : child' = [child EXCEPT ![p].state = st]
      BY <1>9 DEF LaunchProcess
    <2> DEFINE y == [x EXCEPT !.state = st]
    <2>2. child' = [child EXCEPT ![p] = y] BY <1>1, <2>1
    <2> HIDE DEF x
    <2>3. y.conns = x.conns /\ y.destroyTimers = x.destroyTimers /\ y.stack = x.stack
      BY <1>1 DEF ChildState
    <2> HIDE DEF y
    <2> QED BY <1>4, <1>5, <2>2, <2>3
  <1>10. ASSUME NEW s, child' = [child EXCEPT ![p] = [x EXCEPT !.stack = s]], FewerCalls(x.stack, s)
         PROVE  DInv'
    <2> DEFINE y == [x EXCEPT !.stack = s]
    <2> HIDE DEF x
    <2>1. y.conns = x.conns /\ y.destroyTimers = x.destroyTimers /\ y.stack = s
      BY <1>1 DEF ChildState
    <2>2. child' = [child EXCEPT ![p] = y] BY <1>10
    <2> HIDE DEF y
    <2> QED BY <1>5, <1>10, <2>1, <2>2
  <1>11. CASE LeavePlugin(p)
    <2> DEFINE s == Front(x.stack)
    <2>1. child' = [child EXCEPT ![p] = [x EXCEPT !.stack = s]] /\ x.stack # << >>
      BY <1>11 DEF LeavePlugin
    <2>2. \A k \in DOMAIN s : k \in DOMAIN x.stack /\ s[k] = x.stack[k] BY <1>1, <2>1, OneCallLess
    <2> HIDE DEF s
    <2>3. FewerCalls(x.stack, s) BY <2>2 DEF FewerCalls
    <2> QED BY <1>10, <2>1, <2>3
  <1>12. CASE EnterPlugin(p, i)
    <2> DEFINE e == [instance |-> i, conn |-> connOf[i], making |-> FALSE]
               s == <<e>>
    <2>1. child' = [child EXCEPT ![p] = [x EXCEPT !.stack = s]] BY <1>12 DEF EnterPlugin
    <2>2. ~e.making OBVIOUS
    <2> HIDE DEF e
    <2>3. FewerCalls(x.stack, s) BY <2>2 DEF FewerCalls
    <2> HIDE DEF s
    <2> QED BY <1>10, <2>1, <2>3
  <1> QED BY <1>6, <1>7, <1>8, <1>9, <1>11, <1>12

(* NPP_New is called: for an instance that has no controller there yet.     *)
LEMMA BeginDestroysNothing ==
    ASSUME IInv, DInv, OnlyNewOnes, NEW p \in Path, NEW c \in Conn, BeginCreatePlugin(p, c)
    PROVE  DInv'
  <1> DEFINE x == child[p]
             q == requests[c]
             i == Head(q).instance
             e == [instance |-> i, conn |-> c, making |-> TRUE]
             s == Append(x.stack, e)
             y == [x EXCEPT !.stack = s]
  <1>1. /\ x \in ChildState /\ x.stack \in Seq(Call) /\ q \in Seq(SyncRequest)
        /\ controllers \in [Conn -> SUBSET Instance] /\ requests \in [Conn -> Seq(SyncRequest)]
        /\ Once(q, controllers[c])
    BY ChildFields DEF IInv, LineOK
  <1>2. /\ q # << >> /\ Head(q).op = "create" /\ c \in x.conns
        /\ requests' = [requests EXCEPT ![c] = Tail(@)]
        /\ controllers' = [controllers EXCEPT ![c] = @ \cup {i}]
        /\ child' = [child EXCEPT ![p] = y]
        /\ UNCHANGED <<phase, answer, connOf, table>>
    BY DEF BeginCreatePlugin, TakesRequest, webVars
  <1>3. 1 \in DOMAIN q /\ Head(q) = q[1] BY <1>1, <1>2
  <1>4. i \notin controllers[c] BY <1>1, <1>2, <1>3 DEF Once
  <1>5. e.making /\ e.instance = i /\ e.conn = c OBVIOUS
  <1> HIDE DEF i, e
  <1>6. \A k \in DOMAIN s : (k \in DOMAIN x.stack /\ s[k] = x.stack[k]) \/ s[k] = e BY <1>1
  <1> HIDE DEF s, x
  <1>7. y.conns = x.conns /\ y.destroyTimers = x.destroyTimers /\ y.stack = s BY <1>1 DEF ChildState
  <1> HIDE DEF y
  <1>8. child'[p] = y /\ \A r \in Path \ {p} : child'[r] = child[r] BY <1>2, OneChanges
  <1>9. RequestsShrink BY <1>1, <1>2 DEF RequestsShrink, QueueShrinks, q
  <1>10. RequestsOpen'
    <2> SUFFICES ASSUME NEW d \in Conn, requests'[d] # << >> PROVE PluginEndOpen(d)'
      BY DEF RequestsOpen
    <2>1. requests[d] # << >> BY <1>1, <1>2 DEF q
    <2>2. PICK r \in Path : d \in child[r].conns BY <2>1 DEF DInv, RequestsOpen, PluginEndOpen
    <2>3. d \in child'[r].conns BY <1>7, <1>8, <2>2 DEF x
    <2> QED BY <2>3 DEF PluginEndOpen
  <1>11. StaysSettled
    <2> SUFFICES ASSUME NEW j \in Instance, NEW d \in Conn, Settled(j, d) PROVE Settled(j, d)'
      BY DEF StaysSettled
    <2>1. j \in controllers[d] /\ ~Making(j, d) BY DEF Settled
    <2>2. j # i \/ d # c BY <1>4, <2>1
    <2>3. ASSUME NEW r \in Path, InNew(child'[r], j, d) PROVE FALSE
      <3>1. ~InNew(child[r], j, d) BY <2>1 DEF Making
      <3>2. CASE r # p BY <1>8, <2>3, <3>1, <3>2
      <3>3. CASE r = p
        <4>1. PICK k \in DOMAIN s : s[k].making /\ s[k].instance = j /\ s[k].conn = d
          BY <1>7, <1>8, <2>3, <3>3 DEF InNew
        <4>2. s[k] # e BY <1>5, <2>2, <4>1
        <4>3. k \in DOMAIN x.stack /\ s[k] = x.stack[k] BY <1>6, <4>2
        <4> QED BY <3>1, <3>3, <4>1, <4>3 DEF InNew, x
      <3> QED BY <3>2, <3>3
    <2>4. j \in controllers'[d] BY <1>1, <1>2, <2>1
    <2> QED BY <2>3, <2>4 DEF Settled, Making, InNew
  <1>12. NewlyTimed BY <1>2, <1>7, TimedOnly DEF x
  <1>13. NewlyCreated BY <1>2, NothingNewCreated
  <1> QED BY <1>2, <1>9, <1>10, <1>11, <1>12, <1>13, DInvStep

(* NPP_New returns.  What fails was not known to the web process yet.       *)
LEMMA EndDestroysNothing ==
    ASSUME IInv, WInv, DInv, OnlyNewOnes, NEW p \in Path, EndCreatePlugin(p)
    PROVE  DInv'
  <1>0. PICK top : top = Top(p) OBVIOUS
  <1>0a. PICK i, c : i = top.instance /\ c = top.conn OBVIOUS
  <1> DEFINE x == child[p]
             s == Front(x.stack)
  <1>1. /\ x \in ChildState /\ child \in [Path -> ChildState] /\ MakingOK(x, controllers)
        /\ x.stack \in Seq(Call) /\ requests \in [Conn -> Seq(SyncRequest)]
        /\ controllers \in [Conn -> SUBSET Instance] /\ answer \in [Instance -> Int]
    BY ChildFields DEF IInv, ChildOK, LineOK, WInv, QueuesOK
  <1>2. /\ x.stack # << >> /\ top = x.stack[Len(x.stack)] /\ top.making
        /\ UNCHANGED <<phase, connOf, table>>
    BY <1>0 DEF EndCreatePlugin, Top
  <1>3. /\ s \in Seq(Call) /\ Len(x.stack) \in DOMAIN x.stack
        /\ \A k \in DOMAIN s : k \in DOMAIN x.stack /\ k # Len(x.stack) /\ s[k] = x.stack[k]
    BY <1>1, <1>2, OneCallLess
  <1>4. c \in Conn \cap x.conns /\ i \in controllers[c] BY <1>0a, <1>1, <1>2, <1>3 DEF MakingOK
  <1>5. i \in Instance BY <1>1, <1>4
  <1>6. FewerCalls(x.stack, s) BY <1>3 DEF FewerCalls
  <1>7. Making(i, c) BY <1>0a, <1>2, <1>3 DEF Making, InNew
  (* No other call of NPP_New is for this instance and connection.          *)
  <1>8. ASSUME NEW y, y.stack = s, child' = [child EXCEPT ![p] = y] PROVE ~Making(i, c)'
    <2>1. child'[p] = y /\ \A r \in Path \ {p} : child'[r] = child[r] BY <1>8, OneChanges
    <2> SUFFICES ASSUME NEW r \in Path, InNew(child'[r], i, c) PROVE FALSE
      BY DEF Making, InNew
    <2>2. PICK k \in DOMAIN child'[r].stack :
              /\ child'[r].stack[k].making
              /\ child'[r].stack[k].instance = i /\ child'[r].stack[k].conn = c
      BY DEF InNew
    <2>3. CASE r = p
      <3>1. k \in DOMAIN x.stack /\ k # Len(x.stack) /\ s[k] = x.stack[k] /\ s[k] = child'[r].stack[k]
        BY <1>3, <1>8, <2>1, <2>2, <2>3
      <3> QED BY <1>0a, <1>1, <1>2, <1>3, <2>2, <3>1 DEF MakingOK
    <2>4. CASE r # p
      <3>1. MakingOK(child[r], controllers) /\ child[p].conns \cap child[r].conns = {}
        BY <2>4 DEF IInv, ChildOK, Disjoint
      <3>2. c \in child[r].conns BY <2>1, <2>2, <2>4, <3>1 DEF MakingOK
      <3> QED BY <1>4, <3>1, <3>2
    <2> QED BY <2>3, <2>4
  <1>9. CASE /\ child' = [child EXCEPT ![p].stack = s] /\ Reply(i, c, "creating", Done)
             /\ UNCHANGED <<controllers, requests>>
    <2> DEFINE y == [x EXCEPT !.stack = s]
    <2>1. child' = [child EXCEPT ![p] = y] BY <1>1, <1>9
    <2> HIDE DEF x, s
    <2>2. y.conns = x.conns /\ y.destroyTimers = x.destroyTimers /\ y.stack = s
      BY <1>1 DEF ChildState
    <2> HIDE DEF y
    <2>3. Settled(i, c)' BY <1>4, <1>8, <1>9, <2>1, <2>2 DEF Settled
    <2>4. NewlyCreated
      <3> SUFFICES ASSUME NEW j \in Instance, Created(j)', ~Created(j) PROVE SettledThere(j)'
        BY DEF NewlyCreated
      <3>1. phase[j] = "creating" /\ answer'[j] = Done /\ answer[j] # Done
        BY <1>2 DEF Created
      <3>2. j = i /\ connOf[i] = c BY <1>1, <1>9, <3>1 DEF Reply
      <3>3. connOf'[j] = c BY <1>2, <3>2
      <3> QED BY <2>3, <3>2, <3>3 DEF SettledThere, Settled, Making
    <2>5. FewerCalls(child[p].stack, y.stack) BY <1>6, <2>2 DEF x
    <2>6. child[p].conns \subseteq y.conns /\ y.destroyTimers \subseteq child[p].destroyTimers
      BY <2>2 DEF x
    <2> QED BY <1>2, <1>9, <2>1, <2>4, <2>5, <2>6, RunsStep
  <1>10. CASE /\ child' = [[child EXCEPT ![p].stack = s] EXCEPT ![p] =
                            [AfterRemoval(p, c, {i}) EXCEPT !.stack = Front(@)]]
              /\ RemoveControllers(c, {i}) /\ LoseIfLast(c, {i}, requests)
              /\ UNCHANGED answer \/ Reply(i, c, "creating", Failed)
    <2> DEFINE a == AfterRemoval(p, c, {i})
               y == [a EXCEPT !.stack = Front(@)]
    <2>1. child' = [child EXCEPT ![p] = y] BY <1>1, <1>10
    <2>2. a \in ChildState /\ a.stack = x.stack BY <1>4, AfterRemovalFields
    <2>2a. a.destroyTimers \subseteq x.destroyTimers BY AfterRemovalTimers
    <2> HIDE DEF a
    <2>3. y.conns = a.conns /\ y.destroyTimers = a.destroyTimers /\ y.stack = s
      BY <2>2 DEF ChildState
    <2> HIDE DEF y
    <2>4. NewlyCreated
      <3>1. \A j \in Instance : phase[j] = "creating" /\ answer'[j] = Done => answer[j] = Done
        BY <1>1, <1>10 DEF Reply, Failed, Done
      <3> QED BY <1>2, <3>1, NothingNewCreated
    <2>5. RequestsShrink /\ (controllers[c] \subseteq {i} => requests'[c] = << >>)
      BY <1>1, <1>4, <1>10 DEF RequestsShrink, QueueShrinks, LoseIfLast
    <2>6. PICK gone : gone = {i} OBVIOUS
    <2>7. \A j \in Instance : j \in gone => ~Settled(j, c) BY <1>7, <2>6 DEF Settled
    <2>8. /\ y.conns = AfterRemoval(p, c, gone).conns /\ RemoveControllers(c, gone)
          /\ controllers[c] \subseteq gone => requests'[c] = << >>
      BY <1>10, <2>3, <2>5, <2>6 DEF a
    <2>9. FewerCalls(child[p].stack, y.stack) /\ y.destroyTimers \subseteq child[p].destroyTimers
      BY <1>6, <2>2a, <2>3
    <2>10. c \in Conn /\ c \in child[p].conns BY <1>4
    <2> QED BY <1>2, <2>1, <2>4, <2>5, <2>7, <2>8, <2>9, <2>10, RemovedStep
  <1> QED BY <1>0, <1>0a, <1>9, <1>10 DEF EndCreatePlugin

-----------------------------------------------------------------------------

(* DestroyPlugin takes the only request to destroy its instance.            *)
LEMMA TakesDestroy ==
    ASSUME IInv, DInv, NEW p \in Path, NEW c \in Conn, TakesRequest(p, c, "destroy"),
           NEW i, i = Head(requests[c]).instance
    PROVE  /\ i \in Instance /\ Dying(i)
           /\ \A d \in Conn \ {c} : ~Doomed(i, d)
           /\ \A k \in DOMAIN Tail(requests[c]) : ~DestroysIt(Tail(requests[c])[k], i)
  <1> DEFINE q == requests[c]
  <1>1. q \in Seq(SyncRequest) /\ q # << >> /\ Head(q).op = "destroy"
    BY DEF IInv, LineOK, TakesRequest
  <1>2. 1 \in DOMAIN q /\ Head(q) = q[1] /\ q[1] \in SyncRequest BY <1>1
  <1>3. i \in Instance BY <1>2 DEF SyncRequest
  <1>4. Doomed(i, c) BY <1>1, <1>2 DEF Doomed, DestroysIt
  <1>5. Dying(i) BY <1>3, <1>4 DEF DInv, DoomedOK
  <1>6. \A d \in Conn \ {c} : ~Doomed(i, d) BY <1>3, <1>4 DEF DInv, OneDestroy
  <1>7. ASSUME NEW k \in DOMAIN Tail(q), DestroysIt(Tail(q)[k], i) PROVE FALSE
    <2>1. k \in Nat /\ k + 1 \in DOMAIN q /\ Tail(q)[k] = q[k + 1] /\ k + 1 # 1 BY <1>1
    <2>2. OnceDoomed(q) BY DEF DInv, OneDestroy
    <2> HIDE DEF q
    <2> QED BY <1>1, <1>2, <1>7, <2>1, <2>2 DEF OnceDoomed, DestroysIt, q
  <1> QED BY <1>3, <1>5, <1>6, <1>7

LEMMA DestroyedStep ==
    ASSUME IInv, WInv, DInv, OnlyNewOnes, NEW p \in Path, NEW c \in Conn, DestroyPlugin(p, c)
    PROVE  DInv'
  <1>0. PICK i : i = Head(requests[c]).instance OBVIOUS
  <1> DEFINE x == child[p]
             req == [requests EXCEPT ![c] = Tail(@)]
  <1>1. /\ x \in ChildState /\ child \in [Path -> ChildState]
        /\ requests \in [Conn -> Seq(SyncRequest)]
        /\ controllers \in [Conn -> SUBSET Instance] /\ answer \in [Instance -> Int]
    BY DEF IInv, ChildOK, LineOK, WInv, QueuesOK
  <1>2. /\ TakesRequest(p, c, "destroy") /\ c \in x.conns /\ requests[c] # << >>
        /\ UNCHANGED <<phase, connOf, table>>
    BY DEF DestroyPlugin, TakesRequest
  <1>3. /\ i \in Instance /\ Dying(i)
        /\ \A d \in Conn \ {c} : ~Doomed(i, d)
        /\ \A k \in DOMAIN Tail(requests[c]) : ~DestroysIt(Tail(requests[c])[k], i)
    BY <1>0, <1>2, TakesDestroy
  <1>4. req[c] = Tail(requests[c]) /\ \A d \in Conn \ {c} : req[d] = requests[d] BY <1>1
  <1> HIDE DEF req
  <1>5. UNCHANGED answer \/ Reply(i, c, "destroying", Done) BY <1>0 DEF DestroyPlugin
  <1>6. NewlyCreated
    <2>1. \A j \in Instance : phase[j] = "creating" /\ answer'[j] = Done => answer[j] = Done
      BY <1>1, <1>5 DEF Reply
    <2> QED BY <1>2, <2>1, NothingNewCreated
  <1>7. CASE OnStack(p, i)
    <2> DEFINE y == [x EXCEPT !.destroyTimers = @ \cup {i}]
    <2>1. child' = [child EXCEPT ![p] = y] /\ requests' = req /\ UNCHANGED controllers
      BY <1>0, <1>1, <1>7 DEF DestroyPlugin, req
    <2> HIDE DEF x
    <2>2. y.conns = x.conns /\ y.stack = x.stack /\ y.destroyTimers = x.destroyTimers \cup {i}
      BY <1>1 DEF ChildState
    <2> HIDE DEF y
    <2>3. child'[p] = y /\ \A r \in Path \ {p} : child'[r] = child[r] BY <2>1, OneChanges
    <2>4. RequestsShrink BY <1>2, <1>4, <2>1 DEF RequestsShrink, QueueShrinks
    <2>5. \A d \in Conn : ~Doomed(i, d)' BY <1>3, <1>4, <2>1 DEF Doomed
    <2>6. RequestsOpen'
      <3> SUFFICES ASSUME NEW d \in Conn, requests'[d] # << >> PROVE PluginEndOpen(d)'
        BY DEF RequestsOpen
      <3>1. requests[d] # << >> BY <1>2, <1>4, <2>1
      <3>2. PICK r \in Path : d \in child[r].conns BY <3>1 DEF DInv, RequestsOpen, PluginEndOpen
      <3>3. d \in child'[r].conns BY <2>2, <2>3, <3>2 DEF x
      <3> QED BY <3>3 DEF PluginEndOpen
    <2>7. FewerCalls(child[p].stack, y.stack) BY <2>2 DEF FewerCalls, x
    <2>8. StaysSettled BY <2>1, <2>7, MakingOnly DEF StaysSettled, Settled
    <2>9. NewlyTimed BY <1>3, <2>2, <2>3, <2>5 DEF NewlyTimed, Timed, x
    <2> QED BY <1>2, <1>6, <2>4, <2>6, <2>8, <2>9, DInvStep
  <1>8. CASE ~OnStack(p, i)
    <2>0. PICK gone : gone = {i} OBVIOUS
    <2> DEFINE y == AfterRemoval(p, c, gone)
    <2>1. /\ child' = [child EXCEPT ![p] = y] /\ RemoveControllers(c, gone)
          /\ LoseIfLast(c, gone, req)
      BY <1>0, <1>8, <2>0 DEF DestroyPlugin, req
    <2>2. y.stack = x.stack /\ y.destroyTimers \subseteq child[p].destroyTimers BY AfterRemovalTimers
    <2>3. FewerCalls(child[p].stack, y.stack) BY <2>2 DEF FewerCalls
    <2>4. DOMAIN req = Conn BY <1>1 DEF req
    <2>5. /\ \A d \in Conn \ {c} : requests'[d] = requests[d]
          /\ requests'[c] = << >> \/ (~(controllers[c] \subseteq gone) /\ requests'[c] = Tail(requests[c]))
      BY <1>4, <2>1, <2>4 DEF LoseIfLast
    <2>6. RequestsShrink BY <1>2, <2>5 DEF RequestsShrink, QueueShrinks
    <2>7. ~Doomed(i, c)'
      <3>1. CASE requests'[c] = << >> BY <3>1 DEF Doomed
      <3>2. CASE requests'[c] = Tail(requests[c]) BY <1>3, <3>2 DEF Doomed
      <3> QED BY <2>5, <3>1, <3>2
    <2>8. \A j \in Instance : j \in gone /\ Settled(j, c) /\ ~(controllers[c] \subseteq gone) =>
              Dying(j) /\ ~Doomed(j, c)'
      BY <1>3, <2>0, <2>7
    <2>9. y.conns = AfterRemoval(p, c, gone).conns OBVIOUS
    <2>10. controllers[c] \subseteq gone => requests'[c] = << >> BY <2>5
    <2> HIDE DEF y
    <2> QED BY <1>2, <1>6, <2>1, <2>2, <2>3, <2>6, <2>8, <2>9, <2>10, RemovedStep
  <1> QED BY <1>7, <1>8

LEMMA TimerDestroys ==
    ASSUME IInv, DInv, OnlyNewOnes, NEW p \in Path, NEW c \in Conn, NEW i \in Instance,
           DestroyTimerFires(p, c, i)
    PROVE  DInv'
  <1>0. PICK gone : gone = {i} OBVIOUS
  <1> DEFINE y == AfterRemoval(p, c, gone)
  <1>1. /\ child' = [child EXCEPT ![p] = y] /\ RemoveControllers(c, gone)
        /\ LoseIfLast(c, gone, requests) /\ c \in child[p].conns /\ i \in child[p].destroyTimers
        /\ UNCHANGED <<phase, answer, connOf, table>> /\ requests \in [Conn -> Seq(SyncRequest)]
    BY <1>0 DEF DestroyTimerFires, webVars, IInv, LineOK
  <1>2. y.stack = child[p].stack /\ y.destroyTimers \subseteq child[p].destroyTimers
    BY AfterRemovalTimers
  <1>3. FewerCalls(child[p].stack, y.stack) BY <1>2 DEF FewerCalls
  <1>4. RequestsShrink /\ (controllers[c] \subseteq gone => requests'[c] = << >>)
    BY <1>1 DEF RequestsShrink, QueueShrinks, LoseIfLast
  <1>5. Timed(i) BY <1>1 DEF Timed
  <1>6. Dying(i) /\ ~Doomed(i, c) BY <1>5 DEF DInv, TimedOK, DoomedOK
  <1>7. ~Doomed(i, c)' BY <1>4, <1>6, ShrunkRequests DEF DInv
  <1>8. \A j \in Instance : j \in gone /\ Settled(j, c) /\ ~(controllers[c] \subseteq gone) =>
            Dying(j) /\ ~Doomed(j, c)'
    BY <1>0, <1>6, <1>7
  <1>9. NewlyCreated BY <1>1, NothingNewCreated
  <1>10. y.conns = AfterRemoval(p, c, gone).conns OBVIOUS
  <1> HIDE DEF y
  <1> QED BY <1>1, <1>2, <1>3, <1>4, <1>8, <1>9, <1>10, RemovedStep

LEMMA CloseDestroys ==
    ASSUME IInv, DInv, OnlyNewOnes, NEW p \in Path, NEW c \in Conn,
           WebProcessConnectionDidClose(p, c)
    PROVE  DInv'
  <1>0. PICK gone : gone = controllers[c] OBVIOUS
  <1>1. /\ RemoveControllers(c, gone) /\ c \in child[p].conns
        /\ requests' = [requests EXCEPT ![c] = << >>]
        /\ UNCHANGED <<phase, answer, connOf, table>>
        /\ requests \in [Conn -> Seq(SyncRequest)] /\ controllers \in [Conn -> SUBSET Instance]
    BY <1>0 DEF WebProcessConnectionDidClose, webVars, IInv, LineOK
  <1>2. RequestsShrink /\ requests'[c] = << >> BY <1>1 DEF RequestsShrink, QueueShrinks
  <1>3. NewlyCreated BY <1>1, NothingNewCreated
  <1>4. CASE controllers[c] = {}
    <2>1. child' = child /\ controllers' = controllers
      BY <1>0, <1>1, <1>4 DEF WebProcessConnectionDidClose, RemoveControllers
    <2>2. RequestsOpen' BY <1>1, <2>1 DEF RequestsOpen, DInv, PluginEndOpen
    <2>3. StaysSettled BY <2>1 DEF StaysSettled, Settled, Making, InNew
    <2>4. NewlyTimed BY <2>1 DEF NewlyTimed, Timed
    <2> QED BY <1>1, <1>2, <1>3, <2>2, <2>3, <2>4, DInvStep
  <1>5. CASE controllers[c] # {}
    <2> DEFINE y == AfterRemoval(p, c, gone)
    <2>1. child' = [child EXCEPT ![p] = y] BY <1>0, <1>5 DEF WebProcessConnectionDidClose
    <2>2. y.stack = child[p].stack /\ y.destroyTimers \subseteq child[p].destroyTimers
      BY AfterRemovalTimers
    <2>3. FewerCalls(child[p].stack, y.stack) BY <2>2 DEF FewerCalls
    <2>4. y.conns = AfterRemoval(p, c, gone).conns /\ controllers[c] \subseteq gone BY <1>0
    <2> HIDE DEF y
    <2> QED BY <1>1, <1>2, <1>3, <2>1, <2>2, <2>3, <2>4, RemovedStep
  <1> QED BY <1>4, <1>5

-----------------------------------------------------------------------------
(* Steps of a web process.                                                  *)

(* The places of a queue where a test holds have a first one.               *)
LEMMA FirstPlace ==
    ASSUME NEW n \in Nat, NEW I \in SUBSET (1..n), I # {}
    PROVE  Min(I) \in I /\ \A k \in I : Min(I) <= k
  <1>1. PICK x \in I : \A y \in I : ~(<<y, x>> \in OpToRel(<, Nat))
    <2>1. I \subseteq Nat OBVIOUS
    <2> QED BY <2>1, NatLessThanWellFounded, WFMin
  <1>2. \A y \in I : x <= y
    <2> SUFFICES ASSUME NEW y \in I, ~(x <= y) PROVE FALSE OBVIOUS
    <2>1. x \in Nat /\ y \in Nat /\ y < x OBVIOUS
    <2>2. <<y, x>> \in OpToRel(<, Nat) BY <2>1 DEF OpToRel
    <2> QED BY <1>1, <2>2
  <1> QED BY <1>2 DEF Min

(* m_pluginProcessConnections, searched by path and by connection.          *)
LEMMA EntryFound ==
    ASSUME NEW w, NEW p, NEW T, table[w] \in Seq(T), Entry(w, p) # 0
    PROVE  Entry(w, p) \in DOMAIN table[w] /\ table[w][Entry(w, p)].path = p
  <1> DEFINE s == table[w]
             I == {k \in 1..Len(s) : s[k].path = p}
  <1>1. Entry(w, p) = IF I # {} THEN Min(I) ELSE 0 BY DEF Entry, SelectInSeq
  <1>2. Len(s) \in Nat /\ DOMAIN s = 1..Len(s) OBVIOUS
  <1>3. I \in SUBSET (1..Len(s)) OBVIOUS
  <1>4. I # {} BY <1>1
  <1>5. Min(I) \in I BY <1>2, <1>3, <1>4, FirstPlace
  <1> QED BY <1>1, <1>2, <1>4, <1>5

WhereIs(s, c) == SelectInSeq(s, LAMBDA e : e.conn = c)

LEMMA EntryRemoved ==
    ASSUME NEW T, NEW s \in Seq(T), NEW c
    PROVE  RemoveAt(s, WhereIs(s, c)) \in Seq(T)
  <1> DEFINE I == {k \in 1..Len(s) : s[k].conn = c}
             m == WhereIs(s, c)
  <1>1. m = IF I # {} THEN Min(I) ELSE 0 BY DEF WhereIs, SelectInSeq
  <1>2. Len(s) \in Nat /\ DOMAIN s = 1..Len(s) OBVIOUS
  <1>3. I \in SUBSET (1..Len(s)) OBVIOUS
  <1>4. CASE I # {}
    <2>1. Min(I) \in I BY <1>2, <1>3, <1>4, FirstPlace
    <2>2. m \in DOMAIN s BY <1>1, <1>2, <1>4, <2>1
    <2> QED BY <2>2, TakenOut
  <1>5. CASE I = {}
    <2>1. m = 0 BY <1>1, <1>5
    <2>2. SubSeq(s, 1, 0 - 1) \in Seq(T) /\ SubSeq(s, 0 + 1, Len(s)) \in Seq(T) BY <1>2
    <2>3. RemoveAt(s, m) = SubSeq(s, 1, 0 - 1) \o SubSeq(s, 0 + 1, Len(s)) BY <2>1 DEF RemoveAt
    <2> QED BY <2>2, <2>3
  <1> QED BY <1>4, <1>5

LEMMA TableGrows ==
    ASSUME IInv, ConnsKnown, nconn' \in Nat, nconn <= nconn', NEW i \in Instance, NEW c \in 1..nconn',
           connOf' = [connOf EXCEPT ![i] = c],
           \/ UNCHANGED table
           \/ table' = [table EXCEPT ![OwnerOf[i]] = Append(@, [path |-> PathOf[i], conn |-> c])]
    PROVE  ConnsKnown'
  <1> DEFINE e == [path |-> PathOf[i], conn |-> c]
  <1>0. nconn \in Nat /\ OwnerOf[i] \in Web /\ PathOf[i] \in Path BY PathsAndWebs DEF IInv
  <1>1. 0..nconn \subseteq 0..nconn' /\ 1..nconn \subseteq 1..nconn' /\ c \in 0..nconn' BY <1>0
  <1>2. PICK n : n = nconn' OBVIOUS
  <1>3. TableEntry(nconn) \subseteq TableEntry(n) BY <1>1, <1>2 DEF TableEntry
  <1>4. e \in TableEntry(n) BY <1>0, <1>2 DEF TableEntry
  <1> HIDE DEF e
  <1>5. ASSUME NEW w \in Web
        PROVE  table[w] \in Seq(TableEntry(n)) /\ Append(table[w], e) \in Seq(TableEntry(n))
    <2>1. table[w] \in Seq(TableEntry(nconn)) BY DEF ConnsKnown
    <2>2. table[w] \in Seq(TableEntry(n)) BY <1>3, <2>1
    <2> QED BY <1>4, <2>2
  <1>6. table' \in [Web -> Seq(TableEntry(n))] BY <1>0, <1>5 DEF ConnsKnown, e
  <1>7. connOf' \in [Instance -> 0..nconn'] BY <1>1 DEF ConnsKnown
  <1> QED BY <1>2, <1>6, <1>7 DEF ConnsKnown, TableEntry

LEMMA ProxyRemoved ==
    ASSUME IInv, ConnsKnown, UNCHANGED nconn, NEW i \in Instance, RemovePluginProxy(i)
    PROVE  ConnsKnown'
  <1>0. nconn \in Nat /\ OwnerOf[i] \in Web BY PathsAndWebs DEF IInv
  <1>1. connOf' = [connOf EXCEPT ![i] = 0] BY DEF RemovePluginProxy, NoConn
  <1>2. PICK c : c = connOf[i] OBVIOUS
  <1> DEFINE s == table[OwnerOf[i]]
             r == RemoveAt(s, WhereIs(s, c))
  <1>3. UNCHANGED table \/ table' = [table EXCEPT ![OwnerOf[i]] = r]
    BY <1>2, Zenon DEF RemovePluginProxy, WhereIs, SelectInSeq
  <1>4. s \in Seq(TableEntry(nconn)) BY <1>0 DEF ConnsKnown
  <1>5. r \in Seq(TableEntry(nconn)) BY <1>4, EntryRemoved
  <1> HIDE DEF r
  <1>6. table' \in [Web -> Seq(TableEntry(nconn))] BY <1>3, <1>5 DEF ConnsKnown
  <1>7. connOf' \in [Instance -> 0..nconn] BY <1>0, <1>1 DEF ConnsKnown
  <1> QED BY <1>6, <1>7 DEF ConnsKnown, TableEntry

-----------------------------------------------------------------------------

NewlyDoomed ==
    \A i \in Instance, c \in Conn : Doomed(i, c)' =>
        Doomed(i, c) \/ (Settled(i, c) /\ ~Timed(i) /\ Dying(i)')

(* A step of the web process of instance i.                                 *)
LEMMA InstanceDestroys ==
    ASSUME IInv, DInv, UNCHANGED <<child, controllers>>, NEW i \in Instance, NEW f \in Phase,
           phase' = [phase EXCEPT ![i] = f],
           \A j \in Instance \ {i} : connOf'[j] = connOf[j] /\ answer'[j] = answer[j],
           Dying(i) => f \in {"destroying", "gone"},
           \/ f \notin {"creating", "started"} \/ (f = "creating" /\ answer'[i] # Done)
           \/ Created(i) /\ connOf'[i] = connOf[i],
           ConnsKnown', RequestsOpen', OneDestroy', NewlyDoomed
    PROVE  DInv'
  <1>0. phase \in [Instance -> Phase] BY DEF IInv, LineOK
  <1>1. \A j \in Instance, c \in Conn : Settled(j, c)' <=> Settled(j, c) BY DEF Settled, Making, InNew
  <1>2. \A j \in Instance : Timed(j)' <=> Timed(j) BY DEF Timed
  <1>3. \A j \in Instance : Dying(j) => Dying(j)' BY <1>0 DEF Dying
  <1>4. DoomedOK' BY <1>1, <1>2, <1>3 DEF DoomedOK, NewlyDoomed, DInv
  <1>5. TimedOK' BY <1>2, <1>3 DEF TimedOK, DInv
  <1>6. CreatedOK'
    <2> SUFFICES ASSUME NEW j \in Instance, Created(j)' PROVE SettledThere(j)' BY DEF CreatedOK
    <2>1. Created(j) /\ connOf'[j] = connOf[j] BY <1>0 DEF Created
    <2>2. SettledThere(j) BY <2>1 DEF DInv, CreatedOK
    <2>3. PICK c : c = connOf[j] OBVIOUS
    <2>4. c \in Conn /\ PluginEndOpen(c)' => Settled(j, c)'
      BY <1>1, <2>2, <2>3 DEF SettledThere, PluginEndOpen
    <2> QED BY <2>1, <2>3, <2>4 DEF SettledThere, Settled, Making, PluginEndOpen
  <1> QED BY <1>4, <1>5, <1>6 DEF DInv

LEMMA SameRequests ==
    ASSUME IInv, DInv, UNCHANGED <<child, requests>>
    PROVE  RequestsOpen' /\ OneDestroy' /\ NewlyDoomed
  <1>1. RequestsOpen' BY DEF DInv, RequestsOpen, PluginEndOpen
  <1>2. RequestsShrink BY DEF RequestsShrink, QueueShrinks
  <1>3. OneDestroy' BY <1>2, ShrunkRequests DEF DInv
  <1>4. NewlyDoomed BY DEF NewlyDoomed, Doomed
  <1> QED BY <1>1, <1>3, <1>4

(* The request to create or to destroy an instance is sent.                 *)
LEMMA RequestDooms ==
    ASSUME IInv, DInv, UNCHANGED child, NEW i \in Instance, NEW c, NEW op \in {"create", "destroy"},
           SendRequest(i, c, op),
           op = "destroy" => /\ c \in Conn /\ PluginEndOpen(c) => Settled(i, c)
                             /\ ~Dying(i) /\ ~Timed(i) /\ Dying(i)'
    PROVE  RequestsOpen' /\ OneDestroy' /\ NewlyDoomed
  <1>1. CASE c \notin Conn \/ requests' = requests
    <2>1. requests' = requests BY <1>1 DEF SendRequest, IInv, LineOK
    <2> QED BY <2>1, SameRequests
  <1>2. CASE c \in Conn /\ requests' # requests
    <2> DEFINE m == [op |-> op, instance |-> i]
               q == requests[c]
               r == Append(q, m)
    <2>1. requests \in [Conn -> Seq(SyncRequest)] /\ q \in Seq(SyncRequest) BY <1>2 DEF IInv, LineOK
    <2>2. PluginEndOpen(c) /\ requests' = [requests EXCEPT ![c] = r] BY <1>2 DEF SendRequest
    <2>3. m.op = op /\ m.instance = i OBVIOUS
    <2> HIDE DEF m
    <2>4. /\ \A k \in DOMAIN r : (k \in DOMAIN q /\ r[k] = q[k]) \/ (k = Len(q) + 1 /\ r[k] = m)
          /\ Len(q) + 1 \notin DOMAIN q
      BY <2>1
    <2> HIDE DEF r
    <2>5. requests'[c] = r /\ \A d \in Conn \ {c} : requests'[d] = requests[d] BY <1>2, <2>1, <2>2
    <2>6. RequestsOpen' BY <2>2, <2>5 DEF DInv, RequestsOpen, PluginEndOpen
    <2>7. op = "destroy" => /\ Settled(i, c) /\ ~Timed(i) /\ Dying(i)'
                            /\ \A d \in Conn : ~Doomed(i, d)
      BY <1>2, <2>2 DEF DInv, DoomedOK
    <2>8. ASSUME NEW j \in Instance, NEW d \in Conn, Doomed(j, d)'
          PROVE  Doomed(j, d) \/ (op = "destroy" /\ j = i /\ d = c)
      <3>1. CASE d # c BY <2>5, <2>8, <3>1 DEF Doomed
      <3>2. CASE d = c
        <4>1. PICK k \in DOMAIN r : DestroysIt(r[k], j) BY <2>5, <2>8, <3>2 DEF Doomed
        <4>2. CASE k \in DOMAIN q /\ r[k] = q[k] BY <3>2, <4>1, <4>2 DEF Doomed
        <4>3. CASE r[k] = m BY <2>3, <3>2, <4>1, <4>3 DEF DestroysIt
        <4> QED BY <2>4, <4>2, <4>3
      <3> QED BY <3>1, <3>2
    <2>9. NewlyDoomed BY <2>7, <2>8 DEF NewlyDoomed
    <2>10. OnceDoomed(r)
      <3> SUFFICES ASSUME NEW j \in DOMAIN r, NEW k \in DOMAIN r, r[j].op = "destroy",
                          r[k].op = "destroy", r[j].instance = r[k].instance, j # k
                   PROVE  FALSE
        BY DEF OnceDoomed
      <3>1. OnceDoomed(q) BY <1>2 DEF DInv, OneDestroy
      <3>2. CASE j \in DOMAIN q /\ k \in DOMAIN q BY <2>4, <3>1, <3>2 DEF OnceDoomed
      <3>3. CASE r[j] = m \/ r[k] = m
        <4>1. op = "destroy" BY <2>3, <3>3
        <4>2. PICK l \in DOMAIN q : DestroysIt(q[l], i) BY <2>3, <2>4, <3>3 DEF DestroysIt
        <4>3. Doomed(i, c) BY <4>2 DEF Doomed
        <4> QED BY <1>2, <2>7, <4>1, <4>3
      <3> QED BY <2>4, <3>2, <3>3
    <2>11. OneDestroy'
      <3>1. \A d \in Conn : OnceDoomed(requests'[d]) BY <2>5, <2>10 DEF DInv, OneDestroy
      <3>2. ASSUME NEW j \in Instance, NEW d \in Conn, NEW b \in Conn, Doomed(j, d)', Doomed(j, b)'
            PROVE  d = b
        <4>1. CASE op = "destroy" /\ j = i BY <2>7, <2>8, <3>2, <4>1
        <4>2. CASE ~(op = "destroy" /\ j = i) BY <2>8, <3>2, <4>2 DEF DInv, OneDestroy
        <4> QED BY <4>1, <4>2
      <3> QED BY <3>1, <3>2 DEF OneDestroy, OnceDoomed
    <2> QED BY <2>6, <2>9, <2>11
  <1> QED BY <1>1, <1>2

LEMMA AskedDestroy ==
    ASSUME IInv, WInv, NInv, DInv, OnlyNewOnes, NEW i \in Instance,
           Initialize(i) \/ Destroy(i) \/ GotConnection(i)
    PROVE  DInv'
  <1> DEFINE w == OwnerOf[i]
  <1>0. /\ phase \in [Instance -> Phase] /\ answer \in [Instance -> Int] /\ nconn \in Nat
        /\ nconn' \in Nat /\ nconn <= nconn' /\ connOf \in [Instance -> 0..nconn]
        /\ w \in Web /\ table[w] \in Seq(TableEntry(nconn)) /\ ConnsKnown
    BY PathsAndWebs DEF IInv, LineOK, WInv, QueuesOK, OnlyNewOnes, DInv, ConnsKnown
  <1>1. UNCHANGED <<child, controllers, nconn>>
    BY DEF Initialize, Destroy, GotConnection, Enter, plugVars
  <1>2. ASSUME NEW c \in 1..nconn, CreateOn(i, c), SendRequest(i, c, "create"), ~Dying(i),
               \/ UNCHANGED table
               \/ table' = [table EXCEPT ![OwnerOf[i]] = Append(@, [path |-> PathOf[i], conn |-> c])]
        PROVE  DInv'
    <2>1. /\ connOf' = [connOf EXCEPT ![i] = c] /\ phase' = [phase EXCEPT ![i] = "creating"]
          /\ answer' = [answer EXCEPT ![i] = NoAnswer]
      BY <1>2 DEF CreateOn
    <2>2. c \in 1..nconn' BY <1>1
    <2>3. ConnsKnown' BY <1>0, <1>2, <2>1, <2>2, TableGrows
    <2>4. RequestsOpen' /\ OneDestroy' /\ NewlyDoomed
      <3>1. PICK op \in {"create", "destroy"} : op = "create" OBVIOUS
      <3>2. SendRequest(i, c, op) BY <1>2, <3>1
      <3> QED BY <1>1, <3>1, <3>2, RequestDooms
    <2>5. \A j \in Instance \ {i} : connOf'[j] = connOf[j] /\ answer'[j] = answer[j]
      BY <1>0, <2>1
    <2>6. answer'[i] # Done BY <1>0, <2>1 DEF NoAnswer, Done
    <2>7. PICK f \in Phase : f = "creating" BY DEF Phase
    <2>8. phase' = [phase EXCEPT ![i] = f] BY <2>1, <2>7
    <2> QED BY <1>1, <1>2, <2>3, <2>4, <2>5, <2>6, <2>7, <2>8, InstanceDestroys
  <1>3. CASE Initialize(i)
    <2>1. phase[i] = "unborn" BY <1>3 DEF Initialize
    <2>2. CASE phase' = [phase EXCEPT ![i] = "asking"] /\ UNCHANGED <<connOf, answer, requests>>
      <3>1. UNCHANGED table BY <1>3 DEF Initialize
      <3>2. ConnsKnown' BY <1>0, <2>2, <3>1, KnownConnsStay
      <3>3. RequestsOpen' /\ OneDestroy' /\ NewlyDoomed BY <1>1, <2>2, SameRequests
      <3>4. PICK f \in Phase : f = "asking" BY DEF Phase
      <3>5. phase' = [phase EXCEPT ![i] = f] BY <2>2, <3>4
      <3>6. ~Dying(i) BY <2>1 DEF Dying
      <3> QED BY <1>1, <2>2, <3>2, <3>3, <3>4, <3>5, <3>6, InstanceDestroys
    <2>3. CASE Entry(w, PathOf[i]) # 0
      <3>1. PICK c : c = table[w][Entry(w, PathOf[i])].conn OBVIOUS
      <3>2. Entry(w, PathOf[i]) \in DOMAIN table[w] BY <1>0, <2>3, EntryFound
      <3>3. table[w][Entry(w, PathOf[i])] \in TableEntry(nconn) BY <1>0, <3>2
      <3>4. c \in 1..nconn BY <3>1, <3>3 DEF TableEntry
      <3>5. CreateOn(i, c) /\ SendRequest(i, c, "create") /\ UNCHANGED table
        BY <1>3, <2>3, <3>1 DEF Initialize
      <3>6. ~Dying(i) BY <2>1 DEF Dying
      <3> QED BY <1>2, <3>4, <3>5, <3>6
    <2> QED BY <1>3, <2>2, <2>3 DEF Initialize
  <1>4. CASE GotConnection(i)
    <2>1. PICK c : c = answer[i] OBVIOUS
    <2>2. phase[i] = "asking" /\ c > 0 BY <1>4, <2>1 DEF GotConnection, Waits
    <2>3. MadeBy(PathOf[i], c) BY <2>1, <2>2 DEF NInv, AnswersOK, Got
    <2>4. c \in 1..nconn BY <2>3 DEF MadeBy
    <2>5. /\ CreateOn(i, c) /\ SendRequest(i, c, "create")
          /\ table' = [table EXCEPT ![OwnerOf[i]] = Append(@, [path |-> PathOf[i], conn |-> c])]
      BY <1>4, <2>1 DEF GotConnection, Enter
    <2>6. ~Dying(i) BY <2>2 DEF Dying
    <2> QED BY <1>2, <2>4, <2>5, <2>6
  <1>5. CASE Destroy(i)
    <2>1. PICK c : c = connOf[i] OBVIOUS
    <2>2. /\ phase[i] = "started" /\ phase' = [phase EXCEPT ![i] = "destroying"]
          /\ answer' = [answer EXCEPT ![i] = NoAnswer] /\ SendRequest(i, c, "destroy")
          /\ UNCHANGED <<connOf, table>>
      BY <1>5, <2>1 DEF Destroy
    <2>3. ~Dying(i) /\ Dying(i)' BY <1>0, <2>2 DEF Dying
    <2>4. ~Timed(i) BY <2>3 DEF DInv, TimedOK
    <2>5. SettledThere(i) BY <2>2 DEF DInv, CreatedOK, Created
    <2>6. c \in Conn /\ PluginEndOpen(c) => Settled(i, c) BY <2>1, <2>5 DEF SettledThere
    <2>7. RequestsOpen' /\ OneDestroy' /\ NewlyDoomed
      <3>1. PICK op \in {"create", "destroy"} : op = "destroy" OBVIOUS
      <3>2. SendRequest(i, c, op) BY <2>2, <3>1
      <3> QED BY <1>1, <2>3, <2>4, <2>6, <3>1, <3>2, RequestDooms
    <2>8. ConnsKnown' BY <1>0, <2>2, KnownConnsStay
    <2>9. \A j \in Instance \ {i} : connOf'[j] = connOf[j] /\ answer'[j] = answer[j] BY <1>0, <2>2
    <2>10. PICK f \in Phase : f = "destroying" BY DEF Phase
    <2>11. phase' = [phase EXCEPT ![i] = f] BY <2>2, <2>10
    <2> QED BY <1>1, <2>3, <2>7, <2>8, <2>9, <2>10, <2>11, InstanceDestroys
  <1> QED BY <1>3, <1>4, <1>5

-----------------------------------------------------------------------------

(* A call is over, and instance i gone.                                     *)
LEMMA GoneInstance ==
    ASSUME IInv, DInv, NEW i \in Instance, UNCHANGED <<child, controllers, requests, answer>>,
           phase' = [phase EXCEPT ![i] = "gone"],
           \A j \in Instance \ {i} : connOf'[j] = connOf[j], ConnsKnown'
    PROVE  DInv'
  <1>1. RequestsOpen' /\ OneDestroy' /\ NewlyDoomed BY SameRequests
  <1>2. PICK f \in Phase : f = "gone" BY DEF Phase
  <1>3. phase' = [phase EXCEPT ![i] = f] BY <1>2
  <1> QED BY <1>1, <1>2, <1>3, InstanceDestroys

LEMMA ReturnDestroys ==
    ASSUME IInv, WInv, DInv, OnlyNewOnes, NEW i \in Instance,
           GotNothing(i) \/ CreateReturns(i) \/ DestroyReturns(i) \/ CallTimesOut(i)
    PROVE  DInv'
  <1>0. nconn \in Nat /\ connOf \in [Instance -> 0..nconn] /\ ConnsKnown
    BY DEF IInv, DInv, ConnsKnown
  <1>1. UNCHANGED <<child, controllers, requests, answer, nconn>>
    BY DEF GotNothing, CreateReturns, DestroyReturns, CallTimesOut, plugVars, lineVars
  <1>2. CASE GotNothing(i)
    <2>1. phase' = [phase EXCEPT ![i] = "gone"] /\ UNCHANGED <<connOf, table>>
      BY <1>2 DEF GotNothing
    <2>2. ConnsKnown' BY <1>0, <1>1, <2>1, KnownConnsStay
    <2> QED BY <1>1, <2>1, <2>2, GoneInstance
  <1>3. CASE phase' = [phase EXCEPT ![i] = "gone"] /\ RemovePluginProxy(i)
    <2>1. ConnsKnown' BY <1>0, <1>1, <1>3, ProxyRemoved
    <2>2. connOf' = [connOf EXCEPT ![i] = NoConn] BY <1>3 DEF RemovePluginProxy
    <2>3. \A j \in Instance \ {i} : connOf'[j] = connOf[j] BY <1>0, <2>2
    <2> QED BY <1>1, <1>3, <2>1, <2>3, GoneInstance
  <1>4. CASE CreateReturns(i) /\ answer[i] = Done
    <2>1. /\ phase[i] = "creating" /\ phase' = [phase EXCEPT ![i] = "started"]
          /\ UNCHANGED <<connOf, table>>
      BY <1>4 DEF CreateReturns, Waits
    <2>2. ConnsKnown' BY <1>0, <1>1, <2>1, KnownConnsStay
    <2>3. RequestsOpen' /\ OneDestroy' /\ NewlyDoomed BY <1>1, SameRequests
    <2>4. Created(i) /\ ~Dying(i) BY <1>4, <2>1 DEF Created, Dying
    <2>5. PICK f \in Phase : f = "started" BY DEF Phase
    <2>6. phase' = [phase EXCEPT ![i] = f] BY <2>1, <2>5
    <2> QED BY <1>1, <2>1, <2>2, <2>3, <2>4, <2>6, InstanceDestroys
  <1> QED BY <1>2, <1>3, <1>4 DEF CreateReturns, DestroyReturns, CallTimesOut

LEMMA GarbageDestroys ==
    ASSUME IInv, WInv, DInv, OnlyNewOnes, NEW i \in Instance, GotGarbage(i)
    PROVE  DInv'
  <1>1. PICK c : c = nconn + 1 OBVIOUS
  <1>2. /\ phase[i] = "asking" /\ nconn' = c /\ UNCHANGED <<child, controllers, requests>>
        /\ connOf' = [connOf EXCEPT ![i] = c] /\ phase' = [phase EXCEPT ![i] = "creating"]
        /\ answer' = [answer EXCEPT ![i] = NoAnswer]
        /\ table' = [table EXCEPT ![OwnerOf[i]] = Append(@, [path |-> PathOf[i], conn |-> c])]
    BY <1>1 DEF GotGarbage, Waits, Enter, CreateOn, plugVars
  <1>3. /\ nconn \in Nat /\ connOf \in [Instance -> 0..nconn] /\ answer \in [Instance -> Int]
        /\ ConnsKnown
    BY DEF IInv, DInv, ConnsKnown, WInv, QueuesOK
  <1>4. nconn' \in Nat /\ nconn <= nconn' /\ c \in 1..nconn' BY <1>1, <1>2, <1>3
  <1>5. ConnsKnown' BY <1>2, <1>3, <1>4, TableGrows
  <1>6. RequestsOpen' /\ OneDestroy' /\ NewlyDoomed BY <1>2, SameRequests
  <1>7. \A j \in Instance \ {i} : connOf'[j] = connOf[j] /\ answer'[j] = answer[j] BY <1>2, <1>3
  <1>8. answer'[i] # Done BY <1>2, <1>3 DEF NoAnswer, Done
  <1>9. PICK f \in Phase : f = "creating" BY DEF Phase
  <1>10. phase' = [phase EXCEPT ![i] = f] BY <1>2, <1>9
  <1>11. ~Dying(i) BY <1>2 DEF Dying
  <1> QED BY <1>2, <1>5, <1>6, <1>7, <1>8, <1>9, <1>10, <1>11, InstanceDestroys

LEMMA DiesDestroys ==
    ASSUME IInv, DInv, OnlyNewOnes, NEW w \in Web, WebProcessDies(w)
    PROVE  DInv'
  <1>0. /\ nconn \in Nat /\ connOf \in [Instance -> 0..nconn]
        /\ table \in [Web -> Seq(TableEntry(nconn))]
    BY DEF IInv, DInv, ConnsKnown
  <1>1. /\ UNCHANGED <<child, controllers, requests, nconn, answer>>
        /\ phase' = [i \in Instance |-> IF OwnerOf[i] = w THEN "gone" ELSE phase[i]]
        /\ connOf' = [i \in Instance |-> IF OwnerOf[i] = w THEN NoConn ELSE connOf[i]]
        /\ table' = [table EXCEPT ![w] = << >>]
    BY DEF WebProcessDies, plugVars
  <1>2. ConnsKnown'
    <2>1. connOf' \in [Instance -> 0..nconn] BY <1>0, <1>1 DEF NoConn
    <2>2. table' \in [Web -> Seq(TableEntry(nconn))] BY <1>0, <1>1
    <2> QED BY <1>1, <2>1, <2>2 DEF ConnsKnown, TableEntry
  <1>3. RequestsOpen' /\ OneDestroy' /\ NewlyDoomed BY <1>1, SameRequests
  <1>4. \A j \in Instance, c \in Conn : (Settled(j, c)' <=> Settled(j, c)) /\ (Doomed(j, c)' <=> Doomed(j, c))
    BY <1>1 DEF Settled, Making, InNew, Doomed
  <1>5. \A j \in Instance : (Timed(j)' <=> Timed(j)) /\ (Dying(j) => Dying(j)')
    BY <1>1 DEF Timed, Dying
  <1>6. DoomedOK' BY <1>4, <1>5 DEF DoomedOK, DInv
  <1>7. TimedOK' BY <1>5 DEF TimedOK, DInv
  <1>8. CreatedOK'
    <2> SUFFICES ASSUME NEW j \in Instance, Created(j)' PROVE SettledThere(j)' BY DEF CreatedOK
    <2>1. Created(j) /\ connOf'[j] = connOf[j] BY <1>1 DEF Created
    <2>2. SettledThere(j) BY <2>1 DEF DInv, CreatedOK
    <2>3. PICK c : c = connOf[j] OBVIOUS
    <2>4. c \in Conn /\ PluginEndOpen(c)' => Settled(j, c)'
      BY <1>1, <1>4, <2>2, <2>3 DEF SettledThere, PluginEndOpen
    <2> QED BY <2>1, <2>3, <2>4 DEF SettledThere, Settled, Making, PluginEndOpen
  <1> QED BY <1>2, <1>3, <1>6, <1>7, <1>8 DEF DInv

LEMMA ReceivedDestroys ==
    ASSUME IInv, WInv, DInv, OnlyNewOnes, NEW w \in Web, ReceiveFromUI(w)
    PROVE  DInv'
  <1> DEFINE m == Head(toWeb[w])
  <1>0. answer \in [Instance -> Int] /\ toWeb[w] \in Seq(WebMessage) BY DEF WInv, QueuesOK
  <1>1. /\ toWeb[w] # << >>
        /\ (m.op = "reply" /\ answer' = [answer EXCEPT ![m.instance] = m.conn]) \/ UNCHANGED answer
        /\ UNCHANGED <<child, controllers, requests, phase, connOf, table>>
    BY DEF ReceiveFromUI, plugVars
  <1>2. m \in WebMessage BY <1>0, <1>1
  <1>3. m.op = "reply" => m.conn # Done BY <1>2 DEF WebMessage, Failed, Done
  <1> HIDE DEF m
  <1>4. \A i \in Instance : answer'[i] = Done => answer[i] = Done BY <1>0, <1>1, <1>3
  <1>5. NewlyCreated BY <1>1, <1>4, NothingNewCreated
  <1>6. RequestsOpen' BY <1>1 DEF RequestsOpen, DInv, PluginEndOpen
  <1>7. StaysSettled BY <1>1 DEF StaysSettled, Settled, Making, InNew
  <1>8. NewlyTimed BY <1>1 DEF NewlyTimed, Timed
  <1>9. RequestsShrink BY <1>1 DEF RequestsShrink, QueueShrinks
  <1> QED BY <1>1, <1>5, <1>6, <1>7, <1>8, <1>9, DInvStep

LEMMA InitDInv == Init => DInv
  <1> SUFFICES ASSUME Init PROVE DInv OBVIOUS
  <1>1. /\ nconn = 0 /\ requests = [c \in Conn |-> << >>] /\ child = [p \in Path |-> NoChild]
        /\ phase = [i \in Instance |-> "unborn"] /\ connOf = [i \in Instance |-> NoConn]
        /\ table = [w \in Web |-> << >>]
    BY DEF Init
  <1>2. \A i \in Instance, c \in Conn : ~Doomed(i, c) BY <1>1 DEF Doomed
  <1>3. RequestsOpen /\ DoomedOK /\ OneDestroy
    BY <1>1, <1>2 DEF RequestsOpen, DoomedOK, OneDestroy, OnceDoomed
  <1>4. TimedOK BY <1>1 DEF TimedOK, Timed, NoChild
  <1>5. CreatedOK BY <1>1 DEF CreatedOK, Created
  <1>6. connOf \in [Instance -> 0..nconn] BY <1>1 DEF NoConn
  <1>7. table \in [Web -> Seq(TableEntry(nconn))]
    <2>1. << >> \in Seq(TableEntry(nconn)) OBVIOUS
    <2> QED BY <1>1, <2>1
  <1> QED BY <1>3, <1>4, <1>5, <1>6, <1>7 DEF DInv, ConnsKnown

LEMMA NextDInv == AskingOK /\ IInv /\ PInv /\ WInv /\ NInv /\ DInv /\ [Next]_vars => DInv'
  <1> SUFFICES ASSUME AskingOK, IInv, PInv, WInv, NInv, DInv, [Next]_vars PROVE DInv' OBVIOUS
  <1>0. OnlyNewOnes BY NextConns
  <1>1. CASE Environment
    <2>1. ASSUME NEW p \in Path, PluginProcessDies(p) \/ TerminationTimerFires(p) PROVE DInv'
      BY <1>0, <2>1, GoneDestroys DEF PluginProcessDies, TerminationTimerFires, webVars
    <2>2. ASSUME NEW s \in SiteCallback, GetSiteData(s) PROVE DInv'
      BY <1>0, <2>2, NothingDestroyed DEF GetSiteData, lineVars, webVars
    <2> QED BY <1>0, <1>1, <2>1, <2>2, AskedDestroy, DiesDestroys, CallsDestroyNothing DEF Environment
  <1>2. CASE UIProcess
    <2>1. ASSUME NEW w \in Web, ReceiveTimedOut(w) PROVE DInv'
      <3> DEFINE p == PathOf[Head(toUI[w]).instance]
      <3>1. UNCHANGED <<phase, answer, connOf, table>> /\ toUI[w] # << >>
        BY <2>1 DEF ReceiveTimedOut, webVars
      <3>2. p \in Path BY <3>1, NextMessage
      <3>3. CASE Gone(p)
        <4> HIDE DEF p
        <4> QED BY <1>0, <3>1, <3>2, <3>3, GoneDestroys
      <3>4. CASE UNCHANGED <<child, controllers, requests>> BY <1>0, <3>1, <3>4, NothingDestroyed
      <3> QED BY <2>1, <3>3, <3>4 DEF ReceiveTimedOut
    <2>2. ASSUME NEW w \in Web, ReceiveGetConnection(w) PROVE DInv'
      BY <1>0, <2>2, NothingDestroyed DEF ReceiveGetConnection, lineVars, webVars
    <2>3. ASSUME NEW p \in Path,
                 DidFinishLaunching(p) \/ DidCreateWebProcessConnection(p) \/ DidGetSiteData(p)
          PROVE  DInv'
      BY <1>0, <2>3, NothingDestroyed
         DEF DidFinishLaunching, DidCreateWebProcessConnection, DidGetSiteData, lineVars, webVars
    <2> QED BY <1>0, <1>2, <2>1, <2>2, <2>3, CallsDestroyNothing, ClosedDestroys DEF UIProcess
  <1>3. ASSUME NEW p \in Path, PluginProcessStep(p) PROVE DInv'
    BY <1>0, <1>3, CallsDestroyNothing, BeginDestroysNothing, EndDestroysNothing, DestroyedStep,
       TimerDestroys, CloseDestroys
       DEF PluginProcessStep
  <1>4. ASSUME NEW w \in Web, WebProcess(w) PROVE DInv'
    <2>1. ASSUME NEW i \in Instance,
                 \/ GotConnection(i) \/ GotNothing(i) \/ GotGarbage(i)
                 \/ CreateReturns(i) \/ DestroyReturns(i) \/ CallTimesOut(i)
          PROVE  DInv'
      BY <1>0, <2>1, AskedDestroy, ReturnDestroys, GarbageDestroys
    <2> QED BY <1>0, <1>4, <2>1, ReceivedDestroys DEF WebProcess
  <1>5. ASSUME NEW c \in Conn, HangUp(c) PROVE DInv'
    BY <1>0, <1>5, NothingDestroyed DEF HangUp, plugVars, webVars
  <1>6. CASE UNCHANGED vars BY <1>0, <1>6, NothingDestroyed DEF vars
  <1> QED BY <1>1, <1>2, <1>3, <1>4, <1>5, <1>6 DEF Next

LEMMA AlwaysDInv == Spec => [](AskingOK /\ IInv /\ PInv /\ WInv /\ NInv /\ DInv)
  BY InitDInv, NextDInv, AlwaysNInv, PTL DEF Spec

(* A request to destroy an instance that waits on an open connection finds  *)
(* the instance's controller there (the assertion of                        *)
(* WebProcessConnection::destroyPlugin): no creation that failed, deferred  *)
(* destruction, timeout or earlier request took it away before.             *)
THEOREM DestroyFinds == Spec => []DestroyFindsItsController
  <1>1. IInv /\ DInv => DestroyFindsItsController
    <2> SUFFICES ASSUME IInv, DInv, NEW c \in Conn, NEW k \in DOMAIN requests[c],
                        requests[c][k].op = "destroy"
                 PROVE  requests[c][k].instance \in controllers[c]
      BY DEF DestroyFindsItsController
    <2>1. PICK i : i = requests[c][k].instance OBVIOUS
    <2>2. requests[c] \in Seq(SyncRequest) BY DEF IInv, LineOK
    <2>2a. requests[c][k] \in SyncRequest BY <2>2
    <2>3. i \in Instance BY <2>1, <2>2a DEF SyncRequest
    <2>4. Doomed(i, c) BY <2>1 DEF Doomed, DestroysIt
    <2>5. Settled(i, c) BY <2>3, <2>4 DEF DInv, DoomedOK
    <2> QED BY <2>1, <2>5 DEF Settled
  <1> QED BY <1>1, AlwaysDInv, PTL
=============================================================================
