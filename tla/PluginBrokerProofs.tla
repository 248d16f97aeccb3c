------------------------- MODULE PluginBrokerProofs -------------------------
(***************************************************************************)
(* What module PluginProcess keeps to and what it implements, for any      *)
(* number of web processes, plug-ins, instances and site data requests.    *)
(* Three invariants stand on those of PluginProcessProofs.                 *)
(*                                                                         *)
(*   BInv   how many connections are made: one for an instance when it is  *)
(*          served, one when its wait ends without a descriptor.           *)
(*   UInv   the ends the web processes have, and that a connection known   *)
(*          to an instance or in a table is one whose end was used.  With  *)
(*          BInv, TypesHold.                                               *)
(*   HInv   a connection on its way, in a queue of the UI process, in a    *)
(*          queue of a web process or in the answer of a call, is in one   *)
(*          of these places, once, and no web process had it before.       *)
(*                                                                         *)
(* From HInv each step is a step of ConnectionBroker or changes nothing    *)
(* that it sees: a reply gives a connection that nobody has, a connection  *)
(* for a web process that died is thrown away, and a web process takes     *)
(* with it its calls and the connections on their way to it.  Hence        *)
(* BrokerImplemented.                                                      *)
(***************************************************************************)
EXTENDS PluginProcessProofs

-----------------------------------------------------------------------------
(* How many connections are made.                                           *)

(* Instance i is among those for whom the process has made none yet.        *)
InLine(i) ==
    \E k \in DOMAIN proxy[PathOf[i]].replies :
        proxy[PathOf[i]].replies[k] = i /\ k > Count(fromPlugin[PathOf[i]], Made)

(* No connection was made for instance i, and none will be without need.    *)
Unserved(i) == phase[i] = "unborn" \/ Asks(toUI, i) > 0 \/ InLine(i)

Served == {i \in Instance : ~Unserved(i)}
Past == {i \in Instance : phase[i] \notin {"unborn", "asking"}}

(* A process makes a connection for an instance it serves then; a web       *)
(* process makes one up when an instance goes past its wait.                *)
BInv == nconn <= Cardinality(Served) + Cardinality(Past)

ServedStay == \A i \in Instance : Unserved(i)' => Unserved(i)
PastStay == \A i \in Instance : i \in Past => i \in Past'

LEMMA InstancesFinite ==
    ASSUME NEW S, S \subseteq Instance
    PROVE  /\ IsFiniteSet(S) /\ Cardinality(S) \in Nat /\ Cardinality(Instance) \in Nat
           /\ Cardinality(S) <= Cardinality(Instance)
  <1>1. IsFiniteSet(Instance) BY PluginAssumption
  <1> QED BY <1>1, FS_Subset, FS_CardinalityType

LEMMA MoreInstances ==
    ASSUME NEW S, NEW R, S \subseteq R, R \subseteq Instance
    PROVE  /\ Cardinality(S) <= Cardinality(R)
           /\ \A i : i \in R /\ i \notin S => Cardinality(S) + 1 <= Cardinality(R)
  <1>1. IsFiniteSet(R) /\ IsFiniteSet(S) /\ Cardinality(R) \in Nat /\ Cardinality(S) \in Nat
    BY InstancesFinite
  <1>2. Cardinality(S) <= Cardinality(R) /\ (Cardinality(S) = Cardinality(R) => S = R)
    BY <1>1, FS_Subset
  <1> QED BY <1>1, <1>2

LEMMA BoundStep ==
    ASSUME nconn \in Nat, BInv, ServedStay, PastStay,
           \/ UNCHANGED nconn
           \/ /\ nconn' = nconn + 1
              /\ \E i \in Instance : \/ Unserved(i) /\ ~Unserved(i)'
                                     \/ i \notin Past /\ i \in Past'
    PROVE  BInv'
  <1> DEFINE S == Cardinality(Served)
             R == Cardinality(Past)
  <1>1. PICK s, r, t, u : s = S /\ r = R /\ t = S' /\ u = R' OBVIOUS
  <1>2. /\ Served \subseteq Served' /\ Served' \subseteq Instance /\ Served \subseteq Instance
        /\ Past \subseteq Past' /\ Past' \subseteq Instance /\ Past \subseteq Instance
    BY DEF ServedStay, PastStay, Served, Past
  <1>3. s \in Nat /\ r \in Nat /\ t \in Nat /\ u \in Nat BY <1>1, <1>2, InstancesFinite
  <1>4. s <= t /\ r <= u BY <1>1, <1>2, MoreInstances
  <1>5. ASSUME nconn' # nconn PROVE s + r + 1 <= t + u
    <2>1. PICK i \in Instance : (Unserved(i) /\ ~Unserved(i)') \/ (i \notin Past /\ i \in Past')
      BY <1>5
    <2>2. CASE Unserved(i) /\ ~Unserved(i)'
      <3>1. i \in Served' /\ i \notin Served BY <2>2 DEF Served
      <3>2. s + 1 <= t BY <1>1, <1>2, <3>1, MoreInstances
      <3> QED BY <1>3, <1>4, <3>2
    <2>3. CASE i \notin Past /\ i \in Past'
      <3>1. r + 1 <= u BY <1>1, <1>2, <2>3, MoreInstances
      <3> QED BY <1>3, <1>4, <3>1
    <2> QED BY <2>1, <2>2, <2>3
  <1>6. nconn <= s + r BY <1>1 DEF BInv
  <1>7. nconn' <= t + u BY <1>3, <1>4, <1>5, <1>6
  <1> QED BY <1>1, <1>7 DEF BInv

-----------------------------------------------------------------------------
(* Who waits in line.                                                       *)

LEMMA LineMoves ==
    ASSUME SameReplies, WInv, PInv, NEW p \in Path,
           \A q \in Path \ {p} : fromPlugin'[q] = fromPlugin[q],
           Count(fromPlugin'[p], Made) \in Nat,
           Count(fromPlugin[p], Made) <= Count(fromPlugin'[p], Made),
           NEW i \in Instance, InLine(i)'
    PROVE  InLine(i)
  <1>1. PICK a, b, r : a = Count(fromPlugin[PathOf[i]], Made) /\ b = Count(fromPlugin'[PathOf[i]], Made)
                       /\ r = proxy[PathOf[i]].replies
    OBVIOUS
  <1>2. PathOf[i] \in Path BY PathsAndWebs
  <1>3. fromPlugin[PathOf[i]] \in Seq(ChildMessage) BY <1>2 DEF PInv
  <1>4. a \in Nat BY <1>1, <1>3, CountType
  <1>5. b \in Nat /\ a <= b
    <2>1. CASE PathOf[i] = p BY <1>1, <2>1
    <2>2. CASE PathOf[i] # p BY <1>1, <1>2, <1>4, <2>2
    <2> QED BY <2>1, <2>2
  <1>6. r \in Seq(InstancesOf(PathOf[i])) BY <1>1, <1>2 DEF WInv, QueuesOK
  <1>7. PICK k \in DOMAIN r : r[k] = i /\ k > b
    BY <1>1, <1>2 DEF InLine, SameReplies
  <1>8. k \in Nat BY <1>6
  <1>9. k > a BY <1>4, <1>5, <1>7, <1>8
  <1> QED BY <1>1, <1>7, <1>9 DEF InLine

LEMMA SameLine ==
    ASSUME SameReplies, UNCHANGED fromPlugin, NEW i \in Instance, InLine(i)'
    PROVE  InLine(i)
  BY PathsAndWebs DEF InLine, SameReplies

NotBornAgain == \A i \in Instance : phase'[i] = "unborn" => phase[i] = "unborn"

LEMMA NothingServed ==
    ASSUME SameReplies, UNCHANGED <<fromPlugin, toUI>>, NotBornAgain
    PROVE  ServedStay
  BY SameLine DEF ServedStay, Unserved, NotBornAgain, Asks

-----------------------------------------------------------------------------

LEMMA InstancesServed ==
    ASSUME AskingOK, IInv, WInv, NEW i \in Instance,
           \/ Initialize(i) \/ Destroy(i) \/ GotConnection(i) \/ GotNothing(i) \/ GotGarbage(i)
           \/ CreateReturns(i) \/ DestroyReturns(i) \/ CallTimesOut(i)
    PROVE  /\ NotBornAgain /\ PastStay /\ ServedStay
           /\ GotGarbage(i) => i \notin Past /\ i \in Past'
  <1>0. phase \in [Instance -> Phase] /\ QueuesOK BY DEF IInv, LineOK, WInv
  <1>1. PICK f \in Phase \ {"unborn"} :
            phase' = [phase EXCEPT ![i] = f] /\ (f = "asking" => phase[i] = "unborn")
    <2>1. CASE Initialize(i)
      <3>1. phase[i] = "unborn" BY <2>1 DEF Initialize
      <3>2. \E f \in {"asking", "creating"} : phase' = [phase EXCEPT ![i] = f]
        BY <2>1 DEF Initialize, CreateOn
      <3> QED BY <3>1, <3>2 DEF Phase
    <2>2. CASE ~Initialize(i)
      <3>1. \E f \in {"creating", "started", "destroying", "gone"} : phase' = [phase EXCEPT ![i] = f]
        BY <2>2 DEF Destroy, GotConnection, GotNothing, GotGarbage, CreateReturns,
                    DestroyReturns, CallTimesOut, Enter, CreateOn
      <3> QED BY <3>1 DEF Phase
    <2> QED BY <2>1, <2>2
  <1>2. phase'[i] = f /\ \A j \in Instance \ {i} : phase'[j] = phase[j] BY <1>0, <1>1
  <1>3. NotBornAgain /\ PastStay
    <2>1. \A j \in Instance : phase'[j] = "unborn" => phase[j] = "unborn" BY <1>1, <1>2
    <2>2. ASSUME NEW j \in Instance, j \in Past PROVE j \in Past'
      <3>1. phase[j] \notin {"unborn", "asking"} BY <2>2 DEF Past
      <3>2. phase'[j] \notin {"unborn", "asking"} BY <1>1, <1>2, <3>1
      <3> QED BY <3>2 DEF Past
    <2> QED BY <2>1, <2>2 DEF NotBornAgain, PastStay
  <1>4. UNCHANGED <<proxy, fromPlugin>>
    BY DEF Initialize, Destroy, GotConnection, GotNothing, GotGarbage, CreateReturns,
           DestroyReturns, CallTimesOut, Enter, uiVars, plugVars
  <1>5. SameReplies BY <1>4 DEF SameReplies
  <1>6. \A j \in Instance : Asks(toUI', j) = Asks(toUI, j) \/ (j = i /\ phase[i] = "unborn")
    <2>1. CASE UNCHANGED toUI BY <2>1 DEF Asks
    <2>2. ASSUME NEW op \in {"getConnection", "timedOut"},
                 toUI' = [toUI EXCEPT ![OwnerOf[i]] = Append(@, [op |-> op, instance |-> i])],
                 op = "timedOut" \/ phase[i] = "unborn"
          PROVE  \A j \in Instance : Asks(toUI', j) = Asks(toUI, j) \/ (j = i /\ phase[i] = "unborn")
      BY <1>0, <2>2, MessageSent
    <2>3. CASE Initialize(i)
      <3>1. PICK op \in {"getConnection", "timedOut"} : op = "getConnection" OBVIOUS
      <3>2. phase[i] = "unborn" BY <2>3 DEF Initialize
      <3>3. UNCHANGED toUI \/ toUI' = [toUI EXCEPT ![OwnerOf[i]] = Append(@, [op |-> op, instance |-> i])]
        BY <2>3, <3>1 DEF Initialize
      <3> QED BY <2>1, <2>2, <3>2, <3>3
    <2>4. CASE ~Initialize(i)
      <3>1. PICK op \in {"getConnection", "timedOut"} : op = "timedOut" OBVIOUS
      <3>2. UNCHANGED toUI \/ toUI' = [toUI EXCEPT ![OwnerOf[i]] = Append(@, [op |-> op, instance |-> i])]
        BY <2>4, <3>1 DEF Destroy, GotConnection, GotNothing, GotGarbage, CreateReturns,
                          DestroyReturns, CallTimesOut, Enter, uiVars
      <3> QED BY <2>1, <2>2, <3>1, <3>2
    <2> QED BY <2>3, <2>4
  <1>7. ServedStay
    <2> SUFFICES ASSUME NEW j \in Instance, Unserved(j)' PROVE Unserved(j) BY DEF ServedStay
    <2>1. CASE phase'[j] = "unborn" BY <1>3, <2>1 DEF NotBornAgain, Unserved
    <2>2. CASE Asks(toUI', j) > 0 BY <1>6, <2>2 DEF Unserved
    <2>3. CASE InLine(j)' BY <1>4, <1>5, <2>3, SameLine DEF Unserved
    <2> QED BY <2>1, <2>2, <2>3 DEF Unserved, Asks
  <1>8. ASSUME GotGarbage(i) PROVE i \notin Past /\ i \in Past'
    <2>1. phase[i] = "asking" /\ phase' = [phase EXCEPT ![i] = "creating"]
      BY <1>8 DEF GotGarbage, Waits, Enter, CreateOn
    <2> QED BY <1>0, <2>1 DEF Past
  <1> QED BY <1>3, <1>7, <1>8

LEMMA DiesServed ==
    ASSUME AskingOK, IInv, WInv, NEW w \in Web, WebProcessDies(w)
    PROVE  PastStay /\ ServedStay
  <1>1. /\ phase' = [i \in Instance |-> IF OwnerOf[i] = w THEN "gone" ELSE phase[i]]
        /\ toUI' \in {toUI, [toUI EXCEPT ![w] = << >>]} /\ UNCHANGED <<proxy, fromPlugin>>
    BY DEF WebProcessDies, plugVars
  <1>2. \A i \in Instance : phase'[i] = phase[i] \/ phase'[i] = "gone" BY <1>1
  <1>3. PastStay BY <1>2 DEF PastStay, Past
  <1>4. SameReplies BY <1>1 DEF SameReplies
  <1>5. toUI \in [Web -> Seq(Asking)] BY DEF AskingOK
  <1>6. ASSUME NEW j \in Instance, Asks(toUI', j) > 0 PROVE Asks(toUI, j) > 0
    <2>1. CASE toUI' = toUI BY <1>6, <2>1
    <2>2. CASE toUI' # toUI
      <3>1. toUI'[OwnerOf[j]] = IF OwnerOf[j] = w THEN << >> ELSE toUI[OwnerOf[j]]
        BY <1>1, <1>5, <2>2, PathsAndWebs
      <3>2. CASE OwnerOf[j] = w
        <4>1. Asks(toUI', j) = 0 BY <3>1, <3>2, CountEmpty DEF Asks
        <4> QED BY <1>6, <4>1
      <3>3. CASE OwnerOf[j] # w BY <1>6, <3>1, <3>3 DEF Asks
      <3> QED BY <3>2, <3>3
    <2> QED BY <2>1, <2>2
  <1>7. ServedStay
    <2> SUFFICES ASSUME NEW j \in Instance, Unserved(j)' PROVE Unserved(j) BY DEF ServedStay
    <2>1. CASE phase'[j] = "unborn" BY <1>2, <2>1 DEF Unserved
    <2>2. CASE Asks(toUI', j) > 0 BY <1>6, <2>2 DEF Unserved
    <2>3. CASE InLine(j)' BY <1>1, <1>4, <2>3, SameLine DEF Unserved
    <2> QED BY <2>1, <2>2, <2>3 DEF Unserved, Asks
  <1> QED BY <1>3, <1>7

LEMMA TimedOutServed ==
    ASSUME AskingOK, WInv, NEW w \in Web, ReceiveTimedOut(w)
    PROVE  ServedStay
  <1>1. /\ toUI[w] # << >> /\ Head(toUI[w]).op = "timedOut" /\ toUI' = [toUI EXCEPT ![w] = Tail(@)]
        /\ UNCHANGED <<proxy, fromPlugin, phase>>
    BY DEF ReceiveTimedOut, webVars
  <1>2. \A j \in Instance : Asks(toUI', j) = Asks(toUI, j) BY <1>1, MessageTaken DEF WInv
  <1>3. SameReplies BY <1>1 DEF SameReplies
  <1> SUFFICES ASSUME NEW j \in Instance, Unserved(j)' PROVE Unserved(j) BY DEF ServedStay
  <1>4. CASE InLine(j)' BY <1>1, <1>3, <1>4, SameLine DEF Unserved
  <1>5. CASE ~InLine(j)' BY <1>1, <1>2, <1>5 DEF Unserved, Asks
  <1> QED BY <1>4, <1>5

LEMMA GetConnectionServed ==
    ASSUME AskingOK, PInv, WInv, NEW w \in Web, ReceiveGetConnection(w)
    PROVE  ServedStay
  <1> DEFINE m == Head(toUI[w])
  <1>0. PICK i : i = m.instance OBVIOUS
  <1> DEFINE p == PathOf[i]
             r == proxy[p].replies
  <1>1. /\ toUI[w] # << >> /\ m.op = "getConnection" /\ toUI' = [toUI EXCEPT ![w] = Tail(@)]
        /\ GetPluginProcessConnection(p, i) /\ UNCHANGED <<fromPlugin, phase>>
    BY <1>0 DEF ReceiveGetConnection, webVars
  <1>2. QueuesOK BY DEF WInv
  <1>3. \A j \in Instance : j # i => Asks(toUI', j) = Asks(toUI, j)
    BY <1>0, <1>1, <1>2, MessageTaken
  <1>4. Asks(toUI', i) = Asks(toUI, i) - 1 BY <1>0, <1>1, <1>2, MessageTaken
  <1>5. i \in Instance /\ p \in Path /\ OwnerOf[i] = w BY <1>0, <1>1, <1>2, NextMessage, MessageTaken
  <1>6. Asks(toUI, i) > 0
    <2>1. toUI[w] \in Seq(Asking) BY DEF AskingOK
    <2>2. 1 \in DOMAIN toUI[w] /\ m = toUI[w][1] /\ m \in Asking BY <1>1, <2>1
    <2>3. m \in AsksFor(i) BY <1>0, <1>1, <2>2 DEF AsksFor
    <2>4. Count(toUI[w], AsksFor(i)) \in Nat /\ Count(toUI[w], AsksFor(i)) # 0
      BY <2>1, <2>2, <2>3, CountType
    <2> QED BY <1>5, <2>4 DEF Asks
  <1> HIDE DEF m
  <1>7. PICK px, tp : /\ proxy' = [proxy EXCEPT ![p] = px]
                      /\ AskedAt(proxy[p], toPlugin[p], px, tp, i)
    BY <1>1, <1>5, Asked
  <1>8. px.replies = Append(r, i) BY <1>7 DEF AskedAt
  <1>9. proxy \in [Path -> ProxyState] BY UIFields DEF PInv
  <1>10. proxy'[p] = px /\ \A q \in Path \ {p} : proxy'[q] = proxy[q] BY <1>5, <1>7, <1>9
  <1>11. r \in Seq(InstancesOf(p)) BY <1>2, <1>5 DEF QueuesOK
  <1>12. \A k \in DOMAIN px.replies : px.replies[k] = i \/ (k \in DOMAIN r /\ px.replies[k] = r[k])
    BY <1>8, <1>11
  <1> SUFFICES ASSUME NEW j \in Instance, Unserved(j)' PROVE Unserved(j) BY DEF ServedStay
  <1>13. CASE j = i BY <1>6, <1>13 DEF Unserved
  <1>14. CASE j # i /\ InLine(j)'
    <2>1. PICK k \in DOMAIN proxy'[PathOf[j]].replies :
              proxy'[PathOf[j]].replies[k] = j /\ k > Count(fromPlugin[PathOf[j]], Made)
      BY <1>1, <1>14 DEF InLine
    <2>2. CASE PathOf[j] = p BY <1>10, <1>12, <1>14, <2>1, <2>2 DEF InLine, Unserved
    <2>3. CASE PathOf[j] # p BY <1>10, <2>1, <2>3, PathsAndWebs DEF InLine, Unserved
    <2> QED BY <2>2, <2>3
  <1>15. CASE j # i /\ ~InLine(j)' BY <1>1, <1>3, <1>15 DEF Unserved, Asks
  <1> QED BY <1>13, <1>14, <1>15

-----------------------------------------------------------------------------

LEMMA ConnectedServed ==
    ASSUME PInv, WInv, NEW p \in Path, DidCreateWebProcessConnection(p)
    PROVE  ServedStay
  <1> DEFINE r == proxy[p].replies
             q == fromPlugin[p]
  <1>1. /\ q # << >> /\ Head(q).op = "connection" /\ r # << >>
        /\ fromPlugin' = [fromPlugin EXCEPT ![p] = Tail(@)]
        /\ proxy' = [proxy EXCEPT ![p].replies = Tail(@)] /\ UNCHANGED <<toUI, phase>>
    BY DEF DidCreateWebProcessConnection, webVars
  <1>2. /\ fromPlugin \in [Path -> Seq(ChildMessage)] /\ q \in Seq(ChildMessage)
        /\ proxy \in [Path -> ProxyState] /\ r \in Seq(InstancesOf(p))
    BY UIFields DEF PInv, WInv, QueuesOK
  <1>3. /\ proxy'[p].replies = Tail(r) /\ fromPlugin'[p] = Tail(q)
        /\ \A x \in Path \ {p} : proxy'[x] = proxy[x] /\ fromPlugin'[x] = fromPlugin[x]
    BY <1>1, <1>2 DEF ProxyState
  <1>4. PICK a, b : a = Count(q, Made) /\ b = Count(Tail(q), Made) OBVIOUS
  <1>5. Head(q) \in Made BY <1>1, <1>2 DEF Made
  <1>6. a \in Nat /\ b = a - 1 BY <1>1, <1>2, <1>4, <1>5, CountTail, CountType
  <1>7. \A k \in DOMAIN Tail(r) : k \in Nat /\ k + 1 \in DOMAIN r /\ Tail(r)[k] = r[k + 1]
    BY <1>1, <1>2
  <1> HIDE DEF q, r
  <1> SUFFICES ASSUME NEW j \in Instance, Unserved(j)' PROVE Unserved(j) BY DEF ServedStay
  <1>8. CASE InLine(j)'
    <2>1. CASE PathOf[j] = p
      <3>1. PICK k \in DOMAIN Tail(r) : Tail(r)[k] = j /\ k > b
        BY <1>3, <1>4, <1>8, <2>1 DEF InLine
      <3>2. k + 1 \in DOMAIN r /\ r[k + 1] = j BY <1>7, <3>1
      <3>3. k + 1 > a BY <1>6, <1>7, <3>1
      <3> QED BY <1>4, <2>1, <3>2, <3>3 DEF InLine, Unserved, q, r
    <2>2. CASE PathOf[j] # p BY <1>3, <1>8, <2>2, PathsAndWebs DEF InLine, Unserved
    <2> QED BY <2>1, <2>2
  <1>9. CASE ~InLine(j)' BY <1>1, <1>9 DEF Unserved, Asks
  <1> QED BY <1>8, <1>9

LEMMA ClosedServed ==
    ASSUME PInv, WInv, NEW p \in Path, DidClose(p)
    PROVE  ServedStay
  <1>1. /\ SitesGoOn(p) /\ fromPlugin' = [fromPlugin EXCEPT ![p] = << >>] /\ UNCHANGED <<toUI, phase>>
    BY DEF DidClose, CrashedOrFailedToLaunch, webVars
  <1>2. /\ proxy'[p].replies = << >>
        /\ \A q \in Path \ {p} : proxy'[q].replies = proxy[q].replies
    <2>1. [site |-> site, proxy |-> proxy, toPlugin |-> toPlugin] \in UIPart BY DEF PInv, UIOK
    <2>2. /\ proxy'[p] = NoProxy
          /\ \A q \in Path \ {p} : GrowsAt(proxy[q], toPlugin[q], proxy'[q], toPlugin'[q])
      BY <1>1, <2>1, SitesMoved
    <2> QED BY <2>2 DEF NoProxy, GrowsAt
  <1>3. \A q \in Path \ {p} : fromPlugin'[q] = fromPlugin[q] BY <1>1 DEF PInv
  <1> SUFFICES ASSUME NEW j \in Instance, Unserved(j)' PROVE Unserved(j) BY DEF ServedStay
  <1>4. CASE InLine(j)'
    <2>1. PICK k \in DOMAIN proxy'[PathOf[j]].replies :
              proxy'[PathOf[j]].replies[k] = j /\ k > Count(fromPlugin'[PathOf[j]], Made)
      BY <1>4 DEF InLine
    <2>2. PathOf[j] # p BY <1>2, <2>1
    <2> QED BY <1>2, <1>3, <2>1, <2>2, PathsAndWebs DEF InLine, Unserved
  <1>5. CASE ~InLine(j)' BY <1>1, <1>5 DEF Unserved, Asks
  <1> QED BY <1>4, <1>5

LEMMA SiteDataServed ==
    ASSUME PInv, WInv, NEW p \in Path, DidGetSiteData(p) \/ HandleSiteData(p)
    PROVE  ServedStay
  <1> DEFINE q == fromPlugin[p]
  <1>0. fromPlugin \in [Path -> Seq(ChildMessage)] /\ q \in Seq(ChildMessage) BY DEF PInv
  <1>1. UNCHANGED <<toUI, phase>> BY DEF DidGetSiteData, HandleSiteData, uiVars, webVars
  <1>2. SameReplies
    <2>1. CASE DidGetSiteData(p) BY <2>1, SitesKeepReplies
    <2>2. CASE HandleSiteData(p) BY <2>2 DEF HandleSiteData, uiVars, SameReplies
    <2> QED BY <2>1, <2>2
  <1>3. /\ \A x \in Path \ {p} : fromPlugin'[x] = fromPlugin[x]
        /\ Count(fromPlugin'[p], Made) = Count(q, Made)
    <2>1. CASE DidGetSiteData(p)
      <3>1. q # << >> /\ Head(q).op = "site" /\ fromPlugin' = [fromPlugin EXCEPT ![p] = Tail(@)]
        BY <2>1 DEF DidGetSiteData
      <3>2. Head(q) \notin Made BY <3>1 DEF Made
      <3>3. Count(Tail(q), Made) = Count(q, Made) - 0 /\ Count(q, Made) \in Nat
        BY <1>0, <3>1, <3>2, CountTail, CountType
      <3> QED BY <1>0, <3>1, <3>3
    <2>2. CASE HandleSiteData(p)
      <3>0. PICK k \in DOMAIN toPlugin[p] :
                /\ toPlugin[p][k].op = "site"
                /\ fromPlugin' = [fromPlugin EXCEPT ![p] =
                      Append(@, [op |-> "site", callback |-> toPlugin[p][k].callback])]
        BY <2>2 DEF HandleSiteData
      <3>0a. toPlugin[p] \in Seq(PluginMessage) BY UIFields DEF PInv
      <3>0b. PICK s : s = toPlugin[p][k].callback OBVIOUS
      <3>0c. toPlugin[p][k] \in PluginMessage BY <3>0, <3>0a
      <3>0d. s \in SiteCallback BY <3>0, <3>0b, <3>0c DEF PluginMessage, SiteMessage
      <3>1. fromPlugin' = [fromPlugin EXCEPT ![p] = Append(@, [op |-> "site", callback |-> s])]
        BY <3>0, <3>0b
      <3> DEFINE m == [op |-> "site", callback |-> s]
      <3>2. m \notin Made /\ m \in ChildMessage BY <3>0d DEF Made, ChildMessage
      <3> HIDE DEF m
      <3>3. Count(Append(q, m), Made) = Count(q, Made) + 0 /\ Count(q, Made) \in Nat
        BY <1>0, <3>2, CountAppend, CountType
      <3>4. fromPlugin' = [fromPlugin EXCEPT ![p] = Append(@, m)] BY <3>1 DEF m
      <3> QED BY <1>0, <3>3, <3>4
    <2> QED BY <2>1, <2>2
  <1>4. Count(q, Made) \in Nat BY <1>0, CountType
  <1> SUFFICES ASSUME NEW j \in Instance, Unserved(j)' PROVE Unserved(j) BY DEF ServedStay
  <1>5. CASE InLine(j)'
    <2>1. Count(q, Made) <= Count(fromPlugin'[p], Made) /\ Count(fromPlugin'[p], Made) \in Nat BY <1>3, <1>4
    <2> QED BY <1>2, <1>3, <1>5, <2>1, LineMoves DEF Unserved
  <1>6. CASE ~InLine(j)' BY <1>1, <1>6 DEF Unserved, Asks
  <1> QED BY <1>5, <1>6

(* A connection is made for the first one in line.                          *)
LEMMA MadeServed ==
    ASSUME IInv, PInv, WInv, NEW p \in Path, CreateConnection(p)
    PROVE  ServedStay /\ \E i \in Instance : Unserved(i) /\ ~Unserved(i)'
  <1> DEFINE q == fromPlugin[p]
             r == proxy[p].replies
             m == [op |-> "connection", conn |-> nconn + 1]
             tp == toPlugin[p]
  <1>0. /\ fromPlugin \in [Path -> Seq(ChildMessage)] /\ q \in Seq(ChildMessage)
        /\ tp \in Seq(PluginMessage) /\ nconn \in Nat /\ r \in Seq(InstancesOf(p))
        /\ phase \in [Instance -> Phase]
    BY UIFields DEF PInv, IInv, WInv, QueuesOK, LineOK
  <1>1. PICK k \in DOMAIN tp : Takes(p, k) /\ tp[k].op = "connect"
    BY DEF CreateConnection
  <1>2. fromPlugin' = [fromPlugin EXCEPT ![p] = Append(@, m)] /\ UNCHANGED <<proxy, toUI, phase>>
    BY DEF CreateConnection, uiVars, webVars
  <1>3. m \in Made /\ m \in ChildMessage BY <1>0 DEF Made, ChildMessage
  <1> HIDE DEF m
  <1>4. PICK a, b : a = Count(q, Made) /\ b = Count(fromPlugin'[p], Made) OBVIOUS
  <1>5. a \in Nat /\ b = a + 1
    <2>1. Count(Append(q, m), Made) = Count(q, Made) + 1 /\ Count(q, Made) \in Nat
      BY <1>0, <1>3, CountAppend, CountType
    <2> QED BY <1>0, <1>2, <1>4, <2>1
  <1>6. \A x \in Path \ {p} : fromPlugin'[x] = fromPlugin[x] BY <1>0, <1>2
  <1>7. SameReplies BY <1>2 DEF SameReplies
  <1>8. ServedStay
    <2> SUFFICES ASSUME NEW j \in Instance, Unserved(j)' PROVE Unserved(j) BY DEF ServedStay
    <2>1. CASE InLine(j)'
      <3>1. Count(q, Made) <= Count(fromPlugin'[p], Made) /\ Count(fromPlugin'[p], Made) \in Nat
        BY <1>4, <1>5
      <3> QED BY <1>6, <1>7, <2>1, <3>1, LineMoves DEF Unserved
    <2>2. CASE ~InLine(j)' BY <1>2, <2>2 DEF Unserved, Asks
    <2> QED BY <2>1, <2>2
  <1>9. Len(r) \in Nat /\ b <= Len(r)
    <2>1. PathOK(proxy[p], child[p], tp, q) /\ child[p].state = "running" BY <1>1 DEF PInv, Takes
    <2>2. PICK n, c, l : n = proxy[p].requests /\ c = Count(tp, Connects) /\ l = Len(r) OBVIOUS
    <2>3. n \in Nat /\ c \in Nat /\ l \in Nat BY <2>1, <2>2, PathCounts DEF PathOK
    <2>4. l = a + n + c BY <1>4, <2>1, <2>2 DEF PathOK, Matched
    <2>5. tp[k] \in Connects BY <1>0, <1>1 DEF Connects
    <2>6. c # 0 BY <1>0, <1>1, <2>2, <2>5, CountType
    <2> QED BY <1>5, <2>2, <2>3, <2>4, <2>6
  <1>10. PICK i : i = r[b] OBVIOUS
  <1>11. b \in DOMAIN r /\ i \in Instance /\ PathOf[i] = p BY <1>0, <1>5, <1>9, <1>10 DEF InstancesOf
  <1>12. Unserved(i) BY <1>4, <1>5, <1>10, <1>11 DEF Unserved, InLine
  <1>13. Kept(proxy, i) # 0
    <2>1. i \in {i} OBVIOUS
    <2>2. Count(r, {i}) # 0 BY <1>0, <1>10, <1>11, <2>1, CountType
    <2> QED BY <1>11, <2>2 DEF Kept
  <1>14. PlaceOf(i) /\ Asks(toUI, i) \in Nat /\ Kept(proxy, i) \in Nat /\ Told(toWeb, i) \in Nat
    BY <1>11, PlaceNumbers DEF WInv
  <1>15. Asks(toUI, i) = 0 /\ Kept(proxy, i) = 1 /\ phase[i] # "unborn"
    BY <1>13, <1>14 DEF PlaceOf, InOnePlace
  <1>16. ~InLine(i)'
    <2> SUFFICES ASSUME InLine(i)' PROVE FALSE OBVIOUS
    <2>1. PICK j \in DOMAIN r : r[j] = i /\ j > b BY <1>2, <1>4, <1>11 DEF InLine
    <2>2. PICK M : M = {i} OBVIOUS
    <2>3. Count(r, M) <= 1 BY <1>11, <1>15, <2>2 DEF Kept
    <2>4. r[j] \in M /\ r[b] \in M BY <1>10, <2>1, <2>2
    <2>5. j = b BY <1>0, <1>11, <2>3, <2>4, CountOne
    <2> QED BY <1>5, <2>1, <2>5
  <1>17. ~Unserved(i)' BY <1>2, <1>15, <1>16 DEF Unserved, Asks
  <1> QED BY <1>8, <1>11, <1>12, <1>17

-----------------------------------------------------------------------------

LEMMA InitBInv == Init => BInv
  <1> SUFFICES ASSUME Init PROVE BInv OBVIOUS
  <1>1. nconn = 0 BY DEF Init
  <1>2. Served \subseteq Instance /\ Past \subseteq Instance BY DEF Served, Past
  <1>3. PICK s, r : s = Cardinality(Served) /\ r = Cardinality(Past) OBVIOUS
  <1>4. s \in Nat /\ r \in Nat BY <1>2, <1>3, InstancesFinite
  <1> QED BY <1>1, <1>3, <1>4 DEF BInv

LEMMA BoundStill ==
    ASSUME nconn \in Nat, BInv, UNCHANGED <<nconn, phase, toUI, fromPlugin>>, SameReplies
    PROVE  BInv'
  <1>1. NotBornAgain /\ PastStay BY DEF NotBornAgain, PastStay, Past
  <1>2. ServedStay BY <1>1, NothingServed
  <1> QED BY <1>1, <1>2, BoundStep

LEMMA NextBInv == AskingOK /\ IInv /\ PInv /\ WInv /\ BInv /\ [Next]_vars => BInv'
  <1> SUFFICES ASSUME AskingOK, IInv, PInv, WInv, BInv, [Next]_vars PROVE BInv' OBVIOUS
  <1>0. nconn \in Nat BY DEF IInv
  <1>a. ASSUME ServedStay, UNCHANGED <<nconn, phase>> PROVE BInv'
    <2>1. PastStay BY <1>a DEF PastStay, Past
    <2> QED BY <1>0, <1>a, <2>1, BoundStep
  <1>b. ASSUME NEW i \in Instance,
               \/ Initialize(i) \/ Destroy(i) \/ GotConnection(i) \/ GotNothing(i) \/ GotGarbage(i)
               \/ CreateReturns(i) \/ DestroyReturns(i) \/ CallTimesOut(i)
        PROVE  BInv'
    <2>1. PastStay /\ ServedStay /\ (GotGarbage(i) => i \notin Past /\ i \in Past')
      BY <1>b, InstancesServed
    <2>2. UNCHANGED nconn \/ (GotGarbage(i) /\ nconn' = nconn + 1)
      BY <1>b DEF Initialize, Destroy, GotConnection, GotNothing, GotGarbage, CreateReturns,
                  DestroyReturns, CallTimesOut, lineVars
    <2> QED BY <1>0, <2>1, <2>2, BoundStep
  <1>1. CASE Environment
    <2>1. ASSUME NEW p \in Path, PluginProcessDies(p) \/ TerminationTimerFires(p) PROVE BInv'
      BY <1>0, <2>1, BoundStill DEF PluginProcessDies, TerminationTimerFires, uiVars, webVars, SameReplies
    <2>2. ASSUME NEW p \in Path, NEW i \in Instance, EnterPlugin(p, i) PROVE BInv'
      BY <1>0, <2>2, BoundStill DEF EnterPlugin, uiVars, lineVars, webVars, SameReplies
    <2>3. ASSUME NEW s \in SiteCallback, GetSiteData(s) PROVE BInv'
      <3>1. SameReplies BY <2>3, SitesKeepReplies
      <3> QED BY <1>0, <2>3, <3>1, BoundStill DEF GetSiteData, lineVars, webVars
    <2>4. ASSUME NEW w \in Web, WebProcessDies(w) PROVE BInv'
      <3>1. PastStay /\ ServedStay BY <2>4, DiesServed
      <3> QED BY <1>0, <2>4, <3>1, BoundStep DEF WebProcessDies
    <2> QED BY <1>1, <1>b, <2>1, <2>2, <2>3, <2>4 DEF Environment
  <1>2. CASE UIProcess
    <2>1. ASSUME NEW p \in Path, LaunchProcess(p) PROVE BInv'
      BY <1>0, <2>1, BoundStill DEF LaunchProcess, uiVars, lineVars, webVars, SameReplies
    <2>2. ASSUME NEW p \in Path, DidFinishLaunching(p) PROVE BInv'
      <3>1. SameReplies BY <2>2, SitesKeepReplies
      <3> QED BY <1>0, <2>2, <3>1, BoundStill DEF DidFinishLaunching, lineVars, webVars
    <2>3. ASSUME NEW p \in Path, DidGetSiteData(p) PROVE BInv'
      BY <1>a, <2>3, SiteDataServed DEF DidGetSiteData, lineVars, webVars
    <2>4. ASSUME NEW p \in Path, DidCreateWebProcessConnection(p) PROVE BInv'
      BY <1>a, <2>4, ConnectedServed DEF DidCreateWebProcessConnection, webVars
    <2>5. ASSUME NEW p \in Path, DidClose(p) PROVE BInv'
      BY <1>a, <2>5, ClosedServed DEF DidClose, lineVars, webVars
    <2>6. ASSUME NEW w \in Web, ReceiveGetConnection(w) PROVE BInv'
      BY <1>a, <2>6, GetConnectionServed DEF ReceiveGetConnection, lineVars, webVars
    <2>7. ASSUME NEW w \in Web, ReceiveTimedOut(w) PROVE BInv'
      BY <1>a, <2>7, TimedOutServed DEF ReceiveTimedOut, webVars
    <2> QED BY <1>2, <2>1, <2>2, <2>3, <2>4, <2>5, <2>6, <2>7 DEF UIProcess
  <1>3. ASSUME NEW p \in Path, PluginProcessStep(p) PROVE BInv'
    <2>1. CASE ReceiveInitialize(p) \/ LeavePlugin(p)
      BY <1>0, <2>1, BoundStill DEF ReceiveInitialize, LeavePlugin, uiVars, lineVars, webVars, SameReplies
    <2>2. CASE EndCreatePlugin(p)
      BY <1>0, <2>2, BoundStill DEF EndCreatePlugin, uiVars, SameReplies
    <2>3. ASSUME NEW c \in Conn, BeginCreatePlugin(p, c) \/ WebProcessConnectionDidClose(p, c)
                                   \/ DestroyPlugin(p, c)
          PROVE  BInv'
      BY <1>0, <2>3, BoundStill DEF BeginCreatePlugin, WebProcessConnectionDidClose, DestroyPlugin,
                                    uiVars, webVars, SameReplies
    <2>4. ASSUME NEW c \in Conn, NEW i \in Instance, DestroyTimerFires(p, c, i) PROVE BInv'
      BY <1>0, <2>4, BoundStill DEF DestroyTimerFires, uiVars, webVars, SameReplies
    <2>5. CASE HandleSiteData(p)
      BY <1>a, <2>5, SiteDataServed DEF HandleSiteData, lineVars, webVars
    <2>6. CASE CreateConnection(p)
      <3>1. UNCHANGED phase /\ nconn' = nconn + 1 BY <2>6 DEF CreateConnection, webVars
      <3>2. PastStay BY <3>1 DEF PastStay, Past
      <3>3. ServedStay /\ \E i \in Instance : Unserved(i) /\ ~Unserved(i)' BY <2>6, MadeServed
      <3> QED BY <1>0, <3>1, <3>2, <3>3, BoundStep
    <2> QED BY <1>3, <2>1, <2>2, <2>3, <2>4, <2>5, <2>6 DEF PluginProcessStep
  <1>4. ASSUME NEW w \in Web, WebProcess(w) PROVE BInv'
    <2>1. CASE ReceiveFromUI(w)
      BY <1>0, <2>1, BoundStill DEF ReceiveFromUI, plugVars, SameReplies
    <2> QED BY <1>4, <1>b, <2>1 DEF WebProcess
  <1>5. ASSUME NEW c \in Conn, HangUp(c) PROVE BInv'
    BY <1>0, <1>5, BoundStill DEF HangUp, uiVars, plugVars, webVars, SameReplies
  <1>6. CASE UNCHANGED vars BY <1>0, <1>6, BoundStill DEF vars, SameReplies
  <1> QED BY <1>1, <1>2, <1>3, <1>4, <1>5, <1>6 DEF Next

(* Two connections for each instance at most, the one it is served and one  *)
(* that is made up for it.                                                  *)
LEMMA ConnBound ==
    ASSUME BInv, nconn \in Nat
    PROVE  nconn \in 0..(2 * Cardinality(Instance)) /\ 1..nconn \subseteq Conn
  <1>1. Served \subseteq Instance /\ Past \subseteq Instance BY DEF Served, Past
  <1>2. PICK s, r, n : s = Cardinality(Served) /\ r = Cardinality(Past) /\ n = Cardinality(Instance)
    OBVIOUS
  <1>3. s \in Nat /\ r \in Nat /\ n \in Nat /\ s <= n /\ r <= n BY <1>1, <1>2, InstancesFinite
  <1>4. nconn <= s + r BY <1>2 DEF BInv
  <1>5. nconn <= 2 * n BY <1>3, <1>4
  <1> QED BY <1>2, <1>3, <1>5 DEF Conn

-----------------------------------------------------------------------------
(* What the web processes know of connections.                              *)

EndState == {"none", "open", "bogus", "down", "closed"}

(* A web process had connection c, or it was closed on its way to one.      *)
Used(c) == c \in Conn => webEnd[c] # "none"
UsedEntry == {e \in TableEntry(nconn) : Used(e.conn)}

EndsOK == webEnd \in [Conn -> EndState] /\ \A c \in Conn : webEnd[c] # "none" => c <= nconn

GivenOK ==
    \A i \in Instance :
        /\ answer[i] \in {NoAnswer, Failed, Done} \cup (1..nconn)
        /\ alive[OwnerOf[i]] /\ answer[i] > 0 => phase[i] = "asking"

UsedOK ==
    /\ \A i \in Instance : Used(connOf[i])
    /\ table \in [Web -> Seq(UsedEntry)]
    /\ \A w \in Web, p \in Path : Used(pathsAndConns[w][p])

UInv == EndsOK /\ GivenOK /\ UsedOK

(* An end that was used is never one again that was not.                    *)
EndsOnly ==
    /\ webEnd' \in [Conn -> EndState]
    /\ \A c \in Conn : webEnd'[c] = webEnd[c] \/ (c <= nconn' /\ webEnd'[c] # "none")

LEMMA EndsSame ==
    ASSUME UInv, UNCHANGED webEnd
    PROVE  EndsOnly
  BY DEF UInv, EndsOK, EndsOnly

LEMMA EndSet ==
    ASSUME UInv, NEW c, c \in Conn => c <= nconn', NEW e \in EndState \ {"none"},
           webEnd' = [webEnd EXCEPT ![c] = e]
    PROVE  EndsOnly
  BY DEF UInv, EndsOK, EndsOnly

LEMMA EndsStep ==
    ASSUME UInv, nconn \in Nat, nconn' \in Nat, nconn <= nconn', EndsOnly
    PROVE  /\ EndsOK'
           /\ \A c : Used(c) => Used(c)'
           /\ UsedEntry \subseteq UsedEntry'
  <1>1. EndsOK'
    <2>1. \A c \in Conn : webEnd'[c] # "none" => c <= nconn'
      <3> SUFFICES ASSUME NEW c \in Conn, webEnd'[c] # "none", ~(c <= nconn') PROVE FALSE OBVIOUS
      <3>1. webEnd[c] # "none" BY DEF EndsOnly
      <3>2. c <= nconn BY <3>1 DEF UInv, EndsOK
      <3>3. c \in Int BY DEF Conn
      <3> QED BY <3>2, <3>3
    <2> QED BY <2>1 DEF EndsOK, EndsOnly
  <1>2. \A c : Used(c) => Used(c)' BY DEF Used, EndsOnly
  <1>3. 1..nconn \subseteq 1..nconn' OBVIOUS
  <1>4. PICK n : n = nconn' OBVIOUS
  <1>5. TableEntry(nconn) \subseteq TableEntry(n) BY <1>3, <1>4 DEF TableEntry
  <1>6. UsedEntry \subseteq UsedEntry'
    <2> SUFFICES ASSUME NEW e \in UsedEntry PROVE e \in UsedEntry' OBVIOUS
    <2>1. e \in TableEntry(n) BY <1>5 DEF UsedEntry
    <2>2. Used(e.conn)' BY <1>2 DEF UsedEntry, Used
    <2> QED BY <1>4, <2>1, <2>2 DEF UsedEntry, TableEntry
  <1> QED BY <1>1, <1>2, <1>6

LEMMA RemovedEnds ==
    ASSUME UInv, DInv, IInv, UNCHANGED nconn, NEW i \in Instance, RemovePluginProxy(i)
    PROVE  EndsOnly
  <1>1. PICK c : c = connOf[i] OBVIOUS
  <1>2. c \in 0..nconn /\ nconn \in Nat BY <1>1 DEF DInv, ConnsKnown, IInv
  <1>3. c <= nconn' BY <1>2
  <1>4. PICK e \in EndState \ {"none"} : e = "closed" BY DEF EndState
  <1>5. UNCHANGED webEnd \/ webEnd' = [webEnd EXCEPT ![c] = e] BY <1>1, <1>4 DEF RemovePluginProxy
  <1> QED BY <1>3, <1>5, EndsSame, EndSet

LEMMA WebEnds ==
    ASSUME IInv, WInv, NInv, DInv, UInv, NEW i \in Instance,
           \/ Initialize(i) \/ Destroy(i) \/ GotConnection(i) \/ GotNothing(i) \/ GotGarbage(i)
           \/ CreateReturns(i) \/ DestroyReturns(i) \/ CallTimesOut(i)
    PROVE  EndsOnly
  <1>0. nconn \in Nat BY DEF IInv
  <1>1. CASE Initialize(i) \/ Destroy(i) \/ GotNothing(i)
    BY <1>1, EndsSame DEF Initialize, Destroy, GotNothing, lineVars
  <1>2. CASE CreateReturns(i) \/ DestroyReturns(i) \/ CallTimesOut(i)
    <2>1. UNCHANGED nconn BY <1>2 DEF CreateReturns, DestroyReturns, CallTimesOut
    <2>2. UNCHANGED webEnd \/ RemovePluginProxy(i)
      BY <1>2 DEF CreateReturns, DestroyReturns, CallTimesOut
    <2> QED BY <2>1, <2>2, EndsSame, RemovedEnds
  <1>3. CASE GotConnection(i)
    <2>1. PICK c : c = answer[i] OBVIOUS
    <2>2. phase[i] = "asking" /\ c > 0 BY <1>3, <2>1 DEF GotConnection, Waits
    <2>3. MadeBy(PathOf[i], c) BY <2>1, <2>2 DEF NInv, AnswersOK, Got
    <2>4. c \in 1..nconn /\ UNCHANGED nconn BY <1>3, <2>3 DEF MadeBy, GotConnection
    <2>5. PICK e \in EndState \ {"none"} : e = "open" BY DEF EndState
    <2>6. webEnd' = [webEnd EXCEPT ![c] = e] BY <1>3, <2>1, <2>5 DEF GotConnection, Enter
    <2>7. c <= nconn' BY <1>0, <2>4
    <2> QED BY <2>6, <2>7, EndSet
  <1>4. CASE GotGarbage(i)
    <2>1. PICK c : c = nconn + 1 OBVIOUS
    <2>2. PICK e \in EndState \ {"none"} : e = "bogus" BY DEF EndState
    <2>3. webEnd' = [webEnd EXCEPT ![c] = e] /\ nconn' = c BY <1>4, <2>1, <2>2 DEF GotGarbage, Enter
    <2>4. c <= nconn' BY <1>0, <2>1, <2>3
    <2> QED BY <2>3, <2>4, EndSet
  <1> QED BY <1>1, <1>2, <1>3, <1>4

-----------------------------------------------------------------------------

LEMMA ReceivedEnds ==
    ASSUME IInv, WInv, NInv, UInv, NEW w \in Web, ReceiveFromUI(w)
    PROVE  EndsOnly
  <1> DEFINE m == Head(toWeb[w])
             c == pathsAndConns[w][m.path]
  <1>0. toWeb[w] \in Seq(WebMessage) /\ nconn \in Nat BY DEF WInv, QueuesOK, IInv
  <1>1. /\ toWeb[w] # << >> /\ UNCHANGED nconn
        /\ \/ UNCHANGED webEnd
           \/ m.op = "crashed" /\ c # NoConn /\ webEnd' = [webEnd EXCEPT ![c] = "down"]
    BY DEF ReceiveFromUI
  <1>2. CASE UNCHANGED webEnd BY <1>2, EndsSame
  <1>3. CASE m.op = "crashed" /\ c # NoConn /\ webEnd' = [webEnd EXCEPT ![c] = "down"]
    <2>1. m \in WebMessage BY <1>0, <1>1
    <2>2. m.path \in Path BY <1>3, <2>1 DEF WebMessage
    <2>3. MadeBy(m.path, c) BY <1>3, <2>2 DEF NInv, KnownOK
    <2>4. c \in 1..nconn BY <2>3 DEF MadeBy
    <2> HIDE DEF c, m
    <2>5. c <= nconn' BY <1>0, <1>1, <2>4
    <2>6. PICK e \in EndState \ {"none"} : e = "down" BY DEF EndState
    <2>7. webEnd' = [webEnd EXCEPT ![c] = e] BY <1>3, <2>6
    <2> QED BY <2>5, <2>7, EndSet
  <1> QED BY <1>1, <1>2, <1>3

LEMMA ConnectedEnds ==
    ASSUME IInv, PInv, NInv, UInv, NEW p \in Path, DidCreateWebProcessConnection(p)
    PROVE  EndsOnly
  <1> DEFINE c == Head(fromPlugin[p]).conn
  <1>0. fromPlugin[p] \in Seq(ChildMessage) /\ nconn \in Nat BY DEF PInv, IInv
  <1>1. /\ fromPlugin[p] # << >> /\ Head(fromPlugin[p]).op = "connection" /\ UNCHANGED nconn
        /\ UNCHANGED webEnd \/ webEnd' = [webEnd EXCEPT ![c] = "closed"]
    BY DEF DidCreateWebProcessConnection
  <1>2. 1 \in DOMAIN fromPlugin[p] /\ Head(fromPlugin[p]) = fromPlugin[p][1] BY <1>0, <1>1
  <1>3. MadeBy(p, c) BY <1>1, <1>2 DEF NInv, ArrivesOK
  <1>4. c \in 1..nconn BY <1>3 DEF MadeBy
  <1> HIDE DEF c
  <1>5. c <= nconn' BY <1>0, <1>1, <1>4
  <1>6. PICK e \in EndState \ {"none"} : e = "closed" BY DEF EndState
  <1> QED BY <1>1, <1>5, <1>6, EndsSame, EndSet

(* The connections that go with web process w.                              *)
Mine(w) ==
    {table[w][k].conn : k \in DOMAIN table[w]}
    \cup {answer[i] : i \in {j \in Instance : OwnerOf[j] = w}}
    \cup {m.conn : m \in {x \in Range(toWeb[w]) : x.op = "reply"}}

LEMMA DiesEnds ==
    ASSUME IInv, WInv, NInv, UInv, NEW w \in Web, WebProcessDies(w)
    PROVE  /\ EndsOnly
           /\ webEnd' = [c \in Conn |-> IF c \in Mine(w) THEN "closed" ELSE webEnd[c]]
  <1>0. nconn \in Nat BY DEF IInv
  <1>1. /\ UNCHANGED nconn
        /\ webEnd' = [c \in Conn |-> IF c \in Mine(w) THEN "closed" ELSE webEnd[c]]
    BY DEF WebProcessDies, Mine
  <1>2. ASSUME NEW c \in Conn, c \in Mine(w) PROVE c <= nconn
    <2>1. ASSUME NEW k \in DOMAIN table[w], c = table[w][k].conn PROVE c <= nconn
      <3>1. table[w] \in Seq(UsedEntry) BY DEF UInv, UsedOK
      <3>2. table[w][k] \in UsedEntry BY <3>1
      <3>3. table[w][k] \in TableEntry(nconn) BY <3>2 DEF UsedEntry
      <3>4. c \in 1..nconn BY <2>1, <3>3 DEF TableEntry
      <3> QED BY <1>0, <3>4
    <2>2. ASSUME NEW i \in Instance, c = answer[i] PROVE c <= nconn
      <3>1. c > 0 BY DEF Conn
      <3>2. c \in 1..nconn BY <2>2, <3>1 DEF UInv, GivenOK, NoAnswer, Failed, Done
      <3> QED BY <1>0, <3>2
    <2>3. ASSUME NEW m \in Range(toWeb[w]), m.op = "reply", c = m.conn PROVE c <= nconn
      <3>1. PICK k \in DOMAIN toWeb[w] : m = toWeb[w][k] BY <2>3 DEF Range
      <3>2. c > 0 BY DEF Conn
      <3>3. MadeBy(PathOf[m.instance], c) BY <2>3, <3>1, <3>2 DEF NInv, RepliesOK, Brings
      <3>4. c \in 1..nconn BY <3>3 DEF MadeBy
      <3> QED BY <1>0, <3>4
    <2> QED BY <1>2, <2>1, <2>2, <2>3 DEF Mine
  <1>3. EndsOnly BY <1>1, <1>2 DEF EndsOnly, UInv, EndsOK, EndState
  <1> QED BY <1>1, <1>3

LEMMA NextEnds ==
    ASSUME AskingOK, IInv, PInv, WInv, NInv, DInv, UInv, [Next]_vars
    PROVE  EndsOnly
  <1>1. CASE Environment
    <2>1. ASSUME NEW p \in Path, PluginProcessDies(p) \/ TerminationTimerFires(p) PROVE EndsOnly
      BY <2>1, EndsSame DEF PluginProcessDies, TerminationTimerFires
    <2>2. ASSUME NEW p \in Path, NEW i \in Instance, EnterPlugin(p, i) PROVE EndsOnly
      BY <2>2, EndsSame DEF EnterPlugin, lineVars
    <2>3. ASSUME NEW s \in SiteCallback, GetSiteData(s) PROVE EndsOnly
      BY <2>3, EndsSame DEF GetSiteData, lineVars
    <2> QED BY <1>1, <2>1, <2>2, <2>3, WebEnds, DiesEnds DEF Environment
  <1>2. CASE UIProcess
    <2>1. ASSUME NEW p \in Path,
                 LaunchProcess(p) \/ DidFinishLaunching(p) \/ DidGetSiteData(p) \/ DidClose(p)
          PROVE  EndsOnly
      BY <2>1, EndsSame DEF LaunchProcess, DidFinishLaunching, DidGetSiteData, DidClose, lineVars
    <2>2. ASSUME NEW w \in Web, ReceiveGetConnection(w) \/ ReceiveTimedOut(w) PROVE EndsOnly
      BY <2>2, EndsSame DEF ReceiveGetConnection, ReceiveTimedOut, lineVars
    <2> QED BY <1>2, <2>1, <2>2, ConnectedEnds DEF UIProcess
  <1>3. ASSUME NEW p \in Path, PluginProcessStep(p) PROVE EndsOnly
    <2>1. UNCHANGED webEnd
      BY <1>3 DEF PluginProcessStep, ReceiveInitialize, CreateConnection, HandleSiteData,
                  EndCreatePlugin, LeavePlugin, BeginCreatePlugin, DestroyPlugin,
                  WebProcessConnectionDidClose, DestroyTimerFires, lineVars
    <2> QED BY <2>1, EndsSame
  <1>4. ASSUME NEW w \in Web, WebProcess(w) PROVE EndsOnly
    BY <1>4, ReceivedEnds, WebEnds DEF WebProcess
  <1>5. ASSUME NEW c \in Conn, HangUp(c) PROVE EndsOnly
    <2>1. webEnd[c] = "open" /\ webEnd' = [webEnd EXCEPT ![c] = "down"] /\ UNCHANGED nconn
      BY <1>5 DEF HangUp
    <2>2. c <= nconn BY <2>1 DEF UInv, EndsOK
    <2>3. PICK e \in EndState \ {"none"} : e = "down" BY DEF EndState
    <2>4. webEnd' = [webEnd EXCEPT ![c] = e] /\ c <= nconn' BY <2>1, <2>2, <2>3
    <2> QED BY <2>4, EndSet
  <1>6. CASE UNCHANGED vars BY <1>6, EndsSame DEF vars
  <1> QED BY <1>1, <1>2, <1>3, <1>4, <1>5, <1>6 DEF Next

-----------------------------------------------------------------------------

(* A reply reaches an instance that waits for it, and has no answer yet.    *)
LEMMA ReplyAwaited ==
    ASSUME WInv, NEW w \in Web, alive[w], toWeb[w] # << >>, NEW m, m = Head(toWeb[w]), m.op = "reply"
    PROVE  /\ m \in WebMessage /\ m.instance \in Instance /\ OwnerOf[m.instance] = w
           /\ phase[m.instance] = "asking" /\ answer[m.instance] = NoAnswer
  <1>1. PICK i : i = m.instance OBVIOUS
  <1>2. QueuesOK /\ toWeb[w] \in Seq(WebMessageTo(w)) BY DEF WInv, QueuesOK
  <1>3. m \in WebMessageTo(w) /\ 1 \in DOMAIN toWeb[w] /\ toWeb[w][1] = m BY <1>2
  <1>4. m \in WebMessage /\ OwnerOf[i] = w BY <1>1, <1>3 DEF WebMessageTo
  <1>5. i \in Instance BY <1>1, <1>4 DEF WebMessage
  <1>6. m \in RepliesTo(i) BY <1>1, <1>4 DEF RepliesTo
  <1>7. Told(toWeb, i) # 0 BY <1>2, <1>3, <1>4, <1>6, CountType DEF Told
  <1>8. PlaceOf(i) /\ Asks(toUI, i) \in Nat /\ Kept(proxy, i) \in Nat /\ Told(toWeb, i) \in Nat
    BY <1>2, <1>5, PlaceNumbers DEF WInv
  <1>9. phase[i] = "asking" BY <1>4, <1>7, <1>8 DEF PlaceOf, InOnePlace
  <1>10. answer[i] = NoAnswer BY <1>7, <1>8, <1>9 DEF PlaceOf, InOnePlace
  <1> QED BY <1>1, <1>4, <1>5, <1>9, <1>10

(* What a step does to the answer of instance i.                            *)
NewlyGiven(i) ==
    \/ answer'[i] \in {NoAnswer, Failed, Done}
    \/ /\ answer'[i] = answer[i]
       /\ alive'[OwnerOf[i]] => alive[OwnerOf[i]] /\ (phase[i] = "asking" => phase'[i] = "asking")
    \/ answer'[i] \in 1..nconn /\ phase'[i] = "asking"

LEMMA GivenStep ==
    ASSUME UInv, nconn \in Nat, nconn' \in Nat, nconn <= nconn',
           \A i \in Instance : NewlyGiven(i)
    PROVE  GivenOK'
  <1>1. 1..nconn \subseteq 1..nconn' OBVIOUS
  <1> SUFFICES ASSUME NEW i \in Instance
               PROVE  /\ answer'[i] \in {NoAnswer, Failed, Done} \cup (1..nconn')
                      /\ alive'[OwnerOf[i]] /\ answer'[i] > 0 => phase'[i] = "asking"
    BY DEF GivenOK
  <1>2. CASE answer'[i] \in {NoAnswer, Failed, Done} BY <1>2 DEF NoAnswer, Failed, Done
  <1>3. CASE answer'[i] = answer[i] /\ (alive'[OwnerOf[i]] =>
                  alive[OwnerOf[i]] /\ (phase[i] = "asking" => phase'[i] = "asking"))
    BY <1>1, <1>3 DEF UInv, GivenOK
  <1>4. CASE answer'[i] \in 1..nconn /\ phase'[i] = "asking" BY <1>1, <1>4
  <1> QED BY <1>2, <1>3, <1>4 DEF NewlyGiven

LEMMA GivenSame ==
    ASSUME UNCHANGED <<answer, phase, alive>>, NEW i \in Instance
    PROVE  NewlyGiven(i)
  BY DEF NewlyGiven

LEMMA RepliedGiven ==
    ASSUME WInv, UNCHANGED <<phase, alive>>, NEW j, NEW c, NEW what, NEW v \in {Done, Failed},
           Reply(j, c, what, v), NEW i \in Instance
    PROVE  NewlyGiven(i)
  <1>1. answer \in [Instance -> Int] BY DEF WInv, QueuesOK
  <1>2. answer'[i] = answer[i] \/ answer'[i] = v BY <1>1 DEF Reply
  <1> QED BY <1>2 DEF NewlyGiven

LEMMA InstancesGiven ==
    ASSUME IInv, WInv, UInv, NEW i \in Instance,
           \/ Initialize(i) \/ Destroy(i) \/ GotConnection(i) \/ GotNothing(i) \/ GotGarbage(i)
           \/ CreateReturns(i) \/ DestroyReturns(i) \/ CallTimesOut(i),
           NEW j \in Instance
    PROVE  NewlyGiven(j)
  <1>0. phase \in [Instance -> Phase] /\ answer \in [Instance -> Int]
    BY DEF IInv, LineOK, WInv, QueuesOK
  <1>1. UNCHANGED alive
    BY DEF Initialize, Destroy, GotConnection, GotNothing, GotGarbage, CreateReturns,
           DestroyReturns, CallTimesOut, Enter
  <1>2. PICK f : phase' = [phase EXCEPT ![i] = f]
    BY DEF Initialize, Destroy, GotConnection, GotNothing, GotGarbage, CreateReturns,
           DestroyReturns, CallTimesOut, Enter, CreateOn
  <1>3. UNCHANGED answer \/ answer' = [answer EXCEPT ![i] = NoAnswer]
    BY DEF Initialize, Destroy, GotConnection, GotNothing, GotGarbage, CreateReturns,
           DestroyReturns, CallTimesOut, Enter, CreateOn
  <1>4. CASE j # i BY <1>0, <1>1, <1>2, <1>3, <1>4 DEF NewlyGiven
  <1>5. CASE answer' = [answer EXCEPT ![i] = NoAnswer] /\ j = i BY <1>0, <1>5 DEF NewlyGiven
  <1>6. CASE UNCHANGED answer /\ j = i
    <2>1. CASE GotNothing(i) BY <1>6, <2>1 DEF GotNothing, NewlyGiven
    <2>2. CASE GotConnection(i) \/ GotGarbage(i) \/ Destroy(i)
      <3>1. answer' = [answer EXCEPT ![i] = NoAnswer]
        BY <2>2 DEF GotConnection, GotGarbage, Destroy, Enter, CreateOn
      <3> QED BY <1>5, <1>6, <3>1
    <2>3. CASE Initialize(i) \/ CreateReturns(i) \/ DestroyReturns(i) \/ CallTimesOut(i)
      <3>1. phase[i] # "asking"
        BY <2>3 DEF Initialize, CreateReturns, DestroyReturns, CallTimesOut, Waits
      <3> QED BY <1>1, <1>6, <3>1 DEF NewlyGiven
    <2> QED BY <2>1, <2>2, <2>3
  <1> QED BY <1>3, <1>4, <1>5, <1>6

LEMMA ReceivedGiven ==
    ASSUME IInv, WInv, NInv, UInv, NEW w \in Web, ReceiveFromUI(w), NEW i \in Instance
    PROVE  NewlyGiven(i)
  <1>0. answer \in [Instance -> Int] BY DEF WInv, QueuesOK
  <1>1. PICK m : m = Head(toWeb[w]) OBVIOUS
  <1>2. /\ toWeb[w] # << >> /\ alive[w] /\ UNCHANGED <<phase, alive>>
        /\ \/ m.op = "reply" /\ answer' = [answer EXCEPT ![m.instance] = m.conn]
           \/ UNCHANGED answer
    BY <1>1 DEF ReceiveFromUI
  <1>3. CASE UNCHANGED answer BY <1>2, <1>3 DEF NewlyGiven
  <1>4. CASE m.op = "reply" /\ answer' = [answer EXCEPT ![m.instance] = m.conn] /\ i # m.instance
    BY <1>0, <1>2, <1>4 DEF NewlyGiven
  <1>5. CASE m.op = "reply" /\ answer' = [answer EXCEPT ![m.instance] = m.conn] /\ i = m.instance
    <2>1. m \in WebMessage /\ phase[i] = "asking" BY <1>1, <1>2, <1>5, ReplyAwaited
    <2>2. answer'[i] = m.conn BY <1>0, <1>5
    <2>3. CASE m.conn = Failed BY <2>2, <2>3 DEF NewlyGiven
    <2>4. CASE m.conn # Failed
      <3>1. m.conn > 0 BY <1>5, <2>1, <2>4 DEF WebMessage
      <3>2. toWeb[w] \in Seq(WebMessage) BY DEF WInv, QueuesOK
      <3>3. 1 \in DOMAIN toWeb[w] /\ m = toWeb[w][1] BY <1>1, <1>2, <3>2
      <3>4. MadeBy(PathOf[m.instance], m.conn) BY <1>5, <3>1, <3>3 DEF NInv, RepliesOK, Brings
      <3> QED BY <1>2, <2>1, <2>2, <3>4 DEF MadeBy, NewlyGiven
    <2> QED BY <2>3, <2>4
  <1> QED BY <1>2, <1>3, <1>4, <1>5

LEMMA DiesGiven ==
    ASSUME WInv, NEW w \in Web, WebProcessDies(w), NEW i \in Instance
    PROVE  NewlyGiven(i)
  <1>1. /\ alive' = [alive EXCEPT ![w] = FALSE] /\ UNCHANGED answer
        /\ phase' = [j \in Instance |-> IF OwnerOf[j] = w THEN "gone" ELSE phase[j]]
    BY DEF WebProcessDies
  <1>2. alive \in [Web -> BOOLEAN] BY DEF WInv, QueuesOK, AliveOK
  <1>3. alive'[OwnerOf[i]] => OwnerOf[i] # w /\ alive[OwnerOf[i]] BY <1>1, <1>2, PathsAndWebs
  <1>4. alive'[OwnerOf[i]] => phase'[i] = phase[i] BY <1>1, <1>3
  <1> QED BY <1>1, <1>3, <1>4 DEF NewlyGiven

-----------------------------------------------------------------------------

(* What was used stays so.                                                  *)
StaysUsed == (\A c : Used(c) => Used(c)') /\ UsedEntry \subseteq UsedEntry'

LEMMA NoConnUsed == Used(NoConn) /\ Used(NoConn)'
  BY DEF Used, NoConn, Conn

LEMMA UsedSame ==
    ASSUME UInv, StaysUsed, UNCHANGED <<connOf, table, pathsAndConns>>
    PROVE  UsedOK'
  <1>1. ASSUME NEW i \in Instance PROVE Used(connOf[i])'
    <2>1. PICK c : c = connOf[i] OBVIOUS
    <2>2. Used(c)' BY <2>1 DEF StaysUsed, UInv, UsedOK
    <2> QED BY <2>1, <2>2 DEF Used
  <1>2. ASSUME NEW w \in Web, NEW p \in Path PROVE Used(pathsAndConns[w][p])'
    <2>1. PICK c : c = pathsAndConns[w][p] OBVIOUS
    <2>2. Used(c)' BY <2>1 DEF StaysUsed, UInv, UsedOK
    <2> QED BY <2>1, <2>2 DEF Used
  <1>3. table' \in [Web -> Seq(UsedEntry')]
    <2>1. PICK U : U = UsedEntry' OBVIOUS
    <2>2. ASSUME NEW w \in Web PROVE table[w] \in Seq(U)
      <3>1. table[w] \in Seq(UsedEntry) /\ UsedEntry \subseteq U BY <2>1 DEF UInv, UsedOK, StaysUsed
      <3> QED BY <3>1
    <2> QED BY <2>1, <2>2 DEF UInv, UsedOK
  <1> QED BY <1>1, <1>2, <1>3 DEF UsedOK

(* A step of the web process of instance i, which has connection c then.    *)
LEMMA UsedStep ==
    ASSUME NInv, UInv, StaysUsed, NEW i \in Instance, NEW c, Used(c)',
           connOf' = [connOf EXCEPT ![i] = c], NEW s, s \in Seq(UsedEntry'),
           UNCHANGED table \/ table' = [table EXCEPT ![OwnerOf[i]] = s],
           \/ UNCHANGED pathsAndConns
           \/ \E d : Used(d)' /\ pathsAndConns' = [pathsAndConns EXCEPT ![OwnerOf[i]][PathOf[i]] = d]
    PROVE  UsedOK'
  <1>1. ASSUME NEW j \in Instance PROVE Used(connOf[j])'
    <2>1. PICK d : d = connOf'[j] OBVIOUS
    <2>2. d = connOf[j] \/ d = c BY <2>1
    <2>3. Used(d)' BY <2>2 DEF StaysUsed, UInv, UsedOK
    <2> QED BY <2>1, <2>3 DEF Used
  <1>2. ASSUME NEW w \in Web, NEW p \in Path PROVE Used(pathsAndConns[w][p])'
    <2>1. PICK e : e = pathsAndConns'[w][p] OBVIOUS
    <2>2. Used(e)'
      <3>1. CASE e = pathsAndConns[w][p] BY <3>1 DEF StaysUsed, UInv, UsedOK
      <3>2. CASE e # pathsAndConns[w][p]
        <4>1. PICK d : Used(d)' /\ pathsAndConns' = [pathsAndConns EXCEPT ![OwnerOf[i]][PathOf[i]] = d]
          BY <2>1, <3>2
        <4>2. pathsAndConns \in [Web -> [Path -> Nat]] BY DEF NInv
        <4>3. e = d BY <2>1, <3>2, <4>1, <4>2
        <4> QED BY <4>1, <4>3
      <3> QED BY <3>1, <3>2
    <2> QED BY <2>1, <2>2 DEF Used
  <1>3. table' \in [Web -> Seq(UsedEntry')]
    <2>1. PICK U : U = UsedEntry' OBVIOUS
    <2>2. ASSUME NEW w \in Web PROVE table[w] \in Seq(U)
      <3>1. table[w] \in Seq(UsedEntry) /\ UsedEntry \subseteq U BY <2>1 DEF UInv, UsedOK, StaysUsed
      <3> QED BY <3>1
    <2>3. table \in [Web -> Seq(U)] BY <2>2 DEF UInv, UsedOK
    <2>4. s \in Seq(U) BY <2>1
    <2> QED BY <2>1, <2>3, <2>4
  <1> QED BY <1>1, <1>2, <1>3 DEF UsedOK

LEMMA RemovedUsed ==
    ASSUME NInv, UInv, StaysUsed, NEW i \in Instance, RemovePluginProxy(i)
    PROVE  UsedOK'
  <1>0. OwnerOf[i] \in Web /\ PathOf[i] \in Path BY PathsAndWebs
  <1>1. PICK n, c : n = NoConn /\ c = connOf[i] OBVIOUS
  <1> DEFINE t == table[OwnerOf[i]]
             r == RemoveAt(t, WhereIs(t, c))
             s == IF PluginsOf(c) = {i} THEN r ELSE << >>
  <1>2. connOf' = [connOf EXCEPT ![i] = n] /\ Used(n)'
    BY <1>1, NoConnUsed DEF RemovePluginProxy
  <1>3. t \in Seq(UsedEntry) BY <1>0 DEF UInv, UsedOK
  <1>4. r \in Seq(UsedEntry) BY <1>3, EntryRemoved
  <1>5. UNCHANGED table \/ table' = [table EXCEPT ![OwnerOf[i]] = r]
    BY <1>1, Zenon DEF RemovePluginProxy, WhereIs, SelectInSeq
  <1>6. UNCHANGED pathsAndConns \/ pathsAndConns' = [pathsAndConns EXCEPT ![OwnerOf[i]][PathOf[i]] = n]
    BY <1>1 DEF RemovePluginProxy
  <1> HIDE DEF r
  <1>7. r \in Seq(UsedEntry')
    <2>1. PICK U : U = UsedEntry' OBVIOUS
    <2>2. UsedEntry \subseteq U BY <2>1 DEF StaysUsed
    <2>3. r \in Seq(U) BY <1>4, <2>2
    <2> QED BY <2>1, <2>3
  <1> QED BY <1>2, <1>5, <1>6, <1>7, UsedStep

LEMMA EnteredUsed ==
    ASSUME IInv, NInv, UInv, StaysUsed, nconn' \in Nat, NEW i \in Instance, NEW c \in 1..nconn',
           NEW e \in EndState \ {"none"}, Enter(i, c, e), nconn <= nconn'
    PROVE  UsedOK'
  <1> DEFINE w == OwnerOf[i]
             x == [path |-> PathOf[i], conn |-> c]
             s == Append(table[w], x)
  <1>0. w \in Web /\ PathOf[i] \in Path BY PathsAndWebs
  <1>1. /\ connOf' = [connOf EXCEPT ![i] = c] /\ table' = [table EXCEPT ![w] = s]
        /\ pathsAndConns' = [pathsAndConns EXCEPT ![w][PathOf[i]] = c]
        /\ webEnd' = [webEnd EXCEPT ![c] = e]
    BY DEF Enter, CreateOn
  <1>2. Used(c)' BY <1>1 DEF UInv, EndsOK, Used
  <1>3. PICK U, n : U = UsedEntry' /\ n = nconn' OBVIOUS
  <1>4. x \in TableEntry(n) BY <1>0, <1>3 DEF TableEntry
  <1>5. x \in U
    <2>1. x.conn = c OBVIOUS
    <2> HIDE DEF x
    <2>2. Used(x.conn)' BY <1>2, <2>1 DEF Used
    <2> QED BY <1>3, <1>4, <2>2 DEF UsedEntry, TableEntry
  <1>6. table[w] \in Seq(UsedEntry) /\ UsedEntry \subseteq U BY <1>0, <1>3 DEF UInv, UsedOK, StaysUsed
  <1>7. table[w] \in Seq(U) BY <1>6
  <1> HIDE DEF x
  <1>8. s \in Seq(U) BY <1>5, <1>7
  <1> HIDE DEF s
  <1>9. s \in Seq(UsedEntry') BY <1>3, <1>8
  <1> QED BY <1>1, <1>2, <1>9, UsedStep

-----------------------------------------------------------------------------

LEMMA FoundUsed ==
    ASSUME IInv, NInv, UInv, StaysUsed, NEW i \in Instance, Initialize(i)
    PROVE  UsedOK'
  <1>0. OwnerOf[i] \in Web BY PathsAndWebs
  <1>1. UNCHANGED <<table, pathsAndConns>> BY DEF Initialize
  <1>2. CASE UNCHANGED connOf BY <1>1, <1>2, UsedSame
  <1>3. CASE Entry(OwnerOf[i], PathOf[i]) # 0
    <2>1. PICK w, k : w = OwnerOf[i] /\ k = Entry(w, PathOf[i]) OBVIOUS
    <2>2. PICK c : c = table[w][k].conn OBVIOUS
    <2>3. table[w] \in Seq(UsedEntry) BY <1>0, <2>1 DEF UInv, UsedOK
    <2>4. k \in DOMAIN table[w] BY <1>3, <2>1, <2>3, EntryFound
    <2>5. table[w][k] \in UsedEntry BY <2>3, <2>4
    <2>6. Used(c) BY <2>2, <2>5 DEF UsedEntry
    <2>7. Used(c)' BY <2>6 DEF StaysUsed
    <2>8. connOf' = [connOf EXCEPT ![i] = c] BY <1>3, <2>1, <2>2 DEF Initialize, CreateOn
    <2>9. PICK s : s = << >> OBVIOUS
    <2>10. s \in Seq(UsedEntry') BY <2>9
    <2> QED BY <1>1, <2>7, <2>8, <2>10, UsedStep
  <1> QED BY <1>2, <1>3 DEF Initialize

LEMMA InstancesUsed ==
    ASSUME IInv, NInv, UInv, StaysUsed, nconn' \in Nat, nconn <= nconn', NEW i \in Instance,
           \/ Initialize(i) \/ Destroy(i) \/ GotConnection(i) \/ GotNothing(i) \/ GotGarbage(i)
           \/ CreateReturns(i) \/ DestroyReturns(i) \/ CallTimesOut(i)
    PROVE  UsedOK'
  <1>0. nconn \in Nat BY DEF IInv
  <1>1. CASE Destroy(i) \/ GotNothing(i) BY <1>1, UsedSame DEF Destroy, GotNothing
  <1>2. CASE CreateReturns(i) \/ DestroyReturns(i) \/ CallTimesOut(i)
    <2>1. UNCHANGED <<connOf, table, pathsAndConns>> \/ RemovePluginProxy(i)
      BY <1>2 DEF CreateReturns, DestroyReturns, CallTimesOut
    <2> QED BY <2>1, UsedSame, RemovedUsed
  <1>3. CASE GotConnection(i)
    <2>1. PICK c : c = answer[i] OBVIOUS
    <2>2. phase[i] = "asking" /\ c > 0 BY <1>3, <2>1 DEF GotConnection, Waits
    <2>3. MadeBy(PathOf[i], c) BY <2>1, <2>2 DEF NInv, AnswersOK, Got
    <2>4. c \in 1..nconn' BY <1>3, <2>3 DEF MadeBy, GotConnection
    <2>5. PICK e \in EndState \ {"none"} : e = "open" BY DEF EndState
    <2>6. Enter(i, c, e) BY <1>3, <2>1, <2>5 DEF GotConnection
    <2> QED BY <2>4, <2>6, EnteredUsed
  <1>4. CASE GotGarbage(i)
    <2>1. PICK c : c = nconn + 1 OBVIOUS
    <2>2. PICK e \in EndState \ {"none"} : e = "bogus" BY DEF EndState
    <2>3. Enter(i, c, e) /\ nconn' = c BY <1>4, <2>1, <2>2 DEF GotGarbage
    <2>4. c \in 1..nconn' BY <1>0, <2>1, <2>3
    <2> QED BY <2>3, <2>4, EnteredUsed
  <1> QED BY <1>1, <1>2, <1>3, <1>4, FoundUsed

LEMMA DiesUsed ==
    ASSUME NInv, UInv, StaysUsed, NEW w \in Web, WebProcessDies(w)
    PROVE  UsedOK'
  <1>1. /\ connOf' = [i \in Instance |-> IF OwnerOf[i] = w THEN NoConn ELSE connOf[i]]
        /\ table' = [table EXCEPT ![w] = << >>]
        /\ pathsAndConns' = [pathsAndConns EXCEPT ![w] = [p \in Path |-> NoConn]]
    BY DEF WebProcessDies
  <1>2. ASSUME NEW i \in Instance PROVE Used(connOf[i])'
    <2>1. PICK d : d = connOf'[i] OBVIOUS
    <2>2. d = connOf[i] \/ d = NoConn BY <1>1, <2>1
    <2>3. Used(d)' BY <2>2, NoConnUsed DEF StaysUsed, UInv, UsedOK
    <2> QED BY <2>1, <2>3 DEF Used
  <1>3. ASSUME NEW v \in Web, NEW p \in Path PROVE Used(pathsAndConns[v][p])'
    <2>0. pathsAndConns \in [Web -> [Path -> Nat]] BY DEF NInv
    <2>1. PICK d : d = pathsAndConns'[v][p] OBVIOUS
    <2>2. d = pathsAndConns[v][p] \/ d = NoConn BY <1>1, <2>0, <2>1
    <2>3. Used(d)' BY <2>2, NoConnUsed DEF StaysUsed, UInv, UsedOK
    <2> QED BY <2>1, <2>3 DEF Used
  <1>4. table' \in [Web -> Seq(UsedEntry')]
    <2>1. PICK U : U = UsedEntry' OBVIOUS
    <2>2. ASSUME NEW v \in Web PROVE table[v] \in Seq(U)
      <3>1. table[v] \in Seq(UsedEntry) /\ UsedEntry \subseteq U BY <2>1 DEF UInv, UsedOK, StaysUsed
      <3> QED BY <3>1
    <2>3. table \in [Web -> Seq(U)] BY <2>2 DEF UInv, UsedOK
    <2>4. << >> \in Seq(U) OBVIOUS
    <2> QED BY <1>1, <2>1, <2>3, <2>4
  <1> QED BY <1>2, <1>3, <1>4 DEF UsedOK

LEMMA NextUsed ==
    ASSUME IInv, NInv, UInv, StaysUsed, nconn' \in Nat, nconn <= nconn', [Next]_vars
    PROVE  UsedOK'
  <1>1. CASE Environment
    <2>1. ASSUME NEW p \in Path, PluginProcessDies(p) \/ TerminationTimerFires(p) PROVE UsedOK'
      BY <2>1, UsedSame DEF PluginProcessDies, TerminationTimerFires, webVars
    <2>2. ASSUME NEW p \in Path, NEW i \in Instance, EnterPlugin(p, i) PROVE UsedOK'
      BY <2>2, UsedSame DEF EnterPlugin, webVars
    <2>3. ASSUME NEW s \in SiteCallback, GetSiteData(s) PROVE UsedOK'
      BY <2>3, UsedSame DEF GetSiteData, webVars
    <2> QED BY <1>1, <2>1, <2>2, <2>3, InstancesUsed, DiesUsed DEF Environment
  <1>2. CASE UIProcess
    <2>1. UNCHANGED <<connOf, table, pathsAndConns>>
      BY <1>2 DEF UIProcess, LaunchProcess, DidFinishLaunching, DidGetSiteData, DidClose, ReceiveGetConnection,
         ReceiveTimedOut, DidCreateWebProcessConnection, webVars
    <2> QED BY <2>1, UsedSame
  <1>3. ASSUME NEW p \in Path, PluginProcessStep(p) PROVE UsedOK'
    <2>1. UNCHANGED <<connOf, table, pathsAndConns>>
      BY <1>3 DEF PluginProcessStep, ReceiveInitialize, CreateConnection, HandleSiteData,
                  EndCreatePlugin, LeavePlugin, BeginCreatePlugin, DestroyPlugin,
                  WebProcessConnectionDidClose, DestroyTimerFires, webVars
    <2> QED BY <2>1, UsedSame
  <1>4. ASSUME NEW w \in Web, WebProcess(w) PROVE UsedOK'
    <2>1. CASE ReceiveFromUI(w) BY <2>1, UsedSame DEF ReceiveFromUI
    <2> QED BY <1>4, <2>1, InstancesUsed DEF WebProcess
  <1>5. ASSUME NEW c \in Conn, HangUp(c) PROVE UsedOK'
    BY <1>5, UsedSame DEF HangUp, webVars
  <1>6. CASE UNCHANGED vars BY <1>6, UsedSame DEF vars
  <1> QED BY <1>1, <1>2, <1>3, <1>4, <1>5, <1>6 DEF Next

LEMMA NextGiven ==
    ASSUME IInv, WInv, NInv, UInv, [Next]_vars, NEW j \in Instance
    PROVE  NewlyGiven(j)
  <1>1. CASE Environment
    <2>1. ASSUME NEW p \in Path, PluginProcessDies(p) \/ TerminationTimerFires(p) PROVE NewlyGiven(j)
      BY <2>1, GivenSame DEF PluginProcessDies, TerminationTimerFires, webVars
    <2>2. ASSUME NEW p \in Path, NEW i \in Instance, EnterPlugin(p, i) PROVE NewlyGiven(j)
      BY <2>2, GivenSame DEF EnterPlugin, webVars
    <2>3. ASSUME NEW s \in SiteCallback, GetSiteData(s) PROVE NewlyGiven(j)
      BY <2>3, GivenSame DEF GetSiteData, webVars
    <2> QED BY <1>1, <2>1, <2>2, <2>3, InstancesGiven, DiesGiven DEF Environment
  <1>2. CASE UIProcess
    <2>1. UNCHANGED <<answer, phase, alive>>
      BY <1>2 DEF UIProcess, LaunchProcess, DidFinishLaunching, DidGetSiteData, DidClose, ReceiveGetConnection,
         ReceiveTimedOut, DidCreateWebProcessConnection, webVars
    <2> QED BY <2>1, GivenSame
  <1>3. ASSUME NEW p \in Path, PluginProcessStep(p) PROVE NewlyGiven(j)
    <2>1. UNCHANGED <<phase, alive>>
      BY <1>3 DEF PluginProcessStep, ReceiveInitialize, CreateConnection, HandleSiteData,
                  EndCreatePlugin, LeavePlugin, BeginCreatePlugin, DestroyPlugin,
                  WebProcessConnectionDidClose, DestroyTimerFires, webVars
    <2>2. UNCHANGED answer \/ \E i, c, what : \E v \in {Done, Failed} : Reply(i, c, what, v)
      <3>1. CASE EndCreatePlugin(p) BY <3>1 DEF EndCreatePlugin
      <3>2. ASSUME NEW c \in Conn, DestroyPlugin(p, c)
            PROVE  UNCHANGED answer \/ \E i, d, what : \E v \in {Done, Failed} : Reply(i, d, what, v)
        BY <3>2 DEF DestroyPlugin
      <3>3. CASE ~EndCreatePlugin(p) /\ ~\E c \in Conn : DestroyPlugin(p, c)
        BY <1>3, <3>3 DEF PluginProcessStep, ReceiveInitialize, CreateConnection, HandleSiteData,
                  LeavePlugin, BeginCreatePlugin,
                  WebProcessConnectionDidClose, DestroyTimerFires, webVars
      <3> QED BY <3>1, <3>2, <3>3
    <2> QED BY <2>1, <2>2, GivenSame, RepliedGiven
  <1>4. ASSUME NEW w \in Web, WebProcess(w) PROVE NewlyGiven(j)
    BY <1>4, ReceivedGiven, InstancesGiven DEF WebProcess
  <1>5. ASSUME NEW c \in Conn, HangUp(c) PROVE NewlyGiven(j)
    BY <1>5, GivenSame DEF HangUp, webVars
  <1>6. CASE UNCHANGED vars BY <1>6, GivenSame DEF vars
  <1> QED BY <1>1, <1>2, <1>3, <1>4, <1>5, <1>6 DEF Next

LEMMA InitUInv == Init => UInv
  <1> SUFFICES ASSUME Init PROVE UInv OBVIOUS
  <1>1. EndsOK BY DEF Init, EndsOK, EndState
  <1>2. GivenOK BY DEF Init, GivenOK, NoAnswer, Failed, Done
  <1>3. UsedOK
    <2>1. << >> \in Seq(UsedEntry) OBVIOUS
    <2> QED BY <2>1, NoConnUsed DEF Init, UsedOK
  <1> QED BY <1>1, <1>2, <1>3 DEF UInv

LEMMA NextUInv == AskingOK /\ IInv /\ PInv /\ WInv /\ NInv /\ DInv /\ UInv /\ [Next]_vars => UInv'
  <1> SUFFICES ASSUME AskingOK, IInv, PInv, WInv, NInv, DInv, UInv, [Next]_vars PROVE UInv' OBVIOUS
  <1>1. nconn \in Nat /\ nconn' \in Nat /\ nconn <= nconn' BY NextConns DEF OnlyNewOnes, IInv
  <1>2. EndsOnly BY NextEnds
  <1>3. EndsOK' /\ StaysUsed BY <1>1, <1>2, EndsStep DEF StaysUsed
  <1>4. GivenOK' BY <1>1, NextGiven, GivenStep
  <1>5. UsedOK' BY <1>1, <1>3, NextUsed
  <1> QED BY <1>3, <1>4, <1>5 DEF UInv

LEMMA AlwaysUInv ==
    Spec => [](AskingOK /\ IInv /\ PInv /\ WInv /\ NInv /\ DInv /\ BInv /\ UInv)
  BY InitBInv, NextBInv, InitUInv, NextUInv, AlwaysDInv, PTL DEF Spec

-----------------------------------------------------------------------------

(* The types of the state, and that no more than two connections are made   *)
(* for each instance: the one a plug-in process makes when it serves the    *)
(* request (PluginProcess::createWebProcessConnection), and the one that    *)
(* getPluginProcessConnection makes of a reply without a descriptor.        *)
THEOREM TypesHold == Spec => []TypeOK
  <1>1. IInv /\ PInv /\ WInv /\ DInv /\ BInv /\ UInv => TypeOK
    <2> SUFFICES ASSUME IInv, PInv, WInv, DInv, BInv, UInv PROVE TypeOK OBVIOUS
    <2>1. nconn \in Nat BY DEF IInv
    <2>2. nconn \in 0..(2 * Cardinality(Instance)) /\ 1..nconn \subseteq Conn BY <2>1, ConnBound
    <2>3. ASSUME NEW p \in Path
          PROVE  /\ proxy[p].state \in {"none", "launching", "running"}
                 /\ proxy[p].replies \in Seq(Instance)
                 /\ proxy[p].requests \in Nat
                 /\ proxy[p].sites \subseteq SiteCallback
                 /\ child[p].state \in {"none", "running", "gone"}
                 /\ child[p].conns \subseteq 1..nconn
                 /\ child[p].counter \in Nat
      <3>1. proxy[p] \in ProxyState BY UIFields DEF PInv
      <3>2. proxy[p].sites \in SiteSet BY <3>1, ProxyFields
      <3>3. child[p] \in ChildState /\ child[p].conns \subseteq 1..nconn
        BY DEF IInv, ChildOK, CountOK
      <3>4. child[p].state \in {"none", "running", "gone"} /\ child[p].counter \in Nat
        BY <3>3 DEF ChildState
      <3> QED BY <3>1, <3>2, <3>3, <3>4, ProxyFields DEF SiteSet
    <2>4. webEnd \in [Conn -> {"none", "open", "bogus", "down", "closed"}]
      BY DEF UInv, EndsOK, EndState
    <2>5. phase \in [Instance -> Phase] BY DEF IInv, LineOK
    <2>6. answer \in [Instance -> {NoAnswer, Failed, Done} \cup Conn]
      <3>1. answer \in [Instance -> Int] BY DEF WInv, QueuesOK
      <3>2. \A i \in Instance : answer[i] \in {NoAnswer, Failed, Done} \cup Conn
        BY <2>2 DEF UInv, GivenOK
      <3> QED BY <3>1, <3>2
    <2>7. connOf \in [Instance -> {NoConn} \cup Conn]
      <3>1. connOf \in [Instance -> 0..nconn] BY DEF DInv, ConnsKnown
      <3>2. 0..nconn \subseteq {NoConn} \cup Conn BY <2>1, <2>2 DEF NoConn
      <3> QED BY <3>1, <3>2
    <2> QED BY <2>2, <2>3, <2>4, <2>5, <2>6, <2>7 DEF TypeOK, Phase
  <1> QED BY <1>1, AlwaysUInv, PTL

-----------------------------------------------------------------------------
(* Who has a connection that is on its way: the queue of a plug-in process  *)
(* to the UI process, the queue to a web process, or the call it answers.   *)

Holder == [at : {"ui"}, of : Path] \cup [at : {"web"}, of : Web] \cup [at : {"call"}, of : Instance]

Arriving(c) == {m \in ChildMessage : m.op = "connection" /\ m.conn = c}
Bringing(c) == {m \in WebMessage : m.op = "reply" /\ m.conn = c}

AtUI(p, c) == Count(fromPlugin[p], Arriving(c))
AtWeb(w, c) == Count(toWeb[w], Bringing(c))
AtCall(i, c) == IF Got(i) /\ answer[i] = c THEN 1 ELSE 0

Held(h, c) ==
    IF h.at = "ui" THEN AtUI(h.of, c) ELSE IF h.at = "web" THEN AtWeb(h.of, c) ELSE AtCall(h.of, c)

Unheld(c) == \A h \in Holder : Held(h, c) = 0

Numbers == Nat \ {0}

(* A connection on its way is in one place, once, and no web process had it. *)
HeldOnce == \A h \in Holder, c \in Numbers : Held(h, c) <= 1
OneHolder == \A h, g \in Holder, c \in Numbers : Held(h, c) > 0 /\ Held(g, c) > 0 => h = g
HeldUnused == \A h \in Holder, c \in Conn : Held(h, c) > 0 => webEnd[c] = "none"

HInv == HeldOnce /\ OneHolder /\ HeldUnused

(* Every holder has an amount of c or less, when each of the three kinds has. *)
LEMMA HolderKinds ==
    ASSUME NEW h \in Holder, NEW c
    PROVE  \/ \E p \in Path : h = [at |-> "ui", of |-> p] /\ Held(h, c) = AtUI(p, c) /\ Held(h, c)' = AtUI(p, c)'
           \/ \E w \in Web : h = [at |-> "web", of |-> w] /\ Held(h, c) = AtWeb(w, c) /\ Held(h, c)' = AtWeb(w, c)'
           \/ \E i \in Instance : h = [at |-> "call", of |-> i] /\ Held(h, c) = AtCall(i, c) /\ Held(h, c)' = AtCall(i, c)'
  <1>1. CASE h \in [at : {"ui"}, of : Path]
    <2>1. PICK p \in Path : h = [at |-> "ui", of |-> p] BY <1>1
    <2>2. h.at = "ui" /\ h.of = p BY <2>1
    <2> QED BY <2>1, <2>2 DEF Held
  <1>2. CASE h \in [at : {"web"}, of : Web]
    <2>1. PICK w \in Web : h = [at |-> "web", of |-> w] BY <1>2
    <2>2. h.at = "web" /\ h.of = w BY <2>1
    <2> QED BY <2>1, <2>2 DEF Held
  <1>3. CASE h \in [at : {"call"}, of : Instance]
    <2>1. PICK i \in Instance : h = [at |-> "call", of |-> i] BY <1>3
    <2>2. h.at = "call" /\ h.of = i BY <2>1
    <2> QED BY <2>1, <2>2 DEF Held
  <1> QED BY <1>1, <1>2, <1>3 DEF Holder

LEMMA TheHolders ==
    ASSUME NEW c
    PROVE  /\ \A p \in Path : [at |-> "ui", of |-> p] \in Holder /\ Held([at |-> "ui", of |-> p], c) = AtUI(p, c)
           /\ \A w \in Web : [at |-> "web", of |-> w] \in Holder /\ Held([at |-> "web", of |-> w], c) = AtWeb(w, c)
           /\ \A i \in Instance : [at |-> "call", of |-> i] \in Holder /\ Held([at |-> "call", of |-> i], c) = AtCall(i, c)
  BY DEF Holder, Held

LEMMA HeldNumbers ==
    ASSUME PInv, WInv, NEW h \in Holder, NEW c
    PROVE  Held(h, c) \in Nat
  <1>1. ASSUME NEW p \in Path PROVE AtUI(p, c) \in Nat
    <2>1. fromPlugin[p] \in Seq(ChildMessage) BY DEF PInv
    <2> QED BY <2>1, CountType DEF AtUI
  <1>2. ASSUME NEW w \in Web PROVE AtWeb(w, c) \in Nat
    <2>1. toWeb[w] \in Seq(WebMessage) BY DEF WInv, QueuesOK
    <2> QED BY <2>1, CountType DEF AtWeb
  <1>3. ASSUME NEW i \in Instance PROVE AtCall(i, c) \in Nat BY DEF AtCall
  <1> QED BY <1>1, <1>2, <1>3, HolderKinds

LEMMA HeldNumbersThen ==
    ASSUME PInv', WInv', NEW h \in Holder, NEW c
    PROVE  Held(h, c)' \in Nat
  <1>1. ASSUME NEW p \in Path PROVE AtUI(p, c)' \in Nat
    <2>1. fromPlugin'[p] \in Seq(ChildMessage) BY DEF PInv
    <2> QED BY <2>1, CountType DEF AtUI
  <1>2. ASSUME NEW w \in Web PROVE AtWeb(w, c)' \in Nat
    <2>1. toWeb'[w] \in Seq(WebMessage) BY DEF WInv, QueuesOK
    <2> QED BY <2>1, CountType DEF AtWeb
  <1>3. ASSUME NEW i \in Instance PROVE AtCall(i, c)' \in Nat BY DEF AtCall
  <1> QED BY <1>1, <1>2, <1>3, HolderKinds

(* What is on its way was made.                                             *)
LEMMA HeldMade ==
    ASSUME PInv, WInv, NInv, NEW h \in Holder, NEW c \in Numbers, Held(h, c) > 0
    PROVE  c \in 1..nconn
  <1>1. ASSUME NEW p \in Path, AtUI(p, c) > 0 PROVE c \in 1..nconn
    <2>1. fromPlugin[p] \in Seq(ChildMessage) BY DEF PInv
    <2>2. PICK k \in DOMAIN fromPlugin[p] : fromPlugin[p][k] \in Arriving(c)
      BY <1>1, <2>1, CountType DEF AtUI
    <2> QED BY <2>2 DEF NInv, ArrivesOK, MadeBy, Arriving
  <1>2. ASSUME NEW w \in Web, AtWeb(w, c) > 0 PROVE c \in 1..nconn
    <2>1. toWeb[w] \in Seq(WebMessage) BY DEF WInv, QueuesOK
    <2>2. PICK k \in DOMAIN toWeb[w] : toWeb[w][k] \in Bringing(c)
      BY <1>2, <2>1, CountType DEF AtWeb
    <2>3. Brings(toWeb[w][k]) /\ toWeb[w][k].conn = c BY <2>2 DEF Bringing, Brings, Numbers
    <2> QED BY <2>3 DEF NInv, RepliesOK, MadeBy
  <1>3. ASSUME NEW i \in Instance, AtCall(i, c) > 0 PROVE c \in 1..nconn
    BY <1>3 DEF AtCall, NInv, AnswersOK, MadeBy
  <1> QED BY <1>1, <1>2, <1>3, HolderKinds

-----------------------------------------------------------------------------

(* Nobody comes to have more.                                               *)
NoMoreHeld ==
    \A c \in Numbers :
        /\ \A p \in Path : AtUI(p, c)' <= AtUI(p, c)
        /\ \A w \in Web : AtWeb(w, c)' <= AtWeb(w, c)
        /\ \A i \in Instance : AtCall(i, c)' <= AtCall(i, c)

LEMMA NobodyHasMore ==
    ASSUME NoMoreHeld, NEW h \in Holder, NEW c \in Numbers
    PROVE  Held(h, c)' <= Held(h, c)
  BY HolderKinds DEF NoMoreHeld

LEMMA HoldersStill ==
    ASSUME PInv, WInv, PInv', WInv', HInv, NoMoreHeld,
           \A c \in Conn : webEnd'[c] # webEnd[c] => webEnd[c] # "none" \/ Unheld(c)'
    PROVE  HInv'
  <1>1. \A h \in Holder, c \in Numbers :
           Held(h, c)' <= Held(h, c) /\ Held(h, c)' \in Nat /\ Held(h, c) \in Nat
    <2>1. \A h \in Holder, c \in Numbers : Held(h, c)' \in Nat BY HeldNumbersThen
    <2> QED BY <2>1, HeldNumbers, NobodyHasMore
  <1>2. HeldOnce' BY <1>1 DEF HInv, HeldOnce
  <1>3. OneHolder' BY <1>1 DEF HInv, OneHolder
  <1>4. HeldUnused'
    <2> SUFFICES ASSUME NEW h \in Holder, NEW c \in Conn, Held(h, c)' > 0, webEnd'[c] # "none"
                 PROVE  FALSE
      BY DEF HeldUnused
    <2>1. c \in Numbers BY DEF Conn, Numbers
    <2>2. Held(h, c) > 0 BY <1>1, <2>1
    <2>3. webEnd[c] = "none" BY <2>2 DEF HInv, HeldUnused
    <2>4. Held(h, c)' = 0 BY <2>3 DEF Unheld
    <2> QED BY <2>4
  <1> QED BY <1>2, <1>3, <1>4 DEF HInv

(* Connection c comes to g, and nobody else has it then.                    *)
LEMMA HolderStep ==
    ASSUME PInv, WInv, PInv', WInv', HInv, NEW g \in Holder, NEW c \in Numbers, UNCHANGED webEnd,
           c \in Conn => webEnd[c] = "none", Held(g, c)' <= 1,
           \A h \in Holder, d \in Numbers : h # g \/ d # c => Held(h, d)' <= Held(h, d),
           \A h \in Holder : h # g => Held(h, c)' = 0
    PROVE  HInv'
  <1>1. \A h \in Holder, d \in Numbers : Held(h, d)' \in Nat /\ Held(h, d) \in Nat
    <2>1. \A h \in Holder, d \in Numbers : Held(h, d)' \in Nat BY HeldNumbersThen
    <2> QED BY <2>1, HeldNumbers
  <1>2. HeldOnce'
    <2> SUFFICES ASSUME NEW h \in Holder, NEW d \in Numbers PROVE Held(h, d)' <= 1
      BY DEF HeldOnce
    <2>1. CASE h = g /\ d = c BY <2>1
    <2>2. CASE h # g \/ d # c
      <3>1. Held(h, d)' <= Held(h, d) /\ Held(h, d) <= 1 BY <2>2 DEF HInv, HeldOnce
      <3> QED BY <1>1, <3>1
    <2> QED BY <2>1, <2>2
  <1>3. OneHolder'
    <2> SUFFICES ASSUME NEW h \in Holder, NEW f \in Holder, NEW d \in Numbers,
                        Held(h, d)' > 0, Held(f, d)' > 0
                 PROVE  h = f
      BY DEF OneHolder
    <2>1. CASE d = c BY <2>1
    <2>2. CASE d # c
      <3>1. Held(h, d) > 0 /\ Held(f, d) > 0 BY <1>1, <2>2
      <3> QED BY <3>1 DEF HInv, OneHolder
    <2> QED BY <2>1, <2>2
  <1>4. HeldUnused'
    <2> SUFFICES ASSUME NEW h \in Holder, NEW d \in Conn, Held(h, d)' > 0 PROVE webEnd[d] = "none"
      BY DEF HeldUnused
    <2>1. d \in Numbers BY DEF Conn, Numbers
    <2>2. CASE d = c BY <2>2
    <2>3. CASE d # c
      <3>1. Held(h, d) > 0 BY <1>1, <2>1, <2>3
      <3> QED BY <3>1 DEF HInv, HeldUnused
    <2> QED BY <2>2, <2>3
  <1> QED BY <1>2, <1>3, <1>4 DEF HInv

-----------------------------------------------------------------------------
(* Steps that leave the connections on their way where they are.            *)

LEMMA NothingMoves ==
    ASSUME PInv, WInv, UNCHANGED <<fromPlugin, toWeb>>, NoNewAnswer
    PROVE  NoMoreHeld
  <1> SUFFICES ASSUME NEW c \in Numbers
               PROVE  /\ \A p \in Path : AtUI(p, c)' <= AtUI(p, c)
                      /\ \A w \in Web : AtWeb(w, c)' <= AtWeb(w, c)
                      /\ \A i \in Instance : AtCall(i, c)' <= AtCall(i, c)
    BY DEF NoMoreHeld
  <1>1. \A p \in Path : AtUI(p, c)' = AtUI(p, c) /\ AtUI(p, c) \in Nat
    <2>1. ASSUME NEW p \in Path PROVE AtUI(p, c) \in Nat
      <3>1. fromPlugin[p] \in Seq(ChildMessage) BY DEF PInv
      <3> QED BY <3>1, CountType DEF AtUI
    <2> QED BY <2>1 DEF AtUI
  <1>2. \A w \in Web : AtWeb(w, c)' = AtWeb(w, c) /\ AtWeb(w, c) \in Nat
    <2>1. ASSUME NEW w \in Web PROVE AtWeb(w, c) \in Nat
      <3>1. toWeb[w] \in Seq(WebMessage) BY DEF WInv, QueuesOK
      <3> QED BY <3>1, CountType DEF AtWeb
    <2> QED BY <2>1 DEF AtWeb
  <1>3. \A i \in Instance : AtCall(i, c)' <= AtCall(i, c) BY DEF AtCall, NoNewAnswer
  <1> QED BY <1>1, <1>2, <1>3

(* What a step of the web process of instance i does to its answer.         *)
LEMMA InstancesAnswers ==
    ASSUME IInv, WInv, NEW i \in Instance,
           \/ Initialize(i) \/ Destroy(i) \/ GotConnection(i) \/ GotNothing(i) \/ GotGarbage(i)
           \/ CreateReturns(i) \/ DestroyReturns(i) \/ CallTimesOut(i)
    PROVE  /\ UNCHANGED <<toWeb, fromPlugin>> /\ NoNewAnswer
           /\ \A j \in Instance \ {i} : phase'[j] = phase[j] /\ answer'[j] = answer[j]
           /\ phase'[i] = "asking" => Initialize(i) /\ answer[i] = NoAnswer /\ answer'[i] = NoAnswer
           /\ phase[i] = "asking" => GotConnection(i) \/ GotNothing(i) \/ GotGarbage(i)
  <1>0. phase \in [Instance -> Phase] /\ answer \in [Instance -> Int]
    BY DEF IInv, LineOK, WInv, QueuesOK
  <1>1. UNCHANGED <<toWeb, fromPlugin>>
    BY DEF Initialize, Destroy, GotConnection, GotNothing, GotGarbage, CreateReturns, DestroyReturns,
           CallTimesOut, Enter, uiVars, plugVars
  <1>2. PICK f : phase' = [phase EXCEPT ![i] = f]
    BY DEF Initialize, Destroy, GotConnection, GotNothing, GotGarbage, CreateReturns,
           DestroyReturns, CallTimesOut, Enter, CreateOn
  <1>3. UNCHANGED answer \/ answer' = [answer EXCEPT ![i] = NoAnswer]
    BY DEF Initialize, Destroy, GotConnection, GotNothing, GotGarbage, CreateReturns,
           DestroyReturns, CallTimesOut, Enter, CreateOn
  <1>4. \A j \in Instance \ {i} : phase'[j] = phase[j] /\ answer'[j] = answer[j]
    BY <1>0, <1>2, <1>3
  <1>5. phase'[i] = "asking" => Initialize(i) /\ answer[i] = NoAnswer /\ answer'[i] = NoAnswer
    <2>1. CASE Initialize(i)
      <3>1. PlaceOf(i) /\ phase[i] = "unborn" BY <2>1 DEF Initialize, WInv
      <3>2. answer[i] = NoAnswer BY <3>1 DEF PlaceOf, InOnePlace
      <3> QED BY <1>0, <1>3, <2>1, <3>2
    <2>2. CASE \/ Destroy(i) \/ GotConnection(i) \/ GotNothing(i) \/ GotGarbage(i)
               \/ CreateReturns(i) \/ DestroyReturns(i) \/ CallTimesOut(i)
      <3>1. \E g \in Phase \ {"asking"} : phase' = [phase EXCEPT ![i] = g]
        BY <2>2 DEF Destroy, GotConnection, GotNothing, GotGarbage, CreateReturns,
           DestroyReturns, CallTimesOut, Enter, CreateOn, Phase
      <3> QED BY <1>0, <3>1
    <2> QED BY <2>1, <2>2
  <1>6. phase[i] = "asking" => GotConnection(i) \/ GotNothing(i) \/ GotGarbage(i)
    BY DEF Initialize, Destroy, CreateReturns, DestroyReturns, CallTimesOut, Waits
  <1>7. NoNewAnswer
    <2> SUFFICES ASSUME NEW j \in Instance, Got(j)' PROVE Got(j) /\ answer'[j] = answer[j]
      BY DEF NoNewAnswer
    <2>1. phase'[j] = "asking" /\ answer'[j] > 0 BY DEF Got
    <2>2. j # i BY <1>5, <2>1 DEF NoAnswer
    <2> QED BY <1>4, <2>1, <2>2 DEF Got
  <1> QED BY <1>1, <1>4, <1>5, <1>6, <1>7

(* A call into the plug-in process is answered.                             *)
LEMMA RepliedAnswers ==
    ASSUME WInv, UNCHANGED phase, NEW i, NEW c, NEW what \in {"creating", "destroying"}, NEW v,
           UNCHANGED answer \/ Reply(i, c, what, v)
    PROVE  /\ NoNewAnswer
           /\ \A j \in Instance : phase[j] = "asking" => answer'[j] = answer[j]
  <1>1. answer \in [Instance -> Int] BY DEF WInv, QueuesOK
  <1>2. \A j \in Instance : phase[j] = "asking" => answer'[j] = answer[j] BY <1>1 DEF Reply
  <1> QED BY <1>2 DEF NoNewAnswer, Got

-----------------------------------------------------------------------------
(* Steps that close, or lose, an end that a web process had.                *)

EndsOld == \A c \in Conn : webEnd'[c] # webEnd[c] => webEnd[c] # "none"

LEMMA OldEnd ==
    ASSUME UInv, NEW c, Used(c), NEW e, webEnd' = [webEnd EXCEPT ![c] = e]
    PROVE  EndsOld
  BY DEF UInv, EndsOK, EndsOld, Used

LEMMA RemovedOld ==
    ASSUME UInv, NEW i \in Instance, RemovePluginProxy(i)
    PROVE  EndsOld
  <1>1. PICK c : c = connOf[i] OBVIOUS
  <1>2. Used(c) BY <1>1 DEF UInv, UsedOK
  <1>3. PICK e : e = "closed" OBVIOUS
  <1>4. UNCHANGED webEnd \/ webEnd' = [webEnd EXCEPT ![c] = e] BY <1>1, <1>3 DEF RemovePluginProxy
  <1>5. CASE UNCHANGED webEnd BY <1>5 DEF EndsOld
  <1> QED BY <1>2, <1>4, <1>5, OldEnd

LEMMA ReturnsOld ==
    ASSUME UInv, NEW i \in Instance,
           \/ Initialize(i) \/ Destroy(i) \/ GotNothing(i)
           \/ CreateReturns(i) \/ DestroyReturns(i) \/ CallTimesOut(i)
    PROVE  EndsOld
  <1>1. UNCHANGED webEnd \/ RemovePluginProxy(i)
    BY DEF Initialize, Destroy, GotNothing, CreateReturns, DestroyReturns, CallTimesOut, lineVars
  <1>2. CASE UNCHANGED webEnd BY <1>2 DEF EndsOld
  <1> QED BY <1>1, <1>2, RemovedOld

LEMMA ReceivedOld ==
    ASSUME WInv, UInv, NEW w \in Web, ReceiveFromUI(w)
    PROVE  EndsOld
  <1>1. PICK m, c, e : m = Head(toWeb[w]) /\ c = pathsAndConns[w][m.path] /\ e = "down" OBVIOUS
  <1>2. toWeb[w] \in Seq(WebMessage) BY DEF WInv, QueuesOK
  <1>3. /\ toWeb[w] # << >>
        /\ UNCHANGED webEnd \/ (m.op = "crashed" /\ webEnd' = [webEnd EXCEPT ![c] = e])
    BY <1>1 DEF ReceiveFromUI
  <1>4. CASE UNCHANGED webEnd BY <1>4 DEF EndsOld
  <1>5. CASE m.op = "crashed" /\ webEnd' = [webEnd EXCEPT ![c] = e]
    <2>1. m \in WebMessage BY <1>1, <1>2, <1>3
    <2>2. m.path \in Path BY <1>5, <2>1 DEF WebMessage
    <2>3. Used(c) BY <1>1, <2>2 DEF UInv, UsedOK
    <2> QED BY <1>5, <2>3, OldEnd
  <1> QED BY <1>3, <1>4, <1>5

LEMMA HungUpOld ==
    ASSUME NEW c \in Conn, UInv, HangUp(c)
    PROVE  EndsOld
  <1>1. webEnd[c] = "open" /\ webEnd' = [webEnd EXCEPT ![c] = "down"] BY DEF HangUp
  <1>2. Used(c) BY <1>1 DEF Used
  <1>3. PICK e : e = "down" OBVIOUS
  <1> QED BY <1>1, <1>2, <1>3, OldEnd

LEMMA HeldStill ==
    ASSUME PInv, WInv, PInv', WInv', HInv, NoMoreHeld, EndsOld
    PROVE  HInv'
  BY HoldersStill DEF EndsOld

LEMMA AllStill ==
    ASSUME PInv, WInv, PInv', WInv', HInv, UNCHANGED <<fromPlugin, toWeb, phase, answer, webEnd>>
    PROVE  HInv'
  <1>1. NoNewAnswer BY DEF NoNewAnswer, Got
  <1>2. NoMoreHeld BY <1>1, NothingMoves
  <1>3. EndsOld BY DEF EndsOld
  <1> QED BY <1>2, <1>3, HeldStill

-----------------------------------------------------------------------------
(* Steps of the web processes.                                              *)

(* The one who has connection c loses it.                                   *)
LEMMA Lost ==
    ASSUME PInv, WInv, PInv', WInv', HInv, NoMoreHeld, NEW g \in Holder, NEW c \in Numbers,
           Held(g, c) > 0, Held(g, c)' = 0
    PROVE  Unheld(c)'
  <1> SUFFICES ASSUME NEW h \in Holder PROVE Held(h, c)' = 0 BY DEF Unheld
  <1>1. CASE h = g BY <1>1
  <1>2. CASE h # g
    <2>1. ~(Held(h, c) > 0) BY <1>2 DEF HInv, OneHolder
    <2>2. Held(h, c) \in Nat BY HeldNumbers
    <2>3. Held(h, c)' \in Nat BY HeldNumbersThen
    <2>4. Held(h, c)' <= Held(h, c) BY NobodyHasMore
    <2> QED BY <2>1, <2>2, <2>3, <2>4
  <1> QED BY <1>1, <1>2

(* The call of instance i goes on with connection c.                        *)
LEMMA CallLoses ==
    ASSUME PInv, WInv, PInv', WInv', HInv, NoMoreHeld, NEW i \in Instance, NEW c \in Numbers,
           Got(i), answer[i] = c, phase'[i] # "asking"
    PROVE  Unheld(c)'
  <1>1. PICK g : g = [at |-> "call", of |-> i] OBVIOUS
  <1>2. g \in Holder /\ Held(g, c) = AtCall(i, c) BY <1>1, TheHolders
  <1>3. g.at = "call" /\ g.of = i BY <1>1
  <1>4. AtCall(i, c) = 1 BY DEF AtCall
  <1>5. Held(g, c)' = 0 BY <1>3 DEF Held, AtCall, Got
  <1> QED BY <1>2, <1>4, <1>5, Lost

LEMMA InstancesHeld ==
    ASSUME IInv, PInv, WInv, NInv, UInv, PInv', WInv', HInv, NEW i \in Instance,
           \/ Initialize(i) \/ Destroy(i) \/ GotConnection(i) \/ GotNothing(i) \/ GotGarbage(i)
           \/ CreateReturns(i) \/ DestroyReturns(i) \/ CallTimesOut(i)
    PROVE  HInv'
  <1>0. NoNewAnswer /\ UNCHANGED <<fromPlugin, toWeb>> BY InstancesAnswers
  <1>1. NoMoreHeld BY <1>0, NothingMoves
  <1>2. CASE \/ Initialize(i) \/ Destroy(i) \/ GotNothing(i)
             \/ CreateReturns(i) \/ DestroyReturns(i) \/ CallTimesOut(i)
    BY <1>1, <1>2, ReturnsOld, HeldStill
  <1>a. webEnd \in [Conn -> EndState] BY DEF UInv, EndsOK
  <1>3. CASE GotConnection(i)
    <2>1. PICK c : c = answer[i] OBVIOUS
    <2>2. phase[i] = "asking" /\ c > 0 /\ answer \in [Instance -> Int] /\ phase \in [Instance -> Phase]
      BY <1>3, <2>1 DEF GotConnection, Waits, WInv, QueuesOK, IInv, LineOK
    <2>3. c \in Numbers /\ Got(i) BY <2>1, <2>2 DEF Numbers, Got
    <2>4. phase' = [phase EXCEPT ![i] = "creating"] /\ webEnd' = [webEnd EXCEPT ![c] = "open"]
      BY <1>3, <2>1 DEF GotConnection, Enter, CreateOn
    <2>5. phase'[i] # "asking" BY <2>2, <2>4
    <2>6. Unheld(c)' BY <1>1, <2>1, <2>3, <2>5, CallLoses
    <2>7. \A d \in Conn : webEnd'[d] # webEnd[d] => d = c BY <1>a, <2>4
    <2> QED BY <1>1, <2>6, <2>7, HoldersStill
  <1>4. CASE GotGarbage(i)
    <2>0. nconn \in Nat BY DEF IInv
    <2>1. PICK c : c = nconn + 1 OBVIOUS
    <2>2. webEnd' = [webEnd EXCEPT ![c] = "bogus"] BY <1>4, <2>1 DEF GotGarbage, Enter
    <2>3. c \in Numbers /\ c \notin 1..nconn BY <2>0, <2>1 DEF Numbers
    <2>4. Unheld(c)'
      <3> SUFFICES ASSUME NEW h \in Holder PROVE Held(h, c)' = 0 BY DEF Unheld
      <3>1. ~(Held(h, c) > 0) BY <2>3, HeldMade
      <3>2. Held(h, c) \in Nat BY HeldNumbers
      <3>3. Held(h, c)' \in Nat BY HeldNumbersThen
      <3>4. Held(h, c)' <= Held(h, c) BY <1>1, <2>3, NobodyHasMore
      <3> QED BY <3>1, <3>2, <3>3, <3>4
    <2>5. \A d \in Conn : webEnd'[d] # webEnd[d] => d = c BY <1>a, <2>2
    <2> QED BY <1>1, <2>4, <2>5, HoldersStill
  <1> QED BY <1>2, <1>3, <1>4

LEMMA DiesHeld ==
    ASSUME IInv, PInv, WInv, NInv, UInv, PInv', WInv', HInv, NEW w \in Web, WebProcessDies(w)
    PROVE  HInv'
  <1>0. /\ phase \in [Instance -> Phase] /\ toWeb \in [Web -> Seq(WebMessage)]
        /\ fromPlugin \in [Path -> Seq(ChildMessage)] /\ answer \in [Instance -> Int]
    BY DEF IInv, LineOK, WInv, QueuesOK, PInv
  <1>1. /\ toWeb' = [toWeb EXCEPT ![w] = << >>] /\ alive[w]
        /\ phase' = [i \in Instance |-> IF OwnerOf[i] = w THEN "gone" ELSE phase[i]]
        /\ UNCHANGED <<answer, fromPlugin>>
    BY DEF WebProcessDies, plugVars
  <1>2. NoNewAnswer BY <1>0, <1>1 DEF NoNewAnswer, Got
  <1>3. toWeb'[w] = << >> /\ \A v \in Web \ {w} : toWeb'[v] = toWeb[v] BY <1>0, <1>1
  <1>4. \A c : AtWeb(w, c)' = 0 BY <1>3, CountEmpty DEF AtWeb
  <1>5. NoMoreHeld
    <2> SUFFICES ASSUME NEW c \in Numbers
                 PROVE  /\ \A p \in Path : AtUI(p, c)' <= AtUI(p, c)
                        /\ \A v \in Web : AtWeb(v, c)' <= AtWeb(v, c)
                        /\ \A i \in Instance : AtCall(i, c)' <= AtCall(i, c)
      BY DEF NoMoreHeld
    <2>1. ASSUME NEW p \in Path PROVE AtUI(p, c)' <= AtUI(p, c)
      <3>1. fromPlugin[p] \in Seq(ChildMessage) BY <1>0
      <3>2. AtUI(p, c) \in Nat BY <3>1, CountType DEF AtUI
      <3>3. AtUI(p, c)' = AtUI(p, c) BY <1>1 DEF AtUI
      <3> QED BY <3>2, <3>3
    <2>2. ASSUME NEW v \in Web PROVE AtWeb(v, c)' <= AtWeb(v, c)
      <3>1. toWeb[v] \in Seq(WebMessage) BY <1>0
      <3>2. AtWeb(v, c) \in Nat BY <3>1, CountType DEF AtWeb
      <3>3. CASE v = w
        <4>1. AtWeb(v, c)' = 0 BY <1>4, <3>3
        <4> QED BY <3>2, <4>1
      <3>4. CASE v # w
        <4>1. AtWeb(v, c)' = AtWeb(v, c) BY <1>3, <3>4 DEF AtWeb
        <4> QED BY <3>2, <4>1
      <3> QED BY <3>3, <3>4
    <2>3. \A i \in Instance : AtCall(i, c)' <= AtCall(i, c) BY <1>2 DEF AtCall, NoNewAnswer
    <2> QED BY <2>1, <2>2, <2>3
  <1>6. ASSUME NEW c \in Conn, webEnd'[c] # webEnd[c] PROVE webEnd[c] # "none" \/ Unheld(c)'
    <2>1. c \in Mine(w) BY <1>6, DiesEnds
    <2>2. c \in Numbers BY DEF Conn, Numbers
    <2>3. ASSUME NEW k \in DOMAIN table[w], c = table[w][k].conn PROVE webEnd[c] # "none"
      <3>1. table[w] \in Seq(UsedEntry) BY DEF UInv, UsedOK
      <3>2. table[w][k] \in UsedEntry BY <3>1
      <3>3. Used(c) BY <2>3, <3>2 DEF UsedEntry
      <3> QED BY <3>3 DEF Used
    <2>4. ASSUME NEW i \in Instance, OwnerOf[i] = w, c = answer[i] PROVE Unheld(c)'
      <3>1. answer[i] > 0 /\ alive[OwnerOf[i]] BY <1>1, <2>2, <2>4 DEF Numbers
      <3>2. Got(i) BY <3>1 DEF UInv, GivenOK, Got
      <3>3. phase'[i] # "asking" BY <1>0, <1>1, <2>4
      <3> QED BY <1>5, <2>2, <2>4, <3>2, <3>3, CallLoses
    <2>5. ASSUME NEW m \in Range(toWeb[w]), m.op = "reply", c = m.conn PROVE Unheld(c)'
      <3>1. PICK k \in DOMAIN toWeb[w] : m = toWeb[w][k] BY <2>5 DEF Range
      <3>2. toWeb[w] \in Seq(WebMessage) BY <1>0
      <3>3. m \in WebMessage BY <3>1, <3>2
      <3>4. m \in Bringing(c) BY <2>5, <3>3 DEF Bringing
      <3>5. AtWeb(w, c) \in Nat /\ AtWeb(w, c) # 0 BY <3>1, <3>2, <3>4, CountType DEF AtWeb
      <3>6. PICK g : g = [at |-> "web", of |-> w] OBVIOUS
      <3>7. g \in Holder /\ Held(g, c) = AtWeb(w, c) BY <3>6, TheHolders
      <3>8. g.at = "web" /\ g.of = w BY <3>6
      <3>9. Held(g, c)' = 0 BY <1>4, <3>8 DEF Held
      <3>10. Held(g, c) > 0 BY <3>5, <3>7
      <3> QED BY <1>5, <2>2, <3>7, <3>9, <3>10, Lost
    <2> QED BY <2>1, <2>3, <2>4, <2>5 DEF Mine
  <1> QED BY <1>5, <1>6, HoldersStill

LEMMA ReceivedHeld ==
    ASSUME IInv, PInv, WInv, NInv, UInv, PInv', WInv', HInv, NEW w \in Web, ReceiveFromUI(w)
    PROVE  HInv'
  <1>0. /\ phase \in [Instance -> Phase] /\ toWeb \in [Web -> Seq(WebMessage)]
        /\ fromPlugin \in [Path -> Seq(ChildMessage)] /\ answer \in [Instance -> Int]
        /\ toWeb[w] \in Seq(WebMessage)
    BY DEF IInv, LineOK, WInv, QueuesOK, PInv
  <1>1. PICK m : m = Head(toWeb[w]) OBVIOUS
  <1>2. /\ toWeb[w] # << >> /\ alive[w] /\ toWeb' = [toWeb EXCEPT ![w] = Tail(@)]
        /\ UNCHANGED <<phase, fromPlugin>>
        /\ \/ m.op = "reply" /\ answer' = [answer EXCEPT ![m.instance] = m.conn] /\ UNCHANGED webEnd
           \/ m.op = "crashed" /\ UNCHANGED answer
    BY <1>1 DEF ReceiveFromUI, plugVars
  <1>3. toWeb'[w] = Tail(toWeb[w]) /\ \A v \in Web \ {w} : toWeb'[v] = toWeb[v] BY <1>0, <1>2
  <1>4. \A c : AtWeb(w, c)' = AtWeb(w, c) - (IF m \in Bringing(c) THEN 1 ELSE 0)
    BY <1>0, <1>1, <1>2, <1>3, CountTail DEF AtWeb
  <1>5. ASSUME NEW c PROVE AtWeb(w, c) \in Nat /\ AtWeb(w, c)' <= AtWeb(w, c)
    <2>1. AtWeb(w, c) \in Nat BY <1>0, CountType DEF AtWeb
    <2> QED BY <1>4, <2>1
  <1>6. ASSUME NEW c \in Numbers
        PROVE  /\ \A p \in Path : AtUI(p, c)' <= AtUI(p, c)
               /\ \A v \in Web : AtWeb(v, c)' <= AtWeb(v, c)
    <2>1. ASSUME NEW p \in Path PROVE AtUI(p, c)' <= AtUI(p, c)
      <3>1. fromPlugin[p] \in Seq(ChildMessage) BY <1>0
      <3>2. AtUI(p, c) \in Nat BY <3>1, CountType DEF AtUI
      <3>3. AtUI(p, c)' = AtUI(p, c) BY <1>2 DEF AtUI
      <3> QED BY <3>2, <3>3
    <2>2. ASSUME NEW v \in Web PROVE AtWeb(v, c)' <= AtWeb(v, c)
      <3>1. CASE v = w BY <1>5, <3>1
      <3>2. CASE v # w
        <4>1. toWeb[v] \in Seq(WebMessage) BY <1>0
        <4>2. AtWeb(v, c) \in Nat BY <4>1, CountType DEF AtWeb
        <4>3. AtWeb(v, c)' = AtWeb(v, c) BY <1>3, <3>2 DEF AtWeb
        <4> QED BY <4>2, <4>3
      <3> QED BY <3>1, <3>2
    <2> QED BY <2>1, <2>2
  <1>7. CASE m.op = "crashed" /\ UNCHANGED answer
    <2>1. \A c \in Numbers : \A i \in Instance : AtCall(i, c)' = AtCall(i, c) BY <1>2, <1>7 DEF AtCall, Got
    <2>2. \A c \in Numbers : \A i \in Instance : AtCall(i, c) \in {0, 1} BY DEF AtCall
    <2>3. NoMoreHeld BY <1>6, <2>1, <2>2 DEF NoMoreHeld
    <2> QED BY <2>3, ReceivedOld, HeldStill
  <1>8. CASE m.op = "reply" /\ answer' = [answer EXCEPT ![m.instance] = m.conn] /\ UNCHANGED webEnd
    <2>1. PICK i, c : i = m.instance /\ c = m.conn OBVIOUS
    <2>2. /\ m \in WebMessage /\ i \in Instance /\ OwnerOf[i] = w
          /\ phase[i] = "asking" /\ answer[i] = NoAnswer
      BY <1>1, <1>2, <1>8, <2>1, ReplyAwaited
    <2>3. answer'[i] = c /\ \A j \in Instance \ {i} : answer'[j] = answer[j] BY <1>0, <1>8, <2>1, <2>2
    <2>4. \A d : AtCall(i, d) = 0 BY <2>2 DEF AtCall, Got, NoAnswer
    <2>5. \A d : \A j \in Instance : AtCall(j, d) \in {0, 1} BY DEF AtCall
    <2>6. \A d : \A j \in Instance \ {i} : AtCall(j, d)' = AtCall(j, d) BY <1>2, <2>3 DEF AtCall, Got
    <2>7. CASE c = Failed
      <3>1. \A d : AtCall(i, d)' = 0 BY <2>3, <2>7 DEF AtCall, Got, Failed
      <3>2. \A d \in Numbers : \A j \in Instance : AtCall(j, d)' <= AtCall(j, d)
        BY <2>4, <2>5, <2>6, <3>1
      <3>3. NoMoreHeld BY <1>6, <3>2 DEF NoMoreHeld
      <3> QED BY <3>3, ReceivedOld, HeldStill
    <2>8. CASE c # Failed
      <3>1. c \in Numbers BY <1>8, <2>1, <2>2, <2>8 DEF WebMessage, Numbers
      <3>2. m \in Bringing(c) BY <1>8, <2>1, <2>2 DEF Bringing
      <3>3. AtWeb(w, c)' = AtWeb(w, c) - 1 BY <1>4, <3>2
      <3>4. PICK f, g : f = [at |-> "web", of |-> w] /\ g = [at |-> "call", of |-> i] OBVIOUS
      <3>5. f.at = "web" /\ f.of = w /\ g.at = "call" /\ g.of = i BY <3>4
      <3>6. f \in Holder /\ g \in Holder BY <2>2, <3>4, TheHolders
      <3>7. Held(f, c) = AtWeb(w, c) /\ Held(f, c)' = AtWeb(w, c)' /\ Held(g, c)' = AtCall(i, c)'
        BY <3>5 DEF Held
      <3>8. AtWeb(w, c) # 0
        <4>1. 1 \in DOMAIN toWeb[w] /\ toWeb[w][1] = m BY <1>0, <1>1, <1>2
        <4> QED BY <1>0, <3>2, <4>1, CountType DEF AtWeb
      <3>9. Held(f, c) = 1 /\ Held(f, c)' = 0
        <4>1. Held(f, c) <= 1 BY <3>1, <3>6 DEF HInv, HeldOnce
        <4>2. AtWeb(w, c) \in Nat BY <1>5
        <4> QED BY <3>3, <3>7, <3>8, <4>1, <4>2
      <3>10. Held(g, c)' <= 1 BY <3>7 DEF AtCall
      <3>11. ASSUME NEW h \in Holder, NEW d \in Numbers, h # g \/ d # c PROVE Held(h, d)' <= Held(h, d)
        <4>1. ASSUME NEW j \in Instance, h = [at |-> "call", of |-> j] PROVE AtCall(j, d)' <= AtCall(j, d)
          <5>1. CASE j # i BY <2>5, <2>6, <5>1
          <5>2. CASE j = i
            <6>1. d # c BY <3>4, <3>11, <4>1, <5>2
            <6>2. AtCall(j, d)' = 0 BY <2>3, <5>2, <6>1 DEF AtCall, Got
            <6> QED BY <2>4, <5>2, <6>2
          <5> QED BY <5>1, <5>2
        <4> QED BY <1>6, <4>1, HolderKinds
      <3>12. ASSUME NEW h \in Holder, h # g PROVE Held(h, c)' = 0
        <4>1. CASE h = f BY <3>9, <4>1
        <4>2. CASE h # f
          <5>1. ~(Held(h, c) > 0) BY <3>1, <3>6, <3>9, <4>2 DEF HInv, OneHolder
          <5>2. Held(h, c) \in Nat BY HeldNumbers
          <5>3. Held(h, c)' \in Nat BY HeldNumbersThen
          <5>4. Held(h, c)' <= Held(h, c) BY <3>1, <3>11, <3>12
          <5> QED BY <5>1, <5>2, <5>3, <5>4
        <4> QED BY <4>1, <4>2
      <3>13. c \in Conn => webEnd[c] = "none" BY <3>6, <3>9 DEF HInv, HeldUnused
      <3> QED BY <1>8, <3>1, <3>6, <3>10, <3>11, <3>12, <3>13, HolderStep
    <2> QED BY <2>7, <2>8
  <1> QED BY <1>2, <1>7, <1>8

-----------------------------------------------------------------------------
(* Steps of the plug-in processes and of the UI process.                    *)

(* The queue of one plug-in process changes, and queues of web processes.   *)
LEMMA QueuesMove ==
    ASSUME PInv, WInv, NEW p \in Path, NEW c \in Numbers, UNCHANGED <<phase, answer>>,
           \A q \in Path \ {p} : fromPlugin'[q] = fromPlugin[q],
           AtUI(p, c)' <= AtUI(p, c),
           \A w \in Web : AtWeb(w, c)' = AtWeb(w, c) \/ AtWeb(w, c)' <= AtWeb(w, c)
    PROVE  /\ \A q \in Path : AtUI(q, c)' <= AtUI(q, c)
           /\ \A w \in Web : AtWeb(w, c)' <= AtWeb(w, c)
           /\ \A i \in Instance : AtCall(i, c)' <= AtCall(i, c)
  <1>1. ASSUME NEW q \in Path PROVE AtUI(q, c)' <= AtUI(q, c)
    <2>1. fromPlugin[q] \in Seq(ChildMessage) BY DEF PInv
    <2>2. AtUI(q, c) \in Nat BY <2>1, CountType DEF AtUI
    <2>3. CASE q # p
      <3>1. AtUI(q, c)' = AtUI(q, c) BY <2>3 DEF AtUI
      <3> QED BY <2>2, <3>1
    <2> QED BY <2>3
  <1>2. ASSUME NEW w \in Web PROVE AtWeb(w, c)' <= AtWeb(w, c)
    <2>1. toWeb[w] \in Seq(WebMessage) BY DEF WInv, QueuesOK
    <2>2. AtWeb(w, c) \in Nat BY <2>1, CountType DEF AtWeb
    <2> QED BY <2>2
  <1>3. \A i \in Instance : AtCall(i, c)' <= AtCall(i, c) BY DEF AtCall, Got
  <1> QED BY <1>1, <1>2, <1>3

LEMMA SiteMessagesHeld ==
    ASSUME IInv, PInv, WInv, PInv', WInv', HInv, NEW p \in Path, HandleSiteData(p) \/ DidGetSiteData(p)
    PROVE  HInv'
  <1>0. fromPlugin \in [Path -> Seq(ChildMessage)] /\ fromPlugin[p] \in Seq(ChildMessage)
        /\ fromPlugin'[p] \in Seq(ChildMessage)
    BY DEF PInv
  <1>1. UNCHANGED <<toWeb, phase, answer, webEnd>>
    BY DEF HandleSiteData, DidGetSiteData, uiVars, lineVars, webVars
  <1>2. ASSUME NEW c \in Numbers PROVE AtUI(p, c)' <= AtUI(p, c)
    <2>1. AtUI(p, c) \in Nat BY <1>0, CountType DEF AtUI
    <2>2. CASE HandleSiteData(p)
      <3>1. PICK m : m.op = "site" /\ fromPlugin' = [fromPlugin EXCEPT ![p] = Append(@, m)]
        BY <2>2 DEF HandleSiteData
      <3>2. fromPlugin'[p] = Append(fromPlugin[p], m) BY <1>0, <3>1
      <3>3. m \in ChildMessage
        <4>1. /\ Len(fromPlugin[p]) + 1 \in DOMAIN Append(fromPlugin[p], m)
              /\ Append(fromPlugin[p], m)[Len(fromPlugin[p]) + 1] = m
          BY <1>0
        <4>2. fromPlugin'[p][Len(fromPlugin[p]) + 1] \in ChildMessage BY <1>0, <3>2, <4>1
        <4> QED BY <3>2, <4>1, <4>2
      <3>4. m \notin Arriving(c) BY <3>1 DEF Arriving
      <3>5. Count(Append(fromPlugin[p], m), Arriving(c)) = AtUI(p, c) + 0
        BY <1>0, <3>3, <3>4, CountAppend DEF AtUI
      <3>6. AtUI(p, c)' = AtUI(p, c) + 0 BY <3>2, <3>5 DEF AtUI
      <3> QED BY <2>1, <3>6
    <2>3. CASE DidGetSiteData(p)
      <3>1. fromPlugin[p] # << >> /\ fromPlugin' = [fromPlugin EXCEPT ![p] = Tail(@)]
        BY <2>3 DEF DidGetSiteData
      <3>2. fromPlugin'[p] = Tail(fromPlugin[p]) BY <1>0, <3>1
      <3>3. AtUI(p, c)' = AtUI(p, c) - (IF Head(fromPlugin[p]) \in Arriving(c) THEN 1 ELSE 0)
        BY <1>0, <3>1, <3>2, CountTail DEF AtUI
      <3> QED BY <2>1, <3>3
    <2> QED BY <2>2, <2>3
  <1>3. \A q \in Path \ {p} : fromPlugin'[q] = fromPlugin[q]
    BY <1>0 DEF HandleSiteData, DidGetSiteData
  <1>4. \A c \in Numbers : \A w \in Web : AtWeb(w, c)' = AtWeb(w, c) BY <1>1 DEF AtWeb
  <1>5. NoMoreHeld BY <1>1, <1>2, <1>3, <1>4, QueuesMove DEF NoMoreHeld
  <1>6. EndsOld BY <1>1 DEF EndsOld
  <1> QED BY <1>5, <1>6, HeldStill

LEMMA MadeHeld ==
    ASSUME IInv, PInv, WInv, NInv, UInv, PInv', WInv', HInv, NEW p \in Path, CreateConnection(p)
    PROVE  HInv'
  <1>0. /\ fromPlugin \in [Path -> Seq(ChildMessage)] /\ fromPlugin[p] \in Seq(ChildMessage)
        /\ nconn \in Nat
    BY DEF PInv, IInv
  <1>1. PICK c : c = nconn + 1 OBVIOUS
  <1>2. PICK m : m = [op |-> "connection", conn |-> c] OBVIOUS
  <1>3. /\ fromPlugin' = [fromPlugin EXCEPT ![p] = Append(@, m)]
        /\ UNCHANGED <<toWeb, phase, answer, webEnd>>
    BY <1>1, <1>2 DEF CreateConnection, uiVars, webVars
  <1>4. /\ fromPlugin'[p] = Append(fromPlugin[p], m)
        /\ \A q \in Path \ {p} : fromPlugin'[q] = fromPlugin[q]
    BY <1>0, <1>3
  <1>5. c \in Numbers /\ c \notin 1..nconn BY <1>0, <1>1 DEF Numbers
  <1>6. m \in ChildMessage /\ m.op = "connection" /\ m.conn = c BY <1>2, <1>5 DEF ChildMessage, Numbers
  <1>7. ASSUME NEW d \in Numbers
        PROVE  /\ AtUI(p, d) \in Nat
               /\ AtUI(p, d)' = AtUI(p, d) + (IF d = c THEN 1 ELSE 0)
    <2>1. AtUI(p, d) \in Nat BY <1>0, CountType DEF AtUI
    <2>2. m \in Arriving(d) <=> d = c BY <1>6 DEF Arriving
    <2>3. AtUI(p, d)' = AtUI(p, d) + (IF m \in Arriving(d) THEN 1 ELSE 0)
      BY <1>0, <1>4, <1>6, CountAppend DEF AtUI
    <2> QED BY <2>1, <2>2, <2>3
  <1>8. PICK g : g = [at |-> "ui", of |-> p] OBVIOUS
  <1>9. g \in Holder /\ g.at = "ui" /\ g.of = p BY <1>8, TheHolders
  <1>10. Held(g, c) = AtUI(p, c) /\ Held(g, c)' = AtUI(p, c)' BY <1>9 DEF Held
  <1>11. \A h \in Holder : Held(h, c) = 0
    <2> SUFFICES ASSUME NEW h \in Holder PROVE Held(h, c) = 0 OBVIOUS
    <2>1. ~(Held(h, c) > 0) BY <1>5, HeldMade
    <2>2. Held(h, c) \in Nat BY HeldNumbers
    <2> QED BY <2>1, <2>2
  <1>12. Held(g, c)' <= 1
    <2>1. AtUI(p, c) = 0 BY <1>9, <1>10, <1>11
    <2>2. AtUI(p, c)' = 1 BY <1>5, <1>7, <2>1
    <2> QED BY <1>10, <2>2
  <1>13. ASSUME NEW h \in Holder, NEW d \in Numbers, h # g \/ d # c PROVE Held(h, d)' <= Held(h, d)
    <2>1. ASSUME NEW q \in Path, h = [at |-> "ui", of |-> q] PROVE AtUI(q, d)' <= AtUI(q, d)
      <3>1. fromPlugin[q] \in Seq(ChildMessage) BY <1>0
      <3>2. AtUI(q, d) \in Nat BY <3>1, CountType DEF AtUI
      <3>3. CASE q # p
        <4>1. AtUI(q, d)' = AtUI(q, d) BY <1>4, <3>3 DEF AtUI
        <4> QED BY <3>2, <4>1
      <3>4. CASE q = p
        <4>1. d # c BY <1>8, <1>13, <2>1, <3>4
        <4>2. AtUI(q, d)' = AtUI(q, d) + 0 BY <1>7, <3>4, <4>1
        <4> QED BY <3>2, <4>2
      <3> QED BY <3>3, <3>4
    <2>2. ASSUME NEW w \in Web PROVE AtWeb(w, d)' <= AtWeb(w, d)
      <3>1. toWeb[w] \in Seq(WebMessage) BY DEF WInv, QueuesOK
      <3>2. AtWeb(w, d) \in Nat BY <3>1, CountType DEF AtWeb
      <3>3. AtWeb(w, d)' = AtWeb(w, d) BY <1>3 DEF AtWeb
      <3> QED BY <3>2, <3>3
    <2>3. \A i \in Instance : AtCall(i, d)' <= AtCall(i, d) BY <1>3 DEF AtCall, Got
    <2> QED BY <2>1, <2>2, <2>3, HolderKinds
  <1>14. ASSUME NEW h \in Holder, h # g PROVE Held(h, c)' = 0
    <2>1. Held(h, c)' <= Held(h, c) BY <1>5, <1>13, <1>14
    <2>2. Held(h, c)' \in Nat BY HeldNumbersThen
    <2>3. Held(h, c) = 0 BY <1>11
    <2> QED BY <2>1, <2>2, <2>3
  <1>15. c \in Conn => webEnd[c] = "none"
    <2>1. c \in Conn => ~(c <= nconn) BY <1>0, <1>1
    <2> QED BY <2>1 DEF UInv, EndsOK
  <1> QED BY <1>3, <1>5, <1>9, <1>12, <1>13, <1>14, <1>15, HolderStep

-----------------------------------------------------------------------------

(* The connection goes to the web process that waited longest, or to nobody *)
(* when that one is gone.                                                   *)
LEMMA ConnectedHeld ==
    ASSUME IInv, PInv, WInv, NInv, UInv, PInv', WInv', HInv, NEW p \in Path,
           DidCreateWebProcessConnection(p)
    PROVE  HInv'
  <1>0. /\ fromPlugin \in [Path -> Seq(ChildMessage)] /\ fromPlugin[p] \in Seq(ChildMessage)
        /\ toWeb \in [Web -> Seq(WebMessage)] /\ proxy[p].replies \in Seq(InstancesOf(p))
    BY DEF PInv, WInv, QueuesOK
  <1>1. PICK x, c, i, o : /\ x = Head(fromPlugin[p]) /\ c = x.conn /\ i = Head(proxy[p].replies)
                          /\ o = OwnerOf[i]
    OBVIOUS
  <1>2. PICK m : m = [op |-> "reply", instance |-> i, conn |-> c] OBVIOUS
  <1>3. /\ fromPlugin[p] # << >> /\ x.op = "connection" /\ proxy[p].replies # << >>
        /\ fromPlugin' = [fromPlugin EXCEPT ![p] = Tail(@)]
        /\ toWeb' = IF alive[o] THEN [toWeb EXCEPT ![o] = Append(@, m)] ELSE toWeb
        /\ webEnd' = IF alive[o] THEN webEnd ELSE [webEnd EXCEPT ![c] = "closed"]
        /\ UNCHANGED <<phase, answer>>
    BY <1>1, <1>2 DEF DidCreateWebProcessConnection, ReplyTo, webVars
  <1>4. i \in Instance /\ o \in Web
    <2>1. i \in InstancesOf(p) BY <1>0, <1>1, <1>3
    <2> QED BY <1>1, <2>1, PathsAndWebs DEF InstancesOf
  <1>5. x \in ChildMessage /\ 1 \in DOMAIN fromPlugin[p] /\ fromPlugin[p][1] = x BY <1>0, <1>1, <1>3
  <1>6. c \in Numbers BY <1>1, <1>3, <1>5 DEF ChildMessage, Numbers
  <1>7. m \in WebMessage /\ m.op = "reply" /\ m.conn = c BY <1>2, <1>4, <1>6 DEF WebMessage, Numbers
  <1>8. /\ fromPlugin'[p] = Tail(fromPlugin[p])
        /\ \A q \in Path \ {p} : fromPlugin'[q] = fromPlugin[q]
    BY <1>0, <1>3
  <1>9. ASSUME NEW d \in Numbers
        PROVE  AtUI(p, d) \in Nat /\ AtUI(p, d)' = AtUI(p, d) - (IF d = c THEN 1 ELSE 0)
    <2>1. AtUI(p, d) \in Nat BY <1>0, CountType DEF AtUI
    <2>2. x \in Arriving(d) <=> d = c BY <1>1, <1>3, <1>5 DEF Arriving
    <2>3. AtUI(p, d)' = AtUI(p, d) - (IF x \in Arriving(d) THEN 1 ELSE 0)
      BY <1>0, <1>1, <1>3, <1>8, CountTail DEF AtUI
    <2> QED BY <2>1, <2>2, <2>3
  <1>10. PICK f : f = [at |-> "ui", of |-> p] OBVIOUS
  <1>11. f \in Holder /\ f.at = "ui" /\ f.of = p BY <1>10, TheHolders
  <1>12. Held(f, c) = AtUI(p, c) /\ Held(f, c)' = AtUI(p, c)' BY <1>11 DEF Held
  <1>13. Held(f, c) = 1 /\ Held(f, c)' = 0
    <2>1. x \in Arriving(c) BY <1>1, <1>3, <1>5 DEF Arriving
    <2>2. AtUI(p, c) # 0 BY <1>0, <1>5, <2>1, CountType DEF AtUI
    <2>3. Held(f, c) <= 1 BY <1>6, <1>11 DEF HInv, HeldOnce
    <2>4. AtUI(p, c) \in Nat /\ AtUI(p, c)' = AtUI(p, c) - 1 BY <1>6, <1>9
    <2> QED BY <1>12, <2>2, <2>3, <2>4
  <1>14. \A d \in Numbers : AtUI(p, d)' <= AtUI(p, d)
    <2> SUFFICES ASSUME NEW d \in Numbers PROVE AtUI(p, d)' <= AtUI(p, d) OBVIOUS
    <2> QED BY <1>9
  <1>15. CASE ~alive[o]
    <2>1. UNCHANGED toWeb /\ webEnd' = [webEnd EXCEPT ![c] = "closed"] BY <1>3, <1>15
    <2>2. \A d \in Numbers : \A w \in Web : AtWeb(w, d)' = AtWeb(w, d) BY <2>1 DEF AtWeb
    <2>3. NoMoreHeld BY <1>3, <1>8, <1>14, <2>2, QueuesMove DEF NoMoreHeld
    <2>4. Held(f, c) > 0 BY <1>13
    <2>5. Unheld(c)' BY <1>6, <1>11, <1>13, <2>3, <2>4, Lost
    <2>6. \A d \in Conn : webEnd'[d] # webEnd[d] => d = c BY <2>1 DEF UInv, EndsOK
    <2> QED BY <2>3, <2>5, <2>6, HoldersStill
  <1>16. CASE alive[o]
    <2>1. toWeb' = [toWeb EXCEPT ![o] = Append(@, m)] /\ UNCHANGED webEnd BY <1>3, <1>16
    <2>2. toWeb'[o] = Append(toWeb[o], m) /\ \A w \in Web \ {o} : toWeb'[w] = toWeb[w]
      BY <1>0, <1>4, <2>1
    <2>3. toWeb[o] \in Seq(WebMessage) BY <1>0, <1>4
    <2>4. ASSUME NEW d \in Numbers
          PROVE  AtWeb(o, d) \in Nat /\ AtWeb(o, d)' = AtWeb(o, d) + (IF d = c THEN 1 ELSE 0)
      <3>1. AtWeb(o, d) \in Nat BY <2>3, CountType DEF AtWeb
      <3>2. m \in Bringing(d) <=> d = c BY <1>7 DEF Bringing
      <3>3. AtWeb(o, d)' = AtWeb(o, d) + (IF m \in Bringing(d) THEN 1 ELSE 0)
        BY <1>7, <2>2, <2>3, CountAppend DEF AtWeb
      <3> QED BY <3>1, <3>2, <3>3
    <2>5. PICK g : g = [at |-> "web", of |-> o] OBVIOUS
    <2>6. g \in Holder /\ g.at = "web" /\ g.of = o BY <1>4, <2>5, TheHolders
    <2>7. Held(g, c) = AtWeb(o, c) /\ Held(g, c)' = AtWeb(o, c)' BY <2>6 DEF Held
    <2>8. ASSUME NEW h \in Holder, h # f PROVE Held(h, c) = 0
      <3>1. ~(Held(h, c) > 0)
        <4>1. Held(f, c) > 0 BY <1>13
        <4> QED BY <1>6, <1>11, <2>8, <4>1 DEF HInv, OneHolder
      <3>2. Held(h, c) \in Nat BY HeldNumbers
      <3> QED BY <3>1, <3>2
    <2>9. Held(g, c)' <= 1
      <3>1. g # f BY <1>11, <2>6
      <3>2. AtWeb(o, c) = 0 BY <2>6, <2>7, <2>8, <3>1
      <3>3. AtWeb(o, c)' = 1 BY <1>6, <2>4, <3>2
      <3> QED BY <2>7, <3>3
    <2>10. ASSUME NEW h \in Holder, NEW d \in Numbers, h # g \/ d # c PROVE Held(h, d)' <= Held(h, d)
      <3>1. ASSUME NEW q \in Path PROVE AtUI(q, d)' <= AtUI(q, d)
        <4>1. fromPlugin[q] \in Seq(ChildMessage) BY <1>0
        <4>2. AtUI(q, d) \in Nat BY <4>1, CountType DEF AtUI
        <4>3. CASE q # p
          <5>1. AtUI(q, d)' = AtUI(q, d) BY <1>8, <4>3 DEF AtUI
          <5> QED BY <4>2, <5>1
        <4> QED BY <1>14, <4>3
      <3>2. ASSUME NEW w \in Web, h = [at |-> "web", of |-> w] PROVE AtWeb(w, d)' <= AtWeb(w, d)
        <4>1. toWeb[w] \in Seq(WebMessage) BY <1>0
        <4>2. AtWeb(w, d) \in Nat BY <4>1, CountType DEF AtWeb
        <4>3. CASE w # o
          <5>1. AtWeb(w, d)' = AtWeb(w, d) BY <2>2, <4>3 DEF AtWeb
          <5> QED BY <4>2, <5>1
        <4>4. CASE w = o
          <5>1. d # c BY <2>5, <2>10, <3>2, <4>4
          <5>2. AtWeb(w, d)' = AtWeb(w, d) + 0 BY <2>4, <4>4, <5>1
          <5> QED BY <4>2, <5>2
        <4> QED BY <4>3, <4>4
      <3>3. \A j \in Instance : AtCall(j, d)' <= AtCall(j, d) BY <1>3 DEF AtCall, Got
      <3> QED BY <3>1, <3>2, <3>3, HolderKinds
    <2>11. ASSUME NEW h \in Holder, h # g PROVE Held(h, c)' = 0
      <3>1. CASE h = f BY <1>13, <3>1
      <3>2. CASE h # f
        <4>1. Held(h, c)' <= Held(h, c) BY <1>6, <2>10, <2>11
        <4>2. Held(h, c)' \in Nat BY HeldNumbersThen
        <4>3. Held(h, c) = 0 BY <2>8, <3>2
        <4> QED BY <4>1, <4>2, <4>3
      <3> QED BY <3>1, <3>2
    <2>12. c \in Conn => webEnd[c] = "none"
      <3>1. Held(f, c) > 0 BY <1>13
      <3> QED BY <1>11, <3>1 DEF HInv, HeldUnused
    <2> QED BY <1>6, <2>1, <2>6, <2>9, <2>10, <2>11, <2>12, HolderStep
  <1> QED BY <1>15, <1>16

(* Notices and refusals bring no connection.                                *)
LEMMA ClosedHeld ==
    ASSUME IInv, PInv, WInv, PInv', WInv', HInv, NEW p \in Path, DidClose(p)
    PROVE  HInv'
  <1>0. /\ QueuesOK /\ AliveOK /\ fromPlugin \in [Path -> Seq(ChildMessage)]
        /\ fromPlugin[p] \in Seq(ChildMessage)
    BY DEF WInv, QueuesOK, PInv
  <1>1. PICK r, lines, m : /\ r = proxy[p].replies /\ lines = TellAll(p)
                           /\ m = [op |-> "crashed", path |-> p]
    OBVIOUS
  <1>2. /\ toWeb' = Refused(lines, r) /\ fromPlugin' = [fromPlugin EXCEPT ![p] = << >>]
        /\ UNCHANGED <<phase, answer, webEnd>>
    BY <1>1 DEF DidClose, CrashedOrFailedToLaunch, lineVars, webVars
  <1>3. r \in Seq(Instance)
    <2>1. r \in Seq(InstancesOf(p)) BY <1>0, <1>1 DEF QueuesOK
    <2> QED BY <2>1 DEF InstancesOf
  <1>4. lines \in [Web -> Seq(WebMessage)] BY <1>0, <1>1, AllAreTold
  <1>5. \A w \in Web : lines[w] = toWeb[w] \/ lines[w] = Append(toWeb[w], m) BY <1>1 DEF TellAll
  <1>6. m \in WebMessage /\ m.op = "crashed" BY <1>1 DEF WebMessage
  <1>7. ToldWhat(lines, toWeb', r) BY <1>0, <1>2, <1>3, <1>4, ToldAll
  <1>8. ASSUME NEW c \in Numbers, NEW w \in Web PROVE AtWeb(w, c)' = AtWeb(w, c)
    <2>1. PICK t : RefusalsTo(w, t, r) /\ toWeb'[w] = lines[w] \o t BY <1>7 DEF ToldWhat
    <2>2. t \in Seq(Refusal) /\ lines[w] \in Seq(WebMessage) /\ toWeb[w] \in Seq(WebMessage)
      BY <1>0, <1>4, <2>1 DEF RefusalsTo, QueuesOK
    <2>3. \A k \in DOMAIN t : t[k] \notin Bringing(c)
      <3> SUFFICES ASSUME NEW k \in DOMAIN t PROVE t[k] \notin Bringing(c) OBVIOUS
      <3>1. t[k] \in Refusal BY <2>2
      <3>2. t[k].conn = Failed BY <3>1 DEF Refusal
      <3>3. Failed # c BY DEF Failed, Numbers
      <3> QED BY <3>2, <3>3 DEF Bringing
    <2>4. Count(t, Bringing(c)) = 0 BY <2>2, <2>3, CountType
    <2>5. Count(lines[w] \o t, Bringing(c)) = Count(lines[w], Bringing(c)) + Count(t, Bringing(c))
      BY <2>2, CountConcat
    <2>6. Count(toWeb[w], Bringing(c)) \in Nat BY <2>2, CountType
    <2>7. Count(lines[w], Bringing(c)) = Count(toWeb[w], Bringing(c))
      <3>1. m \notin Bringing(c) BY <1>6 DEF Bringing
      <3>2. Count(Append(toWeb[w], m), Bringing(c)) = Count(toWeb[w], Bringing(c)) + 0
        BY <1>6, <2>2, <3>1, CountAppend
      <3>3. CASE lines[w] = toWeb[w] BY <3>3
      <3>4. CASE lines[w] = Append(toWeb[w], m) BY <2>6, <3>2, <3>4
      <3> QED BY <1>5, <3>3, <3>4
    <2>8. Count(toWeb'[w], Bringing(c)) = Count(toWeb[w], Bringing(c))
      BY <2>1, <2>4, <2>5, <2>6, <2>7
    <2> QED BY <2>8 DEF AtWeb
  <1>9. ASSUME NEW c \in Numbers PROVE AtUI(p, c)' <= AtUI(p, c)
    <2>1. fromPlugin'[p] = << >> BY <1>0, <1>2
    <2>2. AtUI(p, c)' = 0 BY <2>1, CountEmpty DEF AtUI
    <2>3. AtUI(p, c) \in Nat BY <1>0, CountType DEF AtUI
    <2> QED BY <2>2, <2>3
  <1>10. \A q \in Path \ {p} : fromPlugin'[q] = fromPlugin[q] BY <1>0, <1>2
  <1>11. NoMoreHeld BY <1>2, <1>8, <1>9, <1>10, QueuesMove DEF NoMoreHeld
  <1>12. EndsOld BY <1>2 DEF EndsOld
  <1> QED BY <1>11, <1>12, HeldStill

-----------------------------------------------------------------------------

LEMMA InitHInv == Init => HInv
  <1> SUFFICES ASSUME Init PROVE HInv OBVIOUS
  <1>1. ASSUME NEW h \in Holder, NEW c PROVE Held(h, c) = 0
    <2>1. \A p \in Path : AtUI(p, c) = 0 BY CountEmpty DEF Init, AtUI
    <2>2. \A w \in Web : AtWeb(w, c) = 0 BY CountEmpty DEF Init, AtWeb
    <2>3. \A i \in Instance : AtCall(i, c) = 0 BY DEF Init, AtCall, Got
    <2> QED BY <2>1, <2>2, <2>3, HolderKinds
  <1> QED BY <1>1 DEF HInv, HeldOnce, OneHolder, HeldUnused

LEMMA NextHInv ==
    AskingOK /\ IInv /\ PInv /\ WInv /\ NInv /\ DInv /\ UInv /\ HInv /\ [Next]_vars => HInv'
  <1> SUFFICES ASSUME AskingOK, IInv, PInv, WInv, NInv, DInv, UInv, HInv, [Next]_vars PROVE HInv'
    OBVIOUS
  <1>0. PInv' /\ WInv' BY NextIInv, NextPInv, NextWInv
  <1>1. CASE Environment
    <2>1. ASSUME NEW p \in Path, PluginProcessDies(p) \/ TerminationTimerFires(p) PROVE HInv'
      BY <1>0, <2>1, AllStill DEF PluginProcessDies, TerminationTimerFires, uiVars, webVars
    <2>2. ASSUME NEW p \in Path, NEW i \in Instance, EnterPlugin(p, i) PROVE HInv'
      BY <1>0, <2>2, AllStill DEF EnterPlugin, uiVars, lineVars, webVars
    <2>3. ASSUME NEW s \in SiteCallback, GetSiteData(s) PROVE HInv'
      BY <1>0, <2>3, AllStill DEF GetSiteData, lineVars, webVars
    <2> QED BY <1>0, <1>1, <2>1, <2>2, <2>3, InstancesHeld, DiesHeld DEF Environment
  <1>2. CASE UIProcess
    <2>1. ASSUME NEW p \in Path, LaunchProcess(p) \/ DidFinishLaunching(p) PROVE HInv'
      BY <1>0, <2>1, AllStill DEF LaunchProcess, DidFinishLaunching, uiVars, lineVars, webVars
    <2>2. ASSUME NEW w \in Web, ReceiveGetConnection(w) \/ ReceiveTimedOut(w) PROVE HInv'
      BY <1>0, <2>2, AllStill DEF ReceiveGetConnection, ReceiveTimedOut, lineVars, webVars
    <2> QED BY <1>0, <1>2, <2>1, <2>2, ConnectedHeld, SiteMessagesHeld, ClosedHeld DEF UIProcess
  <1>3. ASSUME NEW p \in Path, PluginProcessStep(p) PROVE HInv'
    <2>1. CASE ReceiveInitialize(p) \/ LeavePlugin(p)
      BY <1>0, <2>1, AllStill DEF ReceiveInitialize, LeavePlugin, uiVars, lineVars, webVars
    <2>2. ASSUME NEW c \in Conn, BeginCreatePlugin(p, c) \/ WebProcessConnectionDidClose(p, c)
          PROVE  HInv'
      BY <1>0, <2>2, AllStill DEF BeginCreatePlugin, WebProcessConnectionDidClose, uiVars, webVars
    <2>3. ASSUME NEW c \in Conn, NEW i \in Instance, DestroyTimerFires(p, c, i) PROVE HInv'
      BY <1>0, <2>3, AllStill DEF DestroyTimerFires, uiVars, webVars
    <2>4. CASE EndCreatePlugin(p)
      <3>1. PICK i, c, v : UNCHANGED answer \/ Reply(i, c, "creating", v)
        BY <2>4 DEF EndCreatePlugin
      <3>2. UNCHANGED <<fromPlugin, toWeb, phase, webEnd>> BY <2>4 DEF EndCreatePlugin, uiVars
      <3>3. PICK what \in {"creating", "destroying"} : what = "creating" OBVIOUS
      <3>4. NoNewAnswer BY <3>1, <3>2, <3>3, RepliedAnswers
      <3>5. NoMoreHeld BY <3>2, <3>4, NothingMoves
      <3>6. EndsOld BY <3>2 DEF EndsOld
      <3> QED BY <1>0, <3>5, <3>6, HeldStill
    <2>5. ASSUME NEW c \in Conn, DestroyPlugin(p, c) PROVE HInv'
      <3>1. PICK i, v : UNCHANGED answer \/ Reply(i, c, "destroying", v)
        BY <2>5 DEF DestroyPlugin
      <3>2. UNCHANGED <<fromPlugin, toWeb, phase, webEnd>> BY <2>5 DEF DestroyPlugin, uiVars
      <3>3. PICK what \in {"creating", "destroying"} : what = "destroying" OBVIOUS
      <3>4. NoNewAnswer BY <3>1, <3>2, <3>3, RepliedAnswers
      <3>5. NoMoreHeld BY <3>2, <3>4, NothingMoves
      <3>6. EndsOld BY <3>2 DEF EndsOld
      <3> QED BY <1>0, <3>5, <3>6, HeldStill
    <2> QED BY <1>0, <1>3, <2>1, <2>2, <2>3, <2>4, <2>5, MadeHeld, SiteMessagesHeld
            DEF PluginProcessStep
  <1>4. ASSUME NEW w \in Web, WebProcess(w) PROVE HInv'
    BY <1>0, <1>4, InstancesHeld, ReceivedHeld DEF WebProcess
  <1>5. ASSUME NEW c \in Conn, HangUp(c) PROVE HInv'
    <2>1. UNCHANGED <<fromPlugin, toWeb, phase, answer>>
      BY <1>5 DEF HangUp, uiVars, plugVars, webVars
    <2>2. NoNewAnswer BY <2>1 DEF NoNewAnswer, Got
    <2>3. NoMoreHeld BY <2>1, <2>2, NothingMoves
    <2> QED BY <1>0, <1>5, <2>3, HungUpOld, HeldStill
  <1>6. CASE UNCHANGED vars BY <1>0, <1>6, AllStill DEF vars
  <1> QED BY <1>1, <1>2, <1>3, <1>4, <1>5, <1>6 DEF Next

LEMMA AlwaysHInv ==
    Spec => [](AskingOK /\ IInv /\ PInv /\ WInv /\ NInv /\ DInv /\ BInv /\ UInv /\ HInv)
  BY InitHInv, NextHInv, AlwaysUInv, PTL DEF Spec

-----------------------------------------------------------------------------
(* What ConnectionBroker sees of a state, and the steps it takes.           *)

CallOf(i) ==
    IF phase[i] # "asking" THEN "idle"
    ELSE IF answer[i] = NoAnswer THEN "waiting"
    ELSE IF answer[i] = Failed THEN "refused" ELSE "given"
GivenTo(i) == IF Answered(i) /\ answer[i] > 0 THEN answer[i] ELSE 0

Calls == [i \in Instance |-> CallOf(i)]
Given == [i \in Instance |-> GivenTo(i)]
UsedConns ==
    {c \in Conn : webEnd[c] # "none"}
      \cup {answer[i] : i \in {j \in Instance : Answered(j) /\ answer[j] > 0}}

BrokerSteps == [Broker!Next]_<<Calls, Given, UsedConns>>

LEMMA AskStep ==
    ASSUME NEW i \in Instance, Calls[i] = "idle", Calls' = [Calls EXCEPT ![i] = "waiting"],
           UNCHANGED <<Given, UsedConns>>
    PROVE  BrokerSteps
  <1>1. Broker!Next BY DEF Broker!Next, Broker!Ask, Calls, CallOf, Given, GivenTo, UsedConns
  <1> QED BY <1>1 DEF BrokerSteps

LEMMA GiveStep ==
    ASSUME NEW i \in Instance, NEW c \in Conn, Calls[i] = "waiting", c \notin UsedConns,
           Calls' = [Calls EXCEPT ![i] = "given"], Given' = [Given EXCEPT ![i] = c],
           UsedConns' = UsedConns \cup {c}
    PROVE  BrokerSteps
  <1>1. Broker!Next BY DEF Broker!Next, Broker!Give, Calls, CallOf, Given, GivenTo, UsedConns
  <1> QED BY <1>1 DEF BrokerSteps

LEMMA RefuseStep ==
    ASSUME NEW i \in Instance, Calls[i] = "waiting", Calls' = [Calls EXCEPT ![i] = "refused"],
           UNCHANGED <<Given, UsedConns>>
    PROVE  BrokerSteps
  <1>1. Broker!Next BY DEF Broker!Next, Broker!Refuse, Calls, CallOf, Given, GivenTo, UsedConns
  <1> QED BY <1>1 DEF BrokerSteps

LEMMA ReturnStep ==
    ASSUME NEW i \in Instance, Calls[i] \in {"given", "refused"},
           Calls' = [Calls EXCEPT ![i] = "idle"], Given' = [Given EXCEPT ![i] = 0],
           UNCHANGED UsedConns
    PROVE  BrokerSteps
  <1>1. Broker!Next BY DEF Broker!Next, Broker!Return, Calls, CallOf, Given, GivenTo, UsedConns
  <1> QED BY <1>1 DEF BrokerSteps

LEMMA ThrowAwayStep ==
    ASSUME NEW c \in Conn, c \notin UsedConns, UsedConns' = UsedConns \cup {c},
           UNCHANGED <<Calls, Given>>
    PROVE  BrokerSteps
  <1>1. Broker!Next BY DEF Broker!Next, Broker!ThrowAway, Calls, CallOf, Given, GivenTo, UsedConns
  <1> QED BY <1>1 DEF BrokerSteps

LEMMA VanishStep ==
    ASSUME NEW I \in SUBSET Instance, NEW C \in SUBSET Conn,
           Calls' = [i \in Instance |-> IF i \in I THEN "idle" ELSE Calls[i]],
           Given' = [i \in Instance |-> IF i \in I THEN 0 ELSE Given[i]],
           UsedConns' = UsedConns \cup C
    PROVE  BrokerSteps
  <1>1. Broker!Next BY DEF Broker!Next, Broker!Vanish, Calls, CallOf, Given, GivenTo, UsedConns
  <1> QED BY <1>1 DEF BrokerSteps

-----------------------------------------------------------------------------
(* The connections in use are those whose ends were, and those given.       *)

LEMMA UsedConnsAre ==
    \A c : c \in UsedConns <=> \/ c \in Conn /\ webEnd[c] # "none"
                               \/ c # 0 /\ \E i \in Instance : GivenTo(i) = c
  <1> SUFFICES ASSUME NEW c
               PROVE  c \in UsedConns <=> \/ c \in Conn /\ webEnd[c] # "none"
                                          \/ c # 0 /\ \E i \in Instance : GivenTo(i) = c
    OBVIOUS
  <1>1. ASSUME NEW i \in Instance PROVE GivenTo(i) # 0 <=> (Answered(i) /\ answer[i] > 0)
    BY DEF GivenTo
  <1>2. ASSUME NEW i \in Instance PROVE GivenTo(i) # 0 => GivenTo(i) = answer[i] BY DEF GivenTo
  <1> QED BY <1>1, <1>2 DEF UsedConns

LEMMA UsedConnsAreThen ==
    \A c : c \in UsedConns' <=> \/ c \in Conn /\ webEnd'[c] # "none"
                                \/ c # 0 /\ \E i \in Instance : GivenTo(i)' = c
  <1> SUFFICES ASSUME NEW c
               PROVE  c \in UsedConns' <=> \/ c \in Conn /\ webEnd'[c] # "none"
                                           \/ c # 0 /\ \E i \in Instance : GivenTo(i)' = c
    OBVIOUS
  <1>1. ASSUME NEW i \in Instance PROVE GivenTo(i)' # 0 <=> (Answered(i)' /\ answer'[i] > 0)
    BY DEF GivenTo
  <1>2. ASSUME NEW i \in Instance PROVE GivenTo(i)' # 0 => GivenTo(i)' = answer'[i] BY DEF GivenTo
  <1> QED BY <1>1, <1>2 DEF UsedConns

SeenSame(i) == CallOf(i)' = CallOf(i) /\ GivenTo(i)' = GivenTo(i)

LEMMA NothingSeen ==
    ASSUME NEW i, (phase'[i] = "asking") <=> (phase[i] = "asking"),
           phase[i] = "asking" => answer'[i] = answer[i]
    PROVE  SeenSame(i)
  BY DEF SeenSame, CallOf, GivenTo, Answered

LEMMA SameUsed ==
    ASSUME \A i \in Instance : GivenTo(i)' = GivenTo(i), EndsOld, EndsOnly
    PROVE  UNCHANGED UsedConns
  <1>1. \A c \in Conn : (webEnd'[c] # "none") <=> (webEnd[c] # "none") BY DEF EndsOld, EndsOnly
  <1>2. \A c : c \in UsedConns' <=> c \in UsedConns BY <1>1, UsedConnsAre, UsedConnsAreThen
  <1> QED BY <1>2

LEMMA Stutters ==
    ASSUME \A i \in Instance : SeenSame(i), EndsOld, EndsOnly
    PROVE  BrokerSteps
  <1>1. UNCHANGED <<Calls, Given>> BY DEF SeenSame, Calls, Given
  <1>2. UNCHANGED UsedConns BY SameUsed DEF SeenSame
  <1> QED BY <1>1, <1>2 DEF BrokerSteps

(* A step for instance i alone.                                             *)
LEMMA SeenStep ==
    ASSUME NEW i \in Instance, \A j \in Instance \ {i} : SeenSame(j), NEW x, CallOf(i)' = x,
           NEW g, GivenTo(i)' = g
    PROVE  Calls' = [Calls EXCEPT ![i] = x] /\ Given' = [Given EXCEPT ![i] = g]
  BY DEF SeenSame, Calls, Given

-----------------------------------------------------------------------------

LEMMA ConnBoundThen ==
    ASSUME BInv', nconn' \in Nat
    PROVE  nconn' \in 0..(2 * Cardinality(Instance))
  <1>1. Served' \subseteq Instance /\ Past' \subseteq Instance BY DEF Served, Past
  <1>2. PICK s, r, n : s = Cardinality(Served') /\ r = Cardinality(Past') /\ n = Cardinality(Instance)
    OBVIOUS
  <1>3. s \in Nat /\ r \in Nat /\ n \in Nat /\ s <= n /\ r <= n BY <1>1, <1>2, InstancesFinite
  <1>4. nconn' <= s + r BY <1>2 DEF BInv
  <1>5. nconn' <= 2 * n BY <1>3, <1>4
  <1> QED BY <1>2, <1>3, <1>5

(* A step of the web process of instance i.                                 *)
LEMMA InstancesSeen ==
    ASSUME IInv, WInv, NInv, DInv, BInv, BInv', UInv, NEW i \in Instance,
           \/ Initialize(i) \/ Destroy(i) \/ GotConnection(i) \/ GotNothing(i) \/ GotGarbage(i)
           \/ CreateReturns(i) \/ DestroyReturns(i) \/ CallTimesOut(i)
    PROVE  BrokerSteps
  <1>0. /\ nconn \in Nat /\ phase \in [Instance -> Phase] /\ answer \in [Instance -> Int]
        /\ webEnd \in [Conn -> EndState]
    BY DEF IInv, LineOK, WInv, QueuesOK, UInv, EndsOK
  <1>1. /\ \A j \in Instance \ {i} : phase'[j] = phase[j] /\ answer'[j] = answer[j]
        /\ phase'[i] = "asking" => Initialize(i) /\ answer[i] = NoAnswer /\ answer'[i] = NoAnswer
        /\ phase[i] = "asking" => GotConnection(i) \/ GotNothing(i) \/ GotGarbage(i)
    BY InstancesAnswers
  <1>2. \A j \in Instance \ {i} : SeenSame(j) BY <1>1, NothingSeen
  <1>3. EndsOnly BY WebEnds
  <1>4. CASE phase[i] # "asking" /\ phase'[i] # "asking"
    <2>1. SeenSame(i) BY <1>4, NothingSeen
    <2>2. \/ Initialize(i) \/ Destroy(i) \/ CreateReturns(i) \/ DestroyReturns(i) \/ CallTimesOut(i)
      BY <1>4 DEF GotConnection, GotNothing, GotGarbage, Waits
    <2>3. EndsOld BY <2>2, ReturnsOld
    <2> QED BY <1>2, <1>3, <2>1, <2>3, Stutters
  <1>5. CASE phase'[i] = "asking"
    <2>1. Initialize(i) /\ answer'[i] = NoAnswer BY <1>1, <1>5
    <2>2. phase[i] # "asking" BY <2>1 DEF Initialize
    <2>3. PICK x, g : x = "waiting" /\ g = 0 OBVIOUS
    <2>4. CallOf(i)' = x /\ GivenTo(i)' = g BY <1>5, <2>1, <2>3 DEF CallOf, GivenTo, Answered
    <2>5. CallOf(i) = "idle" /\ GivenTo(i) = g BY <2>2, <2>3 DEF CallOf, GivenTo, Answered
    <2>6. Calls' = [Calls EXCEPT ![i] = x] BY <1>2, <2>4, SeenStep
    <2>7. \A j \in Instance : GivenTo(j)' = GivenTo(j) BY <1>2, <2>4, <2>5 DEF SeenSame
    <2>8. EndsOld BY <2>1, ReturnsOld
    <2>9. UNCHANGED UsedConns BY <1>3, <2>7, <2>8, SameUsed
    <2>10. UNCHANGED Given BY <2>7 DEF Given
    <2>11. Calls[i] = "idle" BY <2>5 DEF Calls
    <2> QED BY <2>3, <2>6, <2>9, <2>10, <2>11, AskStep
  <1>6. CASE phase[i] = "asking" /\ phase'[i] # "asking"
    <2>1. PICK x, g : x = "idle" /\ g = 0 OBVIOUS
    <2>2. CallOf(i)' = x /\ GivenTo(i)' = g BY <1>6, <2>1 DEF CallOf, GivenTo, Answered
    <2>3. Calls' = [Calls EXCEPT ![i] = x] /\ Given' = [Given EXCEPT ![i] = g]
      BY <1>2, <2>2, SeenStep
    <2>4. CASE GotNothing(i)
      <3>1. answer[i] = Failed BY <2>4 DEF GotNothing
      <3>2. CallOf(i) = "refused" /\ GivenTo(i) = 0
        BY <1>6, <3>1 DEF CallOf, GivenTo, Answered, Failed, NoAnswer
      <3>3. \A j \in Instance : GivenTo(j)' = GivenTo(j) BY <1>2, <2>1, <2>2, <3>2 DEF SeenSame
      <3>4. EndsOld BY <2>4, ReturnsOld
      <3>5. UNCHANGED UsedConns BY <1>3, <3>3, <3>4, SameUsed
      <3>6. Calls[i] \in {"given", "refused"} BY <3>2 DEF Calls
      <3> QED BY <2>1, <2>3, <3>5, <3>6, ReturnStep
    <2>5. CASE GotConnection(i)
      <3>1. PICK c : c = answer[i] OBVIOUS
      <3>2. c > 0 /\ webEnd' = [webEnd EXCEPT ![c] = "open"] BY <2>5, <3>1 DEF GotConnection, Enter
      <3>3. Got(i) /\ c # NoAnswer /\ c # Failed /\ c # 0
        BY <1>0, <1>6, <3>1, <3>2 DEF Got, NoAnswer, Failed
      <3>4. c \in Conn
        <4>1. MadeBy(PathOf[i], c) BY <3>1, <3>3 DEF NInv, AnswersOK
        <4> QED BY <1>0, <4>1, ConnBound DEF MadeBy
      <3>5. CallOf(i) = "given" /\ GivenTo(i) = c
        BY <1>6, <3>1, <3>2, <3>3 DEF CallOf, GivenTo, Answered
      <3>6. \A d \in Conn : (webEnd'[d] # "none") <=> (webEnd[d] # "none" \/ d = c)
        BY <1>0, <3>2, <3>4
      <3>7. \A d : d \in UsedConns' <=> d \in UsedConns
        <4> SUFFICES ASSUME NEW d PROVE d \in UsedConns' <=> d \in UsedConns OBVIOUS
        <4>1. d # 0 /\ (\E j \in Instance : GivenTo(j)' = d) => \E j \in Instance : GivenTo(j) = d
          BY <1>2, <2>1, <2>2 DEF SeenSame
        <4>2. d # c /\ (\E j \in Instance : GivenTo(j) = d) => \E j \in Instance : GivenTo(j)' = d
          BY <1>2, <3>5 DEF SeenSame
        <4>3. c \in UsedConns /\ c \in UsedConns'
          BY <3>3, <3>4, <3>5, <3>6, UsedConnsAre, UsedConnsAreThen
        <4> QED BY <3>6, <4>1, <4>2, <4>3, UsedConnsAre, UsedConnsAreThen
      <3>8. UNCHANGED UsedConns BY <3>7
      <3>9. Calls[i] \in {"given", "refused"} BY <3>5 DEF Calls
      <3> QED BY <2>1, <2>3, <3>8, <3>9, ReturnStep
    <2>6. CASE GotGarbage(i)
      <3>1. PICK c : c = nconn + 1 OBVIOUS
      <3>2. answer[i] = Failed /\ nconn' = c /\ webEnd' = [webEnd EXCEPT ![c] = "bogus"]
        BY <2>6, <3>1 DEF GotGarbage, Enter
      <3>3. c \in Conn
        <4>1. PICK n, N : n = nconn' /\ N = Cardinality(Instance) OBVIOUS
        <4>2. n \in Nat /\ n >= 1 /\ n = c BY <1>0, <3>1, <3>2, <4>1
        <4>3. nconn' \in 0..(2 * Cardinality(Instance)) BY <4>1, <4>2, ConnBoundThen
        <4> QED BY <4>1, <4>2, <4>3 DEF Conn
      <3>4. GivenTo(i) = 0
        BY <1>6, <3>2 DEF GivenTo, Answered, Failed, NoAnswer
      <3>5. \A j \in Instance : GivenTo(j)' = GivenTo(j) BY <1>2, <2>1, <2>2, <3>4 DEF SeenSame
      <3>6. \A d \in Conn : (webEnd'[d] # "none") <=> (webEnd[d] # "none" \/ d = c)
        BY <1>0, <3>2, <3>3
      <3>7. \A d : d \in UsedConns' <=> (d \in UsedConns \/ d = c)
        BY <3>3, <3>5, <3>6, UsedConnsAre, UsedConnsAreThen
      <3>8. PICK I, C : I = {i} /\ C = {c} OBVIOUS
      <3>9. UsedConns' = UsedConns \cup C BY <3>7, <3>8
      <3>10. I \in SUBSET Instance /\ C \in SUBSET Conn BY <3>3, <3>8
      <3>11. /\ Calls' = [j \in Instance |-> IF j \in I THEN "idle" ELSE Calls[j]]
             /\ Given' = [j \in Instance |-> IF j \in I THEN 0 ELSE Given[j]]
        BY <2>1, <2>3, <3>8 DEF Calls, Given
      <3> QED BY <3>9, <3>10, <3>11, VanishStep
    <2> QED BY <1>1, <1>6, <2>4, <2>5, <2>6
  <1> QED BY <1>4, <1>5, <1>6

-----------------------------------------------------------------------------

LEMMA MadeConn ==
    ASSUME IInv, BInv, NEW p, NEW c, MadeBy(p, c)
    PROVE  c \in Conn
  <1>1. nconn \in Nat BY DEF IInv
  <1> QED BY <1>1, ConnBound DEF MadeBy

(* A connection on its way to a web process was used by nobody.             *)
LEMMA HeldIsUnused ==
    ASSUME HInv, NEW h \in Holder, NEW c \in Conn, Held(h, c) > 0,
           \A i \in Instance : h # [at |-> "call", of |-> i]
    PROVE  c \notin UsedConns
  <1>1. c \in Numbers BY DEF Conn, Numbers
  <1>2. webEnd[c] = "none" BY DEF HInv, HeldUnused
  <1>3. ASSUME NEW i \in Instance, GivenTo(i) = c PROVE FALSE
    <2>1. Got(i) /\ answer[i] = c BY <1>1, <1>3 DEF GivenTo, Answered, Got, Numbers
    <2>2. PICK g : g = [at |-> "call", of |-> i] OBVIOUS
    <2>3. g \in Holder /\ Held(g, c) = AtCall(i, c) BY <2>2, TheHolders
    <2>4. Held(g, c) > 0 BY <2>1, <2>3 DEF AtCall
    <2>5. h = g BY <1>1, <2>3, <2>4 DEF HInv, OneHolder
    <2> QED BY <2>2, <2>5
  <1> QED BY <1>2, <1>3, UsedConnsAre

LEMMA ReceivedSeen ==
    ASSUME IInv, WInv, NInv, BInv, UInv, HInv, NEW w \in Web, ReceiveFromUI(w)
    PROVE  BrokerSteps
  <1>0. /\ phase \in [Instance -> Phase] /\ answer \in [Instance -> Int]
        /\ toWeb[w] \in Seq(WebMessage)
    BY DEF IInv, LineOK, WInv, QueuesOK
  <1>1. PICK m : m = Head(toWeb[w]) OBVIOUS
  <1>2. /\ toWeb[w] # << >> /\ alive[w] /\ UNCHANGED phase
        /\ \/ m.op = "reply" /\ answer' = [answer EXCEPT ![m.instance] = m.conn] /\ UNCHANGED webEnd
           \/ m.op = "crashed" /\ UNCHANGED answer
    BY <1>1 DEF ReceiveFromUI
  <1>3. CASE m.op = "crashed" /\ UNCHANGED answer
    <2>1. \A i \in Instance : SeenSame(i) BY <1>2, <1>3, NothingSeen
    <2> QED BY <2>1, ReceivedOld, ReceivedEnds, Stutters
  <1>4. CASE m.op = "reply" /\ answer' = [answer EXCEPT ![m.instance] = m.conn] /\ UNCHANGED webEnd
    <2>1. PICK i, c : i = m.instance /\ c = m.conn OBVIOUS
    <2>2. /\ m \in WebMessage /\ i \in Instance /\ OwnerOf[i] = w
          /\ phase[i] = "asking" /\ answer[i] = NoAnswer
      BY <1>1, <1>2, <1>4, <2>1, ReplyAwaited
    <2>3. answer'[i] = c /\ \A j \in Instance \ {i} : answer'[j] = answer[j] BY <1>0, <1>4, <2>1, <2>2
    <2>4. \A j \in Instance \ {i} : SeenSame(j) BY <1>2, <2>3, NothingSeen
    <2>5. CallOf(i) = "waiting" /\ GivenTo(i) = 0 BY <2>2 DEF CallOf, GivenTo, Answered
    <2>6. Calls[i] = "waiting" BY <2>2, <2>5 DEF Calls
    <2>7. phase'[i] = "asking" BY <1>2, <2>2
    <2>8. CASE c = Failed
      <3>1. PICK x, g : x = "refused" /\ g = 0 OBVIOUS
      <3>2. CallOf(i)' = x /\ GivenTo(i)' = g
        BY <2>3, <2>7, <2>8, <3>1 DEF CallOf, GivenTo, Answered, Failed, NoAnswer
      <3>3. Calls' = [Calls EXCEPT ![i] = x] BY <2>2, <2>4, <3>2, SeenStep
      <3>4. \A j \in Instance : GivenTo(j)' = GivenTo(j) BY <2>4, <2>5, <3>1, <3>2 DEF SeenSame
      <3>5. UNCHANGED Given BY <3>4 DEF Given
      <3>6. EndsOld BY <1>4 DEF EndsOld
      <3>7. UNCHANGED UsedConns BY <3>4, <3>6, ReceivedEnds, SameUsed
      <3> QED BY <2>2, <2>6, <3>1, <3>3, <3>5, <3>7, RefuseStep
    <2>9. CASE c # Failed
      <3>1. c \in Numbers BY <1>4, <2>1, <2>2, <2>9 DEF WebMessage, Numbers
      <3>2. m \in Bringing(c) BY <1>4, <2>1, <2>2 DEF Bringing
      <3>3. 1 \in DOMAIN toWeb[w] /\ toWeb[w][1] = m BY <1>0, <1>1, <1>2
      <3>4. AtWeb(w, c) \in Nat /\ AtWeb(w, c) # 0 BY <1>0, <3>2, <3>3, CountType DEF AtWeb
      <3>5. c \in Conn
        <4>1. Brings(m) BY <1>4, <2>1, <3>1 DEF Brings, Numbers
        <4>2. MadeBy(PathOf[i], c) BY <2>1, <3>3, <4>1 DEF NInv, RepliesOK
        <4> QED BY <4>2, MadeConn
      <3>6. c \notin UsedConns
        <4>1. PICK f : f = [at |-> "web", of |-> w] OBVIOUS
        <4>2. f \in Holder /\ Held(f, c) = AtWeb(w, c) BY <4>1, TheHolders
        <4>3. Held(f, c) > 0 BY <3>4, <4>2
        <4>4. f.at = "web" BY <4>1
        <4>5. \A j \in Instance : f # [at |-> "call", of |-> j] BY <4>4
        <4> QED BY <3>5, <4>2, <4>3, <4>5, HeldIsUnused
      <3>7. PICK x : x = "given" OBVIOUS
      <3>8. CallOf(i)' = x /\ GivenTo(i)' = c
        BY <2>3, <2>7, <2>9, <3>1, <3>7 DEF CallOf, GivenTo, Answered, Failed, NoAnswer, Numbers
      <3>9. Calls' = [Calls EXCEPT ![i] = x] /\ Given' = [Given EXCEPT ![i] = c]
        BY <2>2, <2>4, <3>8, SeenStep
      <3>10. \A d : d \in UsedConns' <=> (d \in UsedConns \/ d = c)
        <4> SUFFICES ASSUME NEW d PROVE d \in UsedConns' <=> (d \in UsedConns \/ d = c) OBVIOUS
        <4>1. d # 0 => ((\E j \in Instance : GivenTo(j)' = d)
                          <=> (d = c \/ \E j \in Instance : GivenTo(j) = d))
          BY <2>2, <2>4, <2>5, <3>8 DEF SeenSame
        <4>2. c # 0 BY <3>1 DEF Numbers
        <4> QED BY <1>4, <4>1, <4>2, UsedConnsAre, UsedConnsAreThen
      <3>11. UsedConns' = UsedConns \cup {c} BY <3>10
      <3> QED BY <2>2, <2>6, <3>5, <3>6, <3>7, <3>9, <3>11, GiveStep
    <2> QED BY <2>8, <2>9
  <1> QED BY <1>2, <1>3, <1>4

LEMMA ConnectedSeen ==
    ASSUME IInv, PInv, WInv, NInv, BInv, UInv, HInv, NEW p \in Path, DidCreateWebProcessConnection(p)
    PROVE  BrokerSteps
  <1>0. fromPlugin[p] \in Seq(ChildMessage) BY DEF PInv
  <1>1. PICK x, c : x = Head(fromPlugin[p]) /\ c = x.conn OBVIOUS
  <1>2. /\ fromPlugin[p] # << >> /\ x.op = "connection" /\ UNCHANGED <<phase, answer>>
        /\ UNCHANGED webEnd \/ webEnd' = [webEnd EXCEPT ![c] = "closed"]
    BY <1>1 DEF DidCreateWebProcessConnection, webVars
  <1>3. \A i \in Instance : SeenSame(i) BY <1>2, NothingSeen
  <1>4. CASE UNCHANGED webEnd
    <2>1. EndsOld BY <1>4 DEF EndsOld
    <2> QED BY <1>3, <2>1, ConnectedEnds, Stutters
  <1>5. CASE webEnd' = [webEnd EXCEPT ![c] = "closed"]
    <2>1. x \in ChildMessage /\ 1 \in DOMAIN fromPlugin[p] /\ fromPlugin[p][1] = x BY <1>0, <1>1, <1>2
    <2>2. MadeBy(p, c) BY <1>1, <1>2, <2>1 DEF NInv, ArrivesOK
    <2>3. c \in Conn BY <2>2, MadeConn
    <2>4. x \in Arriving(c) BY <1>1, <1>2, <2>1 DEF Arriving
    <2>5. AtUI(p, c) \in Nat /\ AtUI(p, c) # 0 BY <1>0, <2>1, <2>4, CountType DEF AtUI
    <2>6. PICK f : f = [at |-> "ui", of |-> p] OBVIOUS
    <2>7. f \in Holder /\ Held(f, c) = AtUI(p, c) BY <2>6, TheHolders
    <2>8. Held(f, c) > 0 BY <2>5, <2>7
    <2>9. f.at = "ui" BY <2>6
    <2>10. \A j \in Instance : f # [at |-> "call", of |-> j] BY <2>9
    <2>11. c \notin UsedConns BY <2>3, <2>7, <2>8, <2>10, HeldIsUnused
    <2>12. \A d \in Conn : (webEnd'[d] # "none") <=> (webEnd[d] # "none" \/ d = c)
      BY <1>5, <2>3 DEF UInv, EndsOK
    <2>13. \A d : d \in UsedConns' <=> (d \in UsedConns \/ d = c)
      BY <1>3, <2>3, <2>12, UsedConnsAre, UsedConnsAreThen DEF SeenSame
    <2>14. UsedConns' = UsedConns \cup {c} BY <2>13
    <2>15. UNCHANGED <<Calls, Given>> BY <1>3 DEF SeenSame, Calls, Given
    <2> QED BY <2>3, <2>11, <2>14, <2>15, ThrowAwayStep
  <1> QED BY <1>2, <1>4, <1>5

-----------------------------------------------------------------------------

LEMMA DiesSeen ==
    ASSUME IInv, WInv, NInv, BInv, UInv, NEW w \in Web, WebProcessDies(w)
    PROVE  BrokerSteps
  <1>0. /\ phase \in [Instance -> Phase] /\ answer \in [Instance -> Int]
        /\ webEnd \in [Conn -> EndState]
    BY DEF IInv, LineOK, WInv, QueuesOK, UInv, EndsOK
  <1>1. /\ phase' = [i \in Instance |-> IF OwnerOf[i] = w THEN "gone" ELSE phase[i]]
        /\ UNCHANGED answer
    BY DEF WebProcessDies
  <1>2. PICK I, C : I = {i \in Instance : OwnerOf[i] = w} /\ C = {c \in Conn : c \in Mine(w)}
    OBVIOUS
  <1>3. I \in SUBSET Instance /\ C \in SUBSET Conn BY <1>2
  <1>4. \A i \in Instance \ I : SeenSame(i)
    <2> SUFFICES ASSUME NEW i \in Instance \ I PROVE SeenSame(i) OBVIOUS
    <2>1. phase'[i] = phase[i] /\ answer'[i] = answer[i] BY <1>0, <1>1, <1>2
    <2> QED BY <2>1, NothingSeen
  <1>5. \A i \in I : CallOf(i)' = "idle" /\ GivenTo(i)' = 0
    <2> SUFFICES ASSUME NEW i \in I PROVE CallOf(i)' = "idle" /\ GivenTo(i)' = 0 OBVIOUS
    <2>1. phase'[i] # "asking" BY <1>0, <1>1, <1>2
    <2> QED BY <2>1 DEF CallOf, GivenTo, Answered
  <1>6. /\ Calls' = [i \in Instance |-> IF i \in I THEN "idle" ELSE Calls[i]]
        /\ Given' = [i \in Instance |-> IF i \in I THEN 0 ELSE Given[i]]
    BY <1>3, <1>4, <1>5 DEF SeenSame, Calls, Given
  <1>7. \A c \in Conn : (webEnd'[c] # "none") <=> (webEnd[c] # "none" \/ c \in C)
    <2>1. webEnd' = [c \in Conn |-> IF c \in Mine(w) THEN "closed" ELSE webEnd[c]] BY DiesEnds
    <2> QED BY <1>2, <2>1
  (* What the instances of w were given goes with it.                       *)
  <1>8. ASSUME NEW i \in I, GivenTo(i) # 0 PROVE GivenTo(i) \in C
    <2>1. Got(i) /\ GivenTo(i) = answer[i] BY <1>8 DEF GivenTo, Answered, Got
    <2>2. MadeBy(PathOf[i], answer[i]) BY <1>3, <2>1 DEF NInv, AnswersOK
    <2>3. answer[i] \in Conn BY <2>2, MadeConn
    <2>4. answer[i] \in Mine(w) BY <1>2 DEF Mine
    <2> QED BY <1>2, <2>1, <2>3, <2>4
  <1>9. \A c : c \in UsedConns' <=> (c \in UsedConns \/ c \in C)
    <2> SUFFICES ASSUME NEW c PROVE c \in UsedConns' <=> (c \in UsedConns \/ c \in C) OBVIOUS
    <2>1. c # 0 /\ (\E i \in Instance : GivenTo(i)' = c) => \E i \in Instance : GivenTo(i) = c
      BY <1>4, <1>5 DEF SeenSame
    <2>2. c # 0 /\ (\E i \in Instance : GivenTo(i) = c)
            => c \in C \/ \E i \in Instance : GivenTo(i)' = c
      BY <1>4, <1>8 DEF SeenSame
    <2> QED BY <1>3, <1>7, <2>1, <2>2, UsedConnsAre, UsedConnsAreThen
  <1>10. UsedConns' = UsedConns \cup C BY <1>9
  <1> QED BY <1>3, <1>6, <1>10, VanishStep

(* Every other step leaves what the callers see alone.                      *)
LEMMA CallsAreLeft ==
    ASSUME UInv, UNCHANGED <<phase, webEnd>>,
           \A j \in Instance : phase[j] = "asking" => answer'[j] = answer[j]
    PROVE  BrokerSteps
  <1>1. ASSUME NEW i \in Instance PROVE SeenSame(i)
    <2>1. (phase'[i] = "asking") <=> (phase[i] = "asking") OBVIOUS
    <2>2. phase[i] = "asking" => answer'[i] = answer[i] OBVIOUS
    <2> QED BY <2>1, <2>2, NothingSeen
  <1>2. EndsOld BY DEF EndsOld
  <1> QED BY <1>1, <1>2, EndsSame, Stutters

LEMMA NothingToSee ==
    ASSUME UInv, UNCHANGED <<phase, answer, webEnd>>
    PROVE  BrokerSteps
  <1>1. \A j \in Instance : phase[j] = "asking" => answer'[j] = answer[j] OBVIOUS
  <1> QED BY <1>1, CallsAreLeft

LEMMA NextSeen ==
    ASSUME AskingOK, IInv, PInv, WInv, NInv, DInv, BInv, UInv, HInv, [Next]_vars
    PROVE  BrokerSteps
  <1>0. BInv' BY NextBInv
  <1>1. CASE Environment
    <2>1. ASSUME NEW p \in Path, PluginProcessDies(p) \/ TerminationTimerFires(p) PROVE BrokerSteps
      BY <2>1, NothingToSee DEF PluginProcessDies, TerminationTimerFires, webVars
    <2>2. ASSUME NEW p \in Path, NEW i \in Instance, EnterPlugin(p, i) PROVE BrokerSteps
      BY <2>2, NothingToSee DEF EnterPlugin, lineVars, webVars
    <2>3. ASSUME NEW s \in SiteCallback, GetSiteData(s) PROVE BrokerSteps
      BY <2>3, NothingToSee DEF GetSiteData, lineVars, webVars
    <2> QED BY <1>0, <1>1, <2>1, <2>2, <2>3, InstancesSeen, DiesSeen DEF Environment
  <1>2. CASE UIProcess
    <2>1. ASSUME NEW p \in Path,
                 LaunchProcess(p) \/ DidFinishLaunching(p) \/ DidGetSiteData(p) \/ DidClose(p)
          PROVE  BrokerSteps
      BY <2>1, NothingToSee
         DEF LaunchProcess, DidFinishLaunching, DidGetSiteData, DidClose, lineVars, webVars
    <2>2. ASSUME NEW w \in Web, ReceiveGetConnection(w) \/ ReceiveTimedOut(w) PROVE BrokerSteps
      BY <2>2, NothingToSee DEF ReceiveGetConnection, ReceiveTimedOut, lineVars, webVars
    <2> QED BY <1>2, <2>1, <2>2, ConnectedSeen DEF UIProcess
  <1>3. ASSUME NEW p \in Path, PluginProcessStep(p) PROVE BrokerSteps
    <2>1. UNCHANGED <<phase, webEnd>>
      BY <1>3 DEF PluginProcessStep, ReceiveInitialize, CreateConnection, HandleSiteData,
                  EndCreatePlugin, LeavePlugin, BeginCreatePlugin, DestroyPlugin,
                  WebProcessConnectionDidClose, DestroyTimerFires, lineVars, webVars
    <2>2. PICK a, b \in {"creating", "destroying"} : a = "creating" /\ b = "destroying" OBVIOUS
    <2>3. CASE EndCreatePlugin(p)
      <3>1. PICK i, c, v : UNCHANGED answer \/ Reply(i, c, "creating", v)
        BY <2>3 DEF EndCreatePlugin
      <3>2. \A j \in Instance : phase[j] = "asking" => answer'[j] = answer[j]
        BY <2>1, <2>2, <3>1, RepliedAnswers
      <3> QED BY <2>1, <3>2, CallsAreLeft
    <2>4. ASSUME NEW c \in Conn, DestroyPlugin(p, c) PROVE BrokerSteps
      <3>1. PICK i, v : UNCHANGED answer \/ Reply(i, c, "destroying", v)
        BY <2>4 DEF DestroyPlugin
      <3>2. \A j \in Instance : phase[j] = "asking" => answer'[j] = answer[j]
        BY <2>1, <2>2, <3>1, RepliedAnswers
      <3> QED BY <2>1, <3>2, CallsAreLeft
    <2>5. CASE UNCHANGED answer BY <2>1, <2>5, NothingToSee
    <2>6. EndCreatePlugin(p) \/ (\E c \in Conn : DestroyPlugin(p, c)) \/ UNCHANGED answer
      BY <1>3 DEF PluginProcessStep, ReceiveInitialize, CreateConnection, HandleSiteData,
                  LeavePlugin, BeginCreatePlugin, WebProcessConnectionDidClose,
                  DestroyTimerFires, webVars
    <2> QED BY <2>3, <2>4, <2>5, <2>6
  <1>4. ASSUME NEW w \in Web, WebProcess(w) PROVE BrokerSteps
    BY <1>0, <1>4, InstancesSeen, ReceivedSeen DEF WebProcess
  <1>5. ASSUME NEW c \in Conn, HangUp(c) PROVE BrokerSteps
    <2>1. UNCHANGED <<phase, answer>> BY <1>5 DEF HangUp, webVars
    <2>2. \A i \in Instance : SeenSame(i) BY <2>1, NothingSeen
    <2> QED BY <1>5, <2>2, HungUpOld, NextEnds, Stutters
  <1>6. CASE UNCHANGED vars BY <1>6, NothingToSee DEF vars
  <1> QED BY <1>1, <1>2, <1>3, <1>4, <1>5, <1>6 DEF Next

LEMMA InitSeen == Init => Broker!Init
  <1> SUFFICES ASSUME Init PROVE Broker!Init OBVIOUS
  <1>1. \A i \in Instance : phase[i] # "asking" BY DEF Init
  <1>2. \A i \in Instance : CallOf(i) = "idle" /\ GivenTo(i) = 0
    BY <1>1 DEF CallOf, GivenTo, Answered
  <1>3. Calls = [i \in Instance |-> "idle"] /\ Given = [i \in Instance |-> 0]
    BY <1>2 DEF Calls, Given
  <1>4. \A c : c \notin UsedConns
    <2>1. \A c \in Conn : webEnd[c] = "none" BY DEF Init
    <2> QED BY <1>2, <2>1, UsedConnsAre
  <1>5. UsedConns = {} BY <1>4
  <1> QED BY <1>3, <1>5 DEF Broker!Init, Calls, CallOf, Given, GivenTo, UsedConns

(* Every call of getPluginProcessConnection is answered as ConnectionBroker *)
(* says: with a connection that no other call was given and that was not    *)
(* thrown away, or with none.                                               *)
THEOREM BrokerImplemented == Spec => ImplementsBroker
  <1>1. AskingOK /\ IInv /\ PInv /\ WInv /\ NInv /\ DInv /\ BInv /\ UInv /\ HInv /\ [Next]_vars
          => BrokerSteps
    BY NextSeen
  <1>2. BrokerSteps => [Broker!Next]_<<Calls, Given, UsedConns>> BY DEF BrokerSteps
  <1> QED BY <1>1, <1>2, InitSeen, AlwaysHInv, PTL
          DEF Spec, ImplementsBroker, Broker!Spec, BrokerSteps, Calls, CallOf, Given, GivenTo, UsedConns
=============================================================================
