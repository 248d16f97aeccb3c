------------------------- MODULE VisitedLinksProofs -------------------------
(***************************************************************************)
(* Proofs about visited links, for every set of links, every set of table  *)
(* sizes and every number of additions, launches and failures:             *)
(*                                                                         *)
(*   a probe of a table ends: TablesAreHalfEmpty is not inductive, since   *)
(*   the entries of a table are bounded by m_keyCount, which counts links  *)
(*   added again as well, the size was chosen for m_keyCount, and the      *)
(*   links that wait are counted before they are written (IInv);           *)
(*                                                                         *)
(*   links wait for a timer that runs;                                     *)
(*                                                                         *)
(*   a document at rest shows the links that were added, and no others: a  *)
(*   statement about the messages on their way leads to it (ShownInv).     *)
(***************************************************************************)
EXTENDS VisitedLinks, FiniteSetTheorems, SequenceTheorems, WellFoundedInduction, TLAPS

(* What waits has been counted by a call of addVisitedLink, and the table    *)
(* was made for all its keys.                                               *)
KeysAreCounted ==
    /\ keyCount + Cardinality(pending) <= adds
    /\ adds <= MaxAdds
    /\ Cardinality(Table) <= keyCount
    /\ 2 * keyCount <= tableSize

IInv == TypeOK /\ KeysAreCounted /\ TablesAreHalfEmpty

-----------------------------------------------------------------------------
(* A set of links has a size, and a union no more than its parts together.  *)
LEMMA LinkSets ==
    ASSUME NEW S \in SUBSET Link, NEW T \in SUBSET Link
    PROVE  /\ Cardinality(S) \in Nat
           /\ Cardinality(S \cup T) \in Nat
           /\ Cardinality(S \cup T) <= Cardinality(S) + Cardinality(T)
  <1>1. IsFiniteSet(S) /\ IsFiniteSet(T)
    BY VisitedAssumption, FS_Subset
  <1>2. IsFiniteSet(S \cup T) /\ IsFiniteSet(S \cap T)
    BY <1>1, FS_Union, FS_Intersection
  <1>3. /\ Cardinality(S) \in Nat /\ Cardinality(T) \in Nat
        /\ Cardinality(S \cup T) \in Nat /\ Cardinality(S \cap T) \in Nat
    BY <1>1, <1>2, FS_CardinalityType
  <1>4. Cardinality(S \cup T)
            = Cardinality(S) + Cardinality(T) - Cardinality(S \cap T)
    BY <1>1, FS_Union
  <1> QED BY <1>3, <1>4

LEMMA Singleton == ASSUME NEW l \in Link PROVE Cardinality({l}) = 1
  BY FS_Singleton

LEMMA Empty == Cardinality({}) = 0
  BY FS_EmptySet

(* nextPowerOf2 finds the smallest size: a set of numbers has a least one.  *)
LEMMA LeastNumber ==
    ASSUME NEW T, T \subseteq Nat, T # {}
    PROVE  \E x \in T : \A y \in T : x <= y
  <1>1. PICK x \in T : \A y \in T : ~(<<y, x>> \in OpToRel(<, Nat))
    BY NatLessThanWellFounded, WFMin
  <1>2. ASSUME NEW y \in T PROVE x <= y
    <2>1. ~(y < x)
      BY <1>1 DEF OpToRel
    <2> QED BY <2>1
  <1> QED BY <1>2

(* tableSizeForKeyCount returns a size that leaves half of the table empty. *)
LEMMA SizeFits ==
    ASSUME NEW n \in 0..MaxAdds
    PROVE  /\ TableSizeForKeyCount(n) \in TableSizes
           /\ TableSizeForKeyCount(n) >= 2 * n
  <1> DEFINE T == {t \in TableSizes : t >= 2 * n}
  <1>1. n \in Nat /\ TableSizes \subseteq Nat /\ MinTableSize \in TableSizes
    BY VisitedAssumption
  <1>2. PICK fits \in TableSizes : fits >= 2 * n
    BY VisitedAssumption
  <1>3. \E x \in T : \A y \in T : x <= y
    <2>1. T # {}
      BY <1>2
    <2>2. T \subseteq Nat
      BY <1>1
    <2> QED BY <2>1, <2>2, LeastNumber
  <1> DEFINE Least(x) == x >= 2 * n /\ \A u \in TableSizes : u >= 2 * n => x <= u
  <1>4. \E x \in TableSizes : Least(x)
    BY <1>3
  <1>5. n # 0 => NextPowerOf2(2 * n) \in TableSizes /\ NextPowerOf2(2 * n) >= 2 * n
    <2>1. n # 0 => NextPowerOf2(2 * n) = CHOOSE x \in TableSizes : Least(x)
      <3>1. n # 0 => 2 * n # 0
        BY <1>1
      <3> QED BY <3>1 DEF NextPowerOf2
    <2>2. /\ (CHOOSE x \in TableSizes : Least(x)) \in TableSizes
          /\ Least(CHOOSE x \in TableSizes : Least(x))
      <3> HIDE DEF Least
      <3> QED BY <1>4, Zenon
    <2> QED BY <2>1, <2>2
  <1>6. n * VisitedLinkTableMaxLoad = 2 * n
    BY <1>1 DEF VisitedLinkTableMaxLoad
  <1>7. CASE n = 0
    BY <1>1, <1>6, <1>7, VisitedAssumption DEF TableSizeForKeyCount, NextPowerOf2
  <1>8. CASE n # 0
    <2> DEFINE p == NextPowerOf2(2 * n)
    <2>1. TableSizeForKeyCount(n) = IF p < MinTableSize THEN MinTableSize ELSE p
      BY <1>6, Zenon DEF TableSizeForKeyCount
    <2>2. p \in TableSizes /\ p >= 2 * n
      BY <1>5, <1>8
    <2> HIDE DEF p
    <2> QED BY <1>1, <2>1, <2>2
  <1> QED BY <1>7, <1>8

-----------------------------------------------------------------------------
(* The actions, by the part of IInv they disturb.                           *)

(* Adding links, and the steps that only start or stop the timer.           *)
LEMMA AddingCounts ==
    ASSUME IInv, NEW S \in SUBSET Link, NEW b \in BOOLEAN, AddVisitedLinks(S, b),
           UNCHANGED <<keyCount, tableSize, memory>>
    PROVE  /\ KeysAreCounted' /\ TablesAreHalfEmpty'
           /\ adds' \in Nat /\ added' \in SUBSET Link
           /\ pending' \in SUBSET Link /\ timer' \in BOOLEAN
  <1>1. /\ pending' = pending \cup S /\ added' = added \cup S
        /\ adds' = adds + Cardinality(S) /\ adds' <= MaxAdds
        /\ timer' = (b \/ S # {})
    BY DEF AddVisitedLinks
  <1>2. /\ pending \in SUBSET Link /\ added \in SUBSET Link
        /\ adds \in Nat /\ keyCount \in Nat
    BY DEF IInv, TypeOK
  <1>3. /\ Cardinality(S) \in Nat /\ Cardinality(pending) \in Nat
        /\ Cardinality(pending') \in Nat
        /\ Cardinality(pending') <= Cardinality(pending) + Cardinality(S)
    BY <1>1, <1>2, LinkSets
  <1>4. keyCount' + Cardinality(pending') <= adds'
    BY <1>1, <1>2, <1>3 DEF IInv, KeysAreCounted
  <1>5. Table' = Table
    BY DEF Table
  <1>6. KeysAreCounted'
    BY <1>1, <1>4, <1>5 DEF IInv, KeysAreCounted
  <1>7. TablesAreHalfEmpty'
    BY DEF IInv, TablesAreHalfEmpty
  <1>8. timer' \in BOOLEAN
    BY <1>1
  <1> QED BY <1>1, <1>2, <1>3, <1>6, <1>7, <1>8

(* The timer writes what waits into a table made for all of it.             *)
LEMMA WritingFits ==
    ASSUME IInv, TableWritten, pending' = {}, UNCHANGED count
    PROVE  /\ KeysAreCounted' /\ TablesAreHalfEmpty'
           /\ memory' \in [TableSizes -> SUBSET Link]
           /\ tableSize' \in TableSizes /\ keyCount' \in Nat
  <1> DEFINE n == keyCount + Cardinality(pending)
             size == NewTableSize
             all == Table \cup pending
  <1>1. /\ memory' = [memory EXCEPT ![size] = all]
        /\ tableSize' = size /\ keyCount' = n
    BY DEF TableWritten, Rehash
  <1>2. /\ keyCount \in Nat /\ adds \in Nat
        /\ pending \in SUBSET Link
        /\ memory \in [TableSizes -> SUBSET Link]
        /\ tableSize \in TableSizes \cup {NoTable}
    BY DEF IInv, TypeOK
  <1>3. Table \in SUBSET Link
    BY <1>2 DEF Table
  <1>4. /\ Cardinality(pending) \in Nat /\ Cardinality(Table) \in Nat
        /\ Cardinality(all) \in Nat
        /\ Cardinality(all) <= Cardinality(Table) + Cardinality(pending)
    BY <1>2, <1>3, LinkSets
  <1>5. n \in 0..MaxAdds /\ n <= adds /\ Cardinality(all) <= n
    BY <1>2, <1>4, VisitedAssumption DEF IInv, KeysAreCounted
  <1>6. size \in TableSizes /\ size >= 2 * n
    BY <1>5, SizeFits DEF NewTableSize
  <1>7. size \in Nat \ {0} /\ TableSizes \subseteq Nat \ {0}
    BY <1>6, VisitedAssumption
  <1>8. Table' = all
    BY <1>1, <1>2, <1>6, <1>7 DEF Table, NoTable
  <1>9. KeysAreCounted'
    BY <1>1, <1>2, <1>4, <1>5, <1>6, <1>7, <1>8, Empty
    DEF IInv, KeysAreCounted, count
  <1>10. ASSUME NEW t \in TableSizes PROVE 2 * Cardinality(memory'[t]) <= t
    <2>1. CASE t = size
      BY <1>1, <1>2, <1>4, <1>5, <1>6, <1>7, <2>1
    <2>2. CASE t # size
      BY <1>1, <1>2, <2>2 DEF IInv, TablesAreHalfEmpty
    <2> QED BY <2>1, <2>2
  <1>11. memory' \in [TableSizes -> SUBSET Link]
    BY <1>1, <1>2, <1>3
  <1>12. TablesAreHalfEmpty'
    BY <1>10 DEF TablesAreHalfEmpty
  <1>13. tableSize' \in TableSizes /\ keyCount' \in Nat
    BY <1>1, <1>5, <1>6
  <1> QED BY <1>9, <1>11, <1>12, <1>13

(* Steps that leave the counts and the tables alone.                        *)
LEMMA NothingCounted ==
    ASSUME IInv, UNCHANGED <<keyCount, tableSize, pending, adds, memory>>
    PROVE  KeysAreCounted' /\ TablesAreHalfEmpty'
  BY DEF IInv, KeysAreCounted, TablesAreHalfEmpty, Table

(* What the provider sends is well formed.                                  *)
LEMMA MessagesAreTyped ==
    ASSUME IInv, NewTableSize \in TableSizes
    PROVE  StateMessages \in Seq(Messages)
  <1>1. pending \ Table \in SUBSET Link
    BY DEF IInv, TypeOK
  <1>2. /\ SetVisitedLinkTable(NewTableSize) \in Messages
        /\ VisitedLinkStateChanged(pending \ Table) \in Messages
        /\ AllVisitedLinkStateChanged \in Messages
    BY <1>1 DEF Messages, SetVisitedLinkTable, VisitedLinkStateChanged,
                AllVisitedLinkStateChanged
  <1> DEFINE first == IF SendsTable THEN <<SetVisitedLinkTable(NewTableSize)>>
                      ELSE << >>
             second == IF hasState /\ Cardinality(pending \ Table) <= MaxChanged
                       THEN <<VisitedLinkStateChanged(pending \ Table)>>
                       ELSE <<AllVisitedLinkStateChanged>>
  <1>3. first \in Seq(Messages) /\ second \in Seq(Messages)
    BY <1>2
  <1>4. StateMessages = first \o second
    BY DEF StateMessages
  <1> QED BY <1>3, <1>4

-----------------------------------------------------------------------------
(* IInv holds at first.                                                     *)
LEMMA InitIInv == Init => IInv
  <1> SUFFICES ASSUME Init PROVE IInv
    OBVIOUS
  <1>1. TypeOK
    <2>1. /\ populated \in BOOLEAN /\ hasState \in BOOLEAN /\ timer \in BOOLEAN
          /\ alive \in BOOLEAN /\ process \in {"none", "launching", "open"}
      BY Zenon DEF Init
    <2>2. /\ pending \in SUBSET Link /\ added \in SUBSET Link
          /\ dirty \in SUBSET Link
      BY DEF Init
    <2>3. memory \in [TableSizes -> SUBSET Link]
      BY DEF Init
    <2>4. shown \in [Link -> {"unchecked", "unvisited", "visited"}]
      BY DEF Init, Unchecked
    <2>5. toWeb \in Seq(Messages) /\ toUI \in Seq(Link)
      BY DEF Init
    <2>6. /\ keyCount \in Nat /\ adds \in Nat /\ launches \in Nat
          /\ failures \in Nat /\ tableSize \in TableSizes \cup {NoTable}
          /\ mapped \in TableSizes \cup {NoTable}
      BY DEF Init
    <2> QED BY <2>1, <2>2, <2>3, <2>4, <2>5, <2>6, Zenon DEF TypeOK
  <1>2. Table = {}
    BY DEF Init, Table
  <1>3. KeysAreCounted
    BY <1>2, Empty, VisitedAssumption DEF Init, KeysAreCounted, NoTable
  <1>4. ASSUME NEW t \in TableSizes PROVE 2 * Cardinality(memory[t]) <= t
    <2>1. t \in Nat /\ memory[t] = {}
      BY VisitedAssumption DEF Init
    <2> QED BY <2>1, Empty
  <1>5. TablesAreHalfEmpty
    BY <1>4 DEF TablesAreHalfEmpty
  <1> QED BY <1>1, <1>3, <1>5 DEF IInv

(* Every action keeps IInv.                                                 *)
LEMMA NextIInv == IInv /\ [Next]_vars => IInv'
  <1> SUFFICES ASSUME IInv, [Next]_vars PROVE IInv'
    OBVIOUS
  <1> USE DEF provider, count, webVars
  <1>t. TypeOK
    BY DEF IInv
  <1>1. ASSUME NEW l \in Link, AddVisitedLink(l) PROVE IInv'
    <2>1. AddVisitedLinks({l}, timer) /\ {l} \in SUBSET Link /\ timer \in BOOLEAN
      BY <1>1, <1>t DEF AddVisitedLink, TypeOK
    <2>2. /\ KeysAreCounted' /\ TablesAreHalfEmpty'
          /\ adds' \in Nat /\ added' \in SUBSET Link
          /\ pending' \in SUBSET Link /\ timer' \in BOOLEAN
      BY <1>1, <2>1, AddingCounts DEF AddVisitedLink
    <2>3. TypeOK'
      BY <1>1, <1>t, <2>2 DEF AddVisitedLink, TypeOK
    <2> QED BY <2>2, <2>3 DEF IInv
  <1>2. ASSUME AddVisitedLinkHash PROVE IInv'
    <2>1. /\ AddVisitedLinks({Head(toUI)}, timer) /\ {Head(toUI)} \in SUBSET Link
          /\ timer \in BOOLEAN /\ toUI' \in Seq(Link)
      BY <1>2, <1>t DEF AddVisitedLinkHash, TypeOK
    <2>2. /\ KeysAreCounted' /\ TablesAreHalfEmpty'
          /\ adds' \in Nat /\ added' \in SUBSET Link
          /\ pending' \in SUBSET Link /\ timer' \in BOOLEAN
      BY <1>2, <2>1, AddingCounts DEF AddVisitedLinkHash
    <2>3. TypeOK'
      BY <1>2, <1>t, <2>1, <2>2 DEF AddVisitedLinkHash, TypeOK
    <2> QED BY <2>2, <2>3 DEF IInv
  <1>3. ASSUME ProcessDidFinishLaunching PROVE IInv'
    <2>1. PICK S \in SUBSET Link : AddVisitedLinks(S, timer \/ StartTimerForTable)
      BY <1>3 DEF ProcessDidFinishLaunching
    <2>2. (timer \/ StartTimerForTable) \in BOOLEAN
      OBVIOUS
    <2>3. /\ KeysAreCounted' /\ TablesAreHalfEmpty'
          /\ adds' \in Nat /\ added' \in SUBSET Link
          /\ pending' \in SUBSET Link /\ timer' \in BOOLEAN
      BY <1>3, <2>1, <2>2, AddingCounts DEF ProcessDidFinishLaunching
    <2>4. TypeOK'
      BY <1>3, <1>t, <2>3 DEF ProcessDidFinishLaunching, ResendState, TypeOK
    <2> QED BY <2>3, <2>4 DEF IInv
  <1>4. ASSUME PendingVisitedLinksTimerFired PROVE IInv'
    <2>1. CASE CreateFails
      <3>1. pending' = {} /\ UNCHANGED <<keyCount, tableSize, adds, memory>>
        BY <1>4, <2>1 DEF PendingVisitedLinksTimerFired, CreateFails
      <3>2. Table' = Table
        BY <3>1 DEF Table
      <3>3. Cardinality(pending) \in Nat
        BY <1>t, LinkSets DEF TypeOK
      <3>4. KeysAreCounted'
        BY <1>t, <3>1, <3>2, <3>3, Empty DEF IInv, KeysAreCounted, TypeOK
      <3>5. TablesAreHalfEmpty'
        BY <3>1 DEF IInv, TablesAreHalfEmpty
      <3>6. TypeOK'
        <4>1. failures' \in Nat /\ UNCHANGED <<hasState, toWeb>>
          BY <1>t, <2>1 DEF CreateFails, TypeOK
        <4>2. timer' \in BOOLEAN /\ pending' \in SUBSET Link
          BY <1>4, <3>1, Zenon DEF PendingVisitedLinksTimerFired
        <4> QED BY <1>4, <1>t, <3>1, <4>1, <4>2 DEF PendingVisitedLinksTimerFired, TypeOK
      <3> QED BY <3>4, <3>5, <3>6 DEF IInv
    <2>2. CASE TableWritten
      <3>1. /\ KeysAreCounted' /\ TablesAreHalfEmpty'
            /\ memory' \in [TableSizes -> SUBSET Link]
            /\ tableSize' \in TableSizes /\ keyCount' \in Nat
        BY <1>4, <2>2, WritingFits DEF PendingVisitedLinksTimerFired
      <3>2. StateMessages \in Seq(Messages)
        BY <2>2, <3>1, MessagesAreTyped DEF TableWritten
      <3>3. toWeb' \in Seq(Messages)
        <4>1. toWeb \in Seq(Messages)
          BY <1>t DEF TypeOK
        <4>2. toWeb' = toWeb \/ toWeb' = toWeb \o StateMessages
          BY <2>2, Zenon DEF TableWritten, SendToAllProcesses
        <4>3. toWeb \o StateMessages \in Seq(Messages)
          BY <3>2, <4>1
        <4> QED BY <4>1, <4>2, <4>3, Zenon
      <3>4. hasState' \in BOOLEAN /\ failures' \in Nat
        <4>1. hasState \in BOOLEAN /\ failures \in Nat
          BY <1>t DEF TypeOK
        <4>2. /\ hasState' = hasState \/ hasState' = TRUE
              /\ failures' = failures \/ failures' = failures + 1
          BY <2>2, Zenon DEF TableWritten
        <4>3. failures + 1 \in Nat
          BY <4>1
        <4> QED BY <4>1, <4>2, <4>3, Zenon
      <3>5. TypeOK'
        BY <1>4, <1>t, <3>1, <3>3, <3>4
        DEF PendingVisitedLinksTimerFired, TypeOK
      <3> QED BY <3>1, <3>5 DEF IInv
    <2> QED BY <1>4, <2>1, <2>2 DEF PendingVisitedLinksTimerFired
  <1>5. ASSUME EnsureWebProcess \/ ProcessDidClose \/ WebProcessDies PROVE IInv'
    <2>1. UNCHANGED <<keyCount, tableSize, pending, adds, memory>>
      BY <1>5 DEF EnsureWebProcess, ProcessDidClose, WebProcessDies
    <2>2. TypeOK'
      <3>1. CASE EnsureWebProcess
        BY <1>t, <3>1 DEF EnsureWebProcess, TypeOK
      <3>2. CASE ProcessDidClose
        BY <1>t, <3>2 DEF ProcessDidClose, TypeOK
      <3>3. CASE WebProcessDies
        <4>1. shown' \in [Link -> {"unchecked", "unvisited", "visited"}]
          BY <3>3 DEF WebProcessDies, Unchecked
        <4>2. alive' \in BOOLEAN /\ dirty' \in SUBSET Link
          BY <3>3, Zenon DEF WebProcessDies
        <4>3. toWeb' \in Seq(Messages) /\ mapped' \in TableSizes \cup {NoTable}
          BY <3>3 DEF WebProcessDies
        <4> QED BY <1>t, <3>3, <4>1, <4>2, <4>3 DEF WebProcessDies, TypeOK
      <3> QED BY <1>5, <3>1, <3>2, <3>3
    <2> QED BY <2>1, <2>2, NothingCounted DEF IInv
  <1>6. ASSUME NEW l \in Link, CheckLink(l) PROVE IInv'
    <2>1. UNCHANGED <<keyCount, tableSize, pending, adds, memory>>
      BY <1>6 DEF CheckLink
    <2>2. TypeOK'
      BY <1>6, <1>t DEF CheckLink, Style, TypeOK
    <2> QED BY <2>1, <2>2, NothingCounted DEF IInv
  <1>7. ASSUME NEW l \in Link, Visit(l) PROVE IInv'
    <2>1. UNCHANGED <<keyCount, tableSize, pending, adds, memory>>
      BY <1>7 DEF Visit
    <2>2. TypeOK'
      BY <1>7, <1>t DEF Visit, Unchecked, TypeOK
    <2> QED BY <2>1, <2>2, NothingCounted DEF IInv
  <1>8. ASSUME RecalcStyle PROVE IInv'
    <2>1. UNCHANGED <<keyCount, tableSize, pending, adds, memory>>
      BY <1>8 DEF RecalcStyle
    <2>2. TypeOK'
      BY <1>8, <1>t DEF RecalcStyle, Style, TypeOK
    <2> QED BY <2>1, <2>2, NothingCounted DEF IInv
  <1>9. ASSUME ReceiveFromUI PROVE IInv'
    <2>1. UNCHANGED <<keyCount, tableSize, pending, adds, memory>>
      BY <1>9 DEF ReceiveFromUI
    <2>2. Head(toWeb) \in Messages /\ toWeb' \in Seq(Messages)
      BY <1>9, <1>t DEF ReceiveFromUI, TypeOK
    <2>3. /\ mapped' \in TableSizes \cup {NoTable} /\ dirty' \in SUBSET Link
          /\ failures' \in Nat
      BY <1>9, <1>t, <2>2
      DEF ReceiveFromUI, ReceiveTable, ReceiveChanged, ReceiveAllChanged,
          Checked, Messages, TypeOK
    <2>4. TypeOK'
      BY <1>9, <1>t, <2>2, <2>3 DEF ReceiveFromUI, TypeOK
    <2> QED BY <2>1, <2>4, NothingCounted DEF IInv
  <1>10. CASE UNCHANGED vars
    <2>1. UNCHANGED <<keyCount, tableSize, pending, adds, memory>>
      BY <1>10 DEF vars
    <2>2. TypeOK'
      BY <1>10, <1>t DEF vars, TypeOK
    <2> QED BY <2>1, <2>2, NothingCounted DEF IInv
  <1> QED
    BY <1>1, <1>2, <1>3, <1>4, <1>5, <1>6, <1>7, <1>8, <1>9, <1>10 DEF Next

(* Every table of visited links that is made is at least half empty for as  *)
(* long as it is used, so the probes of addLinkHash and isLinkVisited end.  *)
THEOREM TablesStayHalfEmpty == Spec => []TablesAreHalfEmpty
  <1>1. IInv => TablesAreHalfEmpty
    BY DEF IInv
  <1> QED BY <1>1, InitIInv, NextIInv, PTL DEF Spec

(* Links that wait while a process runs and the table has been written have *)
(* a timer: a new process starts one for the links the last one's end left. *)
THEOREM PendingLinksKeepTimer == Spec => []PendingLinksHaveTimer
  <1>1. Init => PendingLinksHaveTimer
    BY DEF Init, PendingLinksHaveTimer
  <1>2. PendingLinksHaveTimer /\ [Next]_vars => PendingLinksHaveTimer'
    <2> SUFFICES ASSUME PendingLinksHaveTimer, [Next]_vars
                 PROVE  PendingLinksHaveTimer'
      OBVIOUS
    <2> USE DEF provider, count, webVars, PendingLinksHaveTimer
    <2>1. ASSUME NEW S, AddVisitedLinks(S, timer), UNCHANGED <<process, keyCount>>
          PROVE  PendingLinksHaveTimer'
      BY <2>1, Zenon DEF AddVisitedLinks
    <2>2. CASE \E l \in Link : AddVisitedLink(l)
      BY <2>1, <2>2 DEF AddVisitedLink
    <2>3. CASE AddVisitedLinkHash
      BY <2>1, <2>3 DEF AddVisitedLinkHash
    <2>4. CASE ProcessDidFinishLaunching
      <3>1. PICK S : AddVisitedLinks(S, timer \/ StartTimerForTable)
        BY <2>4 DEF ProcessDidFinishLaunching
      <3>2. keyCount' = keyCount
        BY <2>4 DEF ProcessDidFinishLaunching
      <3> QED BY <3>1, <3>2, Zenon DEF AddVisitedLinks, StartTimerForTable
    <2>5. CASE EnsureWebProcess \/ ProcessDidClose
      BY <2>5 DEF EnsureWebProcess, ProcessDidClose
    <2>6. CASE PendingVisitedLinksTimerFired
      BY <2>6 DEF PendingVisitedLinksTimerFired
    <2>7. CASE \/ \E l \in Link : CheckLink(l) \/ Visit(l)
               \/ RecalcStyle \/ ReceiveFromUI \/ WebProcessDies
               \/ UNCHANGED vars
      <3>1. UNCHANGED <<process, pending, keyCount, timer>>
        BY <2>7 DEF CheckLink, Visit, RecalcStyle, ReceiveFromUI,
                    WebProcessDies, vars
      <3> QED BY <3>1
    <2> QED BY <2>2, <2>3, <2>4, <2>5, <2>6, <2>7 DEF Next
  <1> QED BY <1>1, <1>2, PTL DEF Spec
-----------------------------------------------------------------------------
(* What becomes of a link, seen from the messages that are on their way.    *)

(* A link is in a table that is mapped.                                     *)
Has(mem, t, l) == t # NoTable /\ l \in mem[t]

(* The tables that the messages of q after the first j bring have it too.   *)
Keeps(mem, q, j, l) ==
    \A i \in DOMAIN q : i > j /\ q[i].op = "table" => Has(mem, q[i].table, l)

(* Table t is mapped once the first j messages of q were received.          *)
Brings(q, mp, j, t) ==
    \/ j = 0 /\ t = mp
    \/ j \in DOMAIN q /\ q[j].op = "table" /\ q[j].table = t

Tells(m, l) == m.op = "all" \/ (m.op = "changed" /\ l \in m.links)

(* The link will be found in the table when its style is next computed ...  *)
Ready(mem, q, mp, sh, d, l) ==
    /\ Has(mem, mp, l) /\ Keeps(mem, q, 0, l)
    /\ sh[l] = "unvisited" => l \in d

(* ... or a message will have it computed, after a table that has the link. *)
Coming(mem, q, mp, l) ==
    \E j \in Nat, t \in TableSizes :
      /\ Brings(q, mp, j, t) /\ Has(mem, t, l) /\ Keeps(mem, q, j, l)
      /\ \E k \in DOMAIN q : k > j /\ Tells(q[k], l)

(* Table t is the one that will be mapped in the end.                       *)
EndsWith(q, mp, t) ==
    \E j \in Nat : Brings(q, mp, j, t) /\ \A i \in DOMAIN q : i > j => q[i].op # "table"

(* Unless shared memory failed, the links of the table reach a process that *)
(* has the provider's state, and the timer runs for one that has not.       *)
Reaches ==
    alive /\ hasState =>
      /\ EndsWith(toWeb, mapped, tableSize)
      /\ \A l \in Table : \/ Ready(memory, toWeb, mapped, shown, dirty, l)
                          \/ Coming(memory, toWeb, mapped, l)

Faultless ==
    /\ added = pending \cup Table
    /\ \A l \in Link : shown[l] = "visited" => l \in added
    /\ alive /\ ~hasState /\ keyCount # 0 => timer
    /\ Reaches

ShownInv ==
    /\ alive => process = "open"
    /\ \A t \in TableSizes : memory[t] \subseteq Table
    /\ failures = 0 => Faultless

(* Tables only grow, so what was found in one stays found.                  *)
LEMMA MoreInTables ==
    ASSUME NEW mem, NEW mem2, NEW q \in Seq(Messages), NEW mp \in TableSizes \cup {NoTable},
           \A t \in TableSizes : mem[t] \subseteq mem2[t], NEW l, NEW sh, NEW d
    PROVE  /\ Ready(mem, q, mp, sh, d, l) => Ready(mem2, q, mp, sh, d, l)
           /\ Coming(mem, q, mp, l) => Coming(mem2, q, mp, l)
  <1>1. \A t \in TableSizes \cup {NoTable} : Has(mem, t, l) => Has(mem2, t, l) BY DEF Has
  <1>2. \A j : Keeps(mem, q, j, l) => Keeps(mem2, q, j, l)
    <2>0. \A i \in DOMAIN q : q[i] \in Messages OBVIOUS
    <2>1. \A i \in DOMAIN q : q[i].table \in TableSizes \cup {NoTable} BY <2>0 DEF Messages
    <2> QED BY <1>1, <2>1 DEF Keeps
  <1>3. Ready(mem, q, mp, sh, d, l) => Ready(mem2, q, mp, sh, d, l) BY <1>1, <1>2 DEF Ready
  <1>4. Coming(mem, q, mp, l) => Coming(mem2, q, mp, l) BY <1>1, <1>2 DEF Coming
  <1> QED BY <1>3, <1>4

(* A message more at the end.                                               *)
LEMMA OneMoreMessage ==
    ASSUME NEW mem, NEW q \in Seq(Messages), NEW m \in Messages, NEW mp, NEW t
    PROVE  /\ \A j : Brings(q, mp, j, t) => Brings(Append(q, m), mp, j, t)
           /\ m.op # "table" /\ EndsWith(q, mp, t) => EndsWith(Append(q, m), mp, t)
           /\ m.op = "table" => EndsWith(Append(q, m), mp, m.table)
           /\ \A l, j : /\ Keeps(mem, q, j, l)
                        /\ m.op = "table" => Has(mem, m.table, l)
                        => Keeps(mem, Append(q, m), j, l)
  <1> DEFINE r == Append(q, m)
  <1>1. /\ DOMAIN q = 1..Len(q) /\ DOMAIN r = 1..(Len(q) + 1) /\ Len(q) \in Nat
        /\ \A i \in DOMAIN q : r[i] = q[i] /\ i \in DOMAIN r
        /\ r[Len(q) + 1] = m
        /\ \A i \in DOMAIN r : i \in DOMAIN q \/ i = Len(q) + 1
    OBVIOUS
  <1> HIDE DEF r
  <1>2. \A j : Brings(q, mp, j, t) => Brings(r, mp, j, t) BY <1>1 DEF Brings
  <1>3. m.op # "table" /\ EndsWith(q, mp, t) => EndsWith(r, mp, t)
    BY <1>1, <1>2 DEF EndsWith
  <1>4. m.op = "table" => EndsWith(r, mp, m.table)
    <2> SUFFICES ASSUME m.op = "table" PROVE EndsWith(r, mp, m.table) OBVIOUS
    <2>1. Len(q) + 1 \in Nat /\ Brings(r, mp, Len(q) + 1, m.table) BY <1>1 DEF Brings
    <2>2. \A i \in DOMAIN r : ~(i > Len(q) + 1) BY <1>1
    <2> QED BY <2>1, <2>2 DEF EndsWith
  <1>5. \A l, j : /\ Keeps(mem, q, j, l)
                  /\ m.op = "table" => Has(mem, m.table, l)
                  => Keeps(mem, r, j, l)
    BY <1>1 DEF Keeps
  <1> QED BY <1>2, <1>3, <1>4, <1>5 DEF r

(* It spoils nothing if the table it brings has the link ...                *)
LEMMA StillReaches ==
    ASSUME NEW mem, NEW q \in Seq(Messages), NEW m \in Messages, NEW mp, NEW l, NEW sh, NEW d,
           m.op = "table" => Has(mem, m.table, l)
    PROVE  /\ Ready(mem, q, mp, sh, d, l) => Ready(mem, Append(q, m), mp, sh, d, l)
           /\ Coming(mem, q, mp, l) => Coming(mem, Append(q, m), mp, l)
  <1> DEFINE r == Append(q, m)
  <1>1. \A j : Keeps(mem, q, j, l) => Keeps(mem, r, j, l) BY OneMoreMessage
  <1>2. \A t, j : Brings(q, mp, j, t) => Brings(r, mp, j, t) BY OneMoreMessage
  <1>3. \A i \in DOMAIN q : r[i] = q[i] /\ i \in DOMAIN r OBVIOUS
  <1> HIDE DEF r
  <1>4. Ready(mem, q, mp, sh, d, l) => Ready(mem, r, mp, sh, d, l) BY <1>1 DEF Ready
  <1>5. Coming(mem, q, mp, l) => Coming(mem, r, mp, l) BY <1>1, <1>2, <1>3 DEF Coming
  <1> QED BY <1>4, <1>5 DEF r

(* ... and helps if it tells of a link of the table that comes last.        *)
LEMMA ToldAtLast ==
    ASSUME NEW mem, NEW q \in Seq(Messages), NEW m \in Messages, NEW mp,
           NEW t \in TableSizes, NEW l, EndsWith(q, mp, t), Has(mem, t, l), Tells(m, l)
    PROVE  Coming(mem, Append(q, m), mp, l)
  <1> DEFINE r == Append(q, m)
  <1>1. PICK j \in Nat : Brings(q, mp, j, t) /\ \A i \in DOMAIN q : i > j => q[i].op # "table"
    BY DEF EndsWith
  <1>2. m.op # "table" BY DEF Tells
  <1>3. Keeps(mem, q, j, l) BY <1>1 DEF Keeps
  <1>4. Brings(r, mp, j, t) /\ Keeps(mem, r, j, l) BY <1>1, <1>2, <1>3, OneMoreMessage
  <1>5. Len(q) + 1 \in DOMAIN r /\ r[Len(q) + 1] = m /\ j < Len(q) + 1
    BY <1>1 DEF Brings
  <1> HIDE DEF r
  <1>6. \E k \in DOMAIN r : k > j /\ Tells(r[k], l) BY <1>5
  <1>7. Coming(mem, r, mp, l) BY <1>4, <1>6 DEF Coming
  <1> QED BY <1>7 DEF r

(* The first message is received.                                           *)
LEMMA OneMessageLess ==
    ASSUME NEW mem, NEW q \in Seq(Messages), q # << >>, NEW mp, NEW mp2,
           mp2 = IF Head(q).op = "table" THEN Head(q).table ELSE mp
    PROVE  /\ \A t : \A j \in Nat : j # 0 /\ Brings(q, mp, j, t) => Brings(Tail(q), mp2, j - 1, t)
           /\ \A t : EndsWith(q, mp, t) => EndsWith(Tail(q), mp2, t)
           /\ \A l : \A j \in Nat : j # 0 /\ Keeps(mem, q, j, l) => Keeps(mem, Tail(q), j - 1, l)
           /\ \A l : Keeps(mem, q, 0, l) => Keeps(mem, Tail(q), 0, l)
           /\ \A l : Has(mem, mp, l) /\ Keeps(mem, q, 0, l) => Has(mem, mp2, l)
  <1> DEFINE r == Tail(q)
  <1>1. /\ DOMAIN q = 1..Len(q) /\ Len(q) \in Nat /\ Len(q) # 0
        /\ DOMAIN r = 1..(Len(q) - 1)
        /\ \A i \in DOMAIN r : i + 1 \in DOMAIN q /\ r[i] = q[i + 1]
        /\ Head(q) = q[1] /\ 1 \in DOMAIN q
    OBVIOUS
  <1> HIDE DEF r
  <1>2. ASSUME NEW t, NEW j \in Nat, j # 0, Brings(q, mp, j, t) PROVE Brings(r, mp2, j - 1, t)
    <2>1. j \in DOMAIN q /\ q[j].op = "table" /\ q[j].table = t BY <1>2 DEF Brings
    <2>2. CASE j = 1 BY <1>1, <2>1, <2>2 DEF Brings
    <2>3. CASE j # 1
      <3>1. j - 1 \in DOMAIN r /\ r[j - 1] = q[j] BY <1>1, <1>2, <2>1, <2>3
      <3> QED BY <2>1, <3>1 DEF Brings
    <2> QED BY <2>2, <2>3
  <1>3. ASSUME NEW t, EndsWith(q, mp, t) PROVE EndsWith(r, mp2, t)
    <2>1. PICK j \in Nat : Brings(q, mp, j, t) /\ \A i \in DOMAIN q : i > j => q[i].op # "table"
      BY <1>3 DEF EndsWith
    <2>2. CASE j = 0
      <3>1. q[1].op # "table" BY <1>1, <2>1, <2>2
      <3>2. t = mp2 BY <1>1, <2>1, <2>2, <3>1 DEF Brings
      <3>3. \A i \in DOMAIN r : r[i].op # "table" BY <1>1, <2>1, <2>2
      <3>4. Brings(r, mp2, 0, t) BY <3>2 DEF Brings
      <3> QED BY <3>3, <3>4 DEF EndsWith
    <2>3. CASE j # 0
      <3>1. j - 1 \in Nat /\ Brings(r, mp2, j - 1, t) BY <1>2, <2>1, <2>3
      <3>2. \A i \in DOMAIN r : i > j - 1 => r[i].op # "table" BY <1>1, <2>1
      <3> QED BY <3>1, <3>2 DEF EndsWith
    <2> QED BY <2>2, <2>3
  <1>4. ASSUME NEW l, NEW j \in Nat, j # 0, Keeps(mem, q, j, l) PROVE Keeps(mem, r, j - 1, l)
    BY <1>1, <1>4 DEF Keeps
  <1>5. ASSUME NEW l, Keeps(mem, q, 0, l) PROVE Keeps(mem, r, 0, l)
    BY <1>1, <1>5 DEF Keeps
  <1>6. ASSUME NEW l, Has(mem, mp, l), Keeps(mem, q, 0, l) PROVE Has(mem, mp2, l)
    BY <1>1, <1>6 DEF Keeps
  <1> QED BY <1>2, <1>3, <1>4, <1>5, <1>6 DEF r

LEMMA ComingComes ==
    ASSUME NEW mem, NEW q \in Seq(Messages), q # << >>, NEW mp,
           NEW mp2 \in TableSizes \cup {NoTable}, NEW l,
           mp2 = IF Head(q).op = "table" THEN Head(q).table ELSE mp, Coming(mem, q, mp, l)
    PROVE  \/ Coming(mem, Tail(q), mp2, l)
           \/ Tells(Head(q), l) /\ Has(mem, mp2, l) /\ Keeps(mem, Tail(q), 0, l)
  <1> DEFINE r == Tail(q)
  <1>1. PICK j \in Nat, t \in TableSizes :
          /\ Brings(q, mp, j, t) /\ Has(mem, t, l) /\ Keeps(mem, q, j, l)
          /\ \E k \in DOMAIN q : k > j /\ Tells(q[k], l)
    BY DEF Coming
  <1>2. PICK k \in DOMAIN q : k > j /\ Tells(q[k], l) BY <1>1
  <1>3. /\ k \in Nat /\ k # 0 /\ Head(q) = q[1]
        /\ k # 1 => k - 1 \in DOMAIN r /\ r[k - 1] = q[k]
    OBVIOUS
  <1> HIDE DEF r
  <1>4. CASE j = 0
    <2>1. Has(mem, mp, l) BY <1>1, <1>4 DEF Brings
    <2>2. Has(mem, mp2, l) /\ Keeps(mem, r, 0, l)
      BY <1>1, <1>4, <2>1, OneMessageLess DEF r
    <2>3. CASE k = 1 BY <1>2, <1>3, <2>2, <2>3 DEF r
    <2>4. CASE k # 1
      <3>1. k - 1 > 0 /\ k - 1 \in DOMAIN r /\ Tells(r[k - 1], l) BY <1>2, <1>3, <2>4
      <3>2. mp2 \in TableSizes BY <2>2 DEF Has
      <3>3. Brings(r, mp2, 0, mp2) BY DEF Brings
      <3>4. \E i \in DOMAIN r : i > 0 /\ Tells(r[i], l) BY <3>1
      <3>5. Coming(mem, r, mp2, l) BY <2>2, <3>2, <3>3, <3>4 DEF Coming
      <3> QED BY <3>5 DEF r
    <2> QED BY <2>3, <2>4
  <1>5. CASE j # 0
    <2>0. /\ \A u : \A i \in Nat : i # 0 /\ Brings(q, mp, i, u) => Brings(r, mp2, i - 1, u)
          /\ \A n : \A i \in Nat : i # 0 /\ Keeps(mem, q, i, n) => Keeps(mem, r, i - 1, n)
      BY OneMessageLess DEF r
    <2>1. Brings(r, mp2, j - 1, t) /\ Keeps(mem, r, j - 1, l) /\ j - 1 \in Nat
      BY <1>1, <1>5, <2>0
    <2>2. k - 1 > j - 1 /\ k - 1 \in DOMAIN r /\ Tells(r[k - 1], l) BY <1>2, <1>3, <1>5
    <2>3. \E i \in DOMAIN r : i > j - 1 /\ Tells(r[i], l) BY <2>2
    <2>4. Coming(mem, r, mp2, l) BY <1>1, <2>1, <2>3 DEF Coming
    <2> QED BY <2>4 DEF r
  <1> QED BY <1>4, <1>5
-----------------------------------------------------------------------------
(* ShownInv, by the actions.                                                *)

(* Links are added, or nothing happens to tables, messages and styles.      *)
LEMMA AddingShows ==
    ASSUME IInv, ShownInv, NEW S, NEW b, AddVisitedLinks(S, b), timer => b,
           alive' /\ ~hasState' /\ keyCount # 0 => (alive /\ ~hasState) \/ b,
           alive' /\ hasState' => alive /\ hasState, alive' => process' = "open",
           UNCHANGED <<keyCount, tableSize, memory, toWeb, mapped, shown, dirty, failures>>
    PROVE  ShownInv'
  <1>1. Table' = Table BY DEF Table
  <1>2. pending' = pending \cup S /\ added' = added \cup S /\ timer' = (b \/ S # {})
    BY DEF AddVisitedLinks
  <1>3. ASSUME failures' = 0 PROVE Faultless'
    <2>1. Faultless BY <1>3 DEF ShownInv
    <2>2. added' = pending' \cup Table' BY <1>1, <1>2, <2>1 DEF Faultless
    <2>3. \A l \in Link : shown'[l] = "visited" => l \in added' BY <1>2, <2>1 DEF Faultless
    <2>4. alive' /\ ~hasState' /\ keyCount' # 0 => timer' BY <1>2, <2>1 DEF Faultless
    <2>5. Reaches'
      <3> SUFFICES ASSUME alive', hasState'
                   PROVE  /\ EndsWith(toWeb, mapped, tableSize)
                          /\ \A l \in Table : \/ Ready(memory, toWeb, mapped, shown, dirty, l)
                                              \/ Coming(memory, toWeb, mapped, l)
        BY <1>1 DEF Reaches
      <3> QED BY <2>1 DEF Faultless, Reaches
    <2> QED BY <2>2, <2>3, <2>4, <2>5 DEF Faultless
  <1> QED BY <1>1, <1>3 DEF ShownInv

LEMMA AppendTwice ==
    ASSUME NEW T, NEW s \in Seq(T), NEW a \in T, NEW b \in T
    PROVE  s \o (<<a>> \o <<b>>) = Append(Append(s, a), b)
  <1> DEFINE x == <<a>>
             y == <<b>>
  <1>1. x \in Seq(T) /\ y \in Seq(T) OBVIOUS
  <1>2. Append(s, a) = s \o x BY AppendIsConcat
  <1>3. Append(s, a) \in Seq(T) OBVIOUS
  <1>4. Append(Append(s, a), b) = Append(s, a) \o y BY <1>3, AppendIsConcat
  <1> HIDE DEF x, y
  <1>5. (s \o x) \o y = s \o (x \o y) BY <1>1, ConcatAssociative
  <1>6. Append(Append(s, a), b) = s \o (x \o y) BY <1>2, <1>4, <1>5
  <1> QED BY <1>6 DEF x, y

(* The timer writes the table and tells what changed.                       *)
LEMMA WritingShows ==
    ASSUME IInv, ShownInv, TableWritten, pending' = {},
           UNCHANGED <<process, added, alive, mapped, shown, dirty>>
    PROVE  ShownInv'
  <1> DEFINE a == NewTableSize
             all == Table \cup pending
  <1>1. /\ memory' = [memory EXCEPT ![a] = all] /\ tableSize' = a
    BY DEF TableWritten, Rehash
  <1>2. /\ memory \in [TableSizes -> SUBSET Link] /\ failures \in Nat
        /\ mapped \in TableSizes \cup {NoTable} /\ toWeb \in Seq(Messages)
        /\ keyCount \in Nat /\ adds \in Nat /\ pending \in SUBSET Link
    BY DEF IInv, TypeOK
  <1>3. a \in TableSizes /\ a # NoTable
    <2>1. Cardinality(pending) \in Nat BY <1>2, LinkSets
    <2>2. keyCount + Cardinality(pending) \in 0..MaxAdds
      BY <1>2, <2>1, VisitedAssumption DEF IInv, KeysAreCounted
    <2>3. a \in TableSizes BY <2>2, SizeFits DEF NewTableSize
    <2> QED BY <2>3, VisitedAssumption DEF NoTable
  <1> HIDE DEF a
  <1>4. Table' = all BY <1>1, <1>2, <1>3 DEF Table
  <1>5. \A t \in TableSizes : memory[t] \subseteq memory'[t] /\ memory'[t] \subseteq all
    BY <1>1, <1>2, <1>3 DEF ShownInv
  <1>6. \A l \in all : Has(memory', a, l) BY <1>1, <1>2, <1>3 DEF Has
  <1>7. ASSUME failures' = 0 PROVE Faultless'
    <2>1. failures = 0 /\ hasState' = TRUE /\ SendToAllProcesses(StateMessages)
      <3>1. failures + 1 # 0 BY <1>2
      <3> QED BY <1>7, <3>1 DEF TableWritten
    <2>2. Faultless BY <2>1 DEF ShownInv
    <2>3. added' = pending' \cup Table' BY <1>4, <2>2 DEF Faultless
    <2>4. \A l \in Link : shown'[l] = "visited" => l \in added' BY <2>2 DEF Faultless
    <2>5. Reaches'
      <3> SUFFICES ASSUME alive
                   PROVE  /\ EndsWith(toWeb', mapped, a)
                          /\ \A l \in all : \/ Ready(memory', toWeb', mapped, shown, dirty, l)
                                            \/ Coming(memory', toWeb', mapped, l)
        BY <1>1, <1>4 DEF Reaches
      <3> DEFINE brief == hasState /\ Cardinality(pending \ Table) <= MaxChanged
                 table == SetVisitedLinkTable(a)
                 m == IF brief THEN VisitedLinkStateChanged(pending \ Table)
                      ELSE AllVisitedLinkStateChanged
                 q == IF SendsTable THEN Append(toWeb, table) ELSE toWeb
      <3>1. /\ table \in Messages /\ table.op = "table" /\ table.table = a
            /\ m \in Messages /\ m.op # "table"
            /\ \A l \in all : Tells(m, l) \/ (hasState /\ l \in Table)
        BY <1>2, <1>3 DEF Messages, SetVisitedLinkTable, VisitedLinkStateChanged,
                          AllVisitedLinkStateChanged, Tells
      <3>2. toWeb' = toWeb \o StateMessages BY <2>1 DEF SendToAllProcesses
      <3>3. StateMessages = (IF SendsTable THEN <<table>> ELSE << >>) \o <<m>>
        BY DEF StateMessages, a
      <3> HIDE DEF table, m
      <3>4. q \in Seq(Messages) BY <1>2, <3>1
      <3>5. toWeb' = Append(q, m)
        <4>1. CASE SendsTable
          <5>1. toWeb' = toWeb \o (<<table>> \o <<m>>) BY <3>2, <3>3, <4>1
          <5>2. toWeb \o (<<table>> \o <<m>>) = Append(Append(toWeb, table), m)
            BY <1>2, <3>1, AppendTwice
          <5> QED BY <4>1, <5>1, <5>2
        <4>2. CASE ~SendsTable
          <5>1. StateMessages = <<m>> BY <3>1, <3>3, <4>2
          <5>2. toWeb \o <<m>> = Append(toWeb, m) BY <1>2, <3>1
          <5> QED BY <3>2, <4>2, <5>1, <5>2
        <4> QED BY <4>1, <4>2
      <3>6. EndsWith(q, mapped, a)
        <4>1. CASE SendsTable BY <1>2, <3>1, <4>1, OneMoreMessage
        <4>2. CASE ~SendsTable
          <5>1. hasState /\ tableSize = a BY <4>2 DEF SendsTable, a
          <5> QED BY <2>2, <4>2, <5>1 DEF Faultless, Reaches
        <4> QED BY <4>1, <4>2
      <3>7. EndsWith(toWeb', mapped, a)
        <4> HIDE DEF q
        <4> QED BY <3>1, <3>4, <3>5, <3>6, OneMoreMessage
      <3>8. ASSUME NEW l \in all
            PROVE  \/ Ready(memory', toWeb', mapped, shown, dirty, l)
                   \/ Coming(memory', toWeb', mapped, l)
        <4>1. CASE Tells(m, l)
          <5> HIDE DEF q
          <5>1. Coming(memory', Append(q, m), mapped, l)
            BY <1>3, <1>6, <3>1, <3>4, <3>6, <4>1, ToldAtLast
          <5> QED BY <3>5, <5>1
        <4>2. CASE ~Tells(m, l)
          <5>1. hasState /\ l \in Table BY <3>1, <4>2
          <5>2. \/ Ready(memory, toWeb, mapped, shown, dirty, l)
                \/ Coming(memory, toWeb, mapped, l)
            BY <2>2, <5>1 DEF Faultless, Reaches
          <5>3. \/ Ready(memory', toWeb, mapped, shown, dirty, l)
                \/ Coming(memory', toWeb, mapped, l)
            BY <1>2, <1>5, <5>2, MoreInTables
          <5>4. \/ Ready(memory', q, mapped, shown, dirty, l)
                \/ Coming(memory', q, mapped, l)
            <6>1. CASE ~SendsTable BY <5>3, <6>1
            <6>2. CASE SendsTable
              <7>1. table.op = "table" => Has(memory', table.table, l) BY <1>6, <3>1
              <7>2. \/ Ready(memory', Append(toWeb, table), mapped, shown, dirty, l)
                    \/ Coming(memory', Append(toWeb, table), mapped, l)
                BY <1>2, <3>1, <5>3, <7>1, StillReaches
              <7> QED BY <6>2, <7>2
            <6> QED BY <6>1, <6>2
          <5> HIDE DEF q
          <5> QED BY <3>1, <3>4, <3>5, <5>4, StillReaches
        <4> QED BY <4>1, <4>2
      <3> QED BY <3>7, <3>8
    <2> QED BY <2>1, <2>3, <2>4, <2>5 DEF Faultless
  <1> QED BY <1>4, <1>5, <1>7 DEF ShownInv

(* The web process receives a message.                                      *)
LEMMA ReceivingShows ==
    ASSUME IInv, ShownInv, ReceiveFromUI
    PROVE  ShownInv'
  <1> DEFINE m == Head(toWeb)
             r == Tail(toWeb)
             mp == IF m.op = "table" THEN m.table ELSE mapped
  <1>1. /\ toWeb # << >> /\ toWeb' = r /\ alive
        /\ ReceiveTable(m) \/ ReceiveChanged(m) \/ ReceiveAllChanged(m)
        /\ UNCHANGED <<process, alive, hasState, keyCount, tableSize, pending, timer, added,
                       memory, shown>>
    BY DEF ReceiveFromUI, provider, count
  <1>2. /\ toWeb \in Seq(Messages) /\ mapped \in TableSizes \cup {NoTable}
        /\ failures \in Nat /\ dirty \in SUBSET Link
        /\ shown \in [Link -> {"unchecked", "unvisited", "visited"}]
    BY DEF IInv, TypeOK
  <1>3. m \in Messages BY <1>1, <1>2
  <1>4. mp \in TableSizes \cup {NoTable} BY <1>2, <1>3 DEF Messages
  <1>5. Table' = Table BY <1>1 DEF Table
  <1>6. ASSUME failures' = 0 PROVE Faultless'
    <2>1. failures = 0 /\ mapped' = mp
      <3>1. failures + 1 # 0 BY <1>2
      <3> QED BY <1>1, <1>6, <3>1 DEF ReceiveTable, ReceiveChanged, ReceiveAllChanged
    <2>2. Faultless BY <2>1 DEF ShownInv
    <2>3. \A l \in Link : shown[l] = "unvisited" /\ (l \in dirty \/ Tells(m, l)) => l \in dirty'
      BY <1>1 DEF ReceiveTable, ReceiveChanged, ReceiveAllChanged, Tells, Checked
    <2> HIDE DEF m, mp, r
    <2>4. Reaches'
      <3> SUFFICES ASSUME hasState
                   PROVE  /\ EndsWith(r, mp, tableSize)
                          /\ \A l \in Table : \/ Ready(memory, r, mp, shown, dirty', l)
                                              \/ Coming(memory, r, mp, l)
        BY <1>1, <1>5, <2>1 DEF Reaches
      <3>1. EndsWith(toWeb, mapped, tableSize) BY <1>1, <2>2 DEF Faultless, Reaches
      <3>2. EndsWith(r, mp, tableSize) BY <1>1, <1>2, <3>1, OneMessageLess DEF r, mp, m
      <3>3. ASSUME NEW l \in Table
            PROVE  Ready(memory, r, mp, shown, dirty', l) \/ Coming(memory, r, mp, l)
        <4>0. l \in Link
          <5>1. memory \in [TableSizes -> SUBSET Link]
                /\ tableSize \in TableSizes \cup {NoTable}
            BY DEF IInv, TypeOK
          <5> QED BY <5>1 DEF Table
        <4>1. CASE Ready(memory, toWeb, mapped, shown, dirty, l)
          <5>1. Has(memory, mapped, l) /\ Keeps(memory, toWeb, 0, l)
            BY <4>1 DEF Ready
          <5>2. Has(memory, mp, l) /\ Keeps(memory, r, 0, l)
            BY <1>1, <1>2, <5>1, OneMessageLess DEF r, mp, m
          <5>3. shown[l] = "unvisited" => l \in dirty' BY <2>3, <4>0, <4>1 DEF Ready
          <5> QED BY <5>2, <5>3 DEF Ready
        <4>2. CASE Coming(memory, toWeb, mapped, l)
          <5>1. \/ Coming(memory, r, mp, l)
                \/ Tells(m, l) /\ Has(memory, mp, l) /\ Keeps(memory, r, 0, l)
            BY <1>1, <1>2, <1>4, <4>2, ComingComes DEF r, mp, m
          <5> QED BY <2>3, <4>0, <5>1 DEF Ready
        <4> QED BY <1>1, <2>2, <4>1, <4>2 DEF Faultless, Reaches
      <3> QED BY <3>2, <3>3
    <2> QED BY <1>1, <1>5, <2>2, <2>4 DEF Faultless
  <1> QED BY <1>1, <1>5, <1>6 DEF ShownInv

(* The document styles its links, again or for the first time, or is gone.  *)
LEMMA StylingShows ==
    ASSUME IInv, ShownInv,
           UNCHANGED <<process, alive, hasState, keyCount, tableSize, pending, timer, added,
                       memory, toWeb, mapped, failures>>,
           \A l \in Link : \/ shown'[l] = Style(l)
                           \/ /\ shown'[l] = shown[l]
                              /\ shown[l] = "unvisited" /\ l \in dirty => l \in dirty'
                           \/ shown'[l] = "unchecked"
    PROVE  ShownInv'
  <1>1. Table' = Table BY DEF Table
  <1>2. \A l \in Link : Style(l) = IF Has(memory, mapped, l) THEN "visited" ELSE "unvisited"
    BY DEF Style, IsLinkVisited, Has
  <1>3. /\ memory \in [TableSizes -> SUBSET Link] /\ tableSize \in TableSizes \cup {NoTable}
        /\ mapped \in TableSizes \cup {NoTable}
    BY DEF IInv, TypeOK
  <1>4. ASSUME failures = 0 PROVE Faultless'
    <2>1. Faultless BY <1>4 DEF ShownInv
    <2>2. ASSUME NEW l \in Link, shown'[l] = "visited" PROVE l \in added
      <3>1. CASE shown[l] = "visited" BY <2>1, <3>1 DEF Faultless
      <3>2. CASE shown[l] # "visited"
        <4>1. Has(memory, mapped, l) BY <1>2, <2>2, <3>2
        <4>2. mapped \in TableSizes /\ l \in memory[mapped] BY <1>3, <4>1 DEF Has
        <4>3. l \in Table BY <4>2 DEF ShownInv
        <4> QED BY <2>1, <4>3 DEF Faultless
      <3> QED BY <3>1, <3>2
    <2>3. ASSUME NEW l \in Table, Ready(memory, toWeb, mapped, shown, dirty, l)
          PROVE  Ready(memory, toWeb, mapped, shown', dirty', l)
      <3>1. l \in Link BY <1>3 DEF Table
      <3>2. Has(memory, mapped, l) /\ (shown[l] = "unvisited" => l \in dirty)
        BY <2>3 DEF Ready
      <3>3. shown'[l] = "unvisited" => l \in dirty' BY <1>2, <3>1, <3>2
      <3> QED BY <2>3, <3>3 DEF Ready
    <2>4. Reaches' BY <1>1, <2>1, <2>3 DEF Faultless, Reaches
    <2> QED BY <1>1, <2>1, <2>2, <2>4 DEF Faultless
  <1> QED BY <1>1, <1>4 DEF ShownInv

LEMMA NextShown == IInv /\ ShownInv /\ [Next]_vars => ShownInv'
  <1> SUFFICES ASSUME IInv, ShownInv, [Next]_vars PROVE ShownInv' OBVIOUS
  <1>1. /\ failures \in Nat /\ dirty \in SUBSET Link
        /\ shown \in [Link -> {"unchecked", "unvisited", "visited"}]
    BY DEF IInv, TypeOK
  <1>2. ASSUME NEW l \in Link, AddVisitedLink(l) PROVE ShownInv'
    <2>1. /\ AddVisitedLinks({l}, timer)
          /\ UNCHANGED <<process, alive, hasState, keyCount, tableSize, memory, toWeb, mapped,
                         shown, dirty, failures>>
      BY <1>2 DEF AddVisitedLink, webVars
    <2> QED BY <2>1, AddingShows DEF ShownInv
  <1>3. CASE AddVisitedLinkHash
    <2>1. /\ AddVisitedLinks({Head(toUI)}, timer)
          /\ UNCHANGED <<process, alive, hasState, keyCount, tableSize, memory, toWeb, mapped,
                         shown, dirty, failures>>
      BY <1>3 DEF AddVisitedLinkHash, webVars
    <2> QED BY <2>1, AddingShows DEF ShownInv
  <1>4. CASE ProcessDidFinishLaunching
    <2> DEFINE b == timer \/ StartTimerForTable
    <2>1. PICK S : AddVisitedLinks(S, b) BY <1>4 DEF ProcessDidFinishLaunching
    <2>2. /\ ~hasState' /\ process' = "open"
          /\ UNCHANGED <<keyCount, tableSize, memory, toWeb, mapped, shown, dirty, failures>>
      BY <1>4 DEF ProcessDidFinishLaunching, ResendState, webVars
    <2>3. (timer => b) /\ (keyCount # 0 => b) BY DEF StartTimerForTable
    <2> HIDE DEF b
    <2> QED BY <2>1, <2>2, <2>3, AddingShows
  <1>5. CASE PendingVisitedLinksTimerFired
    <2>1. CASE TableWritten
      BY <1>5, <2>1, WritingShows DEF PendingVisitedLinksTimerFired, count, webVars
    <2>2. CASE CreateFails
      <3>1. /\ failures' # 0 /\ UNCHANGED <<process, alive, memory, tableSize>>
        BY <1>1, <1>5, <2>2 DEF CreateFails, PendingVisitedLinksTimerFired
      <3>2. Table' = Table BY <3>1 DEF Table
      <3> QED BY <3>1, <3>2 DEF ShownInv
    <2> QED BY <1>5, <2>1, <2>2 DEF PendingVisitedLinksTimerFired
  <1>6. CASE ReceiveFromUI BY <1>6, ReceivingShows
  <1>7. ASSUME NEW l \in Link, CheckLink(l) PROVE ShownInv'
    <2>1. UNCHANGED <<process, alive, hasState, keyCount, tableSize, pending, timer, added,
                      memory, toWeb, mapped, failures, dirty>>
      BY <1>7 DEF CheckLink, provider, count
    <2>2. \A k \in Link : shown'[k] = Style(k) \/ shown'[k] = shown[k]
      BY <1>1, <1>7 DEF CheckLink
    <2> QED BY <2>1, <2>2, StylingShows
  <1>8. ASSUME NEW l \in Link, Visit(l) PROVE ShownInv'
    <2>1. UNCHANGED <<process, alive, hasState, keyCount, tableSize, pending, timer, added,
                      memory, toWeb, mapped, failures>>
      BY <1>8 DEF Visit, provider, count
    <2>2. \A k \in Link : \/ shown'[k] = shown[k] /\ dirty' = dirty
                          \/ shown'[k] = "unchecked"
      BY <1>8 DEF Visit, Unchecked
    <2> QED BY <2>1, <2>2, StylingShows
  <1>9. CASE RecalcStyle
    <2>1. UNCHANGED <<process, alive, hasState, keyCount, tableSize, pending, timer, added,
                      memory, toWeb, mapped, failures>>
      BY <1>9 DEF RecalcStyle, provider, count
    <2>2. \A k \in Link : \/ shown'[k] = Style(k)
                          \/ shown'[k] = shown[k] /\ k \notin dirty
      BY <1>9 DEF RecalcStyle
    <2> QED BY <2>1, <2>2, StylingShows
  <1>10. CASE UNCHANGED vars
    <2>1. UNCHANGED <<process, alive, hasState, keyCount, tableSize, pending, timer, added,
                      memory, toWeb, mapped, failures, shown, dirty>>
      BY <1>10 DEF vars, provider, count, webVars
    <2> QED BY <2>1, StylingShows
  <1>11. CASE EnsureWebProcess \/ ProcessDidClose \/ WebProcessDies
    <2>1. /\ ~alive'
          /\ UNCHANGED <<hasState, keyCount, tableSize, pending, added, memory, failures>>
          /\ shown' = shown \/ shown' = Unchecked
      <3>1. CASE EnsureWebProcess
        BY <1>1, <3>1 DEF EnsureWebProcess, provider, count, webVars, ShownInv
      <3>2. CASE ProcessDidClose
        BY <3>2 DEF ProcessDidClose, count, webVars
      <3>3. CASE WebProcessDies
        BY <3>3 DEF WebProcessDies, provider, count
      <3> QED BY <1>11, <3>1, <3>2, <3>3
    <2>2. Table' = Table BY <2>1 DEF Table
    <2>3. ASSUME failures' = 0 PROVE Faultless'
      <3>1. Faultless BY <2>1, <2>3 DEF ShownInv
      <3>2. \A l \in Link : shown'[l] = "visited" => l \in added'
        BY <2>1, <3>1 DEF Faultless, Unchecked
      <3>3. Reaches' BY <2>1 DEF Reaches
      <3> QED BY <2>1, <2>2, <3>1, <3>2, <3>3 DEF Faultless
    <2> QED BY <2>1, <2>2, <2>3 DEF ShownInv
  <1> QED BY <1>2, <1>3, <1>4, <1>5, <1>6, <1>7, <1>8, <1>9, <1>10, <1>11 DEF Next

(* QuietMeansShown is not inductive: it speaks of the moment when nothing   *)
(* is on its way.  A link of a table that the web process maps, or will map,*)
(* is shown as visited, will be styled again, or a message behind that table*)
(* tells of it.                                                             *)
THEOREM QuietLinksAreShown == Spec => []QuietMeansShown
  <1>1. Init => ShownInv
    <2> SUFFICES ASSUME Init PROVE ShownInv OBVIOUS
    <2>1. Table = {} /\ ~alive /\ added = {} /\ pending = {} BY DEF Init, Table
    <2>2. \A t \in TableSizes : memory[t] = {} BY DEF Init
    <2>3. \A l \in Link : shown[l] # "visited" BY DEF Init, Unchecked
    <2>4. Faultless BY <2>1, <2>3 DEF Faultless, Reaches
    <2> QED BY <2>1, <2>2, <2>4 DEF ShownInv
  <1>2. IInv /\ ShownInv => QuietMeansShown
    <2> SUFFICES ASSUME IInv, ShownInv, alive, failures = 0, pending = {}, ~timer,
                        toWeb = << >>, dirty = {}, NEW l \in Checked
                 PROVE  shown[l] = "visited" <=> l \in added
      BY DEF QuietMeansShown
    <2>0. /\ keyCount \in Nat /\ memory \in [TableSizes -> SUBSET Link]
          /\ tableSize \in TableSizes \cup {NoTable} /\ l \in Link
          /\ shown[l] \in {"unvisited", "visited"}
      BY DEF IInv, TypeOK, Checked
    <2>1. Faultless BY DEF ShownInv
    <2>2. ASSUME l \in added PROVE shown[l] = "visited"
      <3>1. l \in Table BY <2>1, <2>2 DEF Faultless
      <3>2. hasState
        <4> SUFFICES ASSUME ~hasState PROVE FALSE OBVIOUS
        <4>1. keyCount = 0 BY <2>1 DEF Faultless
        <4>2. Table \in SUBSET Link BY <2>0 DEF Table
        <4>3. IsFiniteSet(Table) BY <4>2, VisitedAssumption, FS_Subset
        <4>4. Cardinality(Table) \in Nat /\ Cardinality(Table) <= 0
          BY <4>1, <4>2, LinkSets DEF IInv, KeysAreCounted
        <4>5. Table = {} BY <4>3, <4>4, FS_EmptySet
        <4> QED BY <3>1, <4>5
      <3>3. \/ Ready(memory, toWeb, mapped, shown, dirty, l)
            \/ Coming(memory, toWeb, mapped, l)
        BY <2>1, <3>1, <3>2 DEF Faultless, Reaches
      <3>4. ~Coming(memory, toWeb, mapped, l) BY DEF Coming
      <3>5. shown[l] # "unvisited" BY <3>3, <3>4 DEF Ready
      <3> QED BY <2>0, <3>5
    <2>3. shown[l] = "visited" => l \in added BY <2>0, <2>1 DEF Faultless
    <2> QED BY <2>2, <2>3
  <1> QED BY <1>1, <1>2, NextShown, InitIInv, NextIInv, PTL DEF Spec
=============================================================================
