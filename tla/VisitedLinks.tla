---------------------------- MODULE VisitedLinks ----------------------------
(***************************************************************************)
(* How a link that was visited comes to be shown as visited.               *)
(*                                                                         *)
(*   UI process    VisitedLinkProvider, which collects hashes of links and *)
(*                 writes them, when its timer fires, into a hash table    *)
(*                 in shared memory                                        *)
(*   web process   WebProcess, which maps that memory and looks links up   *)
(*                 without a message, and a document that remembers how    *)
(*                 it styled each link until it is told to look again      *)
(*                                                                         *)
(* A table is a set of hashes: k in VisitedLinkTable::addLinkHash is odd    *)
(* and sizes are powers of two, so a probe meets every bucket, and ends     *)
(* where some bucket is empty (TablesAreHalfEmpty).  A table only grows, so *)
(* its size names it.                                                       *)
(***************************************************************************)
EXTENDS Integers, Sequences, FiniteSets

CONSTANTS
    Link,            \* hashes of links
    TableSizes,      \* what nextPowerOf2 returns for a positive argument
    MinTableSize,    \* hashes in a page of memory
    MaxChanged,      \* as many new links are told one by one
    MaxAdds,         \* bound: calls of addVisitedLink
    MaxLaunches,     \* bound: web processes launched
    MaxFailures      \* bound: shared memory not made, duplicated or mapped

ASSUME VisitedAssumption ==
    /\ IsFiniteSet(Link)
    /\ TableSizes \subseteq Nat \ {0} /\ MinTableSize \in TableSizes
    /\ MaxChanged \in Nat /\ MaxLaunches \in Nat /\ MaxFailures \in Nat
    /\ MaxAdds \in Nat
    /\ \A n \in 0..MaxAdds : \E t \in TableSizes : t >= 2 * n

VARIABLES
    \* UI process
    process,         \* WebContext::m_process: none, launching or open
    launches,        \* web processes launched so far
    populated,       \* m_visitedLinksPopulated
    hasState,        \* m_webProcessHasVisitedLinkState
    keyCount,        \* m_keyCount
    tableSize,       \* m_tableSize, 0 without a table
    pending,         \* m_pendingVisitedLinks
    timer,           \* m_pendingVisitedLinksTimer is active
    adds,            \* calls of addVisitedLink so far
    added,           \* the links of those calls
    failures,        \* failures so far
    \* both: the contents of the tables made so far
    memory,
    \* the line; toWeb holds m_pendingMessages while the process is launched
    toWeb, toUI,
    \* web process
    alive,
    mapped,          \* size of the table m_visitedLinkTable maps, or 0
    shown,           \* how the document styled each link it checked
    dirty            \* links that need their style computed again

provider == <<populated, hasState, keyCount, tableSize, pending, timer>>
count == <<adds, added>>
webVars == <<mapped, shown, dirty>>
vars == <<process, launches, provider, count, failures, memory, toWeb, toUI,
          alive, webVars>>

NoTable == 0
VisitedLinkTableMaxLoad == 2
Unchecked == [l \in Link |-> "unchecked"]

SetVisitedLinkTable(t) == [op |-> "table", table |-> t, links |-> {}]
VisitedLinkStateChanged(S) == [op |-> "changed", table |-> NoTable, links |-> S]
AllVisitedLinkStateChanged == [op |-> "all", table |-> NoTable, links |-> {}]
Messages == [op : {"table", "changed", "all"},
             table : TableSizes \cup {NoTable}, links : SUBSET Link]

Init ==
    /\ process = "none" /\ launches = 0
    /\ populated = FALSE /\ hasState = FALSE
    /\ keyCount = 0 /\ tableSize = NoTable
    /\ pending = {} /\ timer = FALSE
    /\ adds = 0 /\ added = {} /\ failures = 0
    /\ memory = [t \in TableSizes |-> {}]
    /\ toWeb = << >> /\ toUI = << >>
    /\ alive = FALSE /\ mapped = NoTable
    /\ shown = Unchecked /\ dirty = {}

-----------------------------------------------------------------------------
(* UI process.                                                             *)

NextPowerOf2(v) ==
    IF v = 0 THEN 0
    ELSE CHOOSE t \in TableSizes :
             /\ t >= v
             /\ \A u \in TableSizes : u >= v => t <= u

(* Mutant of TableSizeForKeyCount: the load is not counted.                 *)
TableSizeWithoutLoad(n) ==
    IF NextPowerOf2(n) < MinTableSize THEN MinTableSize ELSE NextPowerOf2(n)

TableSizeForKeyCount(n) ==
    LET size == NextPowerOf2(n * VisitedLinkTableMaxLoad)
    IN  IF size < MinTableSize THEN MinTableSize ELSE size

(* The hashes of m_table.                                                   *)
Table == IF tableSize = NoTable THEN {} ELSE memory[tableSize]

(* Nothing is sent without a process; a dead one receives nothing.          *)
SendToAllProcesses(messages) ==
    toWeb' = IF process = "launching" \/ alive THEN toWeb \o messages ELSE toWeb

(* One call of addVisitedLink for each link of S, the timer being active or *)
(* not before.                                                              *)
AddVisitedLinks(S, active) ==
    /\ adds + Cardinality(S) <= MaxAdds
    /\ adds' = adds + Cardinality(S)
    /\ added' = added \cup S
    /\ pending' = pending \cup S
    /\ timer' = (active \/ S # {})

(* The application adds a link, visited or not.                             *)
AddVisitedLink(l) ==
    /\ AddVisitedLinks({l}, timer)
    /\ UNCHANGED <<process, launches, populated, hasState, keyCount, tableSize,
                   failures, memory, toWeb, toUI, alive, webVars>>

(* The web process reports a link.                                          *)
AddVisitedLinkHash ==
    /\ toUI # << >>
    /\ AddVisitedLinks({Head(toUI)}, timer)
    /\ toUI' = Tail(toUI)
    /\ UNCHANGED <<process, launches, populated, hasState, keyCount, tableSize,
                   failures, memory, toWeb, alive, webVars>>

EnsureWebProcess ==
    /\ process = "none" /\ launches < MaxLaunches
    /\ process' = "launching" /\ launches' = launches + 1
    /\ toWeb' = << >>
    /\ UNCHANGED <<provider, count, failures, memory, toUI, alive, webVars>>

(* Mutant of ResendState: the last process is taken for the new one.        *)
KeepState == UNCHANGED hasState

ResendState == hasState' = FALSE

(* Mutant of StartTimerForTable: a new process waits for the next link.     *)
NoTimerForTable == FALSE

StartTimerForTable == keyCount # 0

(* The first process to be launched makes the history client add its links. *)
ProcessDidFinishLaunching ==
    /\ process = "launching"
    /\ process' = "open" /\ alive' = TRUE
    /\ ResendState
    /\ populated' = TRUE
    /\ \E S \in IF populated THEN {{}} ELSE SUBSET Link :
           AddVisitedLinks(S, timer \/ StartTimerForTable)
    /\ UNCHANGED <<launches, keyCount, tableSize, failures, memory, toWeb, toUI,
                   webVars>>

(* What the process sent before it ended is received first.                 *)
ProcessDidClose ==
    /\ process = "open" /\ ~alive /\ toUI = << >>
    /\ process' = "none"
    /\ timer' = FALSE
    /\ UNCHANGED <<launches, populated, hasState, keyCount, tableSize, pending,
                   count, failures, memory, toWeb, toUI, alive, webVars>>

NewTableSize == TableSizeForKeyCount(keyCount + Cardinality(pending))

(* The new table, if the size changed, with the old entries and the new.    *)
Rehash == [memory EXCEPT ![NewTableSize] = Table \cup pending]

SendsTable == ~hasState \/ tableSize # NewTableSize

(* Mutant of StateMessages: links are told before the table that has them.  *)
TableLast ==
    (IF hasState THEN <<VisitedLinkStateChanged(pending \ Table)>>
     ELSE <<AllVisitedLinkStateChanged>>)
    \o (IF SendsTable THEN <<SetVisitedLinkTable(NewTableSize)>> ELSE << >>)

StateMessages ==
    (IF SendsTable THEN <<SetVisitedLinkTable(NewTableSize)>> ELSE << >>)
    \o (IF hasState /\ Cardinality(pending \ Table) <= MaxChanged
        THEN <<VisitedLinkStateChanged(pending \ Table)>>
        ELSE <<AllVisitedLinkStateChanged>>)

(* The links that were to be added are lost.                                *)
CreateFails ==
    /\ tableSize # NewTableSize /\ failures < MaxFailures
    /\ failures' = failures + 1
    /\ UNCHANGED <<hasState, keyCount, tableSize, memory, toWeb>>

(* The table is written; createHandle may fail, and nothing is sent then.   *)
TableWritten ==
    /\ memory' = Rehash
    /\ tableSize' = NewTableSize
    /\ keyCount' = keyCount + Cardinality(pending)
    /\ \/ /\ SendsTable /\ failures < MaxFailures
          /\ failures' = failures + 1
          /\ UNCHANGED <<hasState, toWeb>>
       \/ /\ SendToAllProcesses(StateMessages)
          /\ hasState' = TRUE
          /\ UNCHANGED failures

PendingVisitedLinksTimerFired ==
    /\ timer
    /\ timer' = FALSE /\ pending' = {}
    /\ CreateFails \/ TableWritten
    /\ UNCHANGED <<process, launches, populated, count, toUI, alive, webVars>>

-----------------------------------------------------------------------------
(* Web process.                                                            *)

IsLinkVisited(l) == mapped # NoTable /\ l \in memory[mapped]
Style(l) == IF IsLinkVisited(l) THEN "visited" ELSE "unvisited"
Checked == {l \in Link : shown[l] # "unchecked"}

(* The document meets a link it has not styled yet.                         *)
CheckLink(l) ==
    /\ alive /\ shown[l] = "unchecked"
    /\ shown' = [shown EXCEPT ![l] = Style(l)]
    /\ UNCHANGED <<process, launches, provider, count, failures, memory, toWeb,
                   toUI, alive, mapped, dirty>>

(* A navigation, within the document or to a new one.  The bound counts the *)
(* calls that the message will make.                                        *)
Visit(l) ==
    /\ alive
    /\ adds + Len(toUI) < MaxAdds
    /\ toUI' = IF IsLinkVisited(l) THEN toUI ELSE Append(toUI, l)
    /\ \/ UNCHANGED <<shown, dirty>>
       \/ shown' = Unchecked /\ dirty' = {}
    /\ UNCHANGED <<process, launches, provider, count, failures, memory, toWeb,
                   alive, mapped>>

RecalcStyle ==
    /\ alive /\ dirty # {}
    /\ shown' = [l \in Link |-> IF l \in dirty THEN Style(l) ELSE shown[l]]
    /\ dirty' = {}
    /\ UNCHANGED <<process, launches, provider, count, failures, memory, toWeb,
                   toUI, alive, mapped>>

(* Mapping the memory may fail; the table stays as it was then.             *)
ReceiveTable(m) ==
    /\ m.op = "table"
    /\ \/ mapped' = m.table /\ UNCHANGED failures
       \/ /\ failures < MaxFailures
          /\ failures' = failures + 1
          /\ UNCHANGED mapped
    /\ UNCHANGED dirty

ReceiveChanged(m) ==
    /\ m.op = "changed"
    /\ dirty' = dirty \cup (m.links \cap Checked)
    /\ UNCHANGED <<mapped, failures>>

ReceiveAllChanged(m) ==
    /\ m.op = "all"
    /\ dirty' = Checked
    /\ UNCHANGED <<mapped, failures>>

ReceiveFromUI ==
    /\ alive /\ toWeb # << >>
    /\ LET m == Head(toWeb)
       IN  ReceiveTable(m) \/ ReceiveChanged(m) \/ ReceiveAllChanged(m)
    /\ toWeb' = Tail(toWeb)
    /\ UNCHANGED <<process, launches, provider, count, memory, toUI, alive,
                   shown>>

(* Nothing of the process is left but the messages it sent.                 *)
WebProcessDies ==
    /\ alive
    /\ alive' = FALSE /\ mapped' = NoTable
    /\ shown' = Unchecked /\ dirty' = {}
    /\ toWeb' = << >>
    /\ UNCHANGED <<process, launches, provider, count, failures, memory, toUI>>

-----------------------------------------------------------------------------
Next ==
    \/ \E l \in Link : AddVisitedLink(l) \/ CheckLink(l) \/ Visit(l)
    \/ AddVisitedLinkHash
    \/ EnsureWebProcess
    \/ ProcessDidFinishLaunching
    \/ ProcessDidClose
    \/ PendingVisitedLinksTimerFired
    \/ RecalcStyle
    \/ ReceiveFromUI
    \/ WebProcessDies

Spec == Init /\ [][Next]_vars

(* The run loops of both processes run what is ready: a timer that is due,  *)
(* a message that arrived, a style recalculation that was asked for.        *)
FairSpec ==
    /\ Spec
    /\ WF_vars(AddVisitedLinkHash) /\ WF_vars(PendingVisitedLinksTimerFired)
    /\ WF_vars(ReceiveFromUI) /\ WF_vars(RecalcStyle)
    /\ WF_vars(ProcessDidFinishLaunching) /\ WF_vars(ProcessDidClose)

-----------------------------------------------------------------------------
(* Properties.                                                             *)

(* The values of the variables, for the proofs.                             *)
TypeOK ==
    /\ process \in {"none", "launching", "open"}
    /\ launches \in Nat /\ failures \in Nat
    /\ populated \in BOOLEAN /\ hasState \in BOOLEAN
    /\ keyCount \in Nat /\ tableSize \in TableSizes \cup {NoTable}
    /\ pending \in SUBSET Link /\ timer \in BOOLEAN
    /\ adds \in Nat /\ added \in SUBSET Link
    /\ memory \in [TableSizes -> SUBSET Link]
    /\ toWeb \in Seq(Messages) /\ toUI \in Seq(Link)
    /\ alive \in BOOLEAN
    /\ mapped \in TableSizes \cup {NoTable}
    /\ shown \in [Link -> {"unchecked", "unvisited", "visited"}]
    /\ dirty \in SUBSET Link

(* Every table that was made, the one the web process still maps after the  *)
(* provider has moved to a larger one too, is "at least half empty": the    *)
(* loops of addLinkHash and isLinkVisited end at an empty bucket.  m_keyCount*)
(* is not the number of entries but grows with each link added again.       *)
TablesAreHalfEmpty ==
    \A t \in TableSizes : 2 * Cardinality(memory[t]) <= t

(* Links wait for a timer that runs, also when a process ended, which stops *)
(* the timer, and the next one was launched.  (Not so while the table has   *)
(* never been written: processDidFinishLaunching starts the timer only if   *)
(* m_keyCount.)                                                             *)
PendingLinksHaveTimer ==
    process = "open" /\ pending # {} /\ keyCount # 0 => timer

(* When the provider and the web process have nothing left to do, a link    *)
(* that the document styled looks visited if and only if it was added:      *)
(* whatever process, table or size of table there was at the time.          *)
QuietMeansShown ==
    (/\ alive /\ failures = 0 /\ pending = {} /\ ~timer
     /\ toWeb = << >> /\ toUI = << >> /\ dirty = {})
    => \A l \in Checked : shown[l] = "visited" <=> l \in added

(* A link that was added does not stay shown as unvisited: it is shown as   *)
(* visited, or the document or its process is gone, unless shared memory    *)
(* failed or the link waits without a timer (see PendingLinksHaveTimer).    *)
VisitedLinksGetShown ==
    \A l \in Link :
        (l \in added /\ shown[l] = "unvisited")
        ~> (\/ shown[l] # "unvisited" \/ failures > 0
            \/ keyCount = 0 /\ pending # {} /\ ~timer)
=============================================================================
