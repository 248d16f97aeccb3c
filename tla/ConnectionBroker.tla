-------------------------- MODULE ConnectionBroker --------------------------
(***************************************************************************)
(* What getPluginProcessConnection promises its callers, with nothing of   *)
(* how it is kept: a caller that waits is given one connection that nobody *)
(* else was ever given, or none.  Processes, launches, crashes, queues and *)
(* messages are the business of PluginProcess, which implements this.      *)
(***************************************************************************)
EXTENDS Integers

CONSTANTS Caller, Connection

VARIABLES
    call,    \* of each caller: "idle", "waiting", "given" or "refused"
    given,   \* the connection a caller was given, 0 if none
    used     \* connections that were given to somebody, or thrown away

Init ==
    /\ call = [i \in Caller |-> "idle"]
    /\ given = [i \in Caller |-> 0]
    /\ used = {}

Ask(i) ==
    /\ call[i] = "idle"
    /\ call' = [call EXCEPT ![i] = "waiting"]
    /\ UNCHANGED <<given, used>>

Give(i, c) ==
    /\ call[i] = "waiting" /\ c \notin used
    /\ call' = [call EXCEPT ![i] = "given"]
    /\ given' = [given EXCEPT ![i] = c]
    /\ used' = used \cup {c}

Refuse(i) ==
    /\ call[i] = "waiting"
    /\ call' = [call EXCEPT ![i] = "refused"]
    /\ UNCHANGED <<given, used>>

(* The caller goes on with what it was given.                              *)
Return(i) ==
    /\ call[i] \in {"given", "refused"}
    /\ call' = [call EXCEPT ![i] = "idle"]
    /\ given' = [given EXCEPT ![i] = 0]
    /\ UNCHANGED used

ThrowAway(c) ==
    /\ c \notin used
    /\ used' = used \cup {c}
    /\ UNCHANGED <<call, given>>

(* The process of some callers dies, with the connections on their way.    *)
Vanish(callers, connections) ==
    /\ call' = [i \in Caller |-> IF i \in callers THEN "idle" ELSE call[i]]
    /\ given' = [i \in Caller |-> IF i \in callers THEN 0 ELSE given[i]]
    /\ used' = used \cup connections

Next ==
    \/ \E i \in Caller : Ask(i) \/ Refuse(i) \/ Return(i)
    \/ \E i \in Caller, c \in Connection : Give(i, c)
    \/ \E c \in Connection : ThrowAway(c)
    \/ \E callers \in SUBSET Caller, connections \in SUBSET Connection :
          Vanish(callers, connections)

Spec == Init /\ [][Next]_<<call, given, used>>
=============================================================================
