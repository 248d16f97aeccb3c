---------------------------- MODULE MCConnection ----------------------------
(***************************************************************************)
(* Instances of Connection for TLC: the web process and the UI process, or *)
(* the web process and a plug-in process, joined by one socket pair; and   *)
(* the line UI process - web process - plug-in process, in which the two   *)
(* connections of the web process share its run loop's semaphore.          *)
(***************************************************************************)
EXTENDS Connection, TLC

CONSTANTS ui, web, plugin,   \* processes
          ua, wa,            \* connection UI process - web process
          wb, pb             \* connection web process - plug-in process

AllProcOf == (ua :> ui) @@ (wa :> web) @@ (wb :> web) @@ (pb :> plugin)
AllPeerOf == (ua :> wa) @@ (wa :> ua) @@ (wb :> pb) @@ (pb :> wb)

MCProcOf == [e \in Endpoint |-> AllProcOf[e]]
MCPeerOf == [e \in Endpoint |-> AllPeerOf[e]]

(* Bounds on what each end sends.                                          *)
None == [e \in Endpoint |-> 0]
One == [e \in Endpoint |-> 1]
WebTwo == [e \in Endpoint |-> IF ProcOf[e] = web THEN 2 ELSE 1]
AllButUI == [e \in Endpoint |-> IF e = ua THEN 0 ELSE 1]
AllButWebToUI == [e \in Endpoint |-> IF e = wa THEN 0 ELSE 1]
OneFromPlugin == [e \in Endpoint |-> IF e = pb THEN 1 ELSE 0]
=============================================================================
