---------------------------- MODULE MCLifecycle ----------------------------
(* Up to three starts, two of which get one pid.                           *)
EXTENDS Lifecycle

MCPidOf == [p \in Processes |-> IF p = "p2" THEN "12" ELSE "11"]
=============================================================================
