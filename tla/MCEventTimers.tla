---------------------------- MODULE MCEventTimers ----------------------------
(* The timers of NARB, whose interval is longer than the timeout of a       *)
(* session, and of the RCE, for OSPF and TERCE.                             *)
EXTENDS EventTimers

MCPeriods == {[topology |-> 5], [ospf |-> 2, terce |-> 4]}
=============================================================================
