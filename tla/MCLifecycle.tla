---------------------------- MODULE MCLifecycle ----------------------------
(* Three processes, the second of which may be given another port. *)
EXTENDS Lifecycle

CONSTANTS v1, v2

PortsNamed == [p \in Pid |-> IF p = 2 THEN {v1, v2} ELSE {v1}]
=============================================================================
