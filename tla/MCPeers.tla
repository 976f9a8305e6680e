------------------------------ MODULE MCPeers ------------------------------
(* Daemon a dials daemon b, which has a relay saved and may dial a, too. *)
EXTENDS Peers

CONSTANTS a, b, ua, ub, r

Hosts  == [u \in Addr |-> CASE u = ua -> a [] u = ub -> b [] u = r -> Relay]
Dialled == [n \in Node |-> IF n = a THEN {ub} ELSE {ua} \cap Addr]
AtFirst == [n \in Node |-> IF n = b THEN {r} ELSE {}]
=============================================================================
