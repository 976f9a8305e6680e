--------------------------- MODULE MCRelayServer ---------------------------
(* Two sessions of one device, and one of another device, which may be in    *)
(* either group.                                                             *)
EXTENDS RelayServer

CONSTANTS c1, c2, c3, dev1, dev2, g1, g2

Devices == [c \in Conn |-> IF c = c3 THEN dev2 ELSE dev1]
Joins   == [c \in Conn |-> IF c = c3 THEN {g1, g2} ELSE {g1}]
=============================================================================
