---------------------------- MODULE SuppressSpec ----------------------------
(***************************************************************************)
(* What Hub relies on: a guard whose entries lapse at unknown times.  Hub  *)
(* takes the operators of SuppressRing for its `sup' variable; this is the *)
(* machine they make, for Suppress to implement.                           *)
(***************************************************************************)
EXTENDS SuppressRing

VARIABLE guard

Init == guard = EmptyGuard

Lapse == \E F \in SUBSET guard.fresh : guard' = [fresh |-> F, ring |-> guard.ring]

Next == Lapse \/ \E h \in Hash : guard' = Add(guard, h)

Spec == Init /\ [][Next]_guard
=============================================================================
