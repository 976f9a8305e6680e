------------------------------- MODULE MCWire -------------------------------
(* A session between a, which emits two clips, and b, which emits two and has
   one more that came from a. *)
EXTENDS Wire

CONSTANTS a, b, x, y, z, v, w

Emitter == [c \in Clip |-> IF c \in {x, y} THEN a ELSE b]
Lengths == [c \in Clip |-> IF c = x THEN 2 ELSE 1]
=============================================================================
