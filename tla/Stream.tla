------------------------------- MODULE Stream -------------------------------
(***************************************************************************)
(* What a session promises for each direction, and what Hub takes it for:  *)
(* clips arrive whole, once and in the order they were sent, until the     *)
(* receiving end leaves.  Clips under way then are lost.                   *)
(***************************************************************************)
EXTENDS Naturals, Sequences

CONSTANTS Dir, Clip    \* directions, each named for the end it leads to

VARIABLES sent, got, open

vars == <<sent, got, open>>

Send(d, c) == sent' = [sent EXCEPT ![d] = Append(@, c)] /\ UNCHANGED <<got, open>>

Leave(d) == open[d] /\ open' = [open EXCEPT ![d] = FALSE] /\ UNCHANGED sent

\* The end may leave on account of what was delivered.
Deliver(d) ==
  /\ open[d]
  /\ Len(got[d]) < Len(sent[d])
  /\ got' = [got EXCEPT ![d] = Append(@, sent[d][Len(@) + 1])]
  /\ UNCHANGED <<sent, open>> \/ Leave(d)

Init ==
  /\ sent = [d \in Dir |-> << >>]
  /\ got = [d \in Dir |-> << >>]
  /\ open = [d \in Dir |-> TRUE]

Next == \E d \in Dir :
  \/ \E c \in Clip : Send(d, c)
  \/ Deliver(d)
  \/ Leave(d) /\ UNCHANGED got

Spec == Init /\ [][Next]_vars
=============================================================================
