---------------------------- MODULE ClipDelivery ----------------------------
(***************************************************************************)
(* What a network of hubs promises of its clipboards, with no queue, frame *)
(* or guard in sight: a clipboard changes when a local program sets it, or *)
(* when a clip another daemon issued is delivered to it, newer than every  *)
(* clip of that origin it was given before.  Clips may be lost, and never  *)
(* come twice.  A daemon that restarts forgets what it was given, but not  *)
(* the numbers of its own clips.                                           *)
(***************************************************************************)
EXTENDS Naturals

CONSTANTS Node, Hash, Empty,
          Shown    \* Shown[n][h]: what the clipboard of n shows after set(h)

VARIABLES
  issued,    \* the clips issued so far
  last,      \* last[n][o]: number of the last clip of o delivered to n
  board      \* content of the clipboard of each node

vars == <<issued, last, board>>

Local(n) ==
  /\ \E h \in Hash : board' = [board EXCEPT ![n] = h]
  /\ UNCHANGED <<issued, last>>

\* The number of a new clip is above every number its origin has used.
Issue(n) ==
  /\ \E c \in issued' \ issued :
       /\ c.origin = n
       /\ \A d \in issued : d.origin = n => d.seq < c.seq
       /\ issued' = issued \cup {c}
  /\ UNCHANGED <<last, board>>

Deliver(n) ==
  /\ \E c \in issued :
       /\ c.origin # n
       /\ c.seq > last[n][c.origin]
       /\ last' = [last EXCEPT ![n][c.origin] = c.seq]
       /\ board' = [board EXCEPT ![n] = Shown[n][c.hash]]
  /\ UNCHANGED issued

Restart(n) ==
  /\ last' = [last EXCEPT ![n] = [o \in Node |-> 0]]
  /\ UNCHANGED <<issued, board>>

Init ==
  /\ issued = {}
  /\ last = [n \in Node |-> [o \in Node |-> 0]]
  /\ board = [n \in Node |-> Empty]

Next == \E n \in Node : Local(n) \/ Issue(n) \/ Deliver(n) \/ Restart(n)

Spec == Init /\ [][Next]_vars
=============================================================================
