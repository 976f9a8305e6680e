---------------------------- MODULE SuppressRing ----------------------------
(***************************************************************************)
(* What src/suppress.rs answers, without its clock: a guard is a record of *)
(*   fresh : the hashes added less than one TTL ago,                       *)
(*   ring  : the last RingMax hashes added, oldest first.                  *)
(* The HashMap of Instants only matters through `fresh': an entry older    *)
(* than the TTL never makes `has' answer true, and neither `add' nor `gc'  *)
(* removes a younger one.                                                  *)
(***************************************************************************)
EXTENDS Naturals, Sequences

CONSTANTS Hash,      \* content hashes
          RingMax    \* Suppress::max

ASSUME RingMaxAssumption == RingMax \in Nat \ {0}

Guard == [fresh : SUBSET Hash, ring : Seq(Hash)]

EmptyGuard == [fresh |-> {}, ring |-> << >>]

\* (mutant: the eviction is forgotten)
KeepAll(s, x, cap) == Append(s, x)

\* A queue that keeps its last `cap' elements: the suppress ring, and the
\* tokio broadcast channel as one receiver sees it.
KeepLast(s, x, cap) ==
  IF Len(s) < cap THEN Append(s, x) ELSE Append(Tail(s), x)

\* Suppress::has : a live entry, or any entry still in the ring whatever its age.
Has(g, h) == h \in g.fresh \/ \E i \in DOMAIN g.ring : g.ring[i] = h

\* Suppress::add
Add(g, h) == [fresh |-> g.fresh \cup {h}, ring |-> KeepLast(g.ring, h, RingMax)]

\* The TTL of one entry runs out (Instant::elapsed).
Expired(g, h) == [g EXCEPT !.fresh = @ \ {h}]
=============================================================================
