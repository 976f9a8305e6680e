------------------------------ MODULE Suppress ------------------------------
(***************************************************************************)
(* The suppress guard of src/suppress.rs with its clock, its map of        *)
(* Instants and its ring.  Hub holds its mutex for one call of `add' or    *)
(* `has', so a call is one step; the clock stands still during it.         *)
(***************************************************************************)
EXTENDS SuppressRing

CONSTANTS Ttl,       \* Suppress::ttl (5 s by default)
          MaxTime    \* bound: the clock

ASSUME TtlAssumption == Ttl \in Nat /\ MaxTime \in Nat

VARIABLES
  now,
  items,    \* Suppress::items, 0 where the map has no entry
  ring      \* Suppress::ring

vars == <<now, items, ring>>

InRing(s, h) == \E i \in DOMAIN s : s[i] = h

\* elapsed() <= ttl
Live(t) == t > 0 /\ now <= t + Ttl

\* The hash that `add' pops: its entry goes at once if its TTL is over.
Popped == IF Len(ring) < RingMax THEN {} ELSE {Head(ring)}

\* mutants: gc keeps what is live and in the ring; gc removes nothing
KeepsBoth(h, t, s) == Live(t) /\ InRing(s, h)
KeepsAll(h, t, s) == TRUE

\* What the eviction and gc leave of an entry with time t, the ring being s.
Retains(h, t, s) == Live(t) \/ (InRing(s, h) /\ h \notin Popped)

\* Suppress::add: stamp, push, evict, gc.
AddHash(h) ==
  LET stamp == [items EXCEPT ![h] = now] IN
  /\ ring' = KeepLast(ring, h, RingMax)
  /\ items' = [g \in Hash |-> IF Retains(g, stamp[g], ring') THEN stamp[g] ELSE 0]
  /\ UNCHANGED now

Tick ==
  /\ now < MaxTime
  /\ now' = now + 1
  /\ UNCHANGED <<items, ring>>

Init ==
  /\ now = 1
  /\ items = [h \in Hash |-> 0]
  /\ ring = << >>

Next == Tick \/ \E h \in Hash : AddHash(h)

Spec == Init /\ [][Next]_vars

-----------------------------------------------------------------------------
(* Properties *)

\* Type invariant; the ring keeps to its size.
TypeOK ==
  /\ now \in Nat \ {0}
  /\ items \in [Hash -> Nat]
  /\ \A h \in Hash : items[h] <= now
  /\ ring \in Seq(Hash) /\ Len(ring) <= RingMax

\* The guard as Hub sees it.
bar == [fresh |-> {h \in Hash : Live(items[h])}, ring |-> ring]

\* Map and ring together behave as the guard of SuppressRing: neither the
\* eviction nor gc ever removes an entry before its TTL is over, so `has' does not
\* forget a clip that was just applied.
Promise == INSTANCE SuppressSpec WITH guard <- bar
Implements == Promise!Spec

\* An `add' leaves no entry in the map that is over and whose hash has left the
\* ring: the map does not grow with everything ever copied.
NoLeak ==
  [][ring' # ring => \A h \in Hash : items'[h] > 0 => Live(items[h])' \/ InRing(ring', h)]_vars
=============================================================================
