--------------------------- MODULE SuppressProofs ---------------------------
(***************************************************************************)
(* Proofs about Suppress: its map and its ring implement the guard that    *)
(* Hub is built on, for every ring size and every TTL.                     *)
(***************************************************************************)
EXTENDS Suppress, TLAPS

\* The ring after an `add' is a sequence of hashes and keeps to its size.
LEMMA RingIsBounded ==
  ASSUME NEW h \in Hash, ring \in Seq(Hash), Len(ring) <= RingMax
  PROVE  KeepLast(ring, h, RingMax) \in Seq(Hash) /\ Len(KeepLast(ring, h, RingMax)) <= RingMax
<1>1. CASE Len(ring) < RingMax
  BY <1>1, RingMaxAssumption DEF KeepLast
<1>2. CASE ~(Len(ring) < RingMax)
  <2>1. ring # << >> /\ Len(ring) = RingMax
    BY <1>2, RingMaxAssumption
  <2>2. Tail(ring) \in Seq(Hash) /\ Len(Tail(ring)) = RingMax - 1
    BY <2>1
  <2>3. KeepLast(ring, h, RingMax) = Append(Tail(ring), h)
    BY <1>2 DEF KeepLast
  <2> QED
    BY <2>2, <2>3, RingMaxAssumption
<1> QED
  BY <1>1, <1>2

\* An `add' changes what is live by the hash it adds, and by nothing else.
LEMMA AddKeepsLive ==
  ASSUME TypeOK, NEW h \in Hash, AddHash(h), NEW g \in Hash
  PROVE  Live(items[g])' <=> Live(items[g]) \/ g = h
<1> DEFINE stamp == [items EXCEPT ![h] = now]
<1>1. items'[g] = IF Retains(g, stamp[g], ring') THEN stamp[g] ELSE 0
  BY DEF AddHash
<1>2. now' = now /\ now \in Nat \ {0} /\ items[g] \in Nat
  BY DEF AddHash, TypeOK
<1>3. stamp[g] = IF g = h THEN now ELSE items[g]
  BY DEF TypeOK
<1>4. Live(now)
  BY <1>2, TtlAssumption DEF Live
<1>5. Live(stamp[g]) <=> Live(items[g]) \/ g = h
  BY <1>3, <1>4
<1>6. CASE Live(stamp[g])
  <2>1. items'[g] = stamp[g]
    BY <1>1, <1>6 DEF Retains
  <2> QED
    BY <1>2, <1>5, <1>6, <2>1 DEF Live
<1>7. CASE ~Live(stamp[g])
  <2>1. items'[g] \in {0, stamp[g]}
    BY <1>1
  <2> QED
    BY <1>2, <1>5, <1>7, <2>1 DEF Live
<1> QED
  BY <1>6, <1>7

\* Every step of the guard keeps the type invariant.
LEMMA TypeStep == TypeOK /\ [Next]_vars => TypeOK'
<1> SUFFICES ASSUME TypeOK, [Next]_vars PROVE TypeOK'
  OBVIOUS
<1>1. CASE Tick
  BY <1>1 DEF Tick, TypeOK
<1>2. ASSUME NEW h \in Hash, AddHash(h) PROVE TypeOK'
  <2>1. ring' \in Seq(Hash) /\ Len(ring') <= RingMax
    BY <1>2, RingIsBounded DEF AddHash, TypeOK
  <2>2. now' = now /\ now \in Nat \ {0}
    BY <1>2 DEF AddHash, TypeOK
  <2>3. items' \in [Hash -> Nat] /\ \A g \in Hash : items'[g] <= now
    BY <1>2, <2>2 DEF AddHash, TypeOK
  <2> QED
    BY <2>1, <2>2, <2>3 DEF TypeOK
<1>3. CASE UNCHANGED vars
  BY <1>3 DEF vars, TypeOK
<1> QED
  BY <1>1, <1>2, <1>3 DEF Next

\* Type correctness: the ring keeps to its size, and no entry is from the future.
THEOREM TypeCorrect == Spec => []TypeOK
<1>1. Init => TypeOK
  BY RingMaxAssumption DEF Init, TypeOK
<1> QED
  BY <1>1, TypeStep, PTL DEF Spec

\* Suppress implements the guard Hub is built on: an entry that is not over is
\* never lost, and an entry that is over counts only while its hash is in the ring.
THEOREM GuardIsImplemented == Spec => Implements
<1>1. Init => Promise!Init
  <2> SUFFICES ASSUME Init PROVE bar = [fresh |-> {}, ring |-> << >>]
    BY DEF Promise!Init, Promise!EmptyGuard
  <2>1. ASSUME NEW h \in Hash PROVE ~Live(items[h])
    <3>1. items[h] = 0
      BY DEF Init
    <3> QED
      BY <3>1 DEF Live
  <2> QED
    BY <2>1 DEF bar, Init
<1>2. TypeOK /\ [Next]_vars => [Promise!Next]_bar
  <2> SUFFICES ASSUME TypeOK, [Next]_vars PROVE Promise!Next \/ bar' = bar
    OBVIOUS
  <2>1. CASE Tick
    <3>1. ASSUME NEW g \in Hash PROVE Live(items[g])' => Live(items[g])
      BY <2>1, TtlAssumption DEF Tick, Live, TypeOK
    <3>2. bar'.fresh \in SUBSET bar.fresh
      BY <3>1 DEF bar
    <3>3. bar' = [fresh |-> bar'.fresh, ring |-> bar.ring]
      BY <2>1 DEF Tick, bar
    <3> QED
      BY <3>2, <3>3 DEF Promise!Next, Promise!Lapse
  <2>2. ASSUME NEW h \in Hash, AddHash(h) PROVE Promise!Next
    <3>1. bar'.fresh = bar.fresh \cup {h}
      BY <2>2, AddKeepsLive DEF bar
    <3>2. bar'.ring = Promise!KeepLast(bar.ring, h, RingMax)
      BY <2>2 DEF bar, AddHash, KeepLast, Promise!KeepLast
    <3>3. bar' = Promise!Add(bar, h)
      BY <3>1, <3>2 DEF bar, Promise!Add
    <3> QED
      BY <3>3 DEF Promise!Next
  <2>3. CASE UNCHANGED vars
    BY <2>3 DEF vars, bar, Live
  <2> QED
    BY <2>1, <2>2, <2>3 DEF Next
<1> QED
  BY <1>1, <1>2, TypeCorrect, PTL DEF Spec, Implements, Promise!Spec

\* An `add' leaves no entry that is over and has left the ring.
THEOREM NothingLeaks == Spec => NoLeak
<1>1. TypeOK /\ [Next]_vars
        => [ring' # ring => \A h \in Hash : items'[h] > 0 => Live(items[h])' \/ InRing(ring', h)]_vars
  <2> SUFFICES ASSUME TypeOK, [Next]_vars, ring' # ring, NEW h \in Hash, items'[h] > 0
               PROVE  Live(items[h])' \/ InRing(ring', h)
    OBVIOUS
  <2>1. PICK g \in Hash : AddHash(g)
    BY DEF Next, Tick, vars
  <2> DEFINE t == [items EXCEPT ![g] = now][h]
  <2>2. items'[h] = (IF Retains(h, t, ring') THEN t ELSE 0) /\ now' = now
    BY <2>1 DEF AddHash
  <2>3. Retains(h, t, ring') /\ items'[h] = t
    BY <2>2
  <2>4. CASE Live(t)
    BY <2>2, <2>3, <2>4 DEF Live
  <2>5. CASE ~Live(t)
    BY <2>3, <2>5 DEF Retains
  <2> QED
    BY <2>4, <2>5
<1> QED
  BY <1>1, TypeCorrect, PTL DEF Spec, NoLeak
=============================================================================
