---------------------------- MODULE ProbeProofs ----------------------------
(***************************************************************************)
(* Proofs about Probe.  The argument rests on one fact about the constants *)
(* (ProbeAssumption): Ban is longer than Window.  The entry of a banned    *)
(* address is therefore counted from 1 again, or forgotten, before the     *)
(* address can connect again, so a full count never grows by more than the *)
(* handshakes that were in progress when the ban began.                    *)
(***************************************************************************)
EXTENDS Probe, FiniteSetTheorems, TLAPS

\* The part of the type invariant that does not bound the count.
Shapes ==
  /\ now \in Nat \ {0}
  /\ fails \in [Ip -> Nat]
  /\ window \in [Ip -> Nat]
  /\ until \in [Ip -> Nat]
  /\ open \in [Ip -> 0 .. MaxOpen]
  /\ log \in [Ip -> Seq(Nat)]
  /\ \A ip \in Ip : window[ip] <= now

\* A full count bans its address for longer than its window lasts, and leaves
\* room for the handshakes still in progress.
FullCount(ip) ==
  fails[ip] >= MaxFails =>
    /\ fails[ip] + open[ip] <= MaxFails - 1 + MaxOpen
    /\ window[ip] + Window < until[ip]

\* A ban, also one that is over, dates from the last failure at the latest.
Dated(ip) ==
  until[ip] > 0 =>
    /\ log[ip] # << >>
    /\ log[ip][Len(log[ip])] <= now
    /\ until[ip] <= log[ip][Len(log[ip])] + Ban

\* The inductive invariant.
BanInv == Shapes /\ \A ip \in Ip : FullCount(ip) /\ Dated(ip)

-----------------------------------------------------------------------------
\* The log ends with the failure just recorded, and it is a sequence of times.
LEMMA LogEnds ==
  ASSUME NEW s \in Seq(Nat), NEW t \in Nat, NEW n \in Nat \ {0}
  PROVE  /\ LastOf(Append(s, t), n) \in Seq(Nat)
         /\ LastOf(Append(s, t), n) # << >>
         /\ LastOf(Append(s, t), n)[Len(LastOf(Append(s, t), n))] = t
<1> DEFINE r == Append(s, t)
<1>1. r \in Seq(Nat) /\ Len(r) = Len(s) + 1 /\ r[Len(r)] = t
  OBVIOUS
<1>2. CASE Len(r) > n
  <2>1. Len(s) >= 1
    BY <1>1, <1>2
  <2>2. Tail(r) \in Seq(Nat) /\ Len(Tail(r)) = Len(s) /\ Tail(r)[Len(s)] = r[Len(s) + 1]
    BY <1>1, <2>1
  <2> QED
    BY <1>1, <1>2, <2>1, <2>2 DEF LastOf
<1>3. CASE ~(Len(r) > n)
  <2>1. LastOf(r, n) = r
    BY <1>3 DEF LastOf
  <2>2. r # << >>
    BY <1>1
  <2> QED
    BY <1>1, <2>1, <2>2
<1> QED
  BY <1>2, <1>3

\* An entry with a full count is banned while its window runs.
LEMMA FullCountIsBanned ==
  ASSUME Shapes, NEW ip \in Ip, FullCount(ip), fails[ip] >= MaxFails, Running(ip)
  PROVE  Banned(ip)
BY ProbeAssumption DEF Shapes, FullCount, Running, Banned

-----------------------------------------------------------------------------
\* Every step of the tracker keeps the inductive invariant.
LEMMA BanStep == BanInv /\ [Next]_vars => BanInv'
<1> SUFFICES ASSUME BanInv, [Next]_vars PROVE BanInv'
  OBVIOUS
<1> USE ProbeAssumption
<1>s. Shapes
  BY DEF BanInv
<1>1. CASE Tick
  BY <1>1 DEF Tick, BanInv, Shapes, FullCount, Dated, probes
<1>2. ASSUME NEW ip \in Ip, Connect(ip) PROVE BanInv'
  <2> DEFINE S == {i \in Ip : Keeps(i)}
  <2>0. \/ open' = open
        \/ /\ ~Banned(ip) /\ open[ip] < MaxOpen
           /\ open' = [open EXCEPT ![ip] = open[ip] + 1]
    BY <1>2, Zenon DEF Connect
  <2>n. now' = now /\ log' = log
    BY <1>2 DEF Connect
  <2>1. Shapes'
    <3>1. /\ fails' \in [Ip -> Nat] /\ window' \in [Ip -> Nat] /\ until' \in [Ip -> Nat]
          /\ \A i \in Ip : window'[i] <= now
      BY <1>2, <1>s DEF Connect, Retain, Only, Shapes
    <3>2. open' \in [Ip -> 0 .. MaxOpen]
      <4>1. open \in [Ip -> 0 .. MaxOpen] /\ open[ip] \in 0 .. MaxOpen
        BY <1>s DEF Shapes
      <4>2. open[ip] < MaxOpen => open[ip] + 1 \in 0 .. MaxOpen
        BY <4>1
      <4> QED
        BY <2>0, <4>1, <4>2
    <3> QED
      BY <1>s, <2>n, <3>1, <3>2 DEF Shapes
  <2>2. ASSUME NEW i \in Ip PROVE FullCount(i)' /\ Dated(i)'
    <3>1. CASE i \notin S
      BY <1>2, <1>s, <3>1 DEF Connect, Retain, Only, FullCount, Dated, Shapes
    <3>2. CASE i \in S
      <4>1. /\ fails'[i] = fails[i] /\ window'[i] = window[i] /\ until'[i] = until[i]
        BY <1>2, <3>2 DEF Connect, Retain, Only
      <4>2. FullCount(i) /\ Dated(i)
        BY DEF BanInv
      <4>3. fails[i] >= MaxFails => Banned(i)
        BY <3>2, <4>2, <1>s, FullCountIsBanned DEF Keeps
      <4>4. Banned(i) => open'[i] = open[i]
        <5>1. CASE i = ip
          BY <1>2, <5>1, Zenon DEF Connect
        <5>2. CASE i # ip
          BY <1>s, <2>0, <5>2 DEF Shapes
        <5> QED
          BY <5>1, <5>2
      <4> QED
        BY <2>n, <4>1, <4>2, <4>3, <4>4 DEF FullCount, Dated
    <3> QED
      BY <3>1, <3>2
  <2> QED
    BY <2>1, <2>2 DEF BanInv
<1>3. ASSUME NEW ip \in Ip, Fail(ip) PROVE BanInv'
  <2> DEFINE n == Count(ip)
  <2>0. /\ fails[ip] \in Nat /\ window[ip] \in Nat /\ until[ip] \in Nat
        /\ open[ip] \in 1 .. MaxOpen /\ now \in Nat \ {0} /\ log[ip] \in Seq(Nat)
    BY <1>3, <1>s DEF Fail, Shapes
  <2>1. n \in Nat
    BY <2>0 DEF Count
  <2>2. /\ fails'[ip] = n
        /\ window'[ip] = IF Running(ip) THEN window[ip] ELSE now
        /\ until'[ip] = IF n >= MaxFails THEN now + Ban ELSE until[ip]
        /\ open'[ip] = open[ip] - 1
        /\ log'[ip] = LastOf(Append(log[ip], now), 2 * MaxFails)
        /\ now' = now
    BY <1>3, <1>s DEF Fail, Shapes, Reached, NewBan
  <2>3. /\ log'[ip] \in Seq(Nat) /\ log'[ip] # << >>
        /\ log'[ip][Len(log'[ip])] = now
    <3>1. 2 * MaxFails \in Nat \ {0}
      OBVIOUS
    <3>2. /\ LastOf(Append(log[ip], now), 2 * MaxFails) \in Seq(Nat)
          /\ LastOf(Append(log[ip], now), 2 * MaxFails) # << >>
          /\ LastOf(Append(log[ip], now), 2 * MaxFails)
               [Len(LastOf(Append(log[ip], now), 2 * MaxFails))] = now
      <4> HIDE ProbeAssumption
      <4>1. now \in Nat
        BY <2>0
      <4> QED
        BY <2>0, <3>1, <4>1, LogEnds, Zenon
    <3> QED
      BY <2>2, <3>2, Zenon
  <2>4. Shapes'
    <3>1. /\ fails' = [fails EXCEPT ![ip] = n]
          /\ window' = [window EXCEPT ![ip] = window'[ip]]
          /\ until' = [until EXCEPT ![ip] = until'[ip]]
          /\ open' = [open EXCEPT ![ip] = open'[ip]]
          /\ log' = [log EXCEPT ![ip] = log'[ip]]
      BY <1>3, <1>s, <2>2 DEF Fail, Shapes
    <3>2. window'[ip] \in Nat /\ window'[ip] <= now
      BY <1>s, <2>0, <2>2 DEF Shapes
    <3>3. until'[ip] \in Nat /\ open'[ip] \in 0 .. MaxOpen
      BY <2>0, <2>2
    <3>4. log' \in [Ip -> Seq(Nat)]
      <4> HIDE ProbeAssumption
      <4>1. log'[ip] \in Seq(Nat) /\ log \in [Ip -> Seq(Nat)]
        BY <1>s, <2>3 DEF Shapes
      <4> QED
        BY <3>1, <4>1, Zenon
    <3>5. \A i \in Ip : window'[i] <= now
      BY <1>s, <3>1, <3>2 DEF Shapes
    <3> QED
      BY <1>s, <2>1, <2>2, <3>1, <3>2, <3>3, <3>4, <3>5 DEF Shapes
  <2>5. FullCount(ip)'
    <3>1. CASE Running(ip)
      <4>1. n = fails[ip] + 1 /\ now <= window[ip] + Window
        BY <3>1 DEF Count, Running
      <4>2. FullCount(ip)
        BY DEF BanInv
      <4>3. window[ip] <= now
        BY <1>s DEF Shapes
      <4>4. window'[ip] = window[ip] /\ fails'[ip] = fails[ip] + 1
        BY <2>2, <3>1, <4>1
      <4>5. fails'[ip] >= MaxFails => until'[ip] = now + Ban
        BY <2>2
      <4>6. fails[ip] + open[ip] <= MaxFails - 1 + MaxOpen \/ fails[ip] < MaxFails
        BY <2>0, <4>2 DEF FullCount
      <4>7. fails'[ip] >= MaxFails => fails'[ip] + open'[ip] <= MaxFails - 1 + MaxOpen
        <5>1. /\ fails[ip] \in Nat /\ open[ip] \in 1 .. MaxOpen
              /\ MaxFails \in Nat \ {0} /\ MaxOpen \in Nat
          BY <2>0
        <5>2. fails'[ip] + open'[ip] = fails[ip] + open[ip]
          <6> HIDE DEF n
          <6>1. fails'[ip] = fails[ip] + 1 /\ open'[ip] = open[ip] - 1
            BY <2>2, <4>4
          <6> QED
            BY <5>1, <6>1
        <5>3. fails[ip] < MaxFails => fails[ip] + open[ip] <= MaxFails - 1 + MaxOpen
          BY <5>1
        <5> QED
          BY <4>6, <5>2, <5>3
      <4> QED
        BY <2>0, <4>3, <4>4, <4>5, <4>7 DEF FullCount
    <3>2. CASE ~Running(ip)
      <4>1. n = 1
        BY <3>2 DEF Count
      <4> QED
        BY <2>0, <2>2, <3>2, <4>1 DEF FullCount
    <3> QED
      BY <3>1, <3>2
  <2>6. Dated(ip)'
    <3>1. Dated(ip)
      BY DEF BanInv
    <3>2. until'[ip] = now + Ban \/ until'[ip] = until[ip]
      BY <2>2
    <3>3. until[ip] > 0 => until[ip] <= now + Ban
      <4> SUFFICES ASSUME until[ip] > 0 PROVE until[ip] <= now + Ban
        OBVIOUS
      <4>1. log[ip] # << >> /\ log[ip][Len(log[ip])] \in Nat
        BY <2>0, <3>1 DEF Dated
      <4> QED
        BY <2>0, <3>1, <4>1 DEF Dated
    <3> QED
      BY <2>0, <2>2, <2>3, <3>2, <3>3 DEF Dated
  <2>7. ASSUME NEW i \in Ip, i # ip PROVE FullCount(i)' /\ Dated(i)'
    <3>1. /\ fails'[i] = fails[i] /\ window'[i] = window[i] /\ until'[i] = until[i]
          /\ open'[i] = open[i] /\ log'[i] = log[i] /\ now' = now
      BY <1>3, <1>s, <2>7 DEF Fail, Shapes
    <3>2. FullCount(i) /\ Dated(i)
      BY DEF BanInv
    <3> QED
      BY <3>1, <3>2 DEF FullCount, Dated
  <2> QED
    BY <2>4, <2>5, <2>6, <2>7 DEF BanInv
<1>4. ASSUME NEW ip \in Ip, Ok(ip) PROVE BanInv'
  <2>1. Shapes'
    BY <1>4, <1>s DEF Ok, Retain, Only, Shapes
  <2>2. ASSUME NEW i \in Ip PROVE FullCount(i)' /\ Dated(i)'
    <3>1. CASE i = ip
      BY <1>4, <1>s, <3>1 DEF Ok, Retain, Only, FullCount, Dated, Shapes
    <3>2. CASE i # ip
      BY <1>4, <1>s, <3>2 DEF Ok, Retain, Only, BanInv, FullCount, Dated, Shapes
    <3> QED
      BY <3>1, <3>2
  <2> QED
    BY <2>1, <2>2 DEF BanInv
<1>5. CASE UNCHANGED vars
  BY <1>5 DEF vars, probes, BanInv, Shapes, FullCount, Dated
<1> QED
  BY <1>1, <1>2, <1>3, <1>4, <1>5 DEF Next

\* The inductive invariant holds of every reachable state.
LEMMA BanInvariant == Spec => []BanInv
<1>1. Init => BanInv
  BY ProbeAssumption DEF Init, BanInv, Shapes, FullCount, Dated
<1> QED
  BY <1>1, BanStep, PTL DEF Spec

\* Type correctness, with the bound on the count: after a ban has begun, no more
\* failures are counted than there were handshakes in progress.
THEOREM CountsAreBounded == Spec => []TypeOK
<1>1. BanInv => TypeOK
  <2> SUFFICES ASSUME BanInv, NEW ip \in Ip PROVE fails[ip] \in 0 .. MaxFails - 1 + MaxOpen
    BY DEF BanInv, Shapes, TypeOK
  <2>1. FullCount(ip) /\ Shapes
    BY DEF BanInv
  <2> QED
    BY ProbeAssumption, <2>1 DEF Shapes, FullCount
<1> QED
  BY <1>1, BanInvariant, PTL

\* A banned address has failed since its last success, and its ban ends Ban after
\* its last failure at the latest.
THEOREM BansAreDated == Spec => []BanFollowsFailure
<1>1. BanInv => BanFollowsFailure
  BY DEF BanInv, Shapes, Dated, BanFollowsFailure, Banned
<1> QED
  BY <1>1, BanInvariant, PTL

-----------------------------------------------------------------------------
(* The failures behind a count.  The log is read from its end: d failures were *)
(* recorded after Back(s, d).  The failures counted in the entry are the last  *)
(* ones of the log, those before belong to windows that were over.             *)

Back(s, d) == s[Len(s) - d]

Ages(s) == 0 .. Len(s) - 1

\* No failure is in the future, and they are in order.
InOrder(ip) ==
  /\ \A d \in Ages(log[ip]) : Back(log[ip], d) <= now
  /\ \A d, e \in Ages(log[ip]) : d < e => Back(log[ip], e) <= Back(log[ip], d)

\* The failures counted are of the running window, those before it older.
Counted(ip) ==
  /\ fails[ip] <= Len(log[ip]) \/ 2 * MaxFails <= Len(log[ip])
  /\ \A d \in Ages(log[ip]) :
       /\ d < fails[ip] => window[ip] <= Back(log[ip], d)
       /\ 0 < fails[ip] /\ fails[ip] <= d => Back(log[ip], d) <= window[ip]

\* Of the failures not counted, MaxFails - 1 at most can be less than Window old
\* once no ban is on.
Spaced(ip) ==
  \A d \in Ages(log[ip]) : fails[ip] + MaxFails - 1 <= d =>
    \/ fails[ip] = 0 /\ Back(log[ip], d) + Window < now
    \/ 0 < fails[ip] /\ Back(log[ip], d) + Window < window[ip]
    \/ Back(log[ip], d) + Window < until[ip]

\* A full count bans from the last failure on; where nothing is counted, nothing
\* is banned.
Banning(ip) ==
  /\ MaxFails <= fails[ip] => log[ip] # << >> /\ Back(log[ip], 0) + Ban <= until[ip]
  /\ fails[ip] = 0 => until[ip] = 0

LogInv == \A ip \in Ip : InOrder(ip) /\ Counted(ip) /\ Spaced(ip) /\ Banning(ip)

\* A failure of r that was recorded before the last one, d of them ago, is a failure
\* of s.
Older(s, r, d) == d # 0 => d - 1 \in Ages(s) /\ Back(r, d) = Back(s, d - 1)

\* Recording a failure puts it at the end; every other failure of the log is then
\* one further from it, and only a full log forgets one.
LEMMA LogShifts ==
  ASSUME NEW s \in Seq(Nat), NEW t \in Nat, NEW n \in Nat \ {0}, NEW r,
         r = LastOf(Append(s, t), n)
  PROVE  /\ r \in Seq(Nat) /\ r # << >> /\ 0 \in Ages(r) /\ Back(r, 0) = t
         /\ Len(r) = Len(s) + 1 \/ n <= Len(r)
         /\ \A d \in Ages(r) : Older(s, r, d)
<1> DEFINE a == Append(s, t)
<1>1. /\ a \in Seq(Nat) /\ Len(a) = Len(s) + 1 /\ a[Len(a)] = t /\ Len(s) \in Nat
      /\ \A i \in 1 .. Len(s) : a[i] = s[i]
  OBVIOUS
<1> HIDE DEF a
<1>2. CASE Len(a) > n
  <2>1. r = Tail(a) /\ Len(s) >= n /\ a # << >>
    BY <1>1, <1>2 DEF LastOf, a
  <2>2. r \in Seq(Nat) /\ Len(r) = Len(s) /\ \A i \in 1 .. Len(s) : r[i] = a[i + 1]
    BY <1>1, <2>1
  <2>3. Len(s) >= 1
    BY <1>1, <2>1
  <2>4. 0 \in Ages(r) /\ Back(r, 0) = t /\ r # << >>
    BY <1>1, <2>2, <2>3 DEF Ages, Back
  <2>5. ASSUME NEW d \in Ages(r), d # 0 PROVE d - 1 \in Ages(s) /\ Back(r, d) = Back(s, d - 1)
    <3>1. d \in 1 .. Len(s) - 1
      BY <1>1, <2>2, <2>5 DEF Ages
    <3>2. /\ Len(s) - d \in 1 .. Len(s) /\ Len(s) - d + 1 = Len(s) - (d - 1)
          /\ Len(s) - (d - 1) \in 1 .. Len(s)
      BY <1>1, <3>1
    <3>3. r[Len(s) - d] = s[Len(s) - (d - 1)]
      BY <1>1, <2>2, <3>2
    <3>4. d - 1 \in Ages(s)
      BY <1>1, <3>1 DEF Ages
    <3> QED
      BY <2>2, <3>3, <3>4 DEF Back
  <2> QED
    BY <1>1, <2>1, <2>2, <2>4, <2>5 DEF Older
<1>3. CASE ~(Len(a) > n)
  <2>1. r = a
    BY <1>3 DEF LastOf, a
  <2>2. 0 \in Ages(r) /\ Back(r, 0) = t /\ r # << >>
    BY <1>1, <2>1 DEF Ages, Back
  <2>3. ASSUME NEW d \in Ages(r), d # 0 PROVE d - 1 \in Ages(s) /\ Back(r, d) = Back(s, d - 1)
    <3>1. d \in 1 .. Len(s)
      BY <1>1, <2>1, <2>3 DEF Ages
    <3>2. Len(s) - (d - 1) \in 1 .. Len(s) /\ Len(r) - d = Len(s) - (d - 1)
      BY <1>1, <2>1, <3>1
    <3>3. a[Len(s) - (d - 1)] = s[Len(s) - (d - 1)]
      BY <1>1, <3>2
    <3>4. d - 1 \in Ages(s)
      BY <1>1, <3>1 DEF Ages
    <3> QED
      BY <2>1, <3>2, <3>3, <3>4 DEF Back
  <2> QED
    BY <1>1, <2>1, <2>2, <2>3 DEF Older
<1> QED
  BY <1>2, <1>3

\* The ages of a log are times.
LEMMA BackIsTime ==
  ASSUME NEW s \in Seq(Nat), NEW d \in Ages(s)
  PROVE  Back(s, d) \in Nat /\ d \in Nat
<1>1. Len(s) - d \in 1 .. Len(s) /\ d \in Nat
  BY DEF Ages
<1> QED
  BY <1>1 DEF Back

\* Once its ban is over, no failure of an entry with a full count is recent, and
\* neither is one of before a window that is over.
LEMMA Forgotten ==
  ASSUME Shapes, NEW ip \in Ip, InOrder(ip), Counted(ip), Banning(ip),
         ~Running(ip), 0 < fails[ip], NEW d \in Ages(log[ip]), MaxFails - 1 <= d
  PROVE  \/ Back(log[ip], d) + Window < now
         \/ Back(log[ip], d) + Window < until[ip]
<1> USE ProbeAssumption
<1>1. /\ fails[ip] \in Nat /\ window[ip] \in Nat /\ until[ip] \in Nat /\ now \in Nat
      /\ log[ip] \in Seq(Nat)
  BY DEF Shapes
<1>2. Back(log[ip], d) \in Nat /\ d \in Nat
  BY <1>1, BackIsTime
<1>3. CASE fails[ip] < MaxFails
  <2>1. window[ip] + Window < now
    BY <1>1 DEF Running
  <2>2. Back(log[ip], d) <= window[ip]
    BY <1>1, <1>2, <1>3 DEF Counted
  <2> QED
    BY <1>1, <1>2, <2>1, <2>2
<1>4. CASE MaxFails <= fails[ip]
  <2>1. 0 \in Ages(log[ip])
    BY <1>1, <1>2 DEF Ages
  <2>2. Back(log[ip], 0) \in Nat
    BY <1>1, <2>1, BackIsTime
  <2>3. Back(log[ip], 0) + Ban <= until[ip]
    BY <1>4 DEF Banning
  <2>4. Back(log[ip], d) <= Back(log[ip], 0)
    <3>1. CASE d = 0
      BY <2>2, <3>1
    <3>2. CASE d # 0
      BY <1>2, <2>1, <3>2 DEF InOrder
    <3> QED
      BY <3>1, <3>2
  <2> QED
    BY <1>1, <1>2, <2>2, <2>3, <2>4
<1> QED
  BY <1>1, <1>3, <1>4

\* Every step of the tracker keeps the invariant of the log.
LEMMA LogStep == BanInv /\ LogInv /\ [Next]_vars => LogInv'
<1> SUFFICES ASSUME BanInv, LogInv, [Next]_vars PROVE LogInv'
  OBVIOUS
<1> USE ProbeAssumption
<1>s. Shapes
  BY DEF BanInv
<1>t. \A i \in Ip : /\ fails[i] \in Nat /\ window[i] \in Nat /\ until[i] \in Nat
                    /\ log[i] \in Seq(Nat) /\ window[i] <= now
  BY <1>s DEF Shapes
<1>n. now \in Nat
  BY <1>s DEF Shapes
<1>u. ASSUME NEW i \in Ip, now' = now,
             fails'[i] = fails[i], window'[i] = window[i], until'[i] = until[i], log'[i] = log[i]
      PROVE  (InOrder(i) /\ Counted(i) /\ Spaced(i) /\ Banning(i))'
  <2>1. InOrder(i) /\ Counted(i) /\ Spaced(i) /\ Banning(i)
    BY DEF LogInv
  <2> QED
    BY <1>u, <2>1 DEF InOrder, Counted, Spaced, Banning
<1>1. CASE Tick
  <2> SUFFICES ASSUME NEW i \in Ip PROVE (InOrder(i) /\ Counted(i) /\ Spaced(i) /\ Banning(i))'
    BY DEF LogInv
  <2>1. InOrder(i) /\ Counted(i) /\ Spaced(i) /\ Banning(i)
    BY DEF LogInv
  <2>2. now' = now + 1 /\ UNCHANGED <<fails, window, until, log>>
    BY <1>1 DEF Tick, probes
  <2>3. \A d \in Ages(log[i]) : Back(log[i], d) \in Nat
    BY <1>t, BackIsTime
  <2>4. InOrder(i)'
    BY <1>n, <2>1, <2>2, <2>3 DEF InOrder
  <2>5. Counted(i)' /\ Banning(i)'
    BY <2>1, <2>2 DEF Counted, Banning
  <2>6. Spaced(i)'
    BY <1>n, <2>1, <2>2, <2>3 DEF Spaced
  <2> QED
    BY <2>4, <2>5, <2>6
<1>2. ASSUME NEW ip \in Ip, Connect(ip) PROVE LogInv'
  <2> SUFFICES ASSUME NEW i \in Ip PROVE (InOrder(i) /\ Counted(i) /\ Spaced(i) /\ Banning(i))'
    BY DEF LogInv
  <2>1. InOrder(i) /\ Counted(i) /\ Spaced(i) /\ Banning(i)
    BY DEF LogInv
  <2>2. now' = now /\ log' = log
    BY <1>2 DEF Connect
  <2>3. CASE Keeps(i)
    <3>1. fails'[i] = fails[i] /\ window'[i] = window[i] /\ until'[i] = until[i]
      BY <1>2, <2>3 DEF Connect, Retain, Only
    <3> QED
      BY <1>u, <2>2, <3>1
  <2>4. CASE ~Keeps(i)
    <3>1. fails'[i] = 0 /\ window'[i] = 0 /\ until'[i] = 0
      BY <1>2, <2>4 DEF Connect, Retain, Only
    <3>2. \A d \in Ages(log[i]) : Back(log[i], d) \in Nat /\ d \in Nat
      BY <1>t, BackIsTime
    <3>3. InOrder(i)' /\ Counted(i)' /\ Banning(i)'
      <4>1. Len(log[i]) \in Nat
        BY <1>t
      <4> QED
        BY <2>1, <2>2, <3>1, <3>2, <4>1 DEF InOrder, Counted, Banning
    <3>4. ~Running(i) /\ until[i] <= now
      BY <1>t, <1>n, <2>4 DEF Keeps, Banned
    <3>5. ASSUME NEW d \in Ages(log[i]), MaxFails - 1 <= d
          PROVE  Back(log[i], d) + Window < now
      <4>1. CASE fails[i] = 0
        <5>1. until[i] = 0
          BY <2>1, <4>1 DEF Banning
        <5> QED
          BY <2>1, <3>2, <3>5, <4>1, <5>1 DEF Spaced
      <4>2. CASE fails[i] # 0
        <5>1. \/ Back(log[i], d) + Window < now
              \/ Back(log[i], d) + Window < until[i]
          BY <1>s, <1>t, <2>1, <3>4, <3>5, <4>2, Forgotten
        <5> QED
          BY <1>t, <1>n, <3>2, <3>4, <5>1
      <4> QED
        BY <4>1, <4>2
    <3>6. Spaced(i)'
      BY <2>2, <3>1, <3>2, <3>5 DEF Spaced
    <3> QED
      BY <3>3, <3>6
  <2> QED
    BY <2>3, <2>4
<1>3. ASSUME NEW ip \in Ip, Fail(ip) PROVE LogInv'
  <2> DEFINE s == log[ip]
             r == log'[ip]
             n == Count(ip)
  <2>1. InOrder(ip) /\ Counted(ip) /\ Spaced(ip) /\ Banning(ip) /\ Dated(ip)
    BY DEF LogInv, BanInv
  <2>2. /\ fails'[ip] = n /\ now' = now
        /\ window'[ip] = IF Running(ip) THEN window[ip] ELSE now
        /\ until'[ip] = IF n >= MaxFails THEN now + Ban ELSE until[ip]
        /\ r = LastOf(Append(s, now), 2 * MaxFails)
        /\ \A i \in Ip \ {ip} : /\ fails'[i] = fails[i] /\ window'[i] = window[i]
                                /\ until'[i] = until[i] /\ log'[i] = log[i]
    BY <1>3, <1>s DEF Fail, Shapes, Reached, NewBan
  <2>3. /\ r \in Seq(Nat) /\ r # << >> /\ 0 \in Ages(r) /\ Back(r, 0) = now
        /\ Len(r) = Len(s) + 1 \/ 2 * MaxFails <= Len(r)
        /\ \A d \in Ages(r) : d # 0 => d - 1 \in Ages(s) /\ Back(r, d) = Back(s, d - 1)
    <3> DEFINE m == 2 * MaxFails
    <3>1. m \in Nat \ {0}
      OBVIOUS
    <3>2. s \in Seq(Nat)
      BY <1>t
    <3>3. r = LastOf(Append(s, now), m)
      BY <2>2, Zenon
    <3>4. /\ r \in Seq(Nat) /\ r # << >> /\ 0 \in Ages(r) /\ Back(r, 0) = now
          /\ Len(r) = Len(s) + 1 \/ m <= Len(r)
          /\ \A d \in Ages(r) : Older(s, r, d)
      <4> HIDE ProbeAssumption DEF s, r, m
      <4> QED
        BY <1>n, <3>1, <3>2, <3>3, LogShifts
    <3> QED
      BY <3>4, Zenon DEF Older
  <2>4. \A d \in Ages(s) : Back(s, d) \in Nat /\ d \in Nat /\ Back(s, d) <= now
    BY <1>t, <2>1, BackIsTime DEF InOrder
  <2>5. \A d \in Ages(r) : d \in Nat /\ Back(r, d) \in Nat
    BY <2>3, BackIsTime
  <2>6. n \in Nat \ {0} /\ until[ip] <= until'[ip] /\ until'[ip] \in Nat
    <3>1. n \in Nat \ {0}
      BY <1>t DEF Count
    <3>2. until[ip] <= now + Ban
      <4>1. CASE until[ip] = 0
        BY <1>n, <4>1
      <4>2. CASE until[ip] # 0
        <5>1. until[ip] > 0
          BY <1>t, <4>2
        <5>2. s # << >> /\ s[Len(s)] <= now /\ until[ip] <= s[Len(s)] + Ban
          BY <2>1, <5>1 DEF Dated
        <5>3. s[Len(s)] \in Nat
          BY <1>t, <5>2
        <5> QED
          BY <1>n, <1>t, <5>2, <5>3
      <4> QED
        BY <4>1, <4>2
    <3> QED
      BY <1>n, <1>t, <2>2, <3>1, <3>2
  <2> HIDE DEF s, r
  <2>7. InOrder(ip)'
    <3>1. \A d \in Ages(r) : Back(r, d) <= now
      BY <1>n, <2>3, <2>4
    <3>2. ASSUME NEW d \in Ages(r), NEW e \in Ages(r), d < e PROVE Back(r, e) <= Back(r, d)
      <4>1. CASE d = 0
        BY <2>3, <3>1, <4>1
      <4>2. CASE d # 0
        <5>1. e # 0 /\ d - 1 < e - 1
          BY <2>5, <3>2
        <5>2. /\ d - 1 \in Ages(s) /\ Back(r, d) = Back(s, d - 1)
              /\ e - 1 \in Ages(s) /\ Back(r, e) = Back(s, e - 1)
          BY <2>3, <4>2, <5>1
        <5> QED
          BY <2>1, <5>1, <5>2 DEF InOrder, s
      <4> QED
        BY <4>1, <4>2
    <3> QED
      BY <2>2, <3>1, <3>2 DEF InOrder, r
  <2>8. Banning(ip)'
    <3>1. MaxFails <= n => r # << >> /\ Back(r, 0) + Ban <= until'[ip]
      BY <1>n, <2>2, <2>3, <2>6
    <3> QED
      BY <2>2, <2>6, <3>1 DEF Banning, r
  <2>9. CASE Running(ip)
    <3>1. n = fails[ip] + 1 /\ window'[ip] = window[ip] /\ 0 < fails[ip]
      BY <1>t, <2>2, <2>9 DEF Count, Running
    <3>2. n <= Len(r) \/ 2 * MaxFails <= Len(r)
      <4>1. fails[ip] <= Len(s) \/ 2 * MaxFails <= Len(s)
        BY <2>1 DEF Counted, s
      <4>2. Len(s) \in Nat /\ Len(r) \in Nat
        BY <1>t, <2>3 DEF s
      <4> QED
        BY <1>t, <2>3, <3>1, <4>1, <4>2
    <3>3. ASSUME NEW d \in Ages(r)
          PROVE  /\ d < n => window[ip] <= Back(r, d)
                 /\ 0 < n /\ n <= d => Back(r, d) <= window[ip]
      <4>1. CASE d = 0
        BY <1>t, <2>3, <2>6, <4>1
      <4>2. CASE d # 0
        <5>1. d - 1 \in Ages(s) /\ Back(r, d) = Back(s, d - 1)
          BY <2>3, <4>2
        <5>2. /\ d - 1 < fails[ip] => window[ip] <= Back(s, d - 1)
              /\ fails[ip] <= d - 1 => Back(s, d - 1) <= window[ip]
          BY <2>1, <3>1, <5>1 DEF Counted, s
        <5> QED
          BY <1>t, <2>5, <3>1, <5>1, <5>2
      <4> QED
        BY <4>1, <4>2
    <3>4. Counted(ip)'
      BY <2>2, <3>1, <3>2, <3>3 DEF Counted, r
    <3>5. ASSUME NEW d \in Ages(r), n + MaxFails - 1 <= d
          PROVE  \/ Back(r, d) + Window < window[ip]
                 \/ Back(r, d) + Window < until'[ip]
      <4>1. d # 0 /\ fails[ip] + MaxFails - 1 <= d - 1
        BY <1>t, <2>5, <3>1, <3>5
      <4>2. d - 1 \in Ages(s) /\ Back(r, d) = Back(s, d - 1)
        BY <2>3, <4>1
      <4>3. \/ Back(s, d - 1) + Window < window[ip]
            \/ Back(s, d - 1) + Window < until[ip]
        BY <2>1, <3>1, <4>1, <4>2 DEF Spaced, s
      <4>4. Back(s, d - 1) \in Nat
        BY <2>4, <4>2
      <4> QED
        BY <1>t, <2>6, <4>2, <4>3, <4>4
    <3>6. Spaced(ip)'
      BY <2>2, <2>6, <3>1, <3>5 DEF Spaced, r
    <3> QED
      BY <1>u, <2>2, <2>7, <2>8, <3>4, <3>6 DEF LogInv
  <2>10. CASE ~Running(ip)
    <3>1. n = 1 /\ window'[ip] = now
      BY <2>2, <2>10 DEF Count
    <3>2. Len(r) >= 1
      BY <2>3
    <3>3. ASSUME NEW d \in Ages(r)
          PROVE  /\ d < n => now <= Back(r, d)
                 /\ 0 < n /\ n <= d => Back(r, d) <= now
      BY <1>n, <2>3, <2>4, <2>5, <3>1
    <3>4. Counted(ip)'
      BY <2>2, <3>1, <3>2, <3>3 DEF Counted, r
    <3>5. ASSUME NEW d \in Ages(r), n + MaxFails - 1 <= d
          PROVE  \/ Back(r, d) + Window < now
                 \/ Back(r, d) + Window < until'[ip]
      <4>1. d # 0 /\ MaxFails - 1 <= d - 1
        BY <2>5, <3>1, <3>5
      <4>2. d - 1 \in Ages(s) /\ Back(r, d) = Back(s, d - 1)
        BY <2>3, <4>1
      <4>3. Back(s, d - 1) \in Nat /\ d - 1 \in Nat
        BY <2>4, <4>2
      <4>4. \/ Back(s, d - 1) + Window < now
            \/ Back(s, d - 1) + Window < until[ip]
        <5>1. CASE fails[ip] = 0
          BY <2>1, <4>1, <4>2, <4>3, <5>1 DEF Spaced, s
        <5>2. CASE fails[ip] # 0
          BY <1>s, <1>t, <2>1, <2>10, <4>1, <4>2, <5>2, Forgotten DEF s
        <5> QED
          BY <5>1, <5>2
      <4> QED
        BY <1>t, <1>n, <2>6, <4>2, <4>3, <4>4
    <3>6. Spaced(ip)'
      BY <2>2, <3>1, <3>5 DEF Spaced, r
    <3> QED
      BY <1>u, <2>2, <2>7, <2>8, <3>4, <3>6 DEF LogInv
  <2> QED
    BY <2>9, <2>10
<1>4. ASSUME NEW ip \in Ip, Ok(ip) PROVE LogInv'
  <2> SUFFICES ASSUME NEW i \in Ip PROVE (InOrder(i) /\ Counted(i) /\ Spaced(i) /\ Banning(i))'
    BY DEF LogInv
  <2>1. CASE i = ip
    <3>1. fails'[i] = 0 /\ until'[i] = 0 /\ log'[i] = << >>
      BY <1>4, <1>s, <2>1 DEF Ok, Retain, Only, Shapes
    <3>2. Ages(log'[i]) = {} /\ Len(log'[i]) = 0
      BY <3>1 DEF Ages
    <3> QED
      BY <3>1, <3>2 DEF InOrder, Counted, Spaced, Banning
  <2>2. CASE i # ip
    <3>1. /\ fails'[i] = fails[i] /\ window'[i] = window[i] /\ until'[i] = until[i]
          /\ log'[i] = log[i] /\ now' = now
      BY <1>4, <1>s, <2>2 DEF Ok, Retain, Only, Shapes
    <3> QED
      BY <1>u, <3>1
  <2> QED
    BY <2>1, <2>2
<1>5. CASE UNCHANGED vars
  BY <1>5, <1>u DEF vars, probes, LogInv
<1> QED
  BY <1>1, <1>2, <1>3, <1>4, <1>5 DEF Next

\* The invariant of the log holds of every reachable state.
LEMMA LogInvariant == Spec => []LogInv
<1>1. Init => LogInv
  <2> SUFFICES ASSUME Init, NEW i \in Ip PROVE InOrder(i) /\ Counted(i) /\ Spaced(i) /\ Banning(i)
    BY DEF LogInv
  <2>1. fails[i] = 0 /\ until[i] = 0 /\ log[i] = << >>
    BY DEF Init
  <2>2. Ages(log[i]) = {} /\ Len(log[i]) = 0
    BY <2>1 DEF Ages
  <2> QED
    BY ProbeAssumption, <2>1, <2>2 DEF InOrder, Counted, Spaced, Banning
<1> QED
  BY <1>1, BanInvariant, LogStep, PTL DEF Spec

\* The last k failures of a log are k failures.
LEMMA LastFailures ==
  ASSUME NEW s \in Seq(Nat), NEW k \in Nat
  PROVE  /\ IsFiniteSet(Len(s) - k + 1 .. Len(s))
         /\ Cardinality(Len(s) - k + 1 .. Len(s)) = k
<1>1. Len(s) \in Nat
  OBVIOUS
<1>2. Len(s) - k + 1 \in Int /\ Len(s) \in Int
  BY <1>1
<1>3. /\ IsFiniteSet(Len(s) - k + 1 .. Len(s))
      /\ Cardinality(Len(s) - k + 1 .. Len(s)) =
           IF Len(s) - k + 1 > Len(s) THEN 0 ELSE Len(s) - (Len(s) - k + 1) + 1
  <2> HIDE <1>1
  <2> QED
    BY <1>2, FS_Interval, Zenon
<1> QED
  BY <1>1, <1>3

\* An address that is not banned has failed at most twice MaxFails - 1 times in the
\* last Window, counting from its last success, which forgets what was before.
THEOREM ScansLimited == Spec => []ScansAreLimited
<1>1. ASSUME BanInv, LogInv, NEW ip \in Ip, ~Banned(ip)
      PROVE  Cardinality(Recent(ip)) <= 2 * (MaxFails - 1)
  <2> DEFINE s == log[ip]
             k == 2 * (MaxFails - 1)
             last == Len(s) - k + 1 .. Len(s)
  <2>1. Shapes /\ InOrder(ip) /\ Counted(ip) /\ Spaced(ip) /\ Banning(ip)
    BY <1>1 DEF BanInv, LogInv
  <2>2. /\ fails[ip] \in Nat /\ window[ip] \in Nat /\ until[ip] \in Nat /\ now \in Nat
        /\ s \in Seq(Nat) /\ Len(s) \in Nat /\ window[ip] <= now /\ until[ip] <= now /\ k \in Nat
    BY <1>1, <2>1, ProbeAssumption DEF Shapes, Banned
  <2>3. ASSUME NEW d \in Ages(s), k <= d PROVE Back(s, d) + Window < now
    <3>1. Back(s, d) \in Nat /\ d \in Nat
      BY <2>2, BackIsTime
    <3>2. CASE fails[ip] < MaxFails
      <4>1. fails[ip] + MaxFails - 1 <= d
        BY <2>2, <2>3, <3>1, <3>2, ProbeAssumption
      <4> QED
        BY <2>1, <2>2, <3>1, <4>1, ProbeAssumption DEF Spaced
    <3>3. CASE MaxFails <= fails[ip]
      <4>1. 0 \in Ages(s)
        BY <2>2, <3>1 DEF Ages
      <4>2. Back(s, 0) \in Nat
        BY <2>2, <4>1, BackIsTime
      <4>3. Back(s, 0) + Ban <= until[ip]
        BY <2>1, <3>3 DEF Banning
      <4>4. Back(s, d) <= Back(s, 0)
        BY <2>1, <3>1, <4>1, <4>2 DEF InOrder
      <4> QED
        BY <2>2, <3>1, <4>2, <4>3, <4>4, ProbeAssumption
    <3> QED
      BY <2>2, <3>2, <3>3, ProbeAssumption
  <2>4. Recent(ip) \subseteq last
    <3> SUFFICES ASSUME NEW i \in DOMAIN s, now <= s[i] + Window PROVE i \in last
      BY DEF Recent
    <3>i. i \in 1 .. Len(s) /\ s[i] \in Nat
      BY <2>2
    <3> HIDE DEF s, k
    <3>1. Len(s) - i \in Ages(s) /\ Len(s) - (Len(s) - i) = i
      BY <2>2, <3>i DEF Ages
    <3>2. Back(s, Len(s) - i) = s[i]
      BY <3>1, Zenon DEF Back
    <3>3. ASSUME k <= Len(s) - i PROVE FALSE
      <4>1. s[i] + Window < now
        BY <2>3, <3>1, <3>2, <3>3
      <4> QED
        BY <2>2, <3>i, <4>1, ProbeAssumption
    <3> QED
      BY <2>2, <3>i, <3>3
  <2>5. IsFiniteSet(last) /\ Cardinality(last) = k
    BY <2>2, LastFailures
  <2> HIDE DEF last
  <2> QED
    BY <2>4, <2>5, FS_Subset
<1>2. BanInv /\ LogInv => ScansAreLimited
  BY <1>1 DEF ScansAreLimited
<1> QED
  BY <1>2, BanInvariant, LogInvariant, PTL

\* A failure begins or prolongs a ban only as the last of MaxFails failures within
\* one Window.
THEOREM BansAreJust == Spec => NoUnjustBan
<1>1. ASSUME BanInv, LogInv, [Next]_vars, NEW ip \in Ip, until'[ip] > until[ip]
      PROVE  Cardinality(Recent(ip)) + 1 >= MaxFails
  <2> DEFINE s == log[ip]
             k == MaxFails - 1
             last == Len(s) - k + 1 .. Len(s)
  <2>1. Shapes /\ Counted(ip)
    BY <1>1 DEF BanInv, LogInv
  <2>2. /\ fails[ip] \in Nat /\ window[ip] \in Nat /\ until[ip] \in Nat /\ now \in Nat
        /\ s \in Seq(Nat) /\ Len(s) \in Nat /\ k \in Nat
    BY <2>1, ProbeAssumption DEF Shapes
  <2>3. Fail(ip)
    <3>1. ASSUME NEW S PROVE ~(Retain(S))
      BY <1>1, <2>2, <3>1 DEF Retain, Only
    <3>2. ~(UNCHANGED until)
      BY <1>1, <2>2
    <3>3. \A i \in Ip : Fail(i) => i = ip
      BY <1>1, <2>1, <2>2 DEF Fail, Shapes
    <3> QED
      BY <1>1, <3>1, <3>2, <3>3 DEF Next, Tick, Connect, Ok, vars, probes
  <2>4. Count(ip) >= MaxFails
    BY <1>1, <2>1, <2>2, <2>3 DEF Fail, Shapes, Reached
  <2>5. IsFiniteSet(Recent(ip)) /\ Cardinality(Recent(ip)) \in Nat
    <3>1. Recent(ip) \subseteq 1 .. Len(s)
      BY <2>2 DEF Recent
    <3>2. IsFiniteSet(1 .. Len(s))
      BY <2>2, FS_Interval
    <3> QED
      BY <3>1, <3>2, FS_Subset, FS_CardinalityType
  <2>6. CASE Running(ip)
    <3>1. k <= fails[ip] /\ now <= window[ip] + Window
      BY <2>2, <2>4, <2>6, ProbeAssumption DEF Count, Running
    <3>2. k <= Len(s)
      BY <2>1, <2>2, <3>1, ProbeAssumption DEF Counted
    <3>3. last \subseteq Recent(ip)
      <4> SUFFICES ASSUME NEW i \in last PROVE i \in DOMAIN s /\ now <= s[i] + Window
        BY DEF Recent
      <4>1. /\ i \in 1 .. Len(s) /\ Len(s) - i \in Ages(s) /\ Len(s) - i < fails[ip]
            /\ Len(s) - (Len(s) - i) = i
        BY <2>2, <3>1, <3>2 DEF Ages
      <4>2. window[ip] <= s[i] /\ s[i] \in Nat
        BY <2>1, <2>2, <4>1 DEF Counted, Back
      <4>3. now <= s[i] + Window
        <5> HIDE DEF s, k
        <5> QED
          BY <2>2, <3>1, <4>2, ProbeAssumption
      <4>4. i \in DOMAIN s
        BY <2>2, <4>1
      <4> QED
        BY <4>3, <4>4
    <3>4. Cardinality(last) = k
      BY <2>2, LastFailures
    <3> HIDE DEF last
    <3>5. k <= Cardinality(Recent(ip))
      BY <2>5, <3>3, <3>4, FS_Subset
    <3> QED
      BY <2>2, <2>5, <3>5, ProbeAssumption
  <2>7. CASE ~Running(ip)
    BY <2>4, <2>5, <2>7, ProbeAssumption DEF Count
  <2> QED
    BY <2>6, <2>7
<1>2. BanInv /\ LogInv /\ [Next]_vars =>
        [\A ip \in Ip : until'[ip] > until[ip] => Cardinality(Recent(ip)) + 1 >= MaxFails]_vars
  BY <1>1
<1> QED
  BY <1>2, BanInvariant, LogInvariant, PTL DEF Spec, NoUnjustBan
=============================================================================
