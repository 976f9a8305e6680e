------------------------------- MODULE Probe -------------------------------
(***************************************************************************)
(* The ban list of the relay server (src/zsyncd.rs, ProbeTracker): failed  *)
(* handshakes are counted per address in windows of Window, MaxFails of    *)
(* them ban the address for Ban.  run_server asks is_banned before it      *)
(* accepts, and each accepted connection reports fail or ok later, when    *)
(* others of the same address may already have been banned.                *)
(***************************************************************************)
EXTENDS Naturals, FiniteSets, Sequences

CONSTANTS Ip,
          Window, MaxFails, Ban,   \* PROBE_WINDOW, PROBE_MAX_FAILS, PROBE_BAN
          MaxOpen,                 \* bound: handshakes in progress per address
          MaxTime                  \* bound: the clock

ASSUME ProbeAssumption ==
  /\ Window \in Nat /\ Ban \in Nat /\ MaxFails \in Nat \ {0}
  /\ Window < Ban
  /\ MaxOpen \in Nat /\ MaxTime \in Nat

VARIABLES
  now,
  fails,    \* ProbeState::fails, 0 when `inner' has no entry for the address
  window,   \* ProbeState::window
  until,    \* ProbeState::banned_until, 0 for None
  open,     \* handshakes in progress
  log       \* history: when the last failures since the last success happened

\* The failures that can still matter to a property.
LastOf(s, n) == IF Len(s) > n THEN Tail(s) ELSE s

probes == <<fails, window, until>>
vars == <<now, probes, open, log>>

\* Type invariant.  A ban stops the count: only the handshakes that were in
\* progress when it began can still add to it.
TypeOK ==
  /\ now \in Nat \ {0}
  /\ fails \in [Ip -> 0 .. MaxFails - 1 + MaxOpen]
  /\ window \in [Ip -> Nat]
  /\ until \in [Ip -> Nat]
  /\ open \in [Ip -> 0 .. MaxOpen]
  /\ log \in [Ip -> Seq(Nat)]

Banned(ip) == now < until[ip]

\* The window of the entry still runs.
Running(ip) == fails[ip] > 0 /\ now <= window[ip] + Window

\* mutant: gc forgets bans whose window is over
KeepsWindow(ip) == Running(ip)

\* What gc retains.
Keeps(ip) == Banned(ip) \/ Running(ip)

Only(f, S) == [ip \in Ip |-> IF ip \in S THEN f[ip] ELSE 0]

\* The entries outside S leave `inner'.
Retain(S) ==
  /\ fails' = Only(fails, S)
  /\ window' = Only(window, S)
  /\ until' = Only(until, S)

\* is_banned: gc, then the answer.  run_server drops the connection or spawns
\* serve_leaf.
Connect(ip) ==
  /\ Retain({i \in Ip : Keeps(i)})
  /\ \/ Banned(ip) /\ UNCHANGED open
     \/ ~Banned(ip) /\ open[ip] < MaxOpen /\ open' = [open EXCEPT ![ip] = @ + 1]
  /\ UNCHANGED <<now, log>>

\* mutant: the counter survives its window
CountForever(ip) == fails[ip] + 1

\* The new value of fails: a window that is over starts again.
Count(ip) == IF Running(ip) THEN fails[ip] + 1 ELSE 1

\* mutant: one failure too many
OneTooMany(n) == n > MaxFails

Reached(n) == n >= MaxFails

\* mutant: every failure prolongs a ban
Prolonged(ip) == IF Banned(ip) THEN until[ip] + Ban ELSE now + Ban

NewBan(ip) == now + Ban

\* A handshake timed out, was no Join, or the Join was not allowed.
Fail(ip) ==
  /\ open[ip] > 0
  /\ open' = [open EXCEPT ![ip] = @ - 1]
  /\ fails' = [fails EXCEPT ![ip] = Count(ip)]
  /\ window' = [window EXCEPT ![ip] = IF Running(ip) THEN @ ELSE now]
  /\ until' = [until EXCEPT ![ip] = IF Reached(Count(ip)) THEN NewBan(ip) ELSE @]
  /\ log' = [log EXCEPT ![ip] = LastOf(Append(@, now), 2 * MaxFails)]
  /\ UNCHANGED now

\* An allowed Join forgets the address.
Ok(ip) ==
  /\ open[ip] > 0
  /\ open' = [open EXCEPT ![ip] = @ - 1]
  /\ Retain(Ip \ {ip})
  /\ log' = [log EXCEPT ![ip] = << >>]
  /\ UNCHANGED now

Tick ==
  /\ now < MaxTime
  /\ now' = now + 1
  /\ UNCHANGED <<probes, open, log>>

Init ==
  /\ now = 1
  /\ fails = [ip \in Ip |-> 0]
  /\ window = [ip \in Ip |-> 0]
  /\ until = [ip \in Ip |-> 0]
  /\ open = [ip \in Ip |-> 0]
  /\ log = [ip \in Ip |-> << >>]

Next ==
  \/ Tick
  \/ \E ip \in Ip : Connect(ip) \/ Fail(ip) \/ Ok(ip)

Spec == Init /\ [][Next]_vars

-----------------------------------------------------------------------------
(* Properties *)

\* The failures of ip since its last success that are in the last Window.
Recent(ip) == {i \in DOMAIN log[ip] : now <= log[ip][i] + Window}

\* An address that is not banned has failed, since its last success, at most twice
\* MaxFails - 1 times in the last Window: the windows are fixed, so two of them can
\* meet in one.  A success forgets the address, so one that fails MaxFails - 1 times
\* before each success is not limited at all.
ScansAreLimited ==
  \A ip \in Ip : ~Banned(ip) => Cardinality(Recent(ip)) <= 2 * (MaxFails - 1)

\* A failure bans an address, or prolongs its ban, only as the last of MaxFails
\* failures within one Window: no old failure counts, not even one of before an
\* earlier ban that no gc has removed.
NoUnjustBan ==
  [][\A ip \in Ip :
       until'[ip] > until[ip]
         => Cardinality(Recent(ip)) + 1 >= MaxFails]_vars

\* A banned address has failed since its last success, and its ban ends Ban
\* after its last failure at the latest: failures of handshakes that were in
\* progress prolong a ban, but they do not add up.
BanFollowsFailure ==
  \A ip \in Ip : Banned(ip) =>
    /\ log[ip] # << >>
    /\ until[ip] <= log[ip][Len(log[ip])] + Ban
=============================================================================
