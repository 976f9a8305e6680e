-------------------------- MODULE LifecycleProofs --------------------------
(***************************************************************************)
(* Proofs about Lifecycle.  The port is the lock of a daemon's files: a    *)
(* process makes them after it has bound the port and keeps the port until *)
(* its guard has removed them, so of two processes that have files to make *)
(* or to remove one has ended.  That needs `locks': one port for all that  *)
(* run, and none that closes it and stays.  Only cleanup_stale works       *)
(* without the port, and it leaves alone what belongs to a pid that is     *)
(* written and alive.                                                      *)
(***************************************************************************)
EXTENDS Lifecycle, TLAPS

USE LifecycleAssumption

\* Where a process holds the port, where its pid is in the pid file, where its
\* socket is there, and where the guard has begun to remove both.
Holding(p) == at[p] \in Handled \cup {"sock", "pid", "piddata", "unlink", "signal"}
PidMade(p) == at[p] \in Handled \cup {"unlink", "signal"} \/ (kind = "zsyncd" /\ at[p] = "sock")
SockMade(p) == at[p] \in Handled \cup {"signal"} \/ (kind = "zsync" /\ at[p] \in {"pid", "piddata"})
Leaving(p) == at[p] \in {"guard", "guarded", "ending"}

\* What a process has made may be gone, but it is no one else's.
OwnFiles(p) ==
  /\ Holding(p) => port[asks[p]] = p
  /\ at[p] = "piddata" => pidfile \in {Blank, None}
  /\ PidMade(p) => pidfile \in {p, None}
  /\ SockMade(p) => sock \in {p, None}
  /\ at[p] = "sock" /\ kind = "zsyncd" => sock = None
  /\ at[p] = "unlink" => kind = "zsyncd"

\* A kill is aimed at a process.
Aimed == \A c \in Cmd : at[c] = "kill" => target[c] \in Pid

\* A process that runs has a port in its environment.
Ported == \A p \in Pid : Running(p) => asks[p] \in Port

\* All that run have the same.
OnePort == \A p, q \in Pid : None \notin {asks[p], asks[q]} => asks[p] = asks[q]

\* The inductive invariant of GuardsOwnFiles.
BaseInv == TypeOK /\ Aimed /\ Ported
Locked == BaseInv /\ OnePort /\ \A p \in Pid : OwnFiles(p)
OwnInv == BaseInv /\ (locks => Locked)

-----------------------------------------------------------------------------
\* A command that is begun is one that was idle, and a process that is spawned
\* has not run yet.
LEMMA Chosen == ASSUME NEW S, S # {} PROVE (CHOOSE x \in S : TRUE) \in S
OBVIOUS

\* No process has a file or a port yet.
LEMMA InitOwn == Init => OwnInv
<1> SUFFICES ASSUME Init PROVE OwnInv
  OBVIOUS
<1> USE DEF Init
<1>1. /\ at \in [Actor -> {"none", "idle"}]
      /\ \A p \in Pid : at[p] = "none"
      /\ \A c \in Cmd : at[c] = "idle"
  BY LifecycleAssumption DEF Actor
<1>2. TypeOK
  <2>1. at \in [Actor -> ProcAt \cup CmdAt]
    BY <1>1 DEF ProcAt, CmdAt
  <2>2. (\A v \in Port : port[v] = None) /\ 0 \in 0..MaxCmds /\ 0 \in 0..MaxFaults
    BY LifecycleAssumption
  <2> QED
    BY <1>1, <2>1, <2>2 DEF TypeOK, ProcAt, CmdAt
<1>3. Aimed /\ Ported /\ OnePort /\ \A p \in Pid : OwnFiles(p)
  BY <1>1 DEF Aimed, Ported, OnePort, Running, OwnFiles, Holding, PidMade, SockMade, Handled
<1> QED
  BY <1>2, <1>3 DEF OwnInv, BaseInv, Locked

\* The part of the types that is about ports.
NetOK ==
  /\ port \in [Port -> Pid \cup {None}]
  /\ asks \in [Pid -> Port \cup {None}] /\ deaf \subseteq Pid
  /\ \A v \in Port : port[v] # None => Running(port[v])
  /\ Ported

\* What the end of a process leaves of the ports.
LEMMA GoneKeeps ==
  ASSUME BaseInv, NEW p \in Pid, Gone(p), at'[p] = "dead",
         \A q \in Pid \ {p} : at'[q] = at[q]
  PROVE  NetOK'
<1> USE DEF BaseInv, TypeOK
<1>1. /\ port' \in [Port -> Pid \cup {None}]
      /\ asks' \in [Pid -> Port \cup {None}] /\ deaf' \subseteq Pid
  BY DEF Gone, Closes
<1>2. ASSUME NEW v \in Port, port'[v] # None PROVE at'[port'[v]] \notin {"none", "dead"}
  <2>1. port'[v] = port[v] /\ port[v] \in Pid \ {p} /\ Running(port[v])
    BY <1>2 DEF Gone, Closes
  <2>2. PICK q \in Pid \ {p} : q = port[v] /\ Running(q)
    BY <2>1
  <2>3. at'[q] \notin {"none", "dead"}
    BY <2>2 DEF Running
  <2> QED
    BY <2>1, <2>2, <2>3
<1>3. Ported'
  BY DEF Ported, Running, Gone
<1> QED
  BY <1>1, <1>2, <1>3 DEF NetOK, Running

\* Every step keeps the types.
LEMMA TypeStep == BaseInv /\ [Next]_vars => BaseInv'
<1> SUFFICES ASSUME BaseInv, [Next]_vars PROVE BaseInv'
  OBVIOUS
<1> USE DEF BaseInv, TypeOK, Aimed, Ported, net, Actor, ProcAt, CmdAt, Cleaning, Handled, Running, Goes, Turns, files, tls,
            cmdVars, spent, history
<1>1. ASSUME NEW a \in Actor, Clean(a) PROVE BaseInv'
  BY <1>1 DEF Clean, AfterClean, HalfMade
<1>2. ASSUME NEW a \in Actor, RmSock(a) \/ RmPid(a) PROVE BaseInv'
  <2>1. CASE RmSock(a)
    BY <2>1 DEF RmSock
  <2>2. CASE RmPid(a)
    BY <2>2 DEF RmPid, AfterClean
  <2> QED
    BY <1>2, <2>1, <2>2
<1>3. ASSUME NEW p \in Pid, Tls(p) \/ WriteTls(p) PROVE BaseInv'
  <2>1. CASE Tls(p)
    BY <2>1 DEF Tls
  <2>2. CASE WriteTls(p)
    BY <2>2 DEF WriteTls
  <2> QED
    BY <1>3, <2>1, <2>2
<1>e. ASSUME NEW p \in Pid, Exits(p), UNCHANGED <<kind, files, tls, cmdVars, cmds, meddled, locks>>,
             faults' \in 0..MaxFaults, alone' \in BOOLEAN,
             sig' = sig \ {p} \/ (sig' = sig /\ at[p] \notin Handled)
      PROVE  BaseInv'
  <2>1. at' = [at EXCEPT ![p] = "dead"]
    BY <1>e DEF Exits
  <2>2. /\ at'[p] = "dead" /\ \A q \in Pid \ {p} : at'[q] = at[q]
        /\ at' \in [Actor -> ProcAt \cup CmdAt] /\ \A c \in Cmd : at'[c] = at[c]
    BY <2>1, LifecycleAssumption
  <2>3. NetOK'
    BY <1>e, <2>2, GoneKeeps DEF Exits
  <2>4. sig' \subseteq {q \in Pid : at'[q] \in Handled}
    BY <1>e, <2>2
  <2> QED
    BY <1>e, <2>2, <2>3, <2>4 DEF NetOK
<1>3a. ASSUME NEW p \in Pid, LoadTls(p) PROVE BaseInv'
  <2>1. CASE Paired
    BY <1>3a, <2>1 DEF LoadTls
  <2>2. CASE ~Paired
    BY <1>3a, <1>e, <2>2 DEF LoadTls
  <2> QED
    BY <2>1, <2>2
<1>4. ASSUME NEW p \in Pid, BindPort(p) PROVE BaseInv'
  <2>1. CASE port[asks[p]] = None
    BY <1>4, <2>1 DEF BindPort
  <2>2. CASE port[asks[p]] # None
    BY <1>4, <1>e, <2>2 DEF BindPort
  <2> QED
    BY <2>1, <2>2
<1>5. ASSUME NEW p \in Pid, BindSock(p) PROVE BaseInv'
  <2>1. CASE sock = None
    BY <1>5, <2>1 DEF BindSock, Beside
  <2>2. CASE sock # None /\ kind = "zsync"
    BY <1>5, <1>e, <2>2 DEF BindSock
  <2>3. CASE sock # None /\ kind # "zsync"
    BY <1>5, <2>3 DEF BindSock
  <2> QED
    BY <2>1, <2>2, <2>3
<1>6. ASSUME NEW p \in Pid, WritePid(p) PROVE BaseInv'
  BY <1>6 DEF WritePid, Beside
<1>7. ASSUME NEW p \in Pid, Unlink(p) \/ Handles(p) \/ Hears(p) \/ Misses(p) PROVE BaseInv'
  <2>1. CASE Unlink(p) \/ Handles(p)
    BY <2>1 DEF Unlink, Handles
  <2>2. CASE Hears(p)
    BY <2>2 DEF Hears
  <2>3. CASE Misses(p)
    BY <2>3 DEF Misses
  <2> QED
    BY <1>7, <2>1, <2>2, <2>3
<1>8. ASSUME NEW p \in Pid, Guard(p) \/ End(p) PROVE BaseInv'
  <2>1. CASE Guard(p)
    BY <2>1 DEF Guard
  <2>2. CASE End(p)
    BY <1>e, <2>2 DEF End
  <2> QED
    BY <1>8, <2>1, <2>2
<1>9. ASSUME NEW p \in Pid, Crash(p) \/ AcceptFails(p) \/ SockFails(p) PROVE BaseInv'
  <2>0. faults' \in 0..MaxFaults /\ alone' = FALSE
    BY <1>9, LifecycleAssumption DEF Crash, AcceptFails, SockFails, Fault
  <2>1. CASE Crash(p)
    BY <1>e, <2>0, <2>1 DEF Crash
  <2>2. CASE AcceptFails(p) /\ kind = "zsyncd"
    <3>1. /\ at[p] = "up" /\ at' = [at EXCEPT ![p] = "guard"]
          /\ UNCHANGED <<kind, files, net, tls, cmdVars, sig, cmds, meddled, locks>>
      BY <2>2 DEF AcceptFails
    <3>2. /\ at'[p] = "guard" /\ \A q \in Pid \ {p} : at'[q] = at[q]
          /\ at' \in [Actor -> ProcAt \cup CmdAt] /\ \A c \in Cmd : at'[c] = at[c]
      BY <3>1, LifecycleAssumption
    <3>3. \A q \in Pid : Running(q)' <=> Running(q)
      BY <3>1, <3>2
    <3>4. NetOK'
      BY <3>1, <3>2, <3>3 DEF NetOK
    <3>5. sig' \subseteq {q \in Pid : at'[q] \in Handled} /\ \A q \in Pid : at'[q] \in ProcAt
      BY <3>1, <3>2
    <3> QED
      BY <2>0, <3>1, <3>2, <3>4, <3>5 DEF NetOK
  <2>3. CASE AcceptFails(p) /\ kind = "zsync"
    <3>1. /\ at' = at /\ port' \in [Port -> Pid \cup {None}]
          /\ \A v \in Port : port'[v] # None => port'[v] = port[v]
      BY <2>3 DEF AcceptFails, Closes
    <3> QED
      BY <2>0, <2>3, <3>1 DEF AcceptFails
  <2>4. CASE SockFails(p)
    BY <2>0, <2>4 DEF SockFails
  <2> QED
    BY <1>9, <2>1, <2>2, <2>3, <2>4, LifecycleAssumption DEF AcceptFails
<1>10. ASSUME NEW c \in Cmd, StartChecks(c) \/ StopChecks(c) PROVE BaseInv'
  BY <1>10 DEF StartChecks, StopChecks, Alive
<1>11. ASSUME NEW c \in Cmd, Spawn(c) PROVE BaseInv'
  <2> DEFINE free == {p \in Pid : at[p] = "none"}
             q == CHOOSE r \in free : TRUE
  <2>1. q \in Pid /\ at[q] = "none"
    BY <1>11, Chosen DEF Spawn
  <2>2. PICK v \in Named[q] : asks' = [asks EXCEPT ![q] = v]
    BY <1>11 DEF Spawn
  <2>3. /\ at' = [at EXCEPT ![q] = IF kind = "zsync" THEN "clean" ELSE "tls",
                            ![c] = IF op[c] = "run" THEN "idle" ELSE "wait"]
        /\ target' = [target EXCEPT ![c] = IF op[c] = "run" THEN None ELSE q]
        /\ op' = [op EXCEPT ![c] = IF op[c] = "run" THEN None ELSE @]
        /\ UNCHANGED <<kind, files, port, deaf, tls, sig, cmds, meddled, alone>>
    BY <1>11 DEF Spawn
  <2>4. faults' \in 0..MaxFaults /\ locks' \in BOOLEAN
    <3>1. (faults' = faults /\ locks' = locks)
          \/ (faults < MaxFaults /\ faults' = faults + 1 /\ locks' = FALSE)
      BY <1>11 DEF Spawn
    <3>2. faults' \in 0..MaxFaults
      BY <3>1, LifecycleAssumption
    <3>3. locks' \in BOOLEAN
      BY <3>1, Zenon
    <3> QED
      BY <3>2, <3>3
  <2> HIDE DEF q
  <2>5. v \in Port
    BY <2>1, <2>2, LifecycleAssumption
  <2>6. /\ at'[q] \notin {"none", "dead"} /\ \A r \in Pid \ {q} : at'[r] = at[r]
        /\ asks'[q] = v /\ \A r \in Pid \ {q} : asks'[r] = asks[r]
    BY <2>1, <2>2, <2>3, LifecycleAssumption
  <2>7. Ported' /\ (\A x \in Port : port'[x] # None => at'[port'[x]] \notin {"none", "dead"})
    BY <2>1, <2>3, <2>5, <2>6
  <2> QED
    BY <2>1, <2>2, <2>3, <2>4, <2>5, <2>7
<1>12. ASSUME NEW c \in Cmd, Kill(c) PROVE BaseInv'
  <2> DEFINE p == target[c]
  <2>1. p \in Pid /\ at[c] = "kill" /\ UNCHANGED <<kind, files, tls, cmdVars, spent, history>>
    BY <1>12 DEF Kill
  <2>2. CASE at[p] \in Handled
    BY <1>12, <2>1, <2>2 DEF Kill
  <2>3. CASE at[p] \notin Handled
    <3>1. at' = [at EXCEPT ![p] = "dead", ![c] = "gone"] /\ Gone(p) /\ sig' = sig
      BY <1>12, <2>3 DEF Kill
    <3>2. /\ at'[p] = "dead" /\ at'[c] = "gone" /\ at' \in [Actor -> ProcAt \cup CmdAt]
          /\ \A q \in Pid \ {p} : at'[q] = at[q] /\ \A d \in Cmd \ {c} : at'[d] = at[d]
      BY <2>1, <3>1, LifecycleAssumption
    <3>3. NetOK'
      BY <2>1, <3>1, <3>2, GoneKeeps
    <3> QED
      BY <2>1, <2>3, <3>1, <3>2, <3>3 DEF NetOK
  <2> QED
    BY <2>2, <2>3
<1>13. ASSUME NEW c \in Cmd, StartSees(c) \/ StopSees(c) \/ GivesUp(c) PROVE BaseInv'
  BY <1>13 DEF StartSees, StopSees, GivesUp
<1>14. ASSUME NEW o \in {"start", "stop", "run"}, Begin(o) PROVE BaseInv'
  <2> DEFINE idle == {d \in Cmd : at[d] = "idle"}
             c == CHOOSE d \in idle : TRUE
  <2>1. c \in Cmd
    BY <1>14, Chosen DEF Begin
  <2> HIDE DEF c
  <2>2. /\ cmds < MaxCmds /\ cmds' = cmds + 1 /\ faults' = faults
        /\ op' = [op EXCEPT ![c] = o] /\ target' = [target EXCEPT ![c] = None]
        /\ at' = [at EXCEPT ![c] = IF o = "run" THEN "spawn" ELSE "check"]
        /\ alone' \in BOOLEAN
        /\ UNCHANGED <<kind, files, net, tls, sig, meddled, locks>>
    BY <1>14 DEF Begin, c, Quiet
  <2> QED
    BY <2>1, <2>2
<1>15. CASE UNCHANGED vars
  BY <1>15 DEF vars
<1> QED
  BY <1>1, <1>2, <1>3, <1>4, <1>5, <1>6, <1>7, <1>8, <1>9, <1>10, <1>11, <1>12, <1>13, <1>14,
     <1>15, <1>3a DEF Next, Process, Command
-----------------------------------------------------------------------------
(* The port is a lock *)

\* What a process that has nothing to do with a step keeps: the step may only
\* remove files.
LEMMA OwnFrame ==
  ASSUME NEW p \in Pid, OwnFiles(p), at'[p] = at[p], asks'[p] = asks[p], kind' = kind,
         Holding(p) => port'[asks[p]] = port[asks[p]],
         pidfile' \in {pidfile, None}, sock' \in {sock, None}
  PROVE  OwnFiles(p)'
BY DEF OwnFiles, Holding, PidMade, SockMade

\* Only one process holds the port.
LEMMA OneHolds ==
  ASSUME Locked, NEW p \in Pid, Running(p), Holding(p) \/ port[asks[p]] \in {p, None},
         NEW q \in Pid \ {p}
  PROVE  ~Holding(q)
<1> SUFFICES ASSUME Holding(q) PROVE FALSE
  OBVIOUS
<1>1. Running(q)
  BY DEF Holding, Handled, Running
<1>2. asks[p] = asks[q]
  BY <1>1 DEF Locked, BaseInv, Ported, OnePort
<1> QED
  BY <1>2 DEF Locked, OwnFiles

\* A step of one process that holds the port, or takes it, leaves the others
\* nothing to answer for.
LEMMA OthersKeep ==
  ASSUME Locked, NEW p \in Pid, Running(p), Holding(p) \/ port[asks[p]] \in {p, None},
         NEW q \in Pid \ {p}, at'[q] = at[q]
  PROVE  OwnFiles(q)'
<1>1. ~Holding(q)
  BY OneHolds
<1>2. ~Holding(q)'
  BY <1>1 DEF Holding
<1> QED
  BY <1>2 DEF OwnFiles, Holding, PidMade, SockMade

\* The end of a process.
LEMMA ExitKeeps ==
  ASSUME Locked, NEW p \in Pid, NEW q \in Pid, at'[p] = "dead", p # q => at'[q] = at[q], Gone(p),
         kind' = kind, pidfile' = pidfile, sock' = sock
  PROVE  OwnFiles(q)'
<1>1. CASE q = p
  BY <1>1 DEF OwnFiles, Holding, PidMade, SockMade, Handled
<1>2. CASE q # p
  <2>1. asks'[q] = asks[q]
    BY <1>2 DEF Gone, Locked, BaseInv, TypeOK
  <2>2. Holding(q) => asks[q] \in Port /\ port[asks[q]] = q
    BY DEF Locked, BaseInv, Ported, OwnFiles, Holding, Handled, Running
  <2>3. Holding(q) => port'[asks[q]] = port[asks[q]]
    BY <1>2, <2>2 DEF Gone, Closes
  <2> QED
    BY <1>2, <2>1, <2>3, OwnFrame DEF Locked
<1> QED
  BY <1>1, <1>2

\* The port stops being a lock for good, and as long as it is one, a process starts
\* only with the port of those that run.
LEMMA LocksStep ==
  ASSUME BaseInv, [Next]_vars, locks'
  PROVE  locks /\ (OnePort => OnePort')
<1> USE DEF history, net
<1>1. ASSUME NEW p \in Pid, Gone(p) PROVE OnePort => OnePort'
  BY <1>1 DEF Gone, OnePort, BaseInv, TypeOK
<1>2. CASE asks' = asks /\ locks' = locks
  BY <1>2 DEF OnePort
<1>3. ASSUME NEW p \in Pid, Exits(p), locks' = locks PROVE locks /\ (OnePort => OnePort')
  BY <1>1, <1>3 DEF Exits
<1>4. ASSUME NEW c \in Cmd, Spawn(c) PROVE locks /\ (OnePort => OnePort')
  <2>1. PICK p \in Pid, v \in Port :
          /\ asks' = [asks EXCEPT ![p] = v] /\ locks' = locks
          /\ \A q \in Pid : asks[q] \in {v, None}
    <3> DEFINE p == CHOOSE q \in {q \in Pid : at[q] = "none"} : TRUE
    <3>1. p \in Pid
      BY <1>4, Chosen DEF Spawn
    <3>2. PICK v \in Named[p] :
            /\ asks' = [asks EXCEPT ![p] = v] /\ locks' = locks
            /\ \A q \in Pid : asks[q] \in {v, None}
      BY <1>4 DEF Spawn
    <3> HIDE DEF p
    <3>3. v \in Port
      BY <3>1
    <3> QED
      BY <3>1, <3>2, <3>3
  <2> QED
    BY <2>1 DEF OnePort, BaseInv, TypeOK
<1>5. ASSUME NEW c \in Cmd, Kill(c) PROVE locks /\ (OnePort => OnePort')
  <2>1. target[c] \in Pid
    BY <1>5 DEF Kill, BaseInv, Aimed
  <2> QED
    BY <1>1, <1>2, <1>5, <2>1 DEF Kill
<1>6. ASSUME NEW p \in Pid, Process(p) \/ Misses(p) \/ Crash(p) \/ AcceptFails(p) \/ SockFails(p)
      PROVE  locks /\ (OnePort => OnePort')
  <2>1. CASE Clean(p) \/ RmSock(p) \/ RmPid(p) \/ Tls(p) \/ WriteTls(p) \/ WritePid(p)
    BY <1>2, <2>1 DEF Clean, RmSock, RmPid, Tls, WriteTls, WritePid
  <2>2. CASE Unlink(p) \/ Handles(p) \/ Hears(p) \/ Guard(p) \/ Misses(p) \/ SockFails(p)
    BY <1>2, <2>2 DEF Unlink, Handles, Hears, Guard, Misses, SockFails
  <2>3. CASE LoadTls(p) \/ BindPort(p) \/ BindSock(p)
    BY <1>2, <1>3, <2>3 DEF LoadTls, BindPort, BindSock
  <2>4. CASE End(p) \/ Crash(p)
    BY <1>3, <2>4 DEF End, Crash
  <2>5. CASE AcceptFails(p)
    BY <1>2, <2>5 DEF AcceptFails
  <2> QED
    BY <1>6, <2>1, <2>2, <2>3, <2>4, <2>5 DEF Process
<1>7. ASSUME NEW c \in Cmd, Command(c) \/ GivesUp(c) PROVE locks /\ (OnePort => OnePort')
  <2>1. CASE Clean(c) \/ RmSock(c) \/ RmPid(c) \/ StartChecks(c) \/ StopChecks(c)
    BY <1>2, <2>1 DEF Clean, RmSock, RmPid, StartChecks, StopChecks
  <2>2. CASE StartSees(c) \/ StopSees(c) \/ GivesUp(c)
    BY <1>2, <2>2 DEF StartSees, StopSees, GivesUp
  <2> QED
    BY <1>4, <1>5, <1>7, <2>1, <2>2 DEF Command
<1>8. ASSUME NEW o \in {"start", "stop", "run"}, Begin(o) PROVE locks /\ (OnePort => OnePort')
  BY <1>2, <1>8 DEF Begin
<1>9. CASE UNCHANGED vars
  BY <1>2, <1>9 DEF vars
<1> QED
  BY <1>6, <1>7, <1>8, <1>9 DEF Next

\* Every step keeps the ownership of the files.
LEMMA OwnStep == OwnInv /\ [Next]_vars => OwnInv'
<1> SUFFICES ASSUME Locked, [Next]_vars, locks', NEW q \in Pid PROVE OwnFiles(q)'
  BY TypeStep, LocksStep DEF OwnInv, Locked
<1> USE DEF Goes, Turns, files, cmdVars, net
<1>0. /\ at \in [Actor -> ProcAt \cup CmdAt] /\ q \in Actor
      /\ Pid \cap Cmd = {} /\ kind \in {"zsync", "zsyncd"} /\ OwnFiles(q)
  BY LifecycleAssumption DEF Locked, BaseInv, TypeOK, Actor
<1>1. ASSUME NEW a \in Actor, Clean(a) PROVE OwnFiles(q)'
  <2>1. CASE q = a
    BY <1>0, <1>1, <2>1 DEF Clean, AfterClean, OwnFiles, Holding, PidMade, SockMade, Handled
  <2>2. CASE q # a
    BY <1>0, <1>1, <2>2, OwnFrame DEF Clean
  <2> QED
    BY <2>1, <2>2
<1>2. ASSUME NEW a \in Actor, RmSock(a) \/ RmPid(a) PROVE OwnFiles(q)'
  <2>1. CASE q = a
    BY <1>0, <1>2, <2>1 DEF RmSock, RmPid, AfterClean, OwnFiles, Holding, PidMade, SockMade, Handled
  <2>2. CASE q # a
    BY <1>0, <1>2, <2>2, OwnFrame DEF RmSock, RmPid
  <2> QED
    BY <2>1, <2>2
<1>3. ASSUME NEW p \in Pid, Tls(p) \/ WriteTls(p) PROVE OwnFiles(q)'
  <2>1. CASE q = p
    BY <1>0, <1>3, <2>1 DEF Tls, WriteTls, OwnFiles, Holding, PidMade, SockMade, Handled
  <2>2. CASE q # p
    BY <1>0, <1>3, <2>2, OwnFrame DEF Tls, WriteTls
  <2> QED
    BY <2>1, <2>2
<1>4. ASSUME NEW p \in Pid, Exits(p), UNCHANGED <<kind, pidfile, sock>> PROVE OwnFiles(q)'
  <2>1. at'[p] = "dead" /\ (p # q => at'[q] = at[q])
    BY <1>0, <1>4 DEF Exits, Actor
  <2> QED
    BY <1>4, <2>1, ExitKeeps DEF Exits
<1>5. ASSUME NEW p \in Pid, LoadTls(p) PROVE OwnFiles(q)'
  <2>1. CASE Paired /\ q = p
    BY <1>0, <1>5, <2>1 DEF LoadTls, OwnFiles, Holding, PidMade, SockMade, Handled
  <2>2. CASE Paired /\ q # p
    BY <1>0, <1>5, <2>2, OwnFrame DEF LoadTls
  <2>3. CASE ~Paired
    BY <1>4, <1>5, <2>3 DEF LoadTls
  <2> QED
    BY <2>1, <2>2, <2>3
<1>6. ASSUME NEW p \in Pid, BindPort(p) PROVE OwnFiles(q)'
  <2>0. at[p] = "port" /\ Running(p) /\ asks[p] \in Port
    BY <1>6 DEF BindPort, Running, Locked, BaseInv, Ported
  <2>1. CASE port[asks[p]] = None /\ q = p
    <3>1. port'[asks[p]] = p /\ asks' = asks
      BY <1>6, <2>0, <2>1 DEF BindPort, Locked, BaseInv, TypeOK
    <3> QED
      BY <1>0, <1>6, <2>1, <3>1 DEF BindPort, OwnFiles, Holding, PidMade, SockMade, Handled
  <2>2. CASE port[asks[p]] = None /\ q # p
    BY <1>0, <1>6, <2>0, <2>2, OthersKeep DEF BindPort
  <2>3. CASE port[asks[p]] # None
    BY <1>4, <1>6, <2>3 DEF BindPort
  <2> QED
    BY <2>1, <2>2, <2>3
<1>7. ASSUME NEW p \in Pid, BindSock(p) PROVE OwnFiles(q)'
  <2>1. CASE q = p /\ ~(kind = "zsync" /\ sock # None)
    BY <1>0, <1>7, <2>1 DEF BindSock, OwnFiles, Holding, PidMade, SockMade, Handled
  <2>2. CASE q # p
    <3>1. Holding(p) /\ Running(p)
      BY <1>7 DEF BindSock, Holding, Running
    <3>2. at'[q] = at[q]
      BY <1>0, <1>7, <2>2 DEF BindSock, Exits
    <3> QED
      BY <2>2, <3>1, <3>2, OthersKeep
  <2>3. CASE kind = "zsync" /\ sock # None
    BY <1>4, <1>7, <2>3 DEF BindSock
  <2> QED
    BY <2>1, <2>2, <2>3
<1>8. ASSUME NEW p \in Pid,
             WritePid(p) \/ Unlink(p) \/ Handles(p) \/ Hears(p) \/ Guard(p) \/ AcceptFails(p)
      PROVE OwnFiles(q)'
  <2>1. Holding(p) /\ Running(p)
    BY <1>8 DEF WritePid, Unlink, Handles, Hears, Guard, AcceptFails, Holding, Handled, Running
  <2>2. CASE q # p
    <3>1. at'[q] = at[q]
      BY <1>0, <1>8, <2>2 DEF WritePid, Unlink, Handles, Hears, Guard, AcceptFails
    <3> QED
      BY <2>1, <2>2, <3>1, OthersKeep
  <2>3. CASE q = p /\ WritePid(p)
    BY <1>0, <2>3 DEF WritePid, OwnFiles, Holding, PidMade, SockMade, Handled
  <2>4. CASE q = p /\ (Unlink(p) \/ Handles(p))
    BY <1>0, <2>4 DEF Unlink, Handles, OwnFiles, Holding, PidMade, SockMade, Handled
  <2>5. CASE q = p /\ (Hears(p) \/ AcceptFails(p))
    BY <1>0, <2>5 DEF Hears, AcceptFails, OwnFiles, Holding, PidMade, SockMade, Handled
  <2>6. CASE q = p /\ Guard(p)
    BY <1>0, <2>6 DEF Guard, OwnFiles, Holding, PidMade, SockMade, Handled
  <2> QED
    BY <1>8, <2>2, <2>3, <2>4, <2>5, <2>6
<1>9. ASSUME NEW p \in Pid, End(p) \/ Crash(p) PROVE OwnFiles(q)'
  BY <1>4, <1>9 DEF End, Crash
<1>10. ASSUME NEW p \in Pid, Misses(p) \/ SockFails(p) PROVE OwnFiles(q)'
  BY <1>0, <1>10, OwnFrame DEF Misses, SockFails
<1>11. ASSUME NEW c \in Cmd,
              StartChecks(c) \/ StopChecks(c) \/ StartSees(c) \/ StopSees(c) \/ GivesUp(c)
       PROVE OwnFiles(q)'
  <2>1. at'[q] = at[q] /\ UNCHANGED <<kind, files, net>>
    BY <1>0, <1>11 DEF StartChecks, StopChecks, StartSees, StopSees, GivesUp
  <2> QED
    BY <1>0, <2>1, OwnFrame
<1>12. ASSUME NEW c \in Cmd, Spawn(c) PROVE OwnFiles(q)'
  <2> DEFINE p == CHOOSE r \in {r \in Pid : at[r] = "none"} : TRUE
  <2>1. p \in Pid /\ at[p] = "none"
    BY <1>12, Chosen DEF Spawn
  <2>2. /\ at' = [at EXCEPT ![p] = IF kind = "zsync" THEN "clean" ELSE "tls",
                            ![c] = IF op[c] = "run" THEN "idle" ELSE "wait"]
        /\ UNCHANGED <<kind, files, port>> /\ \E v \in Named[p] : asks' = [asks EXCEPT ![p] = v]
    BY <1>12 DEF Spawn
  <2> HIDE DEF p
  <2>3. q = p => at'[q] \in {"clean", "tls"}
    BY <1>0, <2>1, <2>2
  <2>4. q # p => at'[q] = at[q] /\ asks'[q] = asks[q]
    BY <1>0, <2>1, <2>2 DEF Locked, BaseInv, TypeOK
  <2>5. CASE q = p
    BY <2>3, <2>5 DEF OwnFiles, Holding, PidMade, SockMade, Handled
  <2>6. CASE q # p
    BY <1>0, <2>2, <2>4, <2>6, OwnFrame
  <2> QED
    BY <2>5, <2>6
<1>13. ASSUME NEW c \in Cmd, Kill(c) PROVE OwnFiles(q)'
  <2> DEFINE p == target[c]
  <2>1. p \in Pid /\ UNCHANGED <<kind, files>>
    BY <1>13 DEF Kill, Locked, BaseInv, Aimed
  <2>2. CASE at[p] \in Handled
    <3>1. at'[q] = at[q] /\ UNCHANGED net
      BY <1>0, <1>13, <2>2 DEF Kill
    <3> QED
      BY <1>0, <2>1, <3>1, OwnFrame
  <2>3. CASE at[p] \notin Handled
    <3>1. at' = [at EXCEPT ![p] = "dead", ![c] = "gone"] /\ Gone(p)
      BY <1>13, <2>3 DEF Kill
    <3>2. at'[p] = "dead" /\ (p # q => at'[q] = at[q])
      BY <1>0, <2>1, <3>1 DEF Actor
    <3> QED
      BY <2>1, <3>1, <3>2, ExitKeeps
  <2> QED
    BY <2>2, <2>3
<1>14. ASSUME NEW o \in {"start", "stop", "run"}, Begin(o) PROVE OwnFiles(q)'
  <2> DEFINE c == CHOOSE d \in {d \in Cmd : at[d] = "idle"} : TRUE
  <2>1. c \in Cmd
    BY <1>14, Chosen DEF Begin
  <2>2. /\ at' = [at EXCEPT ![c] = IF o = "run" THEN "spawn" ELSE "check"]
        /\ UNCHANGED <<kind, files, net>>
    BY <1>14 DEF Begin
  <2> HIDE DEF c
  <2>3. at'[q] = at[q]
    BY <1>0, <2>1, <2>2
  <2> QED
    BY <1>0, <2>2, <2>3, OwnFrame
<1>15. CASE UNCHANGED vars
  BY <1>0, <1>15, OwnFrame DEF vars
<1> QED
  BY <1>1, <1>2, <1>3, <1>5, <1>6, <1>7, <1>8, <1>9, <1>10, <1>11, <1>12, <1>13, <1>14, <1>15
     DEF Next, Process, Command, Actor

\* The types hold in every run, for all sets of processes and commands.
THEOREM TypeCorrect == Spec => []TypeOK
<1>1. OwnInv => TypeOK
  BY DEF OwnInv, BaseInv
<1> QED
  BY <1>1, InitOwn, OwnStep, PTL DEF Spec

\* As long as the port locks, a guard never removes a file of another process:
\* whoever is about to remove files still holds the port, so no other process has
\* made any.
THEOREM GuardsKeepToTheirFiles == Spec => []GuardsOwnFiles
<1>1. OwnInv => GuardsOwnFiles
  BY DEF OwnInv, Locked, OwnFiles, GuardsOwnFiles, PidMade, SockMade, Handled
<1> QED
  BY <1>1, InitOwn, OwnStep, PTL DEF Spec
-----------------------------------------------------------------------------
(* A daemon that is up *)

\* Where a process has made one of its files and means to keep it, and the
\* cleanups that are about to remove files.
Making(p) ==
  \/ at[p] \in {"piddata", "unlink", "signal", "up"}
  \/ <<kind, at[p]>> \in {<<"zsync", "pid">>, <<"zsyncd", "sock">>}
Removing(a) == at[a] \in {"rmsock", "rmpid"}

\* Unless a cleanup has run beside it, what a process has made is there, and
\* no cleanup is under way.
Made(p) ==
  /\ at[p] = "piddata" => pidfile = Blank
  /\ PidMade(p) /\ ~Leaving(p) => pidfile = p
  /\ SockMade(p) /\ ~Leaving(p) => sock = p
  /\ Making(p) => \A a \in Actor \ {p} : ~Removing(a)

\* The inductive invariant of UpIsReachable.
UpInv == OwnInv /\ (locks => \A p \in Pid \ meddled : Made(p))

\* No process is up yet.
LEMMA InitUp == Init => UpInv
<1> SUFFICES ASSUME Init PROVE UpInv
  OBVIOUS
<1>1. \A p \in Pid : at[p] = "none"
  BY DEF Init, Actor
<1> QED
  BY <1>1, InitOwn DEF UpInv, Made, PidMade, SockMade, Handled, Making

\* What a process has made stays, when a step changes no file and begins no
\* removal.
LEMMA MadeFrame ==
  ASSUME NEW p \in Pid, Made(p), at'[p] = at[p], kind' = kind, pidfile' = pidfile, sock' = sock,
         \A a \in Actor \ {p} : Removing(a)' => Removing(a)
  PROVE  Made(p)'
BY DEF Made, PidMade, SockMade, Leaving, Making

\* The others have made nothing, when a process that holds the port or takes
\* it makes a step.
LEMMA OthersMade ==
  ASSUME Locked, NEW p \in Pid, Running(p), Holding(p) \/ port[asks[p]] \in {p, None},
         NEW q \in Pid \ {p}, at'[q] = at[q]
  PROVE  Made(q)'
<1>1. ~Holding(q)
  BY OneHolds
<1>2. ~Holding(q)'
  BY <1>1 DEF Holding
<1> QED
  BY <1>2 DEF Made, Holding, PidMade, SockMade, Making, Handled

\* A process that is dead has nothing left to have made, and its end begins no
\* removal.
LEMMA ExitMade ==
  ASSUME NEW p \in Pid, NEW q \in Pid, Made(q), at'[p] = "dead",
         \A a \in Actor \ {p} : at'[a] = at[a] \/ at'[a] = "gone",
         p # q => at'[q] = at[q], kind' = kind, pidfile' = pidfile, sock' = sock
  PROVE  Made(q)'
<1>1. CASE q = p
  BY <1>1 DEF Made, Holding, PidMade, SockMade, Handled, Making
<1>2. CASE q # p
  BY <1>2, MadeFrame DEF Removing
<1> QED
  BY <1>1, <1>2

\* Every step keeps what processes have made, unless it puts them among the
\* meddled ones.
LEMMA UpStep == UpInv /\ [Next]_vars => UpInv'
<1> SUFFICES ASSUME UpInv, Locked, [Next]_vars, locks, locks', NEW q \in Pid, q \notin meddled'
             PROVE  Made(q)'
  BY OwnStep, LocksStep DEF UpInv, OwnInv
<1> USE DEF Goes, Turns, files, cmdVars, net, history
<1>0. /\ at \in [Actor -> ProcAt \cup CmdAt] /\ q \in Actor
      /\ Pid \cap Cmd = {} /\ kind \in {"zsync", "zsyncd"} /\ {None, Blank} \cap Pid = {}
      /\ OwnFiles(q)
  BY LifecycleAssumption DEF Locked, BaseInv, TypeOK, Actor
<1>00. q \notin meddled => Made(q)
  BY DEF UpInv
<1>1. ASSUME NEW a \in Actor, Clean(a) PROVE Made(q)'
  <2>0. Made(q) /\ at' = [at EXCEPT ![a] = IF Stale THEN "rmsock" ELSE AfterClean(a)]
    BY <1>1, <1>00 DEF Clean
  <2>1. CASE q = a
    BY <1>0, <1>1, <2>1 DEF Clean, AfterClean, Made, PidMade, SockMade, Making, Handled
  <2>2. CASE q # a /\ ~Stale
    BY <1>0, <1>1, <2>0, <2>2, MadeFrame DEF Clean, Removing, AfterClean
  <2>3. CASE q # a /\ Stale
    <3>1. q \notin HalfMade /\ at'[q] = at[q]
      BY <1>0, <1>1, <2>3 DEF Clean
    <3>2. at[q] # "piddata"
      BY <2>0, <3>1 DEF HalfMade, Made
    <3>3. ~(kind = "zsync" /\ at[q] = "pid")
      BY <2>0, <3>1 DEF HalfMade, Made, SockMade, Leaving
    <3>4. ~PidMade(q) \/ Leaving(q)
      BY <1>0, <2>0, <2>3 DEF Made, Stale, Alive, Running, PidMade, Handled
    <3>5. ~Making(q)
      BY <1>0, <3>2, <3>3, <3>4 DEF Making, PidMade, Leaving, Handled
    <3> QED
      BY <1>1, <2>0, <3>1, <3>5 DEF Clean, Made, PidMade, SockMade, Leaving, Making
  <2> QED
    BY <2>1, <2>2, <2>3
<1>2. ASSUME NEW a \in Actor, RmSock(a) \/ RmPid(a) PROVE Made(q)'
  <2>0. Made(q) /\ Removing(a)
    BY <1>2, <1>00 DEF RmSock, RmPid, Removing
  <2>1. CASE q = a
    BY <1>0, <1>2, <2>1 DEF RmSock, RmPid, AfterClean, Made, PidMade, SockMade, Making, Handled
  <2>2. CASE q # a
    <3>1. at'[q] = at[q] /\ kind' = kind
      BY <1>0, <1>2, <2>2 DEF RmSock, RmPid
    <3>2. ~Making(q)
      BY <1>0, <2>0, <2>2 DEF Made
    <3>3. at[q] # "piddata" /\ (PidMade(q) => Leaving(q)) /\ (SockMade(q) => Leaving(q))
      BY <1>0, <3>2 DEF Making, PidMade, SockMade, Leaving, Handled
    <3> QED
      BY <3>1, <3>2, <3>3 DEF Made, Making, PidMade, SockMade, Leaving
  <2> QED
    BY <2>1, <2>2
<1>3. ASSUME NEW p \in Pid, Tls(p) \/ WriteTls(p) PROVE Made(q)'
  <2>0. /\ Made(q) /\ at[p] \in {"tls", "crt", "crtdata", "key", "keydata"}
        /\ at'[p] \in {"crt", "crtdata", "key", "keydata", "load"}
        /\ UNCHANGED <<kind, files>>
        /\ \A a \in Actor \ {p} : at'[a] = at[a]
    BY <1>0, <1>3, <1>00 DEF Tls, WriteTls, Actor
  <2>1. CASE q = p
    BY <1>0, <2>0, <2>1 DEF Made, PidMade, SockMade, Making, Handled
  <2>2. CASE q # p
    BY <1>0, <2>0, <2>2, MadeFrame DEF Removing
  <2> QED
    BY <2>1, <2>2
<1>4. ASSUME NEW p \in Pid, Exits(p), UNCHANGED <<kind, pidfile, sock, meddled>> PROVE Made(q)'
  <2>1. at'[p] = "dead" /\ \A a \in Actor \ {p} : at'[a] = at[a]
    BY <1>0, <1>4 DEF Exits, Actor
  <2> QED
    BY <1>0, <1>00, <1>4, <2>1, ExitMade
<1>5. ASSUME NEW p \in Pid, LoadTls(p) PROVE Made(q)'
  <2>1. CASE Paired
    <3>1. /\ Made(q) /\ at'[p] = "port" /\ UNCHANGED <<kind, files>>
          /\ \A a \in Actor \ {p} : at'[a] = at[a]
      BY <1>0, <1>00, <1>5, <2>1 DEF LoadTls, Actor
    <3>2. CASE q = p
      BY <3>1, <3>2 DEF Made, PidMade, SockMade, Making, Handled
    <3>3. CASE q # p
      BY <1>0, <3>1, <3>3, MadeFrame DEF Removing
    <3> QED
      BY <3>2, <3>3
  <2>2. CASE ~Paired
    BY <1>4, <1>5, <2>2 DEF LoadTls
  <2> QED
    BY <2>1, <2>2
<1>6. ASSUME NEW p \in Pid, BindPort(p) PROVE Made(q)'
  <2>0. Running(p)
    BY <1>6 DEF BindPort, Running
  <2>1. CASE port[asks[p]] = None /\ q = p
    BY <1>0, <1>6, <2>1 DEF BindPort, Made, PidMade, SockMade, Making, Handled
  <2>2. CASE port[asks[p]] = None /\ q # p
    BY <1>0, <1>6, <2>0, <2>2, OthersMade DEF BindPort
  <2>3. CASE port[asks[p]] # None
    BY <1>4, <1>6, <2>3 DEF BindPort
  <2> QED
    BY <2>1, <2>2, <2>3
<1>7. ASSUME NEW p \in Pid, BindSock(p) PROVE Made(q)'
  <2>0. Holding(p) /\ Running(p) /\ at[p] = "sock"
    BY <1>7 DEF BindSock, Holding, Running
  <2>1. CASE kind = "zsync" /\ sock # None
    BY <1>4, <1>7, <2>1 DEF BindSock
  <2>2. CASE q # p
    <3>1. at'[q] = at[q]
      BY <1>0, <1>7, <2>2 DEF BindSock, Exits
    <3> QED
      BY <1>0, <2>0, <2>2, <3>1, OthersMade
  <2>3. CASE q = p /\ sock = None
    <3>1. /\ q \notin meddled /\ \A a \in Actor \ {q} : ~Removing(a)
      BY <1>7, <2>3 DEF BindSock, Beside, Removing
    <3>2. \A a \in Actor \ {q} : at'[a] = at[a]
      BY <1>0, <1>7, <2>3 DEF BindSock
    <3>3. \A a \in Actor \ {q} : ~Removing(a)'
      BY <3>1, <3>2 DEF Removing
    <3>4. /\ at'[q] = IF kind = "zsync" THEN "pid" ELSE "signal"
          /\ sock' = q /\ kind' = kind /\ pidfile' = pidfile
      BY <1>0, <1>7, <2>3 DEF BindSock
    <3>5. kind = "zsyncd" => pidfile = q
      BY <1>00, <2>0, <2>3, <3>1 DEF Made, PidMade, Leaving
    <3> QED
      BY <1>0, <3>3, <3>4, <3>5 DEF Made, PidMade, SockMade, Making, Handled
  <2>4. CASE q = p /\ kind = "zsyncd" /\ sock # None
    BY <1>0, <2>0, <2>4 DEF OwnFiles
  <2> QED
    BY <1>0, <2>1, <2>2, <2>3, <2>4
<1>8. ASSUME NEW p \in Pid, WritePid(p) PROVE Made(q)'
  <2>0. Holding(p) /\ Running(p)
    BY <1>8 DEF WritePid, Holding, Running
  <2>1. CASE q # p
    <3>1. at'[q] = at[q]
      BY <1>0, <1>8, <2>1 DEF WritePid
    <3> QED
      BY <1>0, <2>0, <2>1, <3>1, OthersMade
  <2>2. CASE q = p
    <3>1. /\ q \notin meddled /\ \A a \in Actor \ {q} : ~Removing(a)
      BY <1>8, <2>2 DEF WritePid, Beside, Removing
    <3>2. \A a \in Actor \ {q} : at'[a] = at[a]
      BY <1>0, <1>8, <2>2 DEF WritePid
    <3>3. \A a \in Actor \ {q} : ~Removing(a)'
      BY <3>1, <3>2 DEF Removing
    <3>4. Made(q) /\ kind' = kind /\ sock' = sock
      BY <1>00, <1>8, <3>1 DEF WritePid
    <3>5. CASE at[q] = "pid"
      <4>1. at'[q] = "piddata" /\ pidfile' = Blank
        BY <1>0, <1>8, <2>2, <3>5 DEF WritePid
      <4> QED
        BY <1>0, <3>3, <3>4, <3>5, <4>1 DEF Made, PidMade, SockMade, Leaving, Making, Handled
    <3>6. CASE at[q] = "piddata"
      <4>1. /\ at'[q] = IF kind = "zsync" THEN "signal" ELSE "unlink"
            /\ pidfile' = q
        BY <1>0, <1>8, <2>2, <3>4, <3>6 DEF WritePid, Made
      <4> QED
        BY <1>0, <3>3, <3>4, <3>6, <4>1 DEF Made, PidMade, SockMade, Leaving, Making, Handled
    <3> QED
      BY <1>8, <2>2, <3>5, <3>6 DEF WritePid
  <2> QED
    BY <2>1, <2>2
<1>9. ASSUME NEW p \in Pid,
             Unlink(p) \/ Handles(p) \/ Hears(p) \/ AcceptFails(p) \/ Guard(p)
      PROVE Made(q)'
  <2>0. Holding(p) /\ Running(p)
    BY <1>9 DEF Unlink, Handles, Hears, AcceptFails, Guard, Holding, Handled, Running
  <2>1. CASE q # p
    <3>1. at'[q] = at[q]
      BY <1>0, <1>9, <2>1 DEF Unlink, Handles, Hears, AcceptFails, Guard
    <3> QED
      BY <1>0, <2>0, <2>1, <3>1, OthersMade
  <2>2. CASE q = p
    <3>1. Made(q) /\ kind' = kind
      BY <1>00, <1>9 DEF Unlink, Handles, Hears, AcceptFails, Guard
    <3>2. \A a \in Actor \ {q} : Removing(a)' = Removing(a)
      BY <1>0, <1>9, <2>2 DEF Unlink, Handles, Hears, AcceptFails, Guard, Removing
    <3>3. CASE Unlink(p)
      <4>1. at[q] = "unlink" /\ at'[q] = "sock" /\ pidfile' = pidfile
        BY <1>0, <2>2, <3>3 DEF Unlink
      <4> QED
        BY <1>0, <3>1, <3>2, <4>1 DEF OwnFiles, Made, PidMade, SockMade, Leaving, Making, Handled
    <3>4. CASE Handles(p)
      <4>1. at[q] = "signal" /\ at'[q] = "up" /\ UNCHANGED files
        BY <1>0, <2>2, <3>4 DEF Handles
      <4> QED
        BY <1>0, <3>1, <3>2, <4>1 DEF Made, PidMade, SockMade, Leaving, Making, Handled
    <3>5. CASE Hears(p) \/ AcceptFails(p) \/ Guard(p)
      <4>1. at'[q] \in {"guard", "guarded", "ending"}
        BY <1>0, <2>2, <3>5 DEF Hears, AcceptFails, Guard
      <4> QED
        BY <4>1 DEF Made, Leaving, Making
    <3> QED
      BY <1>9, <3>3, <3>4, <3>5
  <2> QED
    BY <2>1, <2>2
<1>10. ASSUME NEW p \in Pid, End(p) \/ Crash(p) PROVE Made(q)'
  BY <1>4, <1>10 DEF End, Crash
<1>11. ASSUME NEW p \in Pid, Misses(p) \/ SockFails(p) PROVE Made(q)'
  BY <1>0, <1>00, <1>11, MadeFrame DEF Misses, SockFails, Removing
<1>12. ASSUME NEW c \in Cmd,
              StartChecks(c) \/ StopChecks(c) \/ StartSees(c) \/ StopSees(c) \/ GivesUp(c)
       PROVE Made(q)'
  <2>1. /\ at'[q] = at[q] /\ UNCHANGED <<kind, files, meddled>>
        /\ \A a \in Actor : at'[a] = at[a] \/ at'[a] \in {"idle", "clean", "kill"}
    BY <1>0, <1>12 DEF StartChecks, StopChecks, StartSees, StopSees, GivesUp
  <2> QED
    BY <1>0, <1>00, <2>1, MadeFrame DEF Removing
<1>13. ASSUME NEW c \in Cmd, Spawn(c) PROVE Made(q)'
  <2> DEFINE p == CHOOSE r \in {r \in Pid : at[r] = "none"} : TRUE
  <2>1. p \in Pid /\ at[p] = "none"
    BY <1>13, Chosen DEF Spawn
  <2>2. /\ at' = [at EXCEPT ![p] = IF kind = "zsync" THEN "clean" ELSE "tls",
                            ![c] = IF op[c] = "run" THEN "idle" ELSE "wait"]
        /\ UNCHANGED <<kind, files, meddled>>
    BY <1>13 DEF Spawn
  <2> HIDE DEF p
  <2>3. q = p => at'[q] \in {"clean", "tls"}
    BY <1>0, <2>1, <2>2
  <2>4. q # p => at'[q] = at[q]
    BY <1>0, <2>1, <2>2
  <2>5. \A a \in Actor : at'[a] = at[a] \/ at'[a] \in {"clean", "tls", "idle", "wait"}
    BY <1>0, <2>1, <2>2
  <2>6. CASE q = p
    BY <2>3, <2>6 DEF Made, PidMade, SockMade, Making, Handled
  <2>7. CASE q # p
    BY <1>0, <1>00, <2>2, <2>4, <2>5, <2>7, MadeFrame DEF Removing
  <2> QED
    BY <2>6, <2>7
<1>14. ASSUME NEW c \in Cmd, Kill(c) PROVE Made(q)'
  <2> DEFINE p == target[c]
  <2>1. p \in Pid /\ UNCHANGED <<kind, files, meddled>>
    BY <1>0, <1>14 DEF Kill, Locked, BaseInv, Aimed
  <2>2. CASE at[p] \in Handled
    <3>1. at' = [at EXCEPT ![c] = "gone"]
      BY <1>14, <2>2 DEF Kill
    <3>2. at'[q] = at[q] /\ \A a \in Actor : at'[a] = at[a] \/ at'[a] = "gone"
      BY <1>0, <3>1
    <3> QED
      BY <1>0, <1>00, <2>1, <3>2, MadeFrame DEF Removing
  <2>3. CASE at[p] \notin Handled
    <3>1. at' = [at EXCEPT ![p] = "dead", ![c] = "gone"]
      BY <1>14, <2>3 DEF Kill
    <3>2. /\ at'[p] = "dead" /\ (p # q => at'[q] = at[q])
          /\ \A a \in Actor \ {p} : at'[a] = at[a] \/ at'[a] = "gone"
      BY <1>0, <2>1, <3>1 DEF Actor
    <3> QED
      BY <1>0, <1>00, <2>1, <3>2, ExitMade
  <2> QED
    BY <2>2, <2>3
<1>15. ASSUME NEW o \in {"start", "stop", "run"}, Begin(o) PROVE Made(q)'
  <2> DEFINE c == CHOOSE d \in {d \in Cmd : at[d] = "idle"} : TRUE
  <2>1. c \in Cmd
    BY <1>15, Chosen DEF Begin
  <2>2. /\ at' = [at EXCEPT ![c] = IF o = "run" THEN "spawn" ELSE "check"]
        /\ UNCHANGED <<kind, files, meddled>>
    BY <1>15 DEF Begin
  <2> HIDE DEF c
  <2>3. at'[q] = at[q] /\ \A a \in Actor : at'[a] = at[a] \/ at'[a] \in {"spawn", "check"}
    BY <1>0, <2>1, <2>2
  <2> QED
    BY <1>0, <1>00, <2>2, <2>3, MadeFrame DEF Removing
<1>16. CASE UNCHANGED vars
  BY <1>0, <1>00, <1>16, MadeFrame DEF vars, Removing
<1> QED
  BY <1>1, <1>2, <1>3, <1>5, <1>6, <1>7, <1>8, <1>9, <1>10, <1>11, <1>12, <1>13, <1>14, <1>15,
     <1>16 DEF Next, Process, Command, Actor

\* As long as the port locks, a daemon that is up can be found and reached through
\* its files: a cleanup that would remove them finds its pid in the pid file and
\* leaves them alone.
THEOREM UpReachable == Spec => []UpIsReachable
<1>1. UpInv => UpIsReachable
  BY DEF UpInv, Made, UpIsReachable, Reachable, Found, PidMade, SockMade, Leaving, Handled
<1> QED
  BY <1>1, InitUp, UpStep, PTL DEF Spec
=============================================================================
