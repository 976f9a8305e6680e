----------------------------- MODULE Lifecycle -----------------------------
(***************************************************************************)
(* How the two daemons are started and stopped: zsync (src/daemon.rs) and  *)
(* zsyncd (src/zsyncd.rs), each with a pid file and a socket file, the     *)
(* port that the environment of the process names, and zsyncd with the two *)
(* files of its TLS identity (src/tlsutil.rs).                             *)
(* Users run start, stop and the daemon in the foreground; processes are   *)
(* killed at any step.  Every step is one operation on a file, a socket or *)
(* a signal.                                                               *)
(*                                                                         *)
(* A process id is used once.  The loops that wait for a daemon end when   *)
(* it is there, or give up at any time.                                    *)
(***************************************************************************)
EXTENDS Naturals, FiniteSets

CONSTANTS
  Pid,        \* bound: processes of the daemon, one after another or at once
  Cmd,        \* bound: commands at a time
  Kinds,      \* which daemons a run has: "zsync", "zsyncd"
  Port,
  Named,      \* the ports that ZSYNC_PORT or ZSYNCD_PORT may name, for each process
  None, Blank,
  MaxCmds, MaxFaults   \* bounds: commands; kills, failing accepts, second ports

ASSUME LifecycleAssumption ==
  /\ Pid \cap Cmd = {} /\ {None, Blank} \cap Pid = {} /\ None # Blank
  /\ Kinds \subseteq {"zsync", "zsyncd"} /\ None \notin Port
  /\ Named \in [Pid -> SUBSET Port]
  /\ MaxCmds \in Nat /\ MaxFaults \in Nat

VARIABLES
  kind,       \* which daemon this is
  pidfile,    \* None, Blank (no number in it), or the number in it
  sock,       \* who created the socket file
  port,       \* who listens on each port
  asks,       \* the port in the environment of each process that runs
  deaf,       \* the processes whose IPC or admin loop has ended: no one answers
  crt, key,   \* who wrote tls.crt and tls.key
  at,         \* the place of each process and command
  op, target, \* of each command: what it is, the process it waits for
  sig,        \* processes with a SIGTERM they have not taken yet
  cmds, faults,   \* bounds: commands and faults so far
  meddled,    \* history: processes a cleanup ran beside while they made their files
  locks,      \* history: the port has been the lock of the files
  alone       \* history: the last command began with nothing else going on,
              \* and nothing else has happened since

files == <<pidfile, sock>>
net == <<port, asks, deaf>>
tls == <<crt, key>>
cmdVars == <<op, target>>
spent == <<cmds, faults>>
history == <<meddled, locks, alone>>
vars == <<kind, files, net, tls, at, cmdVars, sig, spent, history>>

Actor == Pid \cup Cmd
Cleaning == {"clean", "rmsock", "rmpid"}
\* Where SIGTERM has a handler.
Handled == {"up", "guard", "guarded", "ending"}
ProcAt == Cleaning \cup Handled \cup
  {"none", "dead", "tls", "crt", "crtdata", "key", "keydata", "load", "port", "sock", "pid",
   "piddata", "unlink", "signal"}
CmdAt == Cleaning \cup {"idle", "check", "spawn", "wait", "kill", "gone"}

Running(p) == at[p] \notin {"none", "dead"}

\* pid_alive of what read_pid returns.  A process that is dead stays in the
\* table of the kernel while the start that spawned it still waits.
Alive(x) ==
  x \in Pid /\ \/ Running(x)
               \/ at[x] = "dead" /\ \E c \in Cmd : at[c] = "wait" /\ target[c] = x

Goes(a, place) == at' = [at EXCEPT ![a] = place]

\* A command that is over is forgotten.
Turns(a, place) ==
  /\ Goes(a, place)
  /\ IF a \in Cmd /\ place = "idle"
       THEN op' = [op EXCEPT ![a] = None] /\ target' = [target EXCEPT ![a] = None]
       ELSE UNCHANGED cmdVars

Closes(p) == port' = [v \in Port |-> IF port[v] = p THEN None ELSE port[v]]

\* mutant: a child inherits the listener and lives on
Inherited(p) == asks' = [asks EXCEPT ![p] = None] /\ deaf' = deaf \ {p} /\ UNCHANGED port

\* The process is gone, and the kernel closes what it had open.
Gone(p) ==
  /\ Closes(p)
  /\ asks' = [asks EXCEPT ![p] = None]
  /\ deaf' = deaf \ {p}

-----------------------------------------------------------------------------
(* cleanup_stale, of start, stop and run_agent *)

AfterClean(a) == IF a \in Pid THEN "port" ELSE IF op[a] = "start" THEN "spawn" ELSE "idle"

\* mutant: a pid file without a number is left alone, and the socket with it
StaleIfDead == pidfile \in Pid /\ ~Alive(pidfile)

\* mutant: cleanup does not ask whether the process lives
StaleAlways == TRUE

Stale == ~Alive(pidfile)

\* Processes that have made one of their files and have not written their pid.
HalfMade == {p \in Pid : at[p] \in {"pid", "piddata"} /\ (sock = p \/ pidfile = Blank)}

Clean(a) ==
  /\ at[a] = "clean"
  /\ Turns(a, IF Stale THEN "rmsock" ELSE AfterClean(a))
  /\ meddled' = IF Stale THEN meddled \cup (HalfMade \ {a}) ELSE meddled
  /\ UNCHANGED <<kind, files, net, tls, sig, spent, locks, alone>>

RmSock(a) ==
  /\ at[a] = "rmsock"
  /\ sock' = None /\ Goes(a, "rmpid")
  /\ UNCHANGED <<kind, pidfile, net, tls, cmdVars, sig, spent, history>>

RmPid(a) ==
  /\ at[a] = "rmpid"
  /\ pidfile' = None /\ Turns(a, AfterClean(a))
  /\ UNCHANGED <<kind, sock, net, tls, sig, spent, history>>

\* A process makes a file while another actor is about to remove it.
Beside(p) ==
  meddled' = IF \E a \in Actor \ {p} : at[a] \in {"rmsock", "rmpid"}
               THEN meddled \cup {p} ELSE meddled

-----------------------------------------------------------------------------
(* A process of the daemon: run_agent or run_server *)

\* It ends without a guard.
Exits(p) == Goes(p, "dead") /\ Gone(p)

\* load_or_create_server.  fs::write creates or truncates, and then writes.
Tls(p) ==
  /\ at[p] = "tls"
  /\ Goes(p, IF crt = None \/ key = None THEN "crt" ELSE "load")
  /\ UNCHANGED <<kind, files, net, tls, cmdVars, sig, spent, history>>

WriteTls(p) ==
  /\ \/ at[p] = "crt"     /\ crt' = Blank /\ Goes(p, "crtdata") /\ UNCHANGED key
     \/ at[p] = "crtdata" /\ crt' = p     /\ Goes(p, "key")     /\ UNCHANGED key
     \/ at[p] = "key"     /\ key' = Blank /\ Goes(p, "keydata") /\ UNCHANGED crt
     \/ at[p] = "keydata" /\ key' = p     /\ Goes(p, "load")    /\ UNCHANGED crt
  /\ UNCHANGED <<kind, files, net, cmdVars, sig, spent, history>>

\* The certificate has to be there, and the key has to fit.
Paired == crt \in Pid /\ crt = key

LoadTls(p) ==
  /\ at[p] = "load"
  /\ IF Paired THEN Goes(p, "port") /\ UNCHANGED net ELSE Exits(p)
  /\ UNCHANGED <<kind, files, tls, cmdVars, sig, spent, history>>

\* mutant: the guard is there before the port
GuardFirst(p) ==
  /\ at[p] = "port"
  /\ IF port[asks[p]] = None
       THEN /\ port' = [port EXCEPT ![asks[p]] = p]
            /\ Goes(p, IF kind = "zsync" THEN "sock" ELSE "pid")
            /\ UNCHANGED <<asks, deaf>>
       ELSE Goes(p, "guard") /\ UNCHANGED net
  /\ UNCHANGED <<kind, files, tls, cmdVars, sig, spent, history>>

BindPort(p) ==
  /\ at[p] = "port"
  /\ IF port[asks[p]] = None
       THEN /\ port' = [port EXCEPT ![asks[p]] = p]
            /\ Goes(p, IF kind = "zsync" THEN "sock" ELSE "pid")
            /\ UNCHANGED <<asks, deaf>>
       ELSE Exits(p)
  /\ UNCHANGED <<kind, files, tls, cmdVars, sig, spent, history>>

\* start_ipc_listener and start_admin: bind fails when the file is there.
BindSock(p) ==
  /\ at[p] = "sock"
  /\ IF sock = None
       THEN /\ sock' = p /\ Goes(p, IF kind = "zsync" THEN "pid" ELSE "signal")
            /\ Beside(p) /\ UNCHANGED net
       ELSE /\ IF kind = "zsync" THEN Exits(p) ELSE Goes(p, "guard") /\ UNCHANGED net
            /\ UNCHANGED <<sock, meddled>>
  /\ UNCHANGED <<kind, pidfile, tls, cmdVars, sig, spent, locks, alone>>

\* write_pid: a file that someone has removed since it was opened stays away.
WritePid(p) ==
  /\ \/ at[p] = "pid" /\ pidfile' = Blank /\ Goes(p, "piddata")
     \/ /\ at[p] = "piddata"
        /\ pidfile' = IF pidfile = Blank THEN p ELSE pidfile
        /\ Goes(p, IF kind = "zsync" THEN "signal" ELSE "unlink")
  /\ Beside(p)
  /\ UNCHANGED <<kind, sock, net, tls, cmdVars, sig, spent, locks, alone>>

\* start_admin of zsyncd removes what is there first.
Unlink(p) ==
  /\ at[p] = "unlink"
  /\ sock' = None /\ Goes(p, "sock")
  /\ UNCHANGED <<kind, pidfile, net, tls, cmdVars, sig, spent, history>>

\* wait_shutdown and shutdown_signal install the handler.
Handles(p) ==
  /\ at[p] = "signal" /\ Goes(p, "up")
  /\ UNCHANGED <<kind, files, net, tls, cmdVars, sig, spent, history>>

\* mutant: the loop goes on after the signal
HearsAndStays(p) ==
  /\ at[p] = "up" /\ p \in sig
  /\ sig' = sig \ {p}
  /\ UNCHANGED <<kind, files, net, tls, at, cmdVars, spent, history>>

Hears(p) ==
  /\ at[p] = "up" /\ p \in sig
  /\ sig' = sig \ {p} /\ Goes(p, "guard")
  /\ UNCHANGED <<kind, files, net, tls, cmdVars, spent, history>>

\* zsyncd takes a connection instead, and listens for signals anew.
Misses(p) ==
  /\ kind = "zsyncd" /\ at[p] = "up" /\ p \in sig
  /\ sig' = sig \ {p} /\ alone' = FALSE
  /\ UNCHANGED <<kind, files, net, tls, at, cmdVars, spent, meddled, locks>>

\* SockGuard removes the socket and then the pid file, PidGuard the other way
\* round.
Guard(p) ==
  /\ \/ at[p] = "guard" /\ Goes(p, "guarded")
     \/ at[p] = "guarded" /\ Goes(p, "ending")
  /\ IF (at[p] = "guard") = (kind = "zsync")
       THEN sock' = None /\ UNCHANGED pidfile ELSE pidfile' = None /\ UNCHANGED sock
  /\ UNCHANGED <<kind, net, tls, cmdVars, sig, spent, history>>

\* The listener is closed last.
End(p) ==
  /\ at[p] = "ending" /\ Exits(p)
  /\ sig' = sig \ {p}
  /\ UNCHANGED <<kind, files, tls, cmdVars, spent, history>>

-----------------------------------------------------------------------------
(* Commands *)

\* Its files lead to it, and its socket answers.
Found(p) == at[p] = "up" /\ pidfile = p /\ sock = p
Reachable(p) == Found(p) /\ p \notin deaf

\* Nothing runs, or, for a stop, one daemon that its files lead to.
Quiet(o) ==
  /\ \A c \in Cmd : at[c] = "idle"
  /\ \A p \in Pid : Running(p) => o = "stop" /\ Found(p)

Begin(o) ==
  LET idle == {c \in Cmd : at[c] = "idle"}
      c == CHOOSE d \in idle : TRUE IN
  /\ idle # {} /\ cmds < MaxCmds
  /\ cmds' = cmds + 1
  /\ alone' = Quiet(o)
  /\ op' = [op EXCEPT ![c] = o] /\ target' = [target EXCEPT ![c] = None]
  /\ Goes(c, IF o = "run" THEN "spawn" ELSE "check")
  /\ UNCHANGED <<kind, files, net, tls, sig, faults, meddled, locks>>

StartChecks(c) ==
  /\ at[c] = "check" /\ op[c] = "start"
  /\ Turns(c, IF Alive(pidfile) THEN "idle" ELSE "clean")
  /\ UNCHANGED <<kind, files, net, tls, sig, spent, history>>

StopChecks(c) ==
  /\ at[c] = "check" /\ op[c] = "stop"
  /\ \/ Alive(pidfile) /\ Goes(c, "kill") /\ target' = [target EXCEPT ![c] = pidfile]
        /\ UNCHANGED op
     \/ ~Alive(pidfile) /\ Turns(c, IF pidfile \in Pid THEN "clean" ELSE "idle")
  /\ UNCHANGED <<kind, files, net, tls, sig, spent, history>>

\* The daemon in the foreground is the command itself; either way the process has
\* the environment of the command.
Spawn(c) ==
  LET free == {p \in Pid : at[p] = "none"}
      p == CHOOSE q \in free : TRUE IN
  /\ at[c] = "spawn" /\ free # {}
  /\ at' = [at EXCEPT ![p] = IF kind = "zsync" THEN "clean" ELSE "tls",
                      ![c] = IF op[c] = "run" THEN "idle" ELSE "wait"]
  /\ target' = [target EXCEPT ![c] = IF op[c] = "run" THEN None ELSE p]
  /\ op' = [op EXCEPT ![c] = IF op[c] = "run" THEN None ELSE @]
  /\ \E v \in Named[p] :
       /\ asks' = [asks EXCEPT ![p] = v]
       /\ IF \A q \in Pid : asks[q] \in {v, None}
            THEN UNCHANGED <<faults, locks>>
            ELSE faults < MaxFaults /\ faults' = faults + 1 /\ locks' = FALSE
  /\ UNCHANGED <<kind, files, port, deaf, tls, sig, cmds, meddled, alone>>

\* kill_pid: without a handler the signal ends the process where it is.
Kill(c) ==
  LET p == target[c] IN
  /\ at[c] = "kill"
  /\ IF at[p] \in Handled
       THEN sig' = sig \cup {p} /\ Goes(c, "gone") /\ UNCHANGED net
       ELSE at' = [at EXCEPT ![p] = "dead", ![c] = "gone"] /\ Gone(p) /\ UNCHANGED sig
  /\ UNCHANGED <<kind, files, tls, cmdVars, spent, history>>

StartSees(c) ==
  /\ at[c] = "wait" /\ sock # None /\ Alive(pidfile)
  /\ Turns(c, "idle")
  /\ UNCHANGED <<kind, files, net, tls, sig, spent, history>>

StopSees(c) ==
  /\ at[c] = "gone" /\ ~Alive(target[c])
  /\ Goes(c, "clean")
  /\ UNCHANGED <<kind, files, net, tls, cmdVars, sig, spent, history>>

\* The loops of start and of stop run out.
GivesUp(c) ==
  /\ at[c] \in {"wait", "gone"} /\ Turns(c, "idle")
  /\ UNCHANGED <<kind, files, net, tls, sig, spent, history>>

-----------------------------------------------------------------------------
Fault == faults < MaxFaults /\ faults' = faults + 1 /\ alone' = FALSE

\* A process is killed without notice.
Crash(p) ==
  /\ Running(p) /\ Fault
  /\ Exits(p) /\ sig' = sig \ {p}
  /\ UNCHANGED <<kind, files, tls, cmdVars, cmds, meddled, locks>>

\* One failing accept ends zsyncd.  In zsync it ends the accept loop, which closes
\* the listener, and the daemon stays up.
AcceptFails(p) ==
  /\ Fault
  /\ \/ /\ kind = "zsyncd" /\ at[p] = "up"
        /\ Goes(p, "guard") /\ UNCHANGED <<port, locks>>
     \/ /\ kind = "zsync" /\ at[p] \in {"signal", "up"}
        /\ Closes(p) /\ locks' = FALSE /\ UNCHANGED at
  /\ UNCHANGED <<kind, files, asks, deaf, tls, cmdVars, sig, cmds, meddled>>

\* A failing accept on the socket ends the IPC loop of zsync or the admin loop of
\* zsyncd: the file stays, and no one answers.
SockFails(p) ==
  /\ Fault
  /\ at[p] \in {"signal", "up"} \/ (kind = "zsync" /\ at[p] \in {"pid", "piddata"})
  /\ deaf' = deaf \cup {p}
  /\ UNCHANGED <<kind, files, port, asks, tls, at, cmdVars, sig, cmds, meddled, locks>>

Init ==
  /\ kind \in Kinds
  /\ pidfile = None /\ sock = None /\ crt = None /\ key = None
  /\ port = [v \in Port |-> None] /\ asks = [p \in Pid |-> None]
  /\ deaf = {}
  /\ at = [a \in Actor |-> IF a \in Pid THEN "none" ELSE "idle"]
  /\ op = [c \in Cmd |-> None] /\ target = [c \in Cmd |-> None]
  /\ sig = {} /\ cmds = 0 /\ faults = 0
  /\ meddled = {} /\ locks = TRUE /\ alone = FALSE

Process(p) ==
  \/ Clean(p) \/ RmSock(p) \/ RmPid(p) \/ Tls(p) \/ WriteTls(p) \/ LoadTls(p) \/ BindPort(p)
  \/ BindSock(p) \/ WritePid(p) \/ Unlink(p) \/ Handles(p) \/ Hears(p) \/ Guard(p) \/ End(p)

Command(c) ==
  \/ Clean(c) \/ RmSock(c) \/ RmPid(c) \/ StartChecks(c) \/ StopChecks(c)
  \/ Spawn(c) \/ Kill(c) \/ StartSees(c) \/ StopSees(c)

Next ==
  \/ \E p \in Pid : Process(p) \/ Misses(p) \/ Crash(p) \/ AcceptFails(p) \/ SockFails(p)
  \/ \E c \in Cmd : Command(c) \/ GivesUp(c)
  \/ \E o \in {"start", "stop", "run"} : Begin(o)

Spec == Init /\ [][Next]_vars

FairSpec ==
  /\ Spec
  /\ \A p \in Pid : WF_vars(Process(p))
  /\ \A c \in Cmd : WF_vars(Command(c))

-----------------------------------------------------------------------------
(* Properties *)

TypeOK ==
  /\ kind \in Kinds
  /\ pidfile \in Pid \cup {None, Blank} /\ sock \in Pid \cup {None}
  /\ crt \in Pid \cup {None, Blank} /\ key \in Pid \cup {None, Blank}
  /\ at \in [Actor -> ProcAt \cup CmdAt]
  /\ \A p \in Pid : at[p] \in ProcAt
  /\ port \in [Port -> Pid \cup {None}]
  /\ \A v \in Port : port[v] # None => Running(port[v])
  /\ asks \in [Pid -> Port \cup {None}] /\ deaf \subseteq Pid
  /\ \A c \in Cmd : at[c] \in CmdAt
  /\ op \in [Cmd -> {"start", "stop", "run", None}]
  /\ target \in [Cmd -> Pid \cup {None}] /\ sig \subseteq {p \in Pid : at[p] \in Handled}
  /\ cmds \in 0..MaxCmds /\ faults \in 0..MaxFaults
  /\ meddled \subseteq Pid /\ locks \in BOOLEAN /\ alone \in BOOLEAN

\* As long as no two processes have had different ports in their environments at a
\* time, and none has closed its port and stayed, a daemon that is up can be found
\* and reached through its files, whatever was started, stopped and killed before
\* and beside it, unless the cleanup of another command or process ran between the
\* moments it made them, or its own loop on the socket has ended.
UpIsReachable ==
  locks => \A p \in Pid : at[p] = "up" /\ p \notin meddled \cup deaf => Reachable(p)

\* On the same conditions, the files that a guard removes are no other process's.
GuardsOwnFiles ==
  locks =>
    \A p \in Pid : at[p] \in {"guard", "guarded"} =>
      pidfile \in {p, None} /\ sock \in {p, None}

\* A start that nothing disturbs brings a daemon up, whatever crashes left
\* behind, unless two first starts or a crash have spoilt the TLS identity.
LoneStartComesUp ==
  (alone /\ \E c \in Cmd : op[c] # "stop" /\ at[c] = "spawn")
    ~> (~alone \/ (\E p \in Pid : Reachable(p)) \/ (kind = "zsyncd" /\ ~Paired))

\* A stop that nothing disturbs, a connection included, ends the daemon and
\* leaves neither file.
LoneStopEndsIt ==
  (alone /\ \E c \in Cmd : op[c] = "stop" /\ at[c] = "kill")
    ~> (~alone \/ (pidfile = None /\ sock = None /\ \A p \in Pid : ~Running(p)))
=============================================================================
