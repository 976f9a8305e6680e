---------------------------- MODULE PeersProofs ----------------------------
(***************************************************************************)
(* Peers: its types, the table that lists every loop, and the live claims, *)
(* for any daemons, addresses, connections and failures.                   *)
(*                                                                         *)
(* The three properties speak of whole sets of tasks; the invariant counts *)
(* by claim instead.  An address in live[n] has exactly one loop of n that *)
(* is in its handshake or its session; a node id in live[n] has exactly    *)
(* one incoming task, or none and is lost.  A step changes the claim of    *)
(* one loop or of one incoming task at most, and the lemmas of `How claims *)
(* change' say what that does to the claims of its daemon.                 *)
(***************************************************************************)
EXTENDS Peers, TLAPS

\* The types by parts.
ListType ==
  /\ up \in SUBSET Node
  /\ saved \in [Node -> SUBSET Addr] /\ disk \in [Node -> SUBSET Addr]
  /\ boot \in [Node -> SUBSET Addr]
TableType ==
  /\ table \in [Node -> [Addr -> Slot \cup {None}]]
  /\ guests \in [Node -> SUBSET Conn]
  /\ poisoned \in SUBSET Node
LiveType == live \in [Node -> SUBSET (Addr \cup Node)] /\ lost \in [Node -> SUBSET Node]
TaskType == task \in [Node -> [Slot -> Task]]
ConnType == conn \in [Conn -> Link]
CallType ==
  call \in [Cli -> [pc : {"none", "spawn", "list", "stop"}, node : Node \cup {None},
                    uri : Addr \cup {None}, list : SUBSET (Addr \cup Conn)]]
SpentType == spent \in [calls : Nat, faults : Nat]

-----------------------------------------------------------------------------
(* Updates of one loop, one connection *)

\* task' is task with one loop replaced.
LEMMA TaskSet ==
  ASSUME TaskType, NEW n \in Node, NEW k \in Slot, NEW t \in Task,
         task' = [task EXCEPT ![n][k] = t]
  PROVE  /\ TaskType' /\ task'[n][k] = t
         /\ \A m \in Node, j \in Slot : m # n \/ j # k => task'[m][j] = task[m][j]
BY DEF TaskType

\* The changes a step makes to a loop give a loop.
LEMMA TaskWith ==
  ASSUME NEW t \in Task, NEW pc \in TaskPc
  PROVE  /\ [t EXCEPT !.pc = pc] \in Task
         /\ [t EXCEPT !.stop = TRUE] \in Task
         /\ [t EXCEPT !.pc = pc, !.conn = None] \in Task
         /\ \A c \in Conn : [t EXCEPT !.pc = pc, !.conn = c] \in Task
BY DEF Task

\* What Doing and Told change.
LEMMA DoingIs ==
  ASSUME TaskType, NEW n \in Node, NEW k \in Slot, NEW pc \in TaskPc, Doing(n, k, pc)
  PROVE  /\ TaskType' /\ task'[n][k] = [task[n][k] EXCEPT !.pc = pc]
         /\ \A m \in Node, j \in Slot : m # n \/ j # k => task'[m][j] = task[m][j]
<1> DEFINE t == [task[n][k] EXCEPT !.pc = pc]
<1>1. task[n][k] \in Task
  BY DEF TaskType
<1>2. t \in Task
  BY <1>1, TaskWith
<1>3. task' = [task EXCEPT ![n][k] = t]
  BY DEF Doing
<1> HIDE DEF t
<1>4. /\ TaskType' /\ task'[n][k] = t
      /\ \A m \in Node, j \in Slot : m # n \/ j # k => task'[m][j] = task[m][j]
  BY <1>2, <1>3 DEF TaskType
<1> QED
  BY <1>4 DEF t

\* Telling a loop to stop changes that loop only, and nothing else of it.
LEMMA ToldIs ==
  ASSUME TaskType, NEW n \in Node, NEW k \in Slot, task' = Told(n, task, k)
  PROVE  /\ TaskType' /\ task'[n][k] = [task[n][k] EXCEPT !.stop = TRUE]
         /\ \A m \in Node, j \in Slot : m # n \/ j # k => task'[m][j] = task[m][j]
<1> DEFINE t == [task[n][k] EXCEPT !.stop = TRUE]
<1>1. task[n][k] \in Task
  BY DEF TaskType
<1>2. t \in Task
  BY <1>1, TaskWith DEF TaskPc
<1>3. task' = [task EXCEPT ![n][k] = t]
  BY DEF Told
<1> HIDE DEF t
<1>4. /\ TaskType' /\ task'[n][k] = t
      /\ \A m \in Node, j \in Slot : m # n \/ j # k => task'[m][j] = task[m][j]
  BY <1>2, <1>3 DEF TaskType
<1> QED
  BY <1>4 DEF t

\* The same for a connection.
LEMMA ConnSet ==
  ASSUME ConnType, NEW c \in Conn, NEW l \in Link, conn' = [conn EXCEPT ![c] = l]
  PROVE  ConnType' /\ conn'[c] = l /\ \A d \in Conn \ {c} : conn'[d] = conn[d]
BY DEF ConnType

\* A connection stays well typed as its far end goes on, and as either end leaves.
LEMMA LinkWith ==
  ASSUME NEW l \in Link, NEW pc \in FarPc
  PROVE  /\ [l EXCEPT !.pc = pc] \in Link
         /\ [l EXCEPT !.near = FALSE] \in Link
         /\ [l EXCEPT !.stop = TRUE] \in Link
         /\ [l EXCEPT !.cut = TRUE] \in Link
         /\ [l EXCEPT !.pc = pc, !.acked = TRUE] \in Link
         /\ NoConn \in Link
BY DEF Link, NoConn, FarPc
-----------------------------------------------------------------------------
(* The inductive invariant *)

Claiming(n, k) == task[n][k].pc \in {"hello", "hung", "loop"}
Hosts(c) == conn[c].pc \in FarPc \ {"none", "hello"}

\* A loop that runs has a peer; it has a connection only while it holds a
\* claim, and that connection is its own.
TaskOK ==
  \A n \in Node, k \in Slot :
    /\ task[n][k].pc # "none" => task[n][k].uri \in Addr
    /\ task[n][k].conn # None =>
         /\ Claiming(n, k)
         /\ conn[task[n][k].conn].near /\ conn[task[n][k].conn].from = n
    /\ \A j \in Slot : task[n][k].conn = task[n][j].conn /\ task[n][k].conn # None => j = k

\* The daemons at the ends of a connection are known while its far end runs.
ConnOK == \A c \in Conn : conn[c].pc # "none" => conn[c].from \in Node /\ conn[c].to \in Node
\* A call is for a daemon, and one that is about to spawn for an address.
CallOK ==
  \A i \in Cli :
    /\ call[i].pc # "none" => call[i].node \in Node
    /\ call[i].pc = "spawn" => call[i].uri \in Addr

\* The claims of n by address: one loop for each.
AddrInv(n) ==
  /\ \A k, j \in Slot : Claiming(n, k) /\ Claiming(n, j) /\ task[n][k].uri = task[n][j].uri => k = j
  /\ \A u \in Addr : u \in live[n] <=> \E k \in Slot : Claiming(n, k) /\ task[n][k].uri = u

\* The claims of n by node id: one incoming task for each, or none and the
\* claim is lost.
HostsFor(c, n, m) == Hosts(c) /\ conn[c].to = n /\ conn[c].from = m
NodeInv(n) ==
  \A m \in Node :
    /\ \A c, d \in Conn : HostsFor(c, n, m) /\ HostsFor(d, n, m) => c = d
    /\ m \in live[n] <=> m \in lost[n] \/ \E c \in Conn : HostsFor(c, n, m)
    /\ m \in lost[n] => \A c \in Conn : ~HostsFor(c, n, m)

\* The inductive invariant.
Types == ListType /\ TableType /\ LiveType /\ TaskType /\ ConnType /\ CallType /\ SpentType
ClaimInv == Types /\ TaskOK /\ ConnOK /\ CallOK /\ LoopsAreListed
        /\ \A n \in Node : AddrInv(n) /\ NodeInv(n)

\* It implies the properties.
LEMMA Implied == ClaimInv => TypeOK /\ LoopsAreListed /\ ClaimsAreExclusive /\ ClaimsAreHeld
<1> SUFFICES ASSUME ClaimInv PROVE TypeOK /\ LoopsAreListed /\ ClaimsAreExclusive /\ ClaimsAreHeld
  OBVIOUS
<1> USE DEF ClaimInv
<1>1. TypeOK
  BY
     DEF TypeOK, Types, ListType, TableType, LiveType, TaskType, ConnType, CallType, SpentType,
         TaskOK
<1>2. ClaimsAreExclusive
  BY DEF ClaimsAreExclusive, Dialling, Hosting, AddrInv, NodeInv, Claiming, Hosts, HostsFor
<1>3. ASSUME NEW n \in Node
      PROVE  live[n] = {u \in Addr : Dialling(n, u) # {}} \cup {m \in Node : Hosting(n, m) # {}}
                         \cup lost[n]
  <2>1. live[n] \subseteq Addr \cup Node /\ lost[n] \subseteq Node /\ Addr \cap Node = {}
    BY PeersAssumption DEF Types, LiveType
  <2>2. \A u \in Addr : Dialling(n, u) # {} <=> \E k \in Slot : Claiming(n, k) /\ task[n][k].uri = u
    BY DEF Dialling, Claiming
  <2>3. \A m \in Node : Hosting(n, m) # {} <=> \E c \in Conn : HostsFor(c, n, m)
    BY DEF Hosting, Hosts, HostsFor
  <2>4. \A u \in Addr : u \in live[n] <=> Dialling(n, u) # {}
    BY <2>2 DEF AddrInv
  <2>5. \A m \in Node : m \in live[n] <=> m \in lost[n] \/ Hosting(n, m) # {}
    BY <2>3 DEF NodeInv
  <2> QED
    BY <2>1, <2>4, <2>5
<1> QED
  BY <1>1, <1>2, <1>3 DEF ClaimsAreHeld

-----------------------------------------------------------------------------
(* How claims change *)

\* The loops of n that hold a claim stay the same, and so do the claims.
LEMMA AddrFrame ==
  ASSUME NEW n \in Node, AddrInv(n), \A u \in Addr : u \in live'[n] <=> u \in live[n],
         \A k \in Slot : /\ Claiming(n, k)' <=> Claiming(n, k)
                         /\ Claiming(n, k) => task'[n][k].uri = task[n][k].uri
  PROVE  AddrInv(n)'
BY DEF AddrInv, Claiming

\* One loop claims an address that nobody holds.
LEMMA AddrClaims ==
  ASSUME NEW n \in Node, AddrInv(n), NEW k \in Slot, NEW u \in Addr, u \notin live[n],
         ~Claiming(n, k),
         live'[n] = live[n] \cup {u}, Claiming(n, k)', task'[n][k].uri = u,
         \A j \in Slot \ {k} : task'[n][j] = task[n][j]
  PROVE  AddrInv(n)'
BY DEF AddrInv, Claiming

\* One loop gives its claim up.
LEMMA AddrReleases ==
  ASSUME NEW n \in Node, AddrInv(n), NEW k \in Slot, Claiming(n, k), task[n][k].uri \in Addr,
         live'[n] = live[n] \ {task[n][k].uri}, ~Claiming(n, k)',
         \A j \in Slot \ {k} : task'[n][j] = task[n][j]
  PROVE  AddrInv(n)'
BY DEF AddrInv, Claiming

\* No incoming task of n claims or releases.
LEMMA NodeFrame ==
  ASSUME NEW n \in Node, NodeInv(n), lost'[n] = lost[n],
         \A m \in Node : m \in live'[n] <=> m \in live[n],
         \A c \in Conn, m \in Node : HostsFor(c, n, m)' <=> HostsFor(c, n, m)
  PROVE  NodeInv(n)'
BY DEF NodeInv

\* One incoming task claims a node id that nobody holds.
LEMMA NodeClaims ==
  ASSUME NEW n \in Node, NodeInv(n), NEW c \in Conn, NEW m \in Node, m \notin live[n],
         live'[n] = live[n] \cup {m}, lost'[n] = lost[n], HostsFor(c, n, m)', ~Hosts(c),
         \A d \in Conn \ {c}, l \in Node : HostsFor(d, n, l)' <=> HostsFor(d, n, l),
         \A l \in Node \ {m} : ~HostsFor(c, n, l)'
  PROVE  NodeInv(n)'
BY DEF NodeInv, HostsFor

\* One incoming task gives its claim up, or leaves it behind.
LEMMA NodeReleases ==
  ASSUME NEW n \in Node, NodeInv(n), NEW c \in Conn, NEW m \in Node, HostsFor(c, n, m),
         \/ live'[n] = live[n] \ {m} /\ lost'[n] = lost[n]
         \/ live'[n] = live[n] /\ lost'[n] = lost[n] \cup {m},
         ~Hosts(c)',
         \A d \in Conn \ {c}, l \in Node : HostsFor(d, n, l)' <=> HostsFor(d, n, l)
  PROVE  NodeInv(n)'
BY DEF NodeInv, HostsFor
-----------------------------------------------------------------------------
(* What the other parts of the invariant keep *)

\* No connection changes, and no claim by node id.
LEMMA ConnsStay ==
  ASSUME ClaimInv, conn' = conn, lost' = lost,
         \A n \in Node, m \in Node : m \in live'[n] <=> m \in live[n]
  PROVE  ConnType' /\ ConnOK' /\ \A n \in Node : NodeInv(n)'
<1>1. \A n \in Node : NodeInv(n)'
  BY NodeFrame DEF ClaimInv, HostsFor, Hosts
<1> QED
  BY <1>1 DEF ClaimInv, Types, ConnType, ConnOK

\* No loop changes, and no claim by address; connections stay open at the near
\* end.
LEMMA TasksStay ==
  ASSUME ClaimInv, task' = task, table' = table,
         \A n \in Node, u \in Addr : u \in live'[n] <=> u \in live[n],
         \A c \in Conn : conn[c].near => conn'[c].near /\ conn'[c].from = conn[c].from
  PROVE  TaskType' /\ TaskOK' /\ LoopsAreListed' /\ \A n \in Node : AddrInv(n)'
<1>1. \A n \in Node : AddrInv(n)'
  BY AddrFrame DEF ClaimInv, Claiming
<1>2. \A n \in Node, k \in Slot : task[n][k].conn \in Conn \cup {None}
  BY DEF ClaimInv, Types, TaskType, Task
<1>3. TaskOK'
  BY <1>2 DEF ClaimInv, TaskOK, Claiming
<1> QED
  BY <1>1, <1>3 DEF ClaimInv, Types, TaskType, LoopsAreListed

\* One loop goes on, and neither claims nor releases anything, whatever happens to
\* connections that stay open at their near ends.
LEMMA LoopAndNet ==
  ASSUME ClaimInv, NEW n \in Node, NEW k \in Slot, NEW pc \in TaskPc \ {"none"}, Doing(n, k, pc),
         task[n][k].pc # "none", Claiming(n, k) <=> pc \in {"hello", "hung", "loop"},
         UNCHANGED <<table, live, lost>>, ConnType', ConnOK',
         \A c \in Conn : conn[c].near => conn'[c].near /\ conn'[c].from = conn[c].from,
         \A c \in Conn, i \in Node, m \in Node : HostsFor(c, i, m)' <=> HostsFor(c, i, m)
  PROVE  TaskType' /\ ConnType' /\ TaskOK' /\ ConnOK' /\ LoopsAreListed'
         /\ \A m \in Node : AddrInv(m)' /\ NodeInv(m)'
<1>1. /\ TaskType' /\ task'[n][k] = [task[n][k] EXCEPT !.pc = pc]
      /\ \A m \in Node, j \in Slot : m # n \/ j # k => task'[m][j] = task[m][j]
  BY DoingIs DEF ClaimInv, Types
<1>2. task[n][k] \in Task
  BY DEF ClaimInv, Types, TaskType
<1>3. /\ task'[n][k].pc = pc /\ task'[n][k].uri = task[n][k].uri
      /\ task'[n][k].conn = task[n][k].conn /\ task'[n][k].stop = task[n][k].stop
  BY <1>1, <1>2 DEF Task
<1>4. \A m \in Node, j \in Slot :
        /\ Claiming(m, j)' <=> Claiming(m, j)
        /\ task'[m][j].uri = task[m][j].uri /\ task'[m][j].conn = task[m][j].conn
        /\ task'[m][j].stop = task[m][j].stop
        /\ task'[m][j].pc # "none" => task[m][j].pc # "none"
  BY ZenonT(30), <1>1, <1>3 DEF Claiming
<1>5. \A m \in Node : AddrInv(m)'
  BY <1>4, AddrFrame DEF ClaimInv
<1>6. TaskOK'
  <2>1. \A m \in Node, j \in Slot : task[m][j].conn \in Conn \cup {None}
    BY DEF ClaimInv, Types, TaskType, Task
  <2> QED
    BY <1>4, <2>1 DEF ClaimInv, TaskOK
<1>7. LoopsAreListed'
  BY <1>4 DEF ClaimInv, LoopsAreListed
<1>8. \A m \in Node : NodeInv(m)'
  BY NodeFrame DEF ClaimInv
<1> QED
  BY <1>1, <1>5, <1>6, <1>7, <1>8

\* The same with no change of a connection.
LEMMA LoopGoesOn ==
  ASSUME ClaimInv, NEW n \in Node, NEW k \in Slot, NEW pc \in TaskPc \ {"none"}, Doing(n, k, pc),
         task[n][k].pc # "none", Claiming(n, k) <=> pc \in {"hello", "hung", "loop"},
         UNCHANGED <<table, live, lost, conn>>
  PROVE  TaskType' /\ ConnType' /\ TaskOK' /\ ConnOK' /\ LoopsAreListed'
         /\ \A m \in Node : AddrInv(m)' /\ NodeInv(m)'
<1>1. ConnType' /\ ConnOK'
  BY ConnsStay DEF ClaimInv
<1>2. /\ \A c \in Conn : conn[c].near => conn'[c].near /\ conn'[c].from = conn[c].from
      /\ \A c \in Conn, i \in Node, m \in Node : HostsFor(c, i, m)' <=> HostsFor(c, i, m)
  BY DEF HostsFor, Hosts
<1> QED
  BY <1>1, <1>2, LoopAndNet

\* An incoming task goes on, with its claim or without.
LEMMA GuestGoesOn ==
  ASSUME ClaimInv, NEW c \in Conn, NEW l \in Link, conn' = [conn EXCEPT ![c] = l],
         l.from = conn[c].from, l.to = conn[c].to, l.near = conn[c].near,
         conn[c].pc # "none", l.pc \in FarPc \ {"none", "hello"} <=> Hosts(c),
         UNCHANGED <<table, live, lost, task>>
  PROVE  TaskType' /\ ConnType' /\ TaskOK' /\ ConnOK' /\ LoopsAreListed'
         /\ \A m \in Node : AddrInv(m)' /\ NodeInv(m)'
<1>1. ConnType' /\ conn'[c] = l /\ \A d \in Conn \ {c} : conn'[d] = conn[d]
  BY ConnSet DEF ClaimInv, Types
<1>2. \A d \in Conn, n \in Node, m \in Node : HostsFor(d, n, m)' <=> HostsFor(d, n, m)
  BY <1>1 DEF HostsFor, Hosts
<1>3. \A n \in Node : NodeInv(n)'
  BY <1>2, NodeFrame DEF ClaimInv
<1>4. ConnOK'
  BY <1>1 DEF ClaimInv, ConnOK
<1> QED
  BY <1>1, <1>3, <1>4, TasksStay

\* The incoming task ends: its connection holds no claim afterwards.
LEMMA ClosingFar ==
  ASSUME ConnType, ConnOK, NEW c \in Conn, Closing(c, "far")
  PROVE  /\ ConnType' /\ ConnOK' /\ ~Hosts(c)' /\ \A d \in Conn \ {c} : conn'[d] = conn[d]
         /\ conn[c].near => conn'[c].near /\ conn'[c].from = conn[c].from
<1> DEFINE l == IF conn[c].near THEN [conn[c] EXCEPT !.pc = "none"] ELSE NoConn
<1>1. conn[c] \in Link
  BY DEF ConnType
<1>2. l \in Link /\ l.pc = "none"
  <2>1. "none" \in FarPc
    BY DEF FarPc
  <2>2. [conn[c] EXCEPT !.pc = "none"] \in Link /\ NoConn \in Link
    BY <1>1, <2>1, LinkWith
  <2>3. [conn[c] EXCEPT !.pc = "none"].pc = "none" /\ NoConn.pc = "none"
    BY <1>1 DEF Link, NoConn
  <2> QED
    BY <2>2, <2>3
<1>3. conn' = [conn EXCEPT ![c] = l]
  BY DEF Closing
<1>4. conn[c].near => l.near /\ l.from = conn[c].from
  BY <1>1 DEF Link
<1> HIDE DEF l
<1>5. ConnType' /\ conn'[c] = l /\ \A d \in Conn \ {c} : conn'[d] = conn[d]
  BY <1>2, <1>3, ConnSet
<1> QED
  BY <1>2, <1>4, <1>5 DEF ConnOK, Hosts

\* The loop closes its end: no claim of an incoming task changes.
LEMMA ClosingNear ==
  ASSUME ConnType, ConnOK, NEW c \in Conn, Closing(c, "near")
  PROVE  /\ ConnType' /\ ConnOK' /\ \A d \in Conn \ {c} : conn'[d] = conn[d]
         /\ \A d \in Conn, n \in Node, m \in Node : HostsFor(d, n, m)' <=> HostsFor(d, n, m)
<1> DEFINE l == IF conn[c].pc = "none" THEN NoConn ELSE [conn[c] EXCEPT !.near = FALSE]
<1>1. conn[c] \in Link
  BY DEF ConnType
<1>2. l \in Link /\ l.pc = conn[c].pc
  <2>1. "none" \in FarPc
    BY DEF FarPc
  <2>2. [conn[c] EXCEPT !.near = FALSE] \in Link /\ NoConn \in Link
    BY <1>1, <2>1, LinkWith
  <2>3. [conn[c] EXCEPT !.near = FALSE].pc = conn[c].pc /\ NoConn.pc = "none"
    BY <1>1 DEF Link, NoConn
  <2> QED
    BY <2>2, <2>3
<1>3. conn' = [conn EXCEPT ![c] = l]
  BY DEF Closing
<1>4. l.pc # "none" => l.from = conn[c].from /\ l.to = conn[c].to
  BY <1>1, <1>2 DEF Link
<1> HIDE DEF l
<1>5. ConnType' /\ conn'[c] = l /\ \A d \in Conn \ {c} : conn'[d] = conn[d]
  BY <1>2, <1>3, ConnSet
<1> QED
  BY <1>2, <1>4, <1>5 DEF ConnOK, Hosts, HostsFor
-----------------------------------------------------------------------------
(* The steps of a maintain loop *)

\* What every step but those of users and failures leaves to the other steps.
Rest == ListType' /\ TableType' /\ CallType' /\ CallOK'
\* What a step leaves alone keeps its types.
LEMMA RestStays ==
  ASSUME ClaimInv, UNCHANGED <<up, listVars, boot, peerVars, call>>
  PROVE  Rest
BY DEF ClaimInv, Types, ListType, TableType, CallType, CallOK, Rest, listVars, peerVars

\* Counting a failure.
LEMMA FaultKeeps == ASSUME SpentType, Fault \/ UNCHANGED spent PROVE SpentType'
BY DEF SpentType, Fault

\* A loop leaves its claim and its connection behind.
LEMMA LoopReleases ==
  ASSUME ClaimInv, NEW n \in Node, NEW k \in Slot, Claiming(n, k),
         live' = Released(n, task[n][k].uri),
         TaskType', ~Claiming(n, k)', task'[n][k].pc = "idle",
         task'[n][k].uri = task[n][k].uri, task'[n][k].stop = task[n][k].stop,
         task'[n][k].conn = None,
         \A m \in Node, j \in Slot : m # n \/ j # k => task'[m][j] = task[m][j],
         \A c \in Conn : c # task[n][k].conn => conn'[c] = conn[c],
         \A c \in Conn, m \in Node, i \in Node : HostsFor(c, m, i)' <=> HostsFor(c, m, i),
         UNCHANGED <<table, lost>>
  PROVE  LiveType' /\ TaskOK' /\ LoopsAreListed' /\ \A m \in Node : AddrInv(m)' /\ NodeInv(m)'
<1> DEFINE u == task[n][k].uri
<1>1. u \in Addr /\ task[n][k].pc # "none"
  BY DEF ClaimInv, TaskOK, Claiming
<1>2. /\ LiveType' /\ live'[n] = live[n] \ {u} /\ \A m \in Node \ {n} : live'[m] = live[m]
  BY DEF ClaimInv, Types, LiveType, Released
<1>3. \A m \in Node : NodeInv(m)'
  <2>1. \A m \in Node, i \in Node : i \in live'[m] <=> i \in live[m]
    BY <1>1, <1>2, PeersAssumption
  <2> QED
    BY <2>1, NodeFrame DEF ClaimInv
<1>4. AddrInv(n)'
  BY <1>1, <1>2, AddrReleases DEF ClaimInv
<1>5. ASSUME NEW m \in Node \ {n} PROVE AddrInv(m)'
  BY <1>2, AddrFrame DEF ClaimInv, Claiming
<1>6. TaskOK'
  <2>1. ASSUME NEW m \in Node, NEW j \in Slot, m # n \/ j # k
        PROVE  /\ task'[m][j] = task[m][j]
               /\ task[m][j].conn # None => task[m][j].conn # task[n][k].conn
    BY <2>1 DEF ClaimInv, TaskOK
  <2>2. \A m \in Node, j \in Slot : task[m][j].conn \in Conn \cup {None}
    BY DEF ClaimInv, Types, TaskType, Task
  <2> QED
    BY <1>1, <2>1, <2>2 DEF ClaimInv, TaskOK, Claiming
<1>7. LoopsAreListed'
  BY <1>1 DEF ClaimInv, LoopsAreListed
<1> QED
  BY <1>2, <1>3, <1>4, <1>5, <1>6, <1>7

\* The steps of maintain_tcp and maintain_relay.
LEMMA LoopStep ==
  ASSUME ClaimInv, NEW n \in Node, NEW k \in Slot, Maintain(n, k)
  PROVE  ClaimInv'
<1>0. task[n][k] \in Task /\ Types /\ None \notin Conn
  BY PeersAssumption DEF ClaimInv, Types, TaskType
<1>1. CASE TaskDials(n, k) \/ DialFails(n, k) \/ ClaimLost(n, k) \/ Acked(n, k) \/ RelayJoined(n, k)
  <2>1. PICK pc \in TaskPc \ {"none"} :
          /\ Doing(n, k, pc) /\ task[n][k].pc # "none"
          /\ Claiming(n, k) <=> pc \in {"hello", "hung", "loop"}
    BY <1>1 DEF TaskDials, DialFails, ClaimLost, Acked, RelayJoined, Claiming, TaskPc
  <2>2. UNCHANGED <<up, listVars, boot, peerVars, live, conn, lost, call>>
    BY <1>1 DEF TaskDials, DialFails, ClaimLost, Acked, RelayJoined
  <2>3. SpentType'
    BY <1>0, <1>1, FaultKeeps DEF TaskDials, DialFails, ClaimLost, Acked, RelayJoined, Types
  <2>4. TaskType' /\ ConnType' /\ TaskOK' /\ ConnOK' /\ LoopsAreListed'
         /\ \A m \in Node : AddrInv(m)' /\ NodeInv(m)'
    BY <2>1, <2>2, LoopGoesOn DEF peerVars
  <2>5. LiveType' /\ Rest
    BY <1>0, <2>2, RestStays DEF Types, LiveType
  <2> QED
    BY <2>3, <2>4, <2>5 DEF ClaimInv, Types, Rest
<1>2. CASE TaskEnds(n, k)
  <2>1. /\ task' = [task EXCEPT ![n][k] = NoTask] /\ task[n][k].pc = "idle" /\ task[n][k].stop
        /\ UNCHANGED <<up, listVars, boot, peerVars, live, conn, lost, call, spent>>
    BY <1>2 DEF TaskEnds
  <2>2. NoTask \in Task
    BY DEF NoTask, Task, TaskPc
  <2>3. /\ TaskType' /\ task'[n][k] = NoTask
        /\ \A m \in Node, j \in Slot : m # n \/ j # k => task'[m][j] = task[m][j]
    <3>1. TaskType /\ n \in Node /\ k \in Slot
      BY <1>0 DEF Types
    <3> QED
      BY ZenonT(30), <2>1, <2>2, <3>1 DEF TaskType
  <2>4. \A m \in Node, j \in Slot : Claiming(m, j)' <=> Claiming(m, j)
    BY <2>1, <2>3 DEF Claiming, NoTask
  <2>5. \A m \in Node : AddrInv(m)'
    BY <2>1, <2>3, <2>4, AddrFrame DEF ClaimInv, Claiming
  <2>6. TaskOK'
    BY <2>1, <2>3, <2>4 DEF ClaimInv, TaskOK, NoTask
  <2>7. LoopsAreListed'
    BY <2>1, <2>3 DEF ClaimInv, LoopsAreListed, NoTask, peerVars
  <2>8. ConnType' /\ ConnOK' /\ \A m \in Node : NodeInv(m)'
    BY <2>1, ConnsStay
  <2>9. LiveType' /\ SpentType' /\ Rest
    BY <1>0, <2>1, RestStays DEF Types, LiveType, SpentType
  <2> QED
    BY <2>3, <2>5, <2>6, <2>7, <2>8, <2>9 DEF ClaimInv, Types, Rest
<1>3. CASE RelayDials(n, k)
  <2> DEFINE u == task[n][k].uri
  <2>1. /\ task[n][k].pc = "dial" /\ u \notin live[n]
        /\ live' = [live EXCEPT ![n] = live[n] \cup {u}]
        /\ Doing(n, k, "hello")
        /\ UNCHANGED <<up, listVars, boot, peerVars, conn, lost, call, spent>>
    BY <1>3 DEF RelayDials, Claims
  <2>2. u \in Addr /\ u \notin Node
    BY <2>1, PeersAssumption DEF ClaimInv, TaskOK
  <2>3. /\ TaskType' /\ task'[n][k] = [task[n][k] EXCEPT !.pc = "hello"]
        /\ \A m \in Node, j \in Slot : m # n \/ j # k => task'[m][j] = task[m][j]
    BY <1>0, <2>1, DoingIs DEF Types, TaskPc
  <2>4. /\ task'[n][k].pc = "hello" /\ task'[n][k].uri = u /\ task'[n][k].conn = task[n][k].conn
        /\ task'[n][k].stop = task[n][k].stop
    BY <1>0, <2>3 DEF Task
  <2>5. LiveType' /\ live'[n] = live[n] \cup {u} /\ \A m \in Node \ {n} : live'[m] = live[m]
    BY <1>0, <2>1, <2>2 DEF Types, LiveType
  <2>6. ~Claiming(n, k) /\ Claiming(n, k)'
    BY <2>1, <2>4 DEF Claiming
  <2>7. AddrInv(n)'
    BY <2>1, <2>2, <2>3, <2>4, <2>5, <2>6, AddrClaims DEF ClaimInv
  <2>8. \A m \in Node \ {n} : AddrInv(m)'
    BY <2>3, <2>5, AddrFrame DEF ClaimInv, Claiming
  <2>9. TaskOK'
    <3>1. /\ conn' = conn /\ task[n][k].conn = None
          /\ \A m \in Node, j \in Slot : m # n \/ j # k => task'[m][j] = task[m][j]
      BY <2>1, <2>3, <2>6 DEF ClaimInv, TaskOK
    <3> QED
      BY <2>2, <2>4, <3>1 DEF ClaimInv, TaskOK, Claiming
  <2>10. LoopsAreListed'
    <3>1. /\ table' = table /\ task[n][k].pc = "dial"
          /\ \A m \in Node, j \in Slot : m # n \/ j # k => task'[m][j] = task[m][j]
      BY <2>1, <2>3 DEF peerVars
    <3> QED
      BY <2>4, <3>1 DEF ClaimInv, LoopsAreListed
  <2>11. \A i \in Node, m \in Node : m \in live'[i] <=> m \in live[i]
    BY <2>2, <2>5
  <2>12. ConnType' /\ ConnOK' /\ \A m \in Node : NodeInv(m)'
    BY <2>1, <2>11, ConnsStay
  <2>13. SpentType' /\ Rest
    BY <1>0, <2>1, RestStays DEF Types, SpentType
  <2> QED
    BY <2>3, <2>5, <2>7, <2>8, <2>9, <2>10, <2>12, <2>13 DEF ClaimInv, Types, Rest
<1>4. CASE Dials(n, k)
  <2> DEFINE u == task[n][k].uri
  <2>1. /\ task[n][k].pc = "dial" /\ u \notin live[n]
        /\ live' = [live EXCEPT ![n] = live[n] \cup {u}]
        /\ Host[u] \in up
        /\ UNCHANGED <<up, listVars, boot, peerVars, lost, call, spent>>
    BY <1>4 DEF Dials, Claims
  <2>2. PICK c \in Conn : /\ conn[c] = NoConn /\ conn' = [conn EXCEPT ![c] = NewConn(n, Host[u])]
                          /\ task' = [task EXCEPT ![n][k] =
                                            [task[n][k] EXCEPT !.pc = "hello", !.conn = c]]
    BY <1>4 DEF Dials
  <2>3. u \in Addr /\ u \notin Node
    BY <2>1, PeersAssumption DEF ClaimInv, TaskOK
  <2> DEFINE t == [task[n][k] EXCEPT !.pc = "hello", !.conn = c]
  <2>4. /\ t \in Task /\ t.pc = "hello" /\ t.conn = c /\ t.uri = u /\ t.stop = task[n][k].stop
    <3>1. "hello" \in TaskPc
      BY DEF TaskPc
    <3>2. t \in Task
      BY <1>0, <3>1, TaskWith
    <3> QED
      BY <1>0, <3>2 DEF Task
  <2>5. task' = [task EXCEPT ![n][k] = t]
    BY <2>2
  <2> HIDE DEF t
  <2>6. /\ TaskType' /\ task'[n][k] = t
        /\ \A m \in Node, j \in Slot : m # n \/ j # k => task'[m][j] = task[m][j]
    BY <1>0, <2>4, <2>5 DEF Types, TaskType
  <2>7. NewConn(n, Host[u]) \in Link /\ Host[u] \in Node
    BY <1>0, <2>1 DEF NewConn, Link, FarPc, Types, ListType
  <2>8. ConnType' /\ conn'[c] = NewConn(n, Host[u]) /\ \A d \in Conn \ {c} : conn'[d] = conn[d]
    BY <1>0, <2>2, <2>7, ConnSet DEF Types
  <2>9. LiveType' /\ live'[n] = live[n] \cup {u} /\ \A m \in Node \ {n} : live'[m] = live[m]
    BY <1>0, <2>1, <2>3 DEF Types, LiveType
  <2>10. ~Claiming(n, k) /\ Claiming(n, k)'
    BY <2>1, <2>4, <2>6 DEF Claiming
  <2>11. AddrInv(n)'
    BY <2>1, <2>3, <2>4, <2>6, <2>9, <2>10, AddrClaims DEF ClaimInv
  <2>12. \A m \in Node \ {n} : AddrInv(m)'
    BY <2>6, <2>9, AddrFrame DEF ClaimInv, Claiming
  <2>13. TaskOK'
    <3>1. \A m \in Node, j \in Slot : task[m][j].conn # c
      BY <1>0, <2>2 DEF ClaimInv, TaskOK, NoConn
    <3>2. \A m \in Node, j \in Slot : task[m][j].conn \in Conn \cup {None}
      BY <1>0 DEF Types, TaskType, Task
    <3>3. conn'[c].near /\ conn'[c].from = n
      BY <2>8 DEF NewConn
    <3> QED
      BY <2>3, <2>4, <2>6, <2>8, <2>10, <3>1, <3>2, <3>3 DEF ClaimInv, TaskOK, Claiming
  <2>14. LoopsAreListed'
    BY <2>1, <2>4, <2>6 DEF ClaimInv, LoopsAreListed, peerVars
  <2>15. \A d \in Conn, i \in Node, m \in Node : HostsFor(d, i, m)' <=> HostsFor(d, i, m)
    BY <2>2, <2>8 DEF HostsFor, Hosts, NewConn, NoConn
  <2>16. \A m \in Node : NodeInv(m)'
    <3>1. \A i \in Node, m \in Node : m \in live'[i] <=> m \in live[i]
      BY <2>3, <2>9
    <3> QED
      BY <2>1, <2>15, <3>1, NodeFrame DEF ClaimInv
  <2>17. ConnOK'
    BY <2>7, <2>8 DEF ClaimInv, ConnOK, NewConn
  <2>18. SpentType' /\ Rest
    BY <1>0, <2>1, RestStays DEF Types, SpentType
  <2> QED
    BY <2>6, <2>8, <2>9, <2>11, <2>12, <2>13, <2>14, <2>16, <2>17, <2>18 DEF ClaimInv, Types, Rest
<1>5. CASE SessionEnds(n, k)
  <2> DEFINE c == task[n][k].conn
             t == [task[n][k] EXCEPT !.pc = "idle", !.conn = None]
  <2>1. /\ task[n][k].pc \in {"hello", "loop"} /\ c # None
        /\ live' = Released(n, task[n][k].uri) /\ Closing(c, "near")
        /\ task' = [task EXCEPT ![n][k] = t]
        /\ UNCHANGED <<up, listVars, boot, peerVars, lost, call, spent>>
    BY <1>5 DEF SessionEnds
  <2>2. c \in Conn
    BY <1>0, <2>1 DEF Task
  <2>3. t \in Task /\ t.pc = "idle" /\ t.conn = None /\ t.uri = task[n][k].uri
        /\ t.stop = task[n][k].stop
    <3>1. "idle" \in TaskPc
      BY DEF TaskPc
    <3>2. t \in Task
      BY <1>0, <3>1, TaskWith
    <3> QED
      BY <1>0, <3>2 DEF Task
  <2> HIDE DEF t
  <2>4. /\ TaskType' /\ task'[n][k] = t
        /\ \A m \in Node, j \in Slot : m # n \/ j # k => task'[m][j] = task[m][j]
    BY <1>0, <2>1, <2>3 DEF Types, TaskType
  <2>5. /\ ConnType' /\ ConnOK' /\ \A d \in Conn \ {c} : conn'[d] = conn[d]
        /\ \A d \in Conn, i \in Node, m \in Node : HostsFor(d, i, m)' <=> HostsFor(d, i, m)
    BY <1>0, <2>1, <2>2, ClosingNear DEF ClaimInv, Types
  <2>6. Claiming(n, k) /\ ~Claiming(n, k)'
    BY <2>1, <2>3, <2>4 DEF Claiming
  <2>7. LiveType' /\ TaskOK' /\ LoopsAreListed' /\ \A m \in Node : AddrInv(m)' /\ NodeInv(m)'
    BY <2>1, <2>3, <2>4, <2>5, <2>6, LoopReleases DEF peerVars
  <2>8. SpentType' /\ Rest
    BY <1>0, <2>1, RestStays DEF Types, SpentType
  <2> QED
    BY <2>4, <2>5, <2>7, <2>8 DEF ClaimInv, Types, Rest
<1>6. CASE RelayEnds(n, k)
  <2>1. /\ task[n][k].pc \in {"hello", "loop"} /\ task[n][k].conn = None
        /\ live' = Released(n, task[n][k].uri) /\ Doing(n, k, "idle")
        /\ UNCHANGED <<up, listVars, boot, peerVars, conn, lost, call>>
        /\ Fault \/ UNCHANGED spent
    BY <1>6 DEF RelayEnds
  <2>2. /\ TaskType' /\ task'[n][k] = [task[n][k] EXCEPT !.pc = "idle"]
        /\ \A m \in Node, j \in Slot : m # n \/ j # k => task'[m][j] = task[m][j]
    BY <1>0, <2>1, DoingIs DEF Types, TaskPc
  <2>3. /\ task'[n][k].pc = "idle" /\ task'[n][k].uri = task[n][k].uri
        /\ task'[n][k].conn = None /\ task'[n][k].stop = task[n][k].stop
    BY <1>0, <2>1, <2>2 DEF Task
  <2>4. Claiming(n, k) /\ ~Claiming(n, k)'
    BY <2>1, <2>3 DEF Claiming
  <2>5. /\ ConnType' /\ ConnOK'
        /\ \A d \in Conn, i \in Node, m \in Node : HostsFor(d, i, m)' <=> HostsFor(d, i, m)
    BY <1>0, <2>1 DEF ClaimInv, Types, ConnType, ConnOK, HostsFor, Hosts
  <2>6. LiveType' /\ TaskOK' /\ LoopsAreListed' /\ \A m \in Node : AddrInv(m)' /\ NodeInv(m)'
    BY <2>1, <2>2, <2>3, <2>4, <2>5, LoopReleases DEF peerVars
  <2>7. SpentType' /\ Rest
    BY <1>0, <2>1, RestStays, FaultKeeps DEF Types, SpentType
  <2> QED
    BY <2>2, <2>5, <2>6, <2>7 DEF ClaimInv, Types, Rest
<1> QED
  BY <1>1, <1>2, <1>3, <1>4, <1>5, <1>6 DEF Maintain

\* A loop hangs in its handshake or its session.
LEMMA HangStep ==
  ASSUME ClaimInv, NEW n \in Node, NEW k \in Slot, Hangs(n, k)
  PROVE  ClaimInv'
<1> DEFINE c == task[n][k].conn
<1>0. task[n][k] \in Task /\ Types /\ None \notin Conn
  BY PeersAssumption DEF ClaimInv, Types, TaskType
<1>1. /\ Doing(n, k, "hung") /\ Fault /\ task[n][k].pc # "none" /\ Claiming(n, k)
      /\ UNCHANGED <<up, listVars, boot, peerVars, live, lost, call>>
  BY DEF Hangs, Claiming
<1>2. /\ ConnType' /\ ConnOK'
      /\ \A d \in Conn : conn[d].near => conn'[d].near /\ conn'[d].from = conn[d].from
      /\ \A d \in Conn, i \in Node, m \in Node : HostsFor(d, i, m)' <=> HostsFor(d, i, m)
  <2>1. CASE conn' = conn
    BY <1>0, <2>1 DEF ClaimInv, Types, ConnType, ConnOK, HostsFor, Hosts
  <2>2. CASE conn' # conn
    <3> DEFINE l == [conn[c] EXCEPT !.cut = TRUE]
    <3>1. c \in Conn /\ conn' = [conn EXCEPT ![c] = l]
      BY <1>0, <2>2 DEF Hangs, Task
    <3>2. conn[c] \in Link
      BY <1>0, <3>1 DEF Types, ConnType
    <3>3. /\ l \in Link /\ l.pc = conn[c].pc /\ l.from = conn[c].from /\ l.to = conn[c].to
          /\ l.near = conn[c].near
      BY <3>2 DEF Link
    <3> HIDE DEF l
    <3>4. ConnType' /\ conn'[c] = l /\ \A d \in Conn \ {c} : conn'[d] = conn[d]
      BY <1>0, <3>1, <3>3, ConnSet DEF Types
    <3> QED
      BY <3>3, <3>4 DEF ClaimInv, ConnOK, HostsFor, Hosts
  <2> QED
    BY <2>1, <2>2
<1>3. TaskType' /\ ConnType' /\ TaskOK' /\ ConnOK' /\ LoopsAreListed'
      /\ \A m \in Node : AddrInv(m)' /\ NodeInv(m)'
  BY <1>1, <1>2, LoopAndNet DEF peerVars, TaskPc
<1>4. LiveType' /\ SpentType' /\ Rest
  BY <1>0, <1>1, FaultKeeps, RestStays DEF Types, LiveType
<1> QED
  BY <1>3, <1>4 DEF ClaimInv, Types, Rest
-----------------------------------------------------------------------------
(* The steps of run_incoming *)

\* The connection is closed at the far end, and the claim is released or lost.
LEMMA GuestReleases ==
  ASSUME ClaimInv, NEW c \in Conn, Hosts(c), Closing(c, "far"), UNCHANGED <<table, task>>,
         \/ live' = Released(conn[c].to, conn[c].from) /\ lost' = lost
         \/ /\ live' = live
            /\ lost' = [lost EXCEPT ![conn[c].to] = lost[conn[c].to] \cup {conn[c].from}]
  PROVE  TaskType' /\ ConnType' /\ LiveType' /\ TaskOK' /\ ConnOK' /\ LoopsAreListed'
         /\ \A m \in Node : AddrInv(m)' /\ NodeInv(m)'
<1>0. conn[c].to \in Node /\ conn[c].from \in Node
  BY DEF ClaimInv, ConnOK, Hosts
<1>1. PICK n \in Node, i \in Node : n = conn[c].to /\ i = conn[c].from /\ i \notin Addr
  BY <1>0, PeersAssumption
<1>2. /\ ConnType' /\ ConnOK' /\ ~Hosts(c)' /\ \A d \in Conn \ {c} : conn'[d] = conn[d]
      /\ conn[c].near => conn'[c].near /\ conn'[c].from = conn[c].from
  BY ClosingFar DEF ClaimInv, Types
<1>3. LiveType'
  BY <1>1 DEF ClaimInv, Types, LiveType, Released
<1>4. \/ live'[n] = live[n] \ {i} /\ lost'[n] = lost[n]
      \/ live'[n] = live[n] /\ lost'[n] = lost[n] \cup {i}
  BY <1>1 DEF ClaimInv, Types, LiveType, Released
<1>5. \A m \in Node \ {n} : live'[m] = live[m] /\ lost'[m] = lost[m]
  BY <1>1 DEF ClaimInv, Types, LiveType, Released
<1>6. HostsFor(c, n, i)
  BY <1>1 DEF HostsFor
<1>7. \A d \in Conn \ {c}, m \in Node, l \in Node : HostsFor(d, m, l)' <=> HostsFor(d, m, l)
  BY <1>2 DEF HostsFor, Hosts
<1>8. NodeInv(n)'
  BY <1>1, <1>2, <1>4, <1>6, <1>7, NodeReleases DEF ClaimInv
<1>9. ASSUME NEW m \in Node \ {n} PROVE NodeInv(m)'
  <2>1. \A l \in Node : ~HostsFor(c, m, l) /\ ~HostsFor(c, m, l)'
    BY <1>1, <1>2 DEF HostsFor
  <2> QED
    BY <1>5, <1>7, <2>1, NodeFrame DEF ClaimInv
<1>10. \A m \in Node, u \in Addr : u \in live'[m] <=> u \in live[m]
  BY <1>1, <1>4, <1>5
<1>11. TaskType' /\ TaskOK' /\ LoopsAreListed' /\ \A m \in Node : AddrInv(m)'
  BY <1>2, <1>10, TasksStay
<1> QED
  BY <1>2, <1>3, <1>8, <1>9, <1>11

\* The steps of run_incoming, and a connection that is cut.
LEMMA GuestStep ==
  ASSUME ClaimInv, NEW c \in Conn, Incoming(c) \/ Cut(c)
  PROVE  ClaimInv'
<1>0. conn[c] \in Link /\ Types
  BY DEF ClaimInv, Types, ConnType
<1>1. CASE Hello(c) /\ Closing(c, "far") /\ live' = live
  <2>1. /\ conn[c].pc = "hello"
        /\ UNCHANGED <<up, listVars, boot, peerVars, task, lost, call, spent, live>>
    BY <1>1 DEF Hello
  <2>2. /\ ConnType' /\ ConnOK' /\ ~Hosts(c)' /\ \A d \in Conn \ {c} : conn'[d] = conn[d]
        /\ conn[c].near => conn'[c].near /\ conn'[c].from = conn[c].from
    BY <1>0, <1>1, ClosingFar DEF ClaimInv, Types
  <2>3. \A d \in Conn, m \in Node, l \in Node : HostsFor(d, m, l)' <=> HostsFor(d, m, l)
    BY <2>1, <2>2 DEF HostsFor, Hosts
  <2>4. \A m \in Node : NodeInv(m)'
    BY <2>1, <2>3, NodeFrame DEF ClaimInv
  <2>5. TaskType' /\ TaskOK' /\ LoopsAreListed' /\ \A m \in Node : AddrInv(m)'
    BY <2>1, <2>2, TasksStay DEF peerVars
  <2>6. LiveType' /\ SpentType' /\ Rest
    BY <1>0, <2>1, RestStays DEF Types, LiveType, SpentType
  <2> QED
    BY <2>2, <2>4, <2>5, <2>6 DEF ClaimInv, Types, Rest
<1>2. CASE Hello(c) /\ ~(Closing(c, "far") /\ live' = live)
  <2>0. PICK n \in Node, i \in Node : n = conn[c].to /\ i = conn[c].from /\ i \notin Addr
    BY <1>2, PeersAssumption DEF Hello, ClaimInv, ConnOK
  <2>1. /\ conn[c].pc = "hello" /\ i \notin live[n]
        /\ live' = [live EXCEPT ![n] = live[n] \cup {i}]
        /\ conn' = [conn EXCEPT ![c] = [conn[c] EXCEPT !.pc = "claimed"]]
        /\ UNCHANGED <<up, listVars, boot, peerVars, task, lost, call, spent>>
    BY <1>2, <2>0 DEF Hello, Claims, At
  <2> DEFINE l == [conn[c] EXCEPT !.pc = "claimed"]
  <2>3. "claimed" \in FarPc
    BY DEF FarPc
  <2>4. l \in Link
    BY <1>0, <2>3, LinkWith
  <2>5. l.pc = "claimed" /\ l.from = i /\ l.to = n /\ l.near = conn[c].near
    BY <1>0, <2>0 DEF Link
  <2>6. conn' = [conn EXCEPT ![c] = l]
    BY <2>1
  <2> HIDE DEF l
  <2>7. ConnType' /\ conn'[c] = l /\ \A d \in Conn \ {c} : conn'[d] = conn[d]
    BY <1>0, <2>4, <2>6, ConnSet DEF Types
  <2>8. LiveType' /\ live'[n] = live[n] \cup {i} /\ \A m \in Node \ {n} : live'[m] = live[m]
    BY <1>0, <2>1, <2>0 DEF Types, LiveType
  <2>9. /\ HostsFor(c, n, i)' /\ ~Hosts(c)
        /\ \A m \in Node, j \in Node : m # n \/ j # i => ~HostsFor(c, m, j)'
        /\ \A d \in Conn \ {c}, m \in Node, j \in Node : HostsFor(d, m, j)' <=> HostsFor(d, m, j)
    BY <2>1, <2>5, <2>7 DEF HostsFor, Hosts, FarPc
  <2>10. NodeInv(n)'
    BY <2>1, <2>0, <2>8, <2>9, NodeClaims DEF ClaimInv
  <2>11. ASSUME NEW m \in Node \ {n} PROVE NodeInv(m)'
    <3>1. \A j \in Node : ~HostsFor(c, m, j) /\ ~HostsFor(c, m, j)'
      BY <2>0, <2>9 DEF HostsFor
    <3> QED
      BY <2>1, <2>8, <2>9, <3>1, NodeFrame DEF ClaimInv
  <2>12. \A m \in Node, u \in Addr : u \in live'[m] <=> u \in live[m]
    BY <2>0, <2>8
  <2>13. TaskType' /\ TaskOK' /\ LoopsAreListed' /\ \A m \in Node : AddrInv(m)'
    BY <2>1, <2>5, <2>7, <2>12, TasksStay DEF peerVars
  <2>14. ConnOK'
    BY <2>0, <2>5, <2>7 DEF ClaimInv, ConnOK
  <2>15. SpentType' /\ Rest
    BY <1>0, <2>1, RestStays DEF Types, SpentType
  <2> QED
    BY <2>7, <2>8, <2>10, <2>11, <2>13, <2>14, <2>15 DEF ClaimInv, Types, Rest
<1>3. CASE Remember(c) \/ LookUp(c) \/ Ack(c) \/ Cut(c)
  <2>1. PICK l \in Link :
          /\ conn' = [conn EXCEPT ![c] = l] /\ conn[c].pc # "none"
          /\ l.from = conn[c].from /\ l.to = conn[c].to /\ l.near = conn[c].near
          /\ l.pc \in FarPc \ {"none", "hello"} <=> Hosts(c)
    <3>1. {"remembered", "noted", "ack", "loop"} \subseteq FarPc
      BY DEF FarPc
    <3>2. CASE Remember(c)
      <4> DEFINE l == [conn[c] EXCEPT !.pc = "remembered"]
      <4>1. l \in Link
        BY <1>0, <3>1, LinkWith
      <4>2. l.pc = "remembered" /\ l.from = conn[c].from /\ l.to = conn[c].to
            /\ l.near = conn[c].near
        BY <1>0 DEF Link
      <4>3. conn' = [conn EXCEPT ![c] = l] /\ conn[c].pc = "claimed"
        BY <3>2 DEF Remember, At
      <4> HIDE DEF l
      <4> QED
        BY <4>1, <4>2, <4>3 DEF Hosts, FarPc
    <3>3. CASE LookUp(c)
      <4> DEFINE pc == IF conn[c].pc = "remembered" THEN "noted" ELSE "ack"
                 l == [conn[c] EXCEPT !.pc = pc]
      <4>1. l \in Link
        BY <1>0, <3>1, LinkWith
      <4>2. l.pc = pc /\ l.from = conn[c].from /\ l.to = conn[c].to /\ l.near = conn[c].near
        BY <1>0 DEF Link
      <4>3. conn' = [conn EXCEPT ![c] = l] /\ conn[c].pc \in {"remembered", "noted"}
        BY <3>3 DEF LookUp, At
      <4> HIDE DEF l
      <4> QED
        BY <4>1, <4>2, <4>3 DEF Hosts, FarPc
    <3>4. CASE Ack(c)
      <4> DEFINE l == [conn[c] EXCEPT !.pc = "loop", !.acked = TRUE]
      <4>1. l \in Link
        BY <1>0, <3>1, LinkWith
      <4>2. l.pc = "loop" /\ l.from = conn[c].from /\ l.to = conn[c].to /\ l.near = conn[c].near
        BY <1>0 DEF Link
      <4>3. conn' = [conn EXCEPT ![c] = l] /\ conn[c].pc = "ack"
        BY <3>4 DEF Ack
      <4> HIDE DEF l
      <4> QED
        BY <4>1, <4>2, <4>3 DEF Hosts, FarPc
    <3>5. CASE Cut(c)
      <4> DEFINE l == [conn[c] EXCEPT !.cut = TRUE]
      <4>1. l \in Link
        BY <1>0, LinkWith DEF FarPc
      <4>2. l.pc = conn[c].pc /\ l.from = conn[c].from /\ l.to = conn[c].to /\ l.near = conn[c].near
        BY <1>0 DEF Link
      <4>3. conn' = [conn EXCEPT ![c] = l] /\ conn[c].pc # "none"
        BY <3>5 DEF Cut
      <4> HIDE DEF l
      <4> QED
        BY <4>1, <4>2, <4>3 DEF Hosts
    <3> QED
      BY <1>3, <3>2, <3>3, <3>4, <3>5
  <2>2. /\ UNCHANGED <<up, listVars, boot, table, poisoned, live, lost, task, call>>
        /\ guests' = guests \/ guests' = [guests EXCEPT ![conn[c].to] = guests[conn[c].to] \cup {c}]
        /\ Fault \/ UNCHANGED spent
    BY <1>3 DEF Remember, LookUp, Ack, Cut, peerVars
  <2>3. TaskType' /\ ConnType' /\ TaskOK' /\ ConnOK' /\ LoopsAreListed'
         /\ \A m \in Node : AddrInv(m)' /\ NodeInv(m)'
    BY <2>1, <2>2, GuestGoesOn
  <2>4. guests' \in [Node -> SUBSET Conn]
    BY <1>0, <2>2 DEF Types, TableType
  <2>5. LiveType' /\ SpentType' /\ Rest
    BY <1>0, <2>2, <2>4, FaultKeeps
       DEF ClaimInv, Types, LiveType, ListType, TableType, CallType, CallOK, Rest, listVars
  <2> QED
    BY <2>3, <2>5 DEF ClaimInv, Types, Rest
<1>4. CASE Panics(c) \/ AckFails(c) \/ GuestLeaves(c)
  <2>1. /\ Hosts(c) /\ Closing(c, "far")
        /\ \/ live' = Released(conn[c].to, conn[c].from) /\ lost' = lost
           \/ /\ live' = live
              /\ lost' = [lost EXCEPT ![conn[c].to] = lost[conn[c].to] \cup {conn[c].from}]
        /\ UNCHANGED <<up, listVars, boot, table, guests, task, call, spent>>
        /\ poisoned' = poisoned \/ poisoned' = poisoned \cup {conn[c].to}
    BY <1>4 DEF Panics, AckFails, GuestLeaves, ClaimIsLost, Hosts, FarPc, peerVars
  <2>2. TaskType' /\ ConnType' /\ LiveType' /\ TaskOK' /\ ConnOK' /\ LoopsAreListed'
         /\ \A m \in Node : AddrInv(m)' /\ NodeInv(m)'
    BY <2>1, GuestReleases
  <2>3. conn[c].to \in Node
    BY <2>1 DEF ClaimInv, ConnOK, Hosts
  <2>4. SpentType' /\ Rest
    BY <1>0, <2>1, <2>3
       DEF ClaimInv, Types, SpentType, ListType, TableType, CallType, CallOK, Rest, listVars
  <2> QED
    BY <2>2, <2>4 DEF ClaimInv, Types, Rest
<1> QED
  BY <1>1, <1>2, <1>3, <1>4 DEF Incoming
-----------------------------------------------------------------------------
(* The table *)

\* A loop is told to stop: it keeps its peer, its claim and its connection.
LEMMA ToldKeeps ==
  ASSUME ClaimInv, NEW n \in Node, NEW k \in Slot, task' = Told(n, task, k),
         UNCHANGED <<live, lost, conn>>
  PROVE  /\ TaskType' /\ TaskOK' /\ \A m \in Node : AddrInv(m)'
         /\ \A m \in Node, j \in Slot :
              /\ task'[m][j].pc = task[m][j].pc /\ task'[m][j].uri = task[m][j].uri
              /\ ~task'[m][j].stop => ~task[m][j].stop /\ ~(m = n /\ j = k)
<1>1. /\ TaskType' /\ task'[n][k] = [task[n][k] EXCEPT !.stop = TRUE]
      /\ \A m \in Node, j \in Slot : m # n \/ j # k => task'[m][j] = task[m][j]
  BY ToldIs DEF ClaimInv, Types
<1>2. \A m \in Node, j \in Slot : task[m][j] \in Task
  BY DEF ClaimInv, Types, TaskType
<1>3. /\ task'[n][k].pc = task[n][k].pc /\ task'[n][k].uri = task[n][k].uri
      /\ task'[n][k].conn = task[n][k].conn /\ task'[n][k].stop = TRUE
  BY <1>1, <1>2 DEF Task
<1>4. \A m \in Node, j \in Slot :
        /\ task'[m][j].pc = task[m][j].pc /\ task'[m][j].uri = task[m][j].uri
        /\ task'[m][j].conn = task[m][j].conn
        /\ ~task'[m][j].stop => ~task[m][j].stop /\ ~(m = n /\ j = k)
        /\ Claiming(m, j)' <=> Claiming(m, j)
  <2> SUFFICES ASSUME NEW m \in Node, NEW j \in Slot
               PROVE  /\ task'[m][j].pc = task[m][j].pc /\ task'[m][j].uri = task[m][j].uri
                      /\ task'[m][j].conn = task[m][j].conn
                      /\ ~task'[m][j].stop => ~task[m][j].stop /\ ~(m = n /\ j = k)
                      /\ Claiming(m, j)' <=> Claiming(m, j)
    OBVIOUS
  <2>1. CASE m = n /\ j = k
    BY <1>3, <2>1 DEF Claiming
  <2>2. CASE m # n \/ j # k
    <3>1. task'[m][j] = task[m][j] /\ task[m][j].stop \in BOOLEAN
      BY <1>1, <1>2, <2>2 DEF Task
    <3> QED
      BY <2>2, <3>1 DEF Claiming
  <2> QED
    BY <2>1, <2>2
<1>5. \A m \in Node : AddrInv(m)'
  BY <1>4, AddrFrame DEF ClaimInv
<1>6. TaskOK'
  BY <1>4 DEF ClaimInv, TaskOK
<1> QED
  BY <1>1, <1>4, <1>5, <1>6

\* spawn_peer lists the loop it starts and stops the one it takes the place of.
LEMMA SpawnKeeps ==
  ASSUME ClaimInv, NEW n \in Node, NEW u \in Addr, NEW force \in BOOLEAN, Spawn(n, u, force),
         UNCHANGED <<live, lost, conn>>
  PROVE  /\ table' \in [Node -> [Addr -> Slot \cup {None}]] /\ TaskType'
         /\ TaskOK' /\ LoopsAreListed' /\ \A m \in Node : AddrInv(m)'
<1>0. /\ table \in [Node -> [Addr -> Slot \cup {None}]] /\ task \in [Node -> [Slot -> Task]]
      /\ None \notin Slot
  BY PeersAssumption DEF ClaimInv, Types, TableType, TaskType
<1>1. CASE table' = table /\ task' = task
  <2>1. TaskType' /\ TaskOK' /\ LoopsAreListed' /\ \A m \in Node : AddrInv(m)'
    BY <1>1, TasksStay
  <2> QED
    BY <1>0, <1>1, <2>1
<1>2. CASE ~(table' = table /\ task' = task)
  <2>1. PICK k \in Slot :
          /\ task[n][k].pc = "none" /\ table' = [table EXCEPT ![n][u] = k]
          /\ task' = [(IF table[n][u] = None THEN task ELSE Told(n, task, table[n][u]))
                        EXCEPT ![n][k] = NewTask(u)]
    BY <1>2 DEF Spawn
  <2>2. NewTask(u) \in Task
    BY DEF NewTask, Task, TaskPc
  <2> DEFINE old == IF table[n][u] = None THEN task ELSE Told(n, task, table[n][u])
  <2>3. /\ old \in [Node -> [Slot -> Task]]
        /\ \A m \in Node, j \in Slot :
             /\ old[m][j].pc = task[m][j].pc /\ old[m][j].uri = task[m][j].uri
             /\ old[m][j].conn = task[m][j].conn
             /\ ~old[m][j].stop => ~task[m][j].stop /\ ~(m = n /\ j = table[n][u])
    <3>1. CASE table[n][u] = None
      <4>1. old = task /\ \A j \in Slot : j # table[n][u]
        BY <1>0, <3>1
      <4>2. \A m \in Node, j \in Slot : task[m][j].stop \in BOOLEAN
        BY <1>0 DEF Task
      <4> HIDE DEF old
      <4> QED
        BY <1>0, <4>1, <4>2
    <3>2. CASE table[n][u] # None
      <4> DEFINE k0 == table[n][u]
                 t == [task[n][k0] EXCEPT !.stop = TRUE]
      <4>1. k0 \in Slot
        BY <1>0, <3>2
      <4>2. old = [task EXCEPT ![n][k0] = t]
        BY <3>2 DEF Told
      <4>3. t \in Task /\ t.pc = task[n][k0].pc /\ t.uri = task[n][k0].uri
            /\ t.conn = task[n][k0].conn
            /\ t.stop = TRUE
        <5>1. task[n][k0] \in Task
          BY <1>0, <4>1
        <5> QED
          BY <5>1 DEF Task
      <4> HIDE DEF t, old
      <4>4. /\ old \in [Node -> [Slot -> Task]] /\ old[n][k0] = t
            /\ \A m \in Node, j \in Slot : m # n \/ j # k0 => old[m][j] = task[m][j]
        BY <1>0, <4>1, <4>2, <4>3
      <4> SUFFICES ASSUME NEW m \in Node, NEW j \in Slot
                   PROVE  /\ old[m][j].pc = task[m][j].pc /\ old[m][j].uri = task[m][j].uri
                          /\ old[m][j].conn = task[m][j].conn
                          /\ ~old[m][j].stop => ~task[m][j].stop /\ ~(m = n /\ j = k0)
        BY <4>4
      <4>5. CASE m = n /\ j = k0
        BY <4>3, <4>4, <4>5
      <4>6. CASE m # n \/ j # k0
        <5>1. task[m][j].stop \in BOOLEAN
          BY <1>0 DEF Task
        <5> QED
          BY <4>4, <4>6, <5>1
      <4> QED
        BY <4>5, <4>6
    <3> QED
      BY <3>1, <3>2
  <2>4. task' = [old EXCEPT ![n][k] = NewTask(u)]
    BY <2>1
  <2> HIDE DEF old
  <2>5. /\ TaskType' /\ task'[n][k] = NewTask(u)
        /\ \A m \in Node, j \in Slot : m # n \/ j # k => task'[m][j] = old[m][j]
    BY <2>2, <2>3, <2>4 DEF TaskType
  <2>6. /\ table' \in [Node -> [Addr -> Slot \cup {None}]] /\ table'[n][u] = k
        /\ \A m \in Node, v \in Addr : m # n \/ v # u => table'[m][v] = table[m][v]
    BY <1>0, <2>1
  <2>7. \A m \in Node, j \in Slot : Claiming(m, j)' <=> Claiming(m, j)
    BY <2>1, <2>3, <2>5 DEF Claiming, NewTask
  <2>8. \A m \in Node, j \in Slot : Claiming(m, j) => task'[m][j].uri = task[m][j].uri
    BY <2>1, <2>3, <2>5 DEF Claiming
  <2>9. \A m \in Node : AddrInv(m)'
    BY <2>7, <2>8, AddrFrame DEF ClaimInv
  <2>10. TaskOK'
    <3>1. task[n][k].conn = None /\ task'[n][k].conn = None /\ task'[n][k].uri = u
      BY <2>1, <2>5 DEF ClaimInv, TaskOK, Claiming, NewTask
    <3>2. \A m \in Node, j \in Slot : /\ task'[m][j].conn = task[m][j].conn
                                      /\ task'[m][j].pc # "none" => task'[m][j].uri \in Addr
      BY <2>3, <2>5, <3>1 DEF ClaimInv, TaskOK
    <3> QED
      BY <2>7, <3>2 DEF ClaimInv, TaskOK
  <2>11. LoopsAreListed'
    <3> SUFFICES ASSUME NEW m \in Node, NEW j \in Slot, task'[m][j].pc # "none", ~task'[m][j].stop
                 PROVE  table'[m][task'[m][j].uri] = j
      BY DEF LoopsAreListed
    <3>1. CASE m = n /\ j = k
      BY <2>5, <2>6, <3>1 DEF NewTask
    <3>2. CASE m # n \/ j # k
      <4>1. /\ task[m][j].pc # "none" /\ ~task[m][j].stop /\ ~(m = n /\ j = table[n][u])
            /\ task'[m][j].uri = task[m][j].uri
        BY <2>3, <2>5, <3>2
      <4>2. task[m][j].uri \in Addr /\ table[m][task[m][j].uri] = j
        BY <4>1 DEF ClaimInv, TaskOK, LoopsAreListed
      <4>3. m # n \/ task[m][j].uri # u
        BY <4>1, <4>2
      <4> QED
        BY <2>6, <4>1, <4>2, <4>3
    <3> QED
      BY <3>1, <3>2
  <2> QED
    BY <2>5, <2>6, <2>9, <2>10, <2>11
<1> QED
  BY <1>1, <1>2

\* What a step that only touches calls and peer lists leaves alone.
LEMMA SessionsStay ==
  ASSUME ClaimInv, UNCHANGED <<table, task, conn, live, lost>>
  PROVE  /\ LiveType' /\ TaskType' /\ ConnType' /\ TaskOK' /\ ConnOK' /\ LoopsAreListed'
         /\ \A m \in Node : AddrInv(m)' /\ NodeInv(m)'
<1>1. LiveType'
  BY DEF ClaimInv, Types, LiveType
<1> QED
  BY <1>1, TasksStay, ConnsStay

\* run_agent dials a saved peer.
LEMMA BootStep ==
  ASSUME ClaimInv, NEW n \in Node, NEW u \in Addr, Boot(n, u)
  PROVE  ClaimInv'
<1>1. /\ Spawn(n, u, FALSE) /\ boot' = [boot EXCEPT ![n] = @ \ {u}]
      /\ UNCHANGED <<up, listVars, guests, poisoned, live, conn, lost, call, spent>>
  BY DEF Boot
<1>2. /\ table' \in [Node -> [Addr -> Slot \cup {None}]] /\ TaskType'
      /\ TaskOK' /\ LoopsAreListed' /\ \A m \in Node : AddrInv(m)'
  BY <1>1, SpawnKeeps
<1>3. ConnType' /\ ConnOK' /\ \A m \in Node : NodeInv(m)'
  BY <1>1, ConnsStay
<1>4. ListType' /\ TableType' /\ LiveType' /\ CallType' /\ SpentType' /\ CallOK'
  BY <1>1, <1>2
     DEF ClaimInv, Types, ListType, TableType, LiveType, CallType, SpentType, CallOK, listVars
<1> QED
  BY <1>2, <1>3, <1>4 DEF ClaimInv, Types

\* A call returns.
LEMMA ReturnsKeeps ==
  ASSUME CallType, CallOK, NEW i \in Cli, Returns(i)
  PROVE  CallType' /\ CallOK'
BY DEF CallType, CallOK, Returns, NoCall

\* The rest of a connect or disconnect call.
LEMMA DispatchStep ==
  ASSUME ClaimInv, NEW i \in Cli, Dispatch(i)
  PROVE  ClaimInv'
<1>0. Types /\ CallOK
  BY DEF ClaimInv
<1>c. call[i] \in [pc : {"none", "spawn", "list", "stop"}, node : Node \cup {None},
                   uri : Addr \cup {None}, list : SUBSET (Addr \cup Conn)]
  BY <1>0 DEF Types, CallType
<1>1. CASE ConnectSpawns(i)
  <2>1. PICK n \in Node, u \in Addr : n = call[i].node /\ u = call[i].uri
    BY <1>0, <1>1 DEF ConnectSpawns, CallOK
  <2>2. /\ Returns(i) /\ UNCHANGED <<up, listVars, boot, guests, poisoned, live, conn, lost, spent>>
        /\ UNCHANGED <<table, task>> \/ Spawn(n, u, TRUE)
    BY <1>1, <2>1 DEF ConnectSpawns
  <2>3. /\ table' \in [Node -> [Addr -> Slot \cup {None}]] /\ TaskType'
        /\ TaskOK' /\ LoopsAreListed' /\ \A m \in Node : AddrInv(m)'
    <3>1. CASE Spawn(n, u, TRUE)
      BY <2>2, <3>1, SpawnKeeps
    <3>2. CASE UNCHANGED <<table, task>>
      <4>1. table' = table /\ table \in [Node -> [Addr -> Slot \cup {None}]]
        BY <1>0, <3>2 DEF Types, TableType
      <4> QED
        BY <2>2, <3>2, <4>1, SessionsStay
    <3> QED
      BY <2>2, <3>1, <3>2
  <2>4. ConnType' /\ ConnOK' /\ \A m \in Node : NodeInv(m)'
    BY <2>2, ConnsStay
  <2>5. CallType' /\ CallOK'
    BY <1>0, <2>2, ReturnsKeeps DEF Types
  <2>6. ListType' /\ TableType' /\ LiveType' /\ SpentType'
    BY <1>0, <2>2, <2>3 DEF Types, ListType, TableType, LiveType, SpentType, listVars
  <2> QED
    BY <2>3, <2>4, <2>5, <2>6 DEF ClaimInv, Types
<1>2. CASE DisconnectLists(i)
  <2>1. PICK n \in Node : n = call[i].node
    BY <1>0, <1>2 DEF DisconnectLists, CallOK
  <2>2. /\ UNCHANGED <<up, listVars, boot, peerVars, sessionVars, spent>>
        /\ \/ Returns(i)
           \/ call' = [call EXCEPT ![i] = [call[i] EXCEPT !.pc = "stop", !.list = Keys(n)]]
    BY <1>2, <2>1 DEF DisconnectLists
  <2>3. Keys(n) \subseteq Addr \cup Conn
    BY <1>0 DEF Types, TableType, Keys
  <2>4. CallType' /\ CallOK'
    <3>1. CASE Returns(i)
      BY <1>0, <3>1, ReturnsKeeps DEF Types
    <3>2. CASE call' = [call EXCEPT ![i] = [call[i] EXCEPT !.pc = "stop", !.list = Keys(n)]]
      BY <1>0, <1>c, <2>1, <2>3, <3>2 DEF Types, CallType, CallOK
    <3> QED
      BY <2>2, <3>1, <3>2
  <2>5. ListType' /\ TableType' /\ SpentType' /\ UNCHANGED <<table, task, conn, live, lost>>
    BY <1>0, <2>2 DEF Types, ListType, TableType, SpentType, listVars, peerVars, sessionVars
  <2> QED
    BY <2>4, <2>5, SessionsStay DEF ClaimInv, Types
<1>3. CASE DisconnectStops(i)
  <2>1. PICK n \in Node : n = call[i].node
    BY <1>0, <1>3 DEF DisconnectStops, CallOK
  <2>2. PICK key \in call[i].list :
          IF n \in poisoned
            THEN Returns(i) /\ UNCHANGED <<table, task, guests, conn>>
            ELSE /\ StopPeer(n, key)
                 /\ IF call[i].list = {key} THEN Returns(i)
                    ELSE call' = [call EXCEPT ![i].list = @ \ {key}]
    BY <1>3, <2>1 DEF DisconnectStops
  <2>3. UNCHANGED <<up, listVars, boot, poisoned, live, lost, spent>>
    BY <1>3 DEF DisconnectStops
  <2>4. CallType' /\ CallOK'
    <3>1. CASE Returns(i)
      BY <1>0, <3>1, ReturnsKeeps DEF Types
    <3>2. CASE call' = [call EXCEPT ![i].list = @ \ {key}]
      BY <1>0, <1>c, <3>2 DEF Types, CallType, CallOK
    <3> QED
      BY <2>2, <3>1, <3>2
  <2>5. /\ TaskType' /\ ConnType' /\ TaskOK' /\ ConnOK' /\ LoopsAreListed'
        /\ \A m \in Node : AddrInv(m)' /\ NodeInv(m)'
        /\ table' \in [Node -> [Addr -> Slot \cup {None}]] /\ guests' \in [Node -> SUBSET Conn]
    <3>0. /\ table \in [Node -> [Addr -> Slot \cup {None}]] /\ guests \in [Node -> SUBSET Conn]
          /\ None \notin Slot /\ Addr \cap Conn = {}
      BY <1>0, PeersAssumption DEF Types, TableType
    <3>1. CASE UNCHANGED <<table, task, guests, conn>>
      <4>1. UNCHANGED <<table, task, conn, live, lost>> /\ guests' = guests
        BY <2>3, <3>1
      <4> QED
        BY <3>0, <4>1, SessionsStay
    <3>2. CASE key \in Addr /\ StopPeer(n, key)
      <4>1. /\ table' = [table EXCEPT ![n][key] = None]
            /\ task' = IF table[n][key] = None THEN task ELSE Told(n, task, table[n][key])
            /\ guests' = guests /\ conn' = conn
        BY <3>0, <3>2 DEF StopPeer
      <4>2. /\ table' \in [Node -> [Addr -> Slot \cup {None}]] /\ table'[n][key] = None
            /\ \A m \in Node, u \in Addr : m # n \/ u # key => table'[m][u] = table[m][u]
        BY <3>0, <3>2, <4>1
      <4>3. ConnType' /\ ConnOK' /\ \A m \in Node : NodeInv(m)'
        BY <2>3, <4>1, ConnsStay
      <4>4. /\ TaskType' /\ TaskOK' /\ \A m \in Node : AddrInv(m)'
            /\ \A m \in Node, j \in Slot :
                 /\ task'[m][j].pc = task[m][j].pc /\ task'[m][j].uri = task[m][j].uri
                 /\ ~task'[m][j].stop => ~task[m][j].stop /\ ~(m = n /\ j = table[n][key])
        <5>1. CASE table[n][key] = None
          <6>1. task' = task /\ \A j \in Slot : j # table[n][key]
            BY <3>0, <4>1, <5>1
          <6>2. \A m \in Node : AddrInv(m)'
            BY <2>3, <6>1, AddrFrame DEF ClaimInv, Claiming
          <6>3. TaskType' /\ TaskOK'
            <7>1. TaskType /\ TaskOK /\ conn' = conn
              BY <1>0, <4>1 DEF ClaimInv, Types
            <7> QED
              BY <6>1, <7>1 DEF TaskType, TaskOK, Claiming
          <6> QED
            BY <6>1, <6>2, <6>3
        <5>2. CASE table[n][key] # None
          <6>1. PICK k \in Slot : k = table[n][key]
            BY <3>0, <3>2, <5>2
          <6>2. task' = Told(n, task, k)
            BY <4>1, <5>2, <6>1
          <6> QED
            BY <2>3, <4>1, <6>1, <6>2, ToldKeeps
        <5> QED
          BY <5>1, <5>2
      <4>5. LoopsAreListed'
        <5> SUFFICES ASSUME NEW m \in Node, NEW j \in Slot,
                            task'[m][j].pc # "none", ~task'[m][j].stop
                     PROVE  table'[m][task'[m][j].uri] = j
          BY DEF LoopsAreListed
        <5>1. /\ task[m][j].pc # "none" /\ ~task[m][j].stop /\ ~(m = n /\ j = table[n][key])
              /\ task'[m][j].uri = task[m][j].uri
          BY <4>4
        <5>2. task[m][j].uri \in Addr /\ table[m][task[m][j].uri] = j
          BY <5>1 DEF ClaimInv, TaskOK, LoopsAreListed
        <5> QED
          BY <4>2, <5>1, <5>2
      <4> QED
        BY <3>0, <4>1, <4>2, <4>3, <4>4, <4>5
    <3>3. CASE key \in Conn /\ StopPeer(n, key)
      <4>1. /\ guests' = [guests EXCEPT ![n] = guests[n] \ {key}] /\ UNCHANGED <<table, task>>
            /\ \/ conn' = conn
               \/ /\ conn' = [conn EXCEPT ![key] = [conn[key] EXCEPT !.stop = TRUE]]
                  /\ conn[key].pc \in {"ack", "loop"}
        BY <3>0, <3>3 DEF StopPeer
      <4>2. guests' \in [Node -> SUBSET Conn] /\ table' \in [Node -> [Addr -> Slot \cup {None}]]
        BY <3>0, <4>1
      <4>3. CASE conn' = conn
        BY <2>3, <4>1, <4>2, <4>3, SessionsStay
      <4>4. CASE /\ conn' = [conn EXCEPT ![key] = [conn[key] EXCEPT !.stop = TRUE]]
                 /\ conn[key].pc \in {"ack", "loop"}
        <5> DEFINE l == [conn[key] EXCEPT !.stop = TRUE]
        <5>1. conn[key] \in Link
          BY <1>0, <3>3 DEF Types, ConnType
        <5>2. /\ l \in Link /\ l.pc = conn[key].pc /\ l.from = conn[key].from /\ l.to = conn[key].to
              /\ l.near = conn[key].near
          BY <5>1 DEF Link
        <5>3. conn' = [conn EXCEPT ![key] = l] /\ conn[key].pc # "none"
          BY <4>4
        <5> HIDE DEF l
        <5>4. /\ TaskType' /\ ConnType' /\ TaskOK' /\ ConnOK' /\ LoopsAreListed'
              /\ \A m \in Node : AddrInv(m)' /\ NodeInv(m)'
          BY <2>3, <3>3, <4>1, <5>2, <5>3, GuestGoesOn DEF Hosts
        <5> QED
          BY <4>2, <5>4
      <4> QED
        BY <4>1, <4>3, <4>4
    <3> QED
      BY <1>c, <2>2, <3>1, <3>2, <3>3
  <2>6. ListType' /\ TableType' /\ LiveType' /\ SpentType'
    BY <1>0, <2>3, <2>5 DEF Types, ListType, TableType, LiveType, SpentType, listVars
  <2> QED
    BY <2>4, <2>5, <2>6 DEF ClaimInv, Types
<1> QED
  BY <1>1, <1>2, <1>3 DEF Dispatch
-----------------------------------------------------------------------------
(* Users, failures, the theorems *)

\* connect and disconnect, up to the saved list.
LEMMA UserStep ==
  ASSUME ClaimInv, NEW i \in Cli, NEW n \in Node, User(i, n)
  PROVE  ClaimInv'
<1>0. Types /\ CallOK
  BY DEF ClaimInv
<1>1. PICK peers \in SUBSET Addr, u \in Addr \cup {None}, pc \in {"spawn", "list", "stop"},
           list \in SUBSET Addr :
        /\ pc = "spawn" => u \in Addr
        /\ Calls(i, n)
        /\ \/ /\ Saves(n, peers)
              /\ call' = [call EXCEPT ![i] = [pc |-> pc, node |-> n, uri |-> u, list |-> list]]
           \/ SaveFails(i, n, peers)
        /\ UNCHANGED <<up, boot, peerVars, sessionVars>>
  <2>0. saved[n] \in SUBSET Addr
    BY <1>0 DEF Types, ListType
  <2>1. ASSUME NEW u \in Addr, Connect(i, n, u)
        PROVE  \E peers \in SUBSET Addr :
                 /\ Calls(i, n)
                 /\ \/ /\ Saves(n, peers)
                       /\ call' = [call EXCEPT ![i] =
                                     [pc |-> "spawn", node |-> n, uri |-> u, list |-> {}]]
                    \/ SaveFails(i, n, peers)
                 /\ UNCHANGED <<up, boot, peerVars, sessionVars>>
    BY <2>0, <2>1 DEF Connect
  <2>2. ASSUME NEW uris \in SUBSET Addr, Disconnect(i, n, uris)
        PROVE  \E peers \in SUBSET Addr, pc \in {"list", "stop"}, list \in SUBSET Addr :
                 /\ Calls(i, n)
                 /\ \/ /\ Saves(n, peers)
                       /\ call' = [call EXCEPT ![i] =
                                     [pc |-> pc, node |-> n, uri |-> None, list |-> list]]
                    \/ SaveFails(i, n, peers)
                 /\ UNCHANGED <<up, boot, peerVars, sessionVars>>
    <3>1. /\ saved[n] \ uris \in SUBSET Addr /\ uris \cap saved[n] \in SUBSET Addr
          /\ (IF uris \cap saved[n] = {} THEN "list" ELSE "stop") \in {"list", "stop"}
      BY <2>0
    <3> QED
      BY <2>2, <3>1 DEF Disconnect
  <2>3. CASE \E u \in Addr : Connect(i, n, u)
    <3>1. PICK u \in Addr : Connect(i, n, u)
      BY <2>3
    <3>2. {} \in SUBSET Addr
      OBVIOUS
    <3> QED
      BY <2>1, <3>1, <3>2
  <2>4. CASE \E uris \in SUBSET Addr : Disconnect(i, n, uris)
    <3>1. PICK uris \in SUBSET Addr : Disconnect(i, n, uris)
      BY <2>4
    <3> QED
      BY <2>2, <3>1
  <2> QED
    BY <2>3, <2>4 DEF User
<1>2. ListType' /\ CallType' /\ CallOK' /\ SpentType'
  <2>1. ListType'
    BY <1>0, <1>1 DEF Types, ListType, Saves, SaveFails
  <2>2. CallType' /\ CallOK'
    <3>1. CASE Returns(i)
      BY <1>0, <3>1, ReturnsKeeps DEF Types
    <3>2. CASE call' = [call EXCEPT ![i] = [pc |-> pc, node |-> n, uri |-> u, list |-> list]]
      BY <1>0, <1>1, <3>2 DEF Types, CallType, CallOK
    <3> QED
      BY <1>1, <3>1, <3>2 DEF SaveFails
  <2>3. SpentType'
    BY <1>0, <1>1 DEF Types, SpentType, Calls
  <2> QED
    BY <2>1, <2>2, <2>3
<1>3. TableType' /\ UNCHANGED <<table, task, conn, live, lost>>
  BY <1>0, <1>1 DEF Types, TableType, peerVars, sessionVars
<1> QED
  BY <1>2, <1>3, SessionsStay DEF ClaimInv, Types

\* A daemon goes down: its claims go with it, and the claims of the others that
\* were held through its connections wait for their own tasks.
LEMMA DownStep ==
  ASSUME ClaimInv, NEW n \in Node, Down(n), SpentType'
  PROVE  ClaimInv'
<1>0. Types /\ TaskOK /\ ConnOK /\ CallOK /\ LoopsAreListed
  BY DEF ClaimInv
<1> DEFINE left(c) == [conn[c] EXCEPT !.near = @ /\ conn[c].from # n,
                                      !.pc = IF conn[c].to = n THEN "none" ELSE @]
<1>1. ASSUME NEW c \in Conn
      PROVE  /\ conn'[c] \in Link
             /\ conn'[c].pc # "none" => /\ conn'[c].from = conn[c].from /\ conn'[c].to = conn[c].to
                                        /\ conn'[c].pc = conn[c].pc /\ conn[c].to # n
             /\ conn[c].to # n => conn'[c].pc = conn[c].pc
             /\ conn[c].near /\ conn[c].from # n => conn'[c].near /\ conn'[c].from = conn[c].from
  <2>1. conn[c] \in Link
    BY <1>0 DEF Types, ConnType
  <2>2. /\ left(c) \in Link /\ left(c).from = conn[c].from /\ left(c).to = conn[c].to
        /\ left(c).pc = IF conn[c].to = n THEN "none" ELSE conn[c].pc
        /\ left(c).near <=> conn[c].near /\ conn[c].from # n
    BY <2>1 DEF Link, FarPc
  <2>3. conn'[c] = IF ~left(c).near /\ left(c).pc = "none" THEN NoConn ELSE left(c)
    BY DEF Down
  <2>4. NoConn \in Link /\ NoConn.pc = "none"
    BY DEF NoConn, Link, FarPc
  <2> HIDE DEF left
  <2> QED
    BY <2>2, <2>3, <2>4
<1>2. conn' = [c \in Conn |-> conn'[c]]
  BY DEF Down
<1>3. ConnType' /\ ConnOK'
  BY <1>0, <1>1, <1>2 DEF ConnType, ConnOK
<1>4. \A c \in Conn, m \in Node \ {n}, i \in Node : HostsFor(c, m, i)' <=> HostsFor(c, m, i)
  BY <1>1 DEF HostsFor, Hosts
<1>5. \A c \in Conn, i \in Node : ~HostsFor(c, n, i)'
  BY <1>1 DEF HostsFor, Hosts
<1>6. /\ LiveType' /\ live'[n] = {} /\ lost'[n] = {}
      /\ \A m \in Node \ {n} : live'[m] = live[m] /\ lost'[m] = lost[m]
  BY <1>0 DEF Down, Types, LiveType
<1>7. \A m \in Node : NodeInv(m)'
  <2>1. NodeInv(n)'
    BY <1>5, <1>6 DEF NodeInv
  <2>2. ASSUME NEW m \in Node \ {n} PROVE NodeInv(m)'
    BY <1>4, <1>6, NodeFrame DEF ClaimInv
  <2> QED
    BY <2>1, <2>2
<1>8. NoTask \in Task /\ NoTask.pc = "none" /\ NoTask.conn = None
  BY DEF NoTask, Task, TaskPc
<1>9. /\ TaskType' /\ \A k \in Slot : task'[n][k] = NoTask
      /\ \A m \in Node \ {n} : task'[m] = task[m]
  BY <1>0, <1>8 DEF Down, Types, TaskType
<1>10. \A m \in Node : AddrInv(m)'
  <2>1. AddrInv(n)'
    BY <1>6, <1>8, <1>9 DEF AddrInv, Claiming
  <2>2. ASSUME NEW m \in Node \ {n} PROVE AddrInv(m)'
    BY <1>6, <1>9, AddrFrame DEF ClaimInv, Claiming
  <2> QED
    BY <2>1, <2>2
<1>11. TaskOK'
  <2>1. \A m \in Node, k \in Slot : task[m][k].conn \in Conn \cup {None}
    BY <1>0 DEF Types, TaskType, Task
  <2>2. ASSUME NEW m \in Node \ {n}, NEW k \in Slot, task[m][k].conn # None
        PROVE  conn'[task[m][k].conn].near /\ conn'[task[m][k].conn].from = m
    BY <1>0, <1>1, <2>1, <2>2 DEF TaskOK
  <2> QED
    BY <1>0, <1>8, <1>9, <2>2 DEF TaskOK, Claiming
<1>12. TableType' /\ \A m \in Node \ {n} : table'[m] = table[m]
  BY <1>0 DEF Down, Types, TableType
<1>13. LoopsAreListed'
  BY <1>0, <1>8, <1>9, <1>12 DEF LoopsAreListed
<1>14. CallType' /\ CallOK'
  BY <1>0 DEF Down, Types, CallType, CallOK, NoCall
<1>15. ListType'
  BY <1>0 DEF Down, Types, ListType, listVars
<1> QED
  BY <1>3, <1>6, <1>7, <1>9, <1>10, <1>11, <1>12, <1>13, <1>14, <1>15 DEF ClaimInv, Types

\* It comes back with the peers of its state.json.
LEMMA StartStep ==
  ASSUME ClaimInv, NEW n \in Node, Start(n)
  PROVE  ClaimInv'
<1>1. /\ UNCHANGED <<table, task, conn, live, lost, guests, poisoned, call, spent>>
      /\ up' = up \cup {n} /\ disk' = disk
      /\ saved' = [saved EXCEPT ![n] = disk[n]] /\ boot' = [boot EXCEPT ![n] = disk[n]]
  BY DEF Start, peerVars, sessionVars
<1>2. ListType' /\ TableType' /\ CallType' /\ SpentType' /\ CallOK'
  BY <1>1 DEF ClaimInv, Types, ListType, TableType, CallType, SpentType, CallOK
<1> QED
  BY <1>1, <1>2, SessionsStay DEF ClaimInv, Types

\* The invariant is inductive.
LEMMA InitInv == Init => ClaimInv
<1> SUFFICES ASSUME Init PROVE ClaimInv
  OBVIOUS
<1>1. /\ NoTask \in Task /\ NoTask.pc = "none" /\ NoTask.conn = None
      /\ NoConn \in Link /\ NoConn.pc = "none" /\ NoCall.pc = "none"
  BY DEF NoTask, Task, TaskPc, NoConn, Link, FarPc, NoCall
<1>2. /\ \A n \in Node, k \in Slot : task[n][k] = NoTask
      /\ \A c \in Conn : conn[c] = NoConn
  BY DEF Init
<1>3. ListType /\ TableType /\ LiveType /\ SpentType
  BY PeersAssumption DEF Init, ListType, TableType, LiveType, SpentType
<1>4. TaskType /\ ConnType /\ CallType
  BY <1>1 DEF Init, TaskType, ConnType, CallType, NoCall
<1>5. TaskOK /\ ConnOK /\ CallOK /\ LoopsAreListed
  BY <1>1, <1>2 DEF Init, TaskOK, ConnOK, CallOK, LoopsAreListed
<1>6. \A n \in Node : AddrInv(n) /\ NodeInv(n)
  BY <1>1, <1>2 DEF Init, AddrInv, NodeInv, Claiming, HostsFor, Hosts
<1> QED
  BY <1>3, <1>4, <1>5, <1>6 DEF ClaimInv, Types

\* Every step keeps claims and their holders together.
LEMMA InvStep == ClaimInv /\ [Next]_vars => ClaimInv'
<1> SUFFICES ASSUME ClaimInv, [Next]_vars PROVE ClaimInv'
  OBVIOUS
<1>1. ASSUME NEW n \in Node, NEW k \in Slot, Maintain(n, k) \/ Hangs(n, k) PROVE ClaimInv'
  BY <1>1, LoopStep, HangStep
<1>2. ASSUME NEW c \in Conn, Incoming(c) \/ Cut(c) PROVE ClaimInv'
  BY <1>2, GuestStep
<1>3. ASSUME NEW i \in Cli, Dispatch(i) PROVE ClaimInv'
  BY <1>3, DispatchStep
<1>4. ASSUME NEW i \in Cli, NEW n \in Node, User(i, n) PROVE ClaimInv'
  BY <1>4, UserStep
<1>5. ASSUME NEW n \in Node, Crash(n) \/ BootPanics(n) PROVE ClaimInv'
  <2>1. Down(n) /\ (Fault \/ UNCHANGED spent)
    BY <1>5 DEF Crash, BootPanics
  <2>2. SpentType'
    BY <2>1, FaultKeeps DEF ClaimInv, Types
  <2> QED
    BY <2>1, <2>2, DownStep
<1>6. ASSUME NEW n \in Node, Start(n) PROVE ClaimInv'
  BY <1>6, StartStep
<1>7. ASSUME NEW n \in Node, NEW u \in Addr, Boot(n, u) PROVE ClaimInv'
  BY <1>7, BootStep
<1>8. CASE UNCHANGED vars
  <2>1. UNCHANGED <<up, saved, disk, boot, table, guests, poisoned, live, task, conn, lost,
                    call, spent>>
    BY <1>8 DEF vars, listVars, peerVars, sessionVars
  <2>2. ListType' /\ TableType' /\ CallType' /\ SpentType' /\ CallOK'
    BY <2>1 DEF ClaimInv, Types, ListType, TableType, CallType, SpentType, CallOK
  <2> QED
    BY <2>1, <2>2, SessionsStay DEF ClaimInv, Types
<1> QED
  BY <1>1, <1>2, <1>3, <1>4, <1>5, <1>6, <1>7, <1>8 DEF Next

\* The invariant of the claims holds of every reachable state.
LEMMA InvAlways == Spec => []ClaimInv
BY InitInv, InvStep, PTL DEF Spec

\* The variables of the peer table and its sessions keep their types, and a
\* maintain loop that has a connection has it open at its own end.
THEOREM TypeCorrect == Spec => []TypeOK
<1>1. ClaimInv => TypeOK
  BY Implied
<1> QED
  BY <1>1, InvAlways, PTL

\* Every maintain loop that has not been told to stop is the one of the peers
\* table under its address: no forced dial, disconnect or restart leaves a loop
\* that nothing can stop.
THEOREM LoopsListed == Spec => []LoopsAreListed
<1>1. ClaimInv => LoopsAreListed
  BY Implied
<1> QED
  BY <1>1, InvAlways, PTL

\* claim_live admits one session for each address dialled and one for each node
\* that dials in.
THEOREM ClaimsExclusive == Spec => []ClaimsAreExclusive
<1>1. ClaimInv => ClaimsAreExclusive
  BY Implied
<1> QED
  BY <1>1, InvAlways, PTL

\* Every entry of the live set is held by a running session, but for those that
\* a panic of run_incoming or a HelloAck that could not be written left behind.
THEOREM ClaimsHeld == Spec => []ClaimsAreHeld
<1>1. ClaimInv => ClaimsAreHeld
  BY Implied
<1> QED
  BY <1>1, InvAlways, PTL
=============================================================================
