------------------------------- MODULE Peers -------------------------------
(***************************************************************************)
(* Who a daemon is connected to (src/daemon.rs): the saved peers, the      *)
(* table of running peers with their stop channels, the live claims, the   *)
(* maintain loops that dial, the incoming sessions, and the IPC calls      *)
(* connect and disconnect.  Sessions carry nothing here: Hub has their     *)
(* contents.                                                               *)
(*                                                                         *)
(* A daemon holds the state, peers or live lock for one call at a time, so *)
(* the steps are those calls.  Backoff and the two seconds between looks   *)
(* at a live peer are delays only, and left out.                           *)
(***************************************************************************)
EXTENDS Naturals, FiniteSets

CONSTANTS
  Node,       \* daemons
  Addr,       \* canonical peer addresses
  Host,       \* the daemon each address leads to, or Relay
  Relay,      \* the relay server
  Book,       \* the addresses the user of each daemon connects to
  First,      \* the peers in each state.json at first
  Slot,       \* bound: maintain loops of one daemon at a time
  Conn,       \* bound: connections at a time
  Cli,        \* bound: IPC calls at a time
  None,
  Env,        \* which failures a run allows
  MaxCalls, MaxFaults   \* bounds: calls, failures

ASSUME PeersAssumption ==
  /\ Host \in [Addr -> Node \cup {Relay}] /\ Relay \notin Node
  /\ Book \in [Node -> SUBSET Addr] /\ First \in [Node -> SUBSET Addr]
  /\ None \notin Slot \cup Conn \cup Node \cup Addr
  /\ Addr \cap Conn = {} /\ Addr \cap Node = {}

VARIABLES
  up,         \* the daemons that run
  saved,      \* State::peers in memory
  disk,       \* and in state.json
  boot,       \* the saved peers run_agent has still to spawn
  table,      \* Runtime::peers, the peers that are dialled: their maintain loop
  guests,     \* Runtime::peers, the entries of incoming connections
  poisoned,   \* the daemons whose peers lock a panic has poisoned
  live,       \* Runtime::live
  task,       \* the maintain loops
  conn,       \* TCP connections, with the run_incoming task of the far end
  call,       \* the IPC calls
  lost,       \* history: claims that no task will release
  spent       \* bounds: calls and failures so far

listVars == <<saved, disk>>
peerVars == <<table, guests, poisoned>>
sessionVars == <<live, task, conn, lost>>
vars == <<up, listVars, boot, peerVars, sessionVars, call, spent>>

TaskPc == {"none", "idle", "dial", "hello", "hung", "loop"}
FarPc == {"none", "hello", "claimed", "remembered", "noted", "ack", "loop"}

\* maintain_tcp or maintain_relay: where it is, its peer, the value of its stop
\* channel, the connection it has.
Task == [pc : TaskPc, uri : Addr \cup {None}, stop : BOOLEAN, conn : Conn \cup {None}]

\* A connection: where run_incoming is at its far end, the daemons at its ends,
\* whether the near end is open, whether HelloAck was written, the value of the
\* stop channel of the far end, whether the network failed.
Link == [pc : FarPc, from : Node \cup {None}, to : Node \cup {None},
         near : BOOLEAN, acked : BOOLEAN, stop : BOOLEAN, cut : BOOLEAN]

NoTask == [pc |-> "none", uri |-> None, stop |-> FALSE, conn |-> None]
NewTask(u) == [pc |-> "idle", uri |-> u, stop |-> FALSE, conn |-> None]
NoConn == [pc |-> "none", from |-> None, to |-> None, near |-> FALSE,
           acked |-> FALSE, stop |-> FALSE, cut |-> FALSE]
NewConn(n, m) == [pc |-> "hello", from |-> n, to |-> m, near |-> TRUE,
                  acked |-> FALSE, stop |-> FALSE, cut |-> FALSE]
NoCall == [pc |-> "none", node |-> None, uri |-> None, list |-> {}]

\* mutant: a connection is gone as soon as one end is closed
ClosingBoth(c, end) == conn' = [conn EXCEPT ![c] = NoConn]

\* A connection whose two ends are closed is gone.
Closing(c, end) ==
  conn' = [conn EXCEPT ![c] = IF end = "near"
                                THEN IF @.pc = "none" THEN NoConn ELSE [@ EXCEPT !.near = FALSE]
                                ELSE IF @.near THEN [@ EXCEPT !.pc = "none"] ELSE NoConn]

Fault == spent.faults < MaxFaults /\ spent' = [spent EXCEPT !.faults = @ + 1]

-----------------------------------------------------------------------------
(* The peers table *)

\* mutant: a forced dial forgets the old loop without stopping it
StopsNothing(n, tasks, k) == tasks

\* `stop.send(true)'
Told(n, tasks, k) == [tasks EXCEPT ![n][k].stop = TRUE]

\* spawn_peer: an entry already there is replaced if the dial is forced, and
\* kept otherwise.
Spawn(n, u, force) ==
  IF table[n][u] # None /\ ~force
    THEN UNCHANGED <<table, task>>
    ELSE \E k \in Slot :
           /\ task[n][k].pc = "none"
           /\ table' = [table EXCEPT ![n][u] = k]
           /\ task' = [(IF table[n][u] = None THEN task ELSE Told(n, task, table[n][u]))
                         EXCEPT ![n][k] = NewTask(u)]

\* stop_peer of a dialled or of an incoming peer.
StopPeer(n, key) ==
  \/ /\ key \in Addr
     /\ table' = [table EXCEPT ![n][key] = None]
     /\ task' = IF table[n][key] = None THEN task ELSE Told(n, task, table[n][key])
     /\ UNCHANGED <<guests, conn>>
  \/ /\ key \in Conn
     /\ guests' = [guests EXCEPT ![n] = @ \ {key}]
     /\ conn' = IF key \in guests[n] /\ conn[key].to = n /\ conn[key].pc \in {"ack", "loop"}
                  THEN [conn EXCEPT ![key].stop = TRUE] ELSE conn
     /\ UNCHANGED <<table, task>>

\* run_agent dials the saved peers, with the IPC socket already open.
Boot(n, u) ==
  /\ u \in boot[n]
  /\ n \notin poisoned
  /\ boot' = [boot EXCEPT ![n] = @ \ {u}]
  /\ Spawn(n, u, FALSE)
  /\ UNCHANGED <<up, listVars, guests, poisoned, live, conn, lost, call, spent>>

-----------------------------------------------------------------------------
(* maintain_tcp, maintain_relay *)

Doing(n, k, pc) == task' = [task EXCEPT ![n][k].pc = pc]

\* Told to stop: the loop ends when it next looks.
TaskEnds(n, k) ==
  /\ task[n][k].pc = "idle" /\ task[n][k].stop
  /\ task' = [task EXCEPT ![n][k] = NoTask]
  /\ UNCHANGED <<up, listVars, boot, peerVars, live, conn, lost, call, spent>>

\* A direct peer whose address is not live is dialled; a relay always is.
TaskDials(n, k) ==
  LET u == task[n][k].uri IN
  /\ task[n][k].pc = "idle" /\ ~task[n][k].stop
  /\ Host[u] = Relay \/ u \notin live[n]
  /\ Doing(n, k, "dial")
  /\ UNCHANGED <<up, listVars, boot, peerVars, live, conn, lost, call, spent>>

\* mutant: the loop gives up
DialGivesUp(n, k) ==
  /\ task[n][k].pc = "dial"
  /\ Host[task[n][k].uri] # Relay
  /\ \/ Host[task[n][k].uri] \notin up /\ UNCHANGED spent
     \/ Fault
  /\ task' = [task EXCEPT ![n][k] = NoTask]
  /\ UNCHANGED <<up, listVars, boot, peerVars, live, conn, lost, call>>

\* The connection is refused or fails.
DialFails(n, k) ==
  /\ task[n][k].pc = "dial"
  /\ Host[task[n][k].uri] # Relay
  /\ \/ Host[task[n][k].uri] \notin up /\ UNCHANGED spent
     \/ Fault
  /\ Doing(n, k, "idle")
  /\ UNCHANGED <<up, listVars, boot, peerVars, live, conn, lost, call>>

\* mutant: the loser of two dials runs a session all the same
ClaimsAnyway(n, key) == TRUE

\* claim_live: false if the key is there.
Claims(n, key) == key \notin live[n]

\* claim_live found the address taken, by a dial that was under way too.
ClaimLost(n, k) ==
  /\ task[n][k].pc = "dial"
  /\ ~Claims(n, task[n][k].uri)
  /\ Doing(n, k, "idle")
  /\ UNCHANGED <<up, listVars, boot, peerVars, live, conn, lost, call, spent>>

\* Connected and claimed; the Hello is on its way and the far end accepts.
Dials(n, k) ==
  LET u == task[n][k].uri IN
  /\ task[n][k].pc = "dial"
  /\ Host[u] \in up
  /\ Claims(n, u)
  /\ live' = [live EXCEPT ![n] = @ \cup {u}]
  /\ \E c \in Conn :
       /\ conn[c] = NoConn
       /\ conn' = [conn EXCEPT ![c] = NewConn(n, Host[u])]
       /\ task' = [task EXCEPT ![n][k] = [@ EXCEPT !.pc = "hello", !.conn = c]]
  /\ UNCHANGED <<up, listVars, boot, peerVars, lost, call, spent>>

Acked(n, k) ==
  /\ task[n][k].pc = "hello" /\ task[n][k].conn # None
  /\ conn[task[n][k].conn].acked
  /\ Doing(n, k, "loop")
  /\ UNCHANGED <<up, listVars, boot, peerVars, live, conn, lost, call, spent>>

\* mutant: the address stays claimed
KeepsClaim(n, key) == live

Released(n, key) == [live EXCEPT ![n] = @ \ {key}]

\* The handshake or the session ends: the far end closed, the connection broke
\* and both ends hear of it, or, in framed_loop only, the loop is told to stop.
SessionEnds(n, k) ==
  LET c == task[n][k].conn IN
  /\ task[n][k].pc \in {"hello", "loop"} /\ c # None
  /\ \/ conn[c].pc = "none" /\ (task[n][k].pc = "hello" => ~conn[c].acked)
     \/ conn[c].cut
     \/ task[n][k].pc = "loop" /\ task[n][k].stop
  /\ live' = Released(n, task[n][k].uri)
  /\ Closing(c, "near")
  /\ task' = [task EXCEPT ![n][k] = [@ EXCEPT !.pc = "idle", !.conn = None]]
  /\ UNCHANGED <<up, listVars, boot, peerVars, lost, call, spent>>

\* run_relay_dial claims before it connects; then TLS, Join and JoinAck.
RelayDials(n, k) ==
  /\ task[n][k].pc = "dial"
  /\ Host[task[n][k].uri] = Relay
  /\ Claims(n, task[n][k].uri)
  /\ live' = [live EXCEPT ![n] = @ \cup {task[n][k].uri}]
  /\ Doing(n, k, "hello")
  /\ UNCHANGED <<up, listVars, boot, peerVars, conn, lost, call, spent>>

RelayJoined(n, k) ==
  /\ task[n][k].pc = "hello" /\ task[n][k].conn = None
  /\ Doing(n, k, "loop")
  /\ UNCHANGED <<up, listVars, boot, peerVars, live, conn, lost, call, spent>>

\* The far end vanishes without a word (power, sleep, a dropped route) in the
\* handshake of run_tcp_init or run_relay_session, which reads with no timeout and
\* no look at the stop channel; or both ends of a session are stuck in a write
\* (Wire).  The loop waits there for good, with its claim.  A far end that is left
\* alone has a ping to see it by.
Hangs(n, k) ==
  LET c == task[n][k].conn IN
  /\ "hang" \in Env /\ Fault
  /\ \/ /\ task[n][k].pc = "hello"
        /\ conn' = IF c = None \/ conn[c].pc = "none" THEN conn ELSE [conn EXCEPT ![c].cut = TRUE]
     \/ task[n][k].pc = "loop" /\ UNCHANGED conn
  /\ Doing(n, k, "hung")
  /\ UNCHANGED <<up, listVars, boot, peerVars, live, lost, call>>

RelayEnds(n, k) ==
  /\ task[n][k].pc \in {"hello", "loop"} /\ task[n][k].conn = None
  /\ \/ Fault
     \/ task[n][k].pc = "loop" /\ task[n][k].stop /\ UNCHANGED spent
  /\ live' = Released(n, task[n][k].uri)
  /\ Doing(n, k, "idle")
  /\ UNCHANGED <<up, listVars, boot, peerVars, conn, lost, call>>

-----------------------------------------------------------------------------
(* run_incoming *)

At(c, pc) == conn' = [conn EXCEPT ![c].pc = pc]

Gone(c) == ~conn[c].near \/ conn[c].cut

\* The task returns or panics with the node id still claimed.
ClaimIsLost(c) ==
  /\ lost' = [lost EXCEPT ![conn[c].to] = @ \cup {conn[c].from}]
  /\ Closing(c, "far")
  /\ UNCHANGED <<up, listVars, boot, table, guests, live, task, call, spent>>

\* The Hello is read and its node id claimed; a node that is live already, or a
\* connection that ends first, is closed.
Hello(c) ==
  LET m == conn[c].to IN
  /\ conn[c].pc = "hello"
  /\ \/ /\ Claims(m, conn[c].from)
        /\ live' = [live EXCEPT ![m] = @ \cup {conn[c].from}]
        /\ At(c, "claimed")
     \/ /\ ~Claims(m, conn[c].from) \/ Gone(c)
        /\ Closing(c, "far")
        /\ UNCHANGED live
  /\ UNCHANGED <<up, listVars, boot, peerVars, task, lost, call, spent>>

\* remember_incoming
Remember(c) ==
  /\ conn[c].pc = "claimed"
  /\ conn[c].to \notin poisoned
  /\ guests' = [guests EXCEPT ![conn[c].to] = @ \cup {c}]
  /\ At(c, "remembered")
  /\ UNCHANGED <<up, listVars, boot, table, poisoned, live, task, lost, call, spent>>

\* The entry is looked up twice more, for its status and for its stop channel.
LookUp(c) ==
  /\ conn[c].pc \in {"remembered", "noted"}
  /\ conn[c].to \notin poisoned /\ c \in guests[conn[c].to]
  /\ At(c, IF conn[c].pc = "remembered" THEN "noted" ELSE "ack")
  /\ UNCHANGED <<up, listVars, boot, peerVars, live, task, lost, call, spent>>

\* `expect' finds no entry and panics with the peers lock held; every later use
\* of that lock panics too.
Panics(c) ==
  /\ \/ conn[c].pc = "claimed" /\ conn[c].to \in poisoned
     \/ /\ conn[c].pc \in {"remembered", "noted"}
        /\ conn[c].to \in poisoned \/ c \notin guests[conn[c].to]
  /\ poisoned' = poisoned \cup {conn[c].to}
  /\ ClaimIsLost(c)

Ack(c) ==
  /\ conn[c].pc = "ack"
  /\ conn' = [conn EXCEPT ![c] = [@ EXCEPT !.pc = "loop", !.acked = TRUE]]
  /\ UNCHANGED <<up, listVars, boot, peerVars, live, task, lost, call, spent>>

\* The HelloAck cannot be written: `?' returns without release_live.
AckFails(c) ==
  /\ "ackfail" \in Env
  /\ conn[c].pc = "ack" /\ Gone(c)
  /\ ClaimIsLost(c)
  /\ UNCHANGED poisoned

\* framed_loop ends.  The entry of the connection stays in the table.
GuestLeaves(c) ==
  /\ conn[c].pc = "loop"
  /\ Gone(c) \/ conn[c].stop
  /\ live' = Released(conn[c].to, conn[c].from)
  /\ Closing(c, "far")
  /\ UNCHANGED <<up, listVars, boot, peerVars, task, lost, call, spent>>

-----------------------------------------------------------------------------
(* IPC: connect, disconnect *)

Calls(i, n) ==
  /\ call[i].pc = "none" /\ n \in up
  /\ spent.calls < MaxCalls
  /\ spent' = [spent EXCEPT !.calls = @ + 1]

Returns(i) == call' = [call EXCEPT ![i] = NoCall]

\* StateFile::save
Saves(n, peers) ==
  /\ saved' = [saved EXCEPT ![n] = peers]
  /\ disk' = [disk EXCEPT ![n] = peers]

\* The new list is in memory but not on disk: the call returns the error.
SaveFails(i, n, peers) ==
  /\ "savefail" \in Env
  /\ saved' = [saved EXCEPT ![n] = peers]
  /\ Returns(i)
  /\ UNCHANGED disk

\* upsert_peer; spawn_peer comes later, under another lock.
Connect(i, n, u) ==
  /\ Calls(i, n)
  /\ u \in Book[n]
  /\ \/ /\ Saves(n, saved[n] \cup {u})
        /\ call' = [call EXCEPT ![i] = [pc |-> "spawn", node |-> n, uri |-> u, list |-> {}]]
     \/ SaveFails(i, n, saved[n] \cup {u})
  /\ UNCHANGED <<up, boot, peerVars, sessionVars>>

ConnectSpawns(i) ==
  LET n == call[i].node IN
  /\ call[i].pc = "spawn"
  /\ IF n \in poisoned THEN UNCHANGED <<table, task>> ELSE Spawn(n, call[i].uri, TRUE)
  /\ Returns(i)
  /\ UNCHANGED <<up, listVars, boot, guests, poisoned, live, conn, lost, spent>>

\* remove_peer of one address or of all; if that removed nothing, every peer is
\* stopped, the incoming ones too.
Disconnect(i, n, uris) ==
  /\ Calls(i, n)
  /\ "sweep" \in Env \/ uris \cap saved[n] # {}
  /\ \/ /\ Saves(n, saved[n] \ uris)
        /\ call' = [call EXCEPT ![i] =
                      [pc |-> IF uris \cap saved[n] = {} THEN "list" ELSE "stop",
                       node |-> n, uri |-> None, list |-> uris \cap saved[n]]]
     \/ SaveFails(i, n, saved[n] \ uris)
  /\ UNCHANGED <<up, boot, peerVars, sessionVars>>

\* The keys of the table.
Keys(n) == {u \in Addr : table[n][u] # None} \cup guests[n]

DisconnectLists(i) ==
  LET n == call[i].node IN
  /\ call[i].pc = "list"
  /\ IF n \in poisoned \/ Keys(n) = {} THEN Returns(i)
     ELSE call' = [call EXCEPT ![i].pc = "stop", ![i].list = Keys(n)]
  /\ UNCHANGED <<up, listVars, boot, peerVars, sessionVars, spent>>

DisconnectStops(i) ==
  LET n == call[i].node IN
  /\ call[i].pc = "stop"
  /\ \E key \in call[i].list :
       IF n \in poisoned
         THEN Returns(i) /\ UNCHANGED <<table, task, guests, conn>>
         ELSE /\ StopPeer(n, key)
              /\ IF call[i].list = {key} THEN Returns(i)
                 ELSE call' = [call EXCEPT ![i].list = @ \ {key}]
  /\ UNCHANGED <<up, listVars, boot, poisoned, live, lost, spent>>

-----------------------------------------------------------------------------
(* Networks fail, daemons go down and come back *)

Cut(c) ==
  /\ conn[c].near /\ conn[c].pc # "none" /\ ~conn[c].cut
  /\ Fault
  /\ conn' = [conn EXCEPT ![c].cut = TRUE]
  /\ UNCHANGED <<up, listVars, boot, peerVars, live, task, lost, call>>

\* Only the list on disk survives; the other ends of its connections close.
Down(n) ==
  /\ up' = up \ {n}
  /\ boot' = [boot EXCEPT ![n] = {}]
  /\ table' = [table EXCEPT ![n] = [u \in Addr |-> None]]
  /\ guests' = [guests EXCEPT ![n] = {}]
  /\ poisoned' = poisoned \ {n}
  /\ live' = [live EXCEPT ![n] = {}]
  /\ lost' = [lost EXCEPT ![n] = {}]
  /\ task' = [task EXCEPT ![n] = [k \in Slot |-> NoTask]]
  /\ conn' = [c \in Conn |->
       LET left == [conn[c] EXCEPT !.near = @ /\ conn[c].from # n,
                                   !.pc = IF conn[c].to = n THEN "none" ELSE @]
       IN IF ~left.near /\ left.pc = "none" THEN NoConn ELSE left]
  /\ call' = [i \in Cli |-> IF call[i].node = n THEN NoCall ELSE call[i]]
  /\ UNCHANGED listVars

Crash(n) == n \in up /\ Fault /\ Down(n)

\* The panic of a spawn_peer in run_agent is the end of the daemon.
BootPanics(n) == n \in poisoned /\ boot[n] # {} /\ Down(n) /\ UNCHANGED spent

Start(n) ==
  /\ n \notin up
  /\ up' = up \cup {n}
  /\ saved' = [saved EXCEPT ![n] = disk[n]]
  /\ boot' = [boot EXCEPT ![n] = disk[n]]
  /\ UNCHANGED <<disk, peerVars, sessionVars, call, spent>>

-----------------------------------------------------------------------------
Init ==
  /\ up = Node
  /\ saved = First /\ disk = First /\ boot = First
  /\ table = [n \in Node |-> [u \in Addr |-> None]]
  /\ guests = [n \in Node |-> {}]
  /\ poisoned = {}
  /\ live = [n \in Node |-> {}]
  /\ task = [n \in Node |-> [k \in Slot |-> NoTask]]
  /\ conn = [c \in Conn |-> NoConn]
  /\ call = [i \in Cli |-> NoCall]
  /\ lost = [n \in Node |-> {}]
  /\ spent = [calls |-> 0, faults |-> 0]

Maintain(n, k) ==
  \/ TaskEnds(n, k) \/ TaskDials(n, k) \/ DialFails(n, k) \/ ClaimLost(n, k) \/ Dials(n, k)
  \/ Acked(n, k) \/ SessionEnds(n, k)
  \/ RelayDials(n, k) \/ RelayJoined(n, k) \/ RelayEnds(n, k)

Incoming(c) ==
  \/ Hello(c) \/ Remember(c) \/ LookUp(c) \/ Panics(c) \/ Ack(c) \/ AckFails(c)
  \/ GuestLeaves(c)

Dispatch(i) == ConnectSpawns(i) \/ DisconnectLists(i) \/ DisconnectStops(i)

User(i, n) ==
  \/ \E u \in Addr : Connect(i, n, u)
  \/ \E u \in Addr : Disconnect(i, n, {u})
  \/ Disconnect(i, n, Addr)

Next ==
  \/ \E n \in Node, k \in Slot : Maintain(n, k) \/ Hangs(n, k)
  \/ \E c \in Conn : Incoming(c) \/ Cut(c)
  \/ \E i \in Cli : Dispatch(i)
  \/ \E i \in Cli, n \in Node : User(i, n)
  \/ \E n \in Node : Crash(n) \/ BootPanics(n) \/ Start(n)
  \/ \E n \in Node, u \in Addr : Boot(n, u)

Spec == Init /\ [][Next]_vars

\* The runtime schedules every task that can go on, and a connection that broke is
\* noticed at its ends: in the loop by a read or a ping, in a handshake when the
\* network or the far system says so (if nobody does, it Hangs).  Users, failures
\* and restarts may happen or not.
Fairness ==
  /\ \A n \in Node, k \in Slot : WF_vars(Maintain(n, k))
  /\ \A c \in Conn : WF_vars(Incoming(c))
  /\ \A i \in Cli : WF_vars(Dispatch(i))
  /\ \A n \in Node, u \in Addr : WF_vars(Boot(n, u))

FairSpec == Spec /\ Fairness

-----------------------------------------------------------------------------
(* Properties *)

\* Type invariant.  What a maintain loop talks through is open at its end.
TypeOK ==
  /\ up \in SUBSET Node
  /\ saved \in [Node -> SUBSET Addr] /\ disk \in [Node -> SUBSET Addr]
  /\ boot \in [Node -> SUBSET Addr]
  /\ table \in [Node -> [Addr -> Slot \cup {None}]]
  /\ guests \in [Node -> SUBSET Conn]
  /\ poisoned \in SUBSET Node
  /\ live \in [Node -> SUBSET (Addr \cup Node)]
  /\ task \in [Node -> [Slot -> Task]]
  /\ conn \in [Conn -> Link]
  /\ call \in [Cli -> [pc : {"none", "spawn", "list", "stop"}, node : Node \cup {None},
                       uri : Addr \cup {None}, list : SUBSET (Addr \cup Conn)]]
  /\ lost \in [Node -> SUBSET Node]
  /\ spent \in [calls : Nat, faults : Nat]
  /\ \A n \in Node, k \in Slot : task[n][k].conn # None => conn[task[n][k].conn].near

\* Every maintain loop that has not been told to stop is the one in the table
\* under its address, where the next connect or disconnect finds it.
LoopsAreListed ==
  \A n \in Node, k \in Slot :
    task[n][k].pc # "none" /\ ~task[n][k].stop => table[n][task[n][k].uri] = k

\* The maintain loops of n that hold the claim of address u, and the incoming
\* connections at n that hold the claim of node m.
Dialling(n, u) == {k \in Slot : task[n][k].pc \in {"hello", "hung", "loop"}
                                  /\ task[n][k].uri = u}
Hosting(n, m) == {c \in Conn : conn[c].pc \in FarPc \ {"none", "hello"}
                                /\ conn[c].to = n /\ conn[c].from = m}

\* One session for each address dialled and for each node that dials in: a
\* forced dial, whose old session is still closing, waits for it, and so does
\* a node that reconnects before its old connection was seen to end.  Two daemons
\* that dial each other have two sessions, one claimed by address and one by node id.
ClaimsAreExclusive ==
  \A n \in Node :
    /\ \A u \in Addr : \A k, j \in Dialling(n, u) : k = j
    /\ \A m \in Node : \A c, d \in Hosting(n, m) : c = d

\* A claim is held by a running task or was lost to a panic or a failing ack;
\* whichever other way a session ends, its claim ends with it.
ClaimsAreHeld ==
  \A n \in Node :
    live[n] = {u \in Addr : Dialling(n, u) # {}} \cup {m \in Node : Hosting(n, m) # {}}
              \cup lost[n]

\* n has a session to the host of u.
Connected(n, u) ==
  \/ Host[u] = Relay /\ \E k \in Dialling(n, u) : task[n][k].pc = "loop"
  \/ \E c \in Conn : conn[c].from = n /\ conn[c].to = Host[u] /\ conn[c].pc = "loop"

\* A dial to u hangs in its handshake, so every other one of n waits for its claim.
Hung(n, u) == \E k \in Dialling(n, u) : task[n][k].pc = "hung"

\* A peer that is dialled is connected again and again, after every failure and
\* every forced dial, unless its daemon is down or has lost the claim of n, or a
\* dial to it hangs.
Reconnects ==
  \A n \in Node, u \in Addr :
    []<>(\/ table[n][u] = None \/ Connected(n, u) \/ Hung(n, u)
         \/ Host[u] \in Node /\ (Host[u] \notin up \/ n \in lost[Host[u]]))

\* The assertion of run_incoming, `incoming peer just inserted'.
JustInserted ==
  \A c \in Conn : conn[c].pc \in {"remembered", "noted"} => c \in guests[conn[c].to]

=============================================================================
