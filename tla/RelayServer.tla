---------------------------- MODULE RelayServer ----------------------------
(***************************************************************************)
(* The relay server (src/zsyncd.rs): one serve_leaf task per connection,   *)
(* the rooms they meet in, the allowlist each of them consults, and the    *)
(* `zsyncd group' commands, separate processes that edit groups.json and   *)
(* then talk to the admin socket.                                          *)
(*                                                                         *)
(* A task holds the rooms or the allowlist lock for one call at a time, so *)
(* the steps of serve_leaf are those calls.  A write to the device touches *)
(* nothing of the server and belongs to the arm of select! that awaits it, *)
(* except one that does not end because the device reads no longer: it     *)
(* holds the task (Stalls).  Failed handshakes and the ban list are in     *)
(* Probe.                                                                  *)
(***************************************************************************)
EXTENDS Naturals, Sequences, FiniteSets

CONSTANTS
  Conn,        \* connections that get as far as a Join frame
  Group,       \* well-formed group ids
  Cli,         \* administrators' processes
  First,       \* the groups of groups.json when the server starts, enabled
  DeviceOf,    \* the device_id each connection joins with
  Asks,        \* the group_ids the Join of each connection may have
  QueueCap,    \* capacity of a member's channel (16)
  Env,         \* which failures a run allows
  Commands,    \* bound: the group commands a run explores
  MaxFrames,   \* bound: Data frames the devices send, all together
  MaxEdits     \* bound: group commands

ASSUME QueueCapAssumption == QueueCap \in Nat \ {0}
ASSUME GroupAssumption == Group # {} /\ First \subseteq Group /\ Asks \in [Conn -> SUBSET Group]
ASSUME BoundAssumption == MaxFrames \in Nat /\ MaxEdits \in Nat
ASSUME CommandAssumption == Commands \subseteq {"create", "enable", "disable", "deny"}

VARIABLES
  file,      \* groups.json
  mtime,     \* its modification time
  cache,     \* Allowlist::groups
  cached,    \* Allowlist::mtime
  room,      \* Rooms::inner, a member standing for its connection
  stop,      \* the stop channel of each connection
  queue,     \* the data channel of each connection
  pc,        \* where the serve_leaf task of each connection is
  gid,       \* the group_id in the Join of each of them
  sent,      \* bound: frames sent
  cli,       \* the group command each administrator runs
  edits      \* bound: group commands so far

allowVars == <<cache, cached>>
fileVars  == <<file, mtime>>
roomVars  == <<room, stop, queue>>
cliVars   == <<cli, edits>>
taskVars  == <<gid, sent>>
vars == <<fileVars, allowVars, roomVars, pc, taskVars, cliVars>>

\* A group id is made once, from a random secret: a denied one does not return.
Standing == {"unused", "enabled", "disabled", "denied"}

Listed(groups) == {g \in Group : groups[g] \in {"enabled", "disabled"}}

Idle == [step |-> "idle", op |-> "enable", group |-> CHOOSE g \in Group : TRUE,
         read |-> [g \in Group |-> "unused"]]

\* serve_leaf in the room; held by a write that does not end; and outside.
Serving == {"ack", "loop", "relay", "leave"}
Place == Serving \cup {"stuck", "new", "admitted", "closed"}

\* Type invariant; a member's channel keeps to its capacity.
TypeOK ==
  /\ file \in [Group -> Standing] /\ mtime \in Nat
  /\ cache \in [Group -> Standing] /\ cached \in Nat
  /\ room \in [Group -> SUBSET Conn]
  /\ stop \in [Conn -> BOOLEAN]
  /\ queue \in [Conn -> Seq(Conn)]
  /\ pc \in [Conn -> Place]
  /\ gid \in [Conn -> Group] /\ sent \in Nat
  /\ cli \in [Cli -> [step : {"idle", "save", "kick"}, op : {"create", "enable", "disable", "deny"},
                      group : Group, read : [Group -> Standing]]]
  /\ edits \in 0 .. MaxEdits
  /\ \A c \in Conn : Len(queue[c]) <= QueueCap

-----------------------------------------------------------------------------
(* Allowlist *)

\* refresh keeps what it has while the time is the same and it has something.
CacheServes == cached = mtime /\ Listed(cache) # {}

\* mutant: it is read after the file, which can be replaced in between
StatLate == {mtime, mtime + 1}

\* The modification times refresh may have read before it loads the file: a
\* command can replace the file in between.
Stat == {m \in cached .. mtime : m = cached => Listed(cache) = {}}

\* Allowlist::get, under its lock: refresh, then look up.
Consult(g, enabled) ==
  /\ \/ CacheServes /\ UNCHANGED allowVars
     \/ ~CacheServes /\ cache' = file /\ cached' \in Stat
  /\ enabled <=> cache'[g] = "enabled"

-----------------------------------------------------------------------------
(* Rooms *)

Namesakes(c) == {m \in room[gid[c]] : DeviceOf[m] = DeviceOf[c]}

\* mutant: the older session of the device stays
JoinBeside(c) ==
  /\ room' = [room EXCEPT ![gid[c]] = @ \cup {c}]
  /\ UNCHANGED stop

\* Rooms::join replaces the session the device already has.
JoinRoom(c) ==
  /\ room' = [room EXCEPT ![gid[c]] = (@ \ Namesakes(c)) \cup {c}]
  /\ stop' = [m \in Conn |-> stop[m] \/ m \in Namesakes(c)]

\* Rooms::leave goes by device, whichever session calls it.
LeaveRoom(c) == room' = [room EXCEPT ![gid[c]] = @ \ Namesakes(c)]

\* mutant: the frame goes back to its sender too
Everyone(c) == room[gid[c]]

Others(c) == room[gid[c]] \ Namesakes(c)

\* Rooms::broadcast: try_send to the other devices.  A channel that is full, or
\* whose task has ended, loses the frame.

Hears(m) == pc[m] # "closed" /\ Len(queue[m]) < QueueCap

\* (mutant: the channels have no capacity.)
BroadcastUnbounded(c) ==
  queue' = [m \in Conn |-> IF m \in Others(c) THEN Append(queue[m], c) ELSE queue[m]]

Broadcast(c) ==
  queue' = [m \in Conn |-> IF m \in Others(c) /\ Hears(m) THEN Append(queue[m], c)
                           ELSE queue[m]]

\* Rooms::kick and Rooms::kick_group: remove the members and tell them to stop.
Expel(g, S) ==
  /\ room' = [room EXCEPT ![g] = @ \ S]
  /\ stop' = [m \in Conn |-> stop[m] \/ m \in S]

-----------------------------------------------------------------------------
(* serve_leaf *)

Goes(c, to) == pc' = [pc EXCEPT ![c] = to]

\* The Join frame of an enabled group; any other connection is closed silently.
Join(c) ==
  /\ pc[c] = "new"
  /\ \E ok \in BOOLEAN : Consult(gid[c], ok) /\ Goes(c, IF ok THEN "admitted" ELSE "closed")
  /\ UNCHANGED <<fileVars, roomVars, taskVars, cliVars>>

Enter(c) ==
  /\ pc[c] = "admitted"
  /\ JoinRoom(c)
  /\ Goes(c, "ack")
  /\ UNCHANGED <<fileVars, allowVars, queue, taskVars, cliVars>>

Ack(c) ==
  /\ pc[c] = "ack"
  /\ Goes(c, "loop")
  /\ UNCHANGED <<fileVars, allowVars, roomVars, taskVars, cliVars>>

\* The JoinAck cannot be written: `?' returns without leaving the room.
AckFails(c) ==
  /\ "ackfail" \in Env
  /\ pc[c] = "ack"
  /\ Goes(c, "closed")
  /\ UNCHANGED <<fileVars, allowVars, roomVars, taskVars, cliVars>>

Stopped(c) ==
  /\ pc[c] = "loop"
  /\ stop[c]
  /\ Goes(c, "leave")
  /\ UNCHANGED <<fileVars, allowVars, roomVars, taskVars, cliVars>>

\* mutant: the tick only pings
PingBlindly(c) == UNCHANGED vars

\* The 30 s tick consults the allowlist before it pings.
PingTick(c) ==
  /\ pc[c] = "loop"
  /\ \E ok \in BOOLEAN : Consult(gid[c], ok) /\ Goes(c, IF ok THEN "loop" ELSE "leave")
  /\ UNCHANGED <<fileVars, roomVars, taskVars, cliVars>>

\* A queued frame is written to the device.
Deliver(c) ==
  /\ pc[c] = "loop"
  /\ queue[c] # << >>
  /\ queue' = [queue EXCEPT ![c] = Tail(@)]
  /\ UNCHANGED <<fileVars, allowVars, room, stop, pc, taskVars, cliVars>>

\* mutant: a closed channel is ignored
NeverHangsUp(c) == FALSE

\* The member was dropped from the room, and the sender end of its channel
\* with it: recv returns None once the queue is empty.
HungUp(c) == queue[c] = << >> /\ c \notin room[gid[c]]

ChannelClosed(c) ==
  /\ pc[c] = "loop"
  /\ HungUp(c)
  /\ Goes(c, "leave")
  /\ UNCHANGED <<fileVars, allowVars, roomVars, taskVars, cliVars>>

\* A Data frame is read; the allowlist is consulted again, and a device of a
\* group no longer enabled gets an Error frame before its task leaves.
Data(c) ==
  /\ pc[c] = "loop"
  /\ sent < MaxFrames
  /\ sent' = sent + 1
  /\ \E ok \in BOOLEAN : Consult(gid[c], ok) /\ Goes(c, IF ok THEN "relay" ELSE "leave")
  /\ UNCHANGED <<fileVars, roomVars, gid, cliVars>>

Relay(c) ==
  /\ pc[c] = "relay"
  /\ Broadcast(c)
  /\ Goes(c, "loop")
  /\ UNCHANGED <<fileVars, allowVars, room, stop, taskVars, cliVars>>

\* Bye, an Error frame, a read error or a write error: the device is gone.
Ends(c) ==
  /\ pc[c] = "loop"
  /\ Goes(c, "leave")
  /\ UNCHANGED <<fileVars, allowVars, roomVars, taskVars, cliVars>>

Leave(c) ==
  /\ pc[c] = "leave"
  /\ LeaveRoom(c)
  /\ queue' = [queue EXCEPT ![c] = << >>]
  /\ Goes(c, "closed")
  /\ UNCHANGED <<fileVars, allowVars, stop, taskVars, cliVars>>

\* The device reads no more, asleep or behind a network that takes nothing, and
\* the write of a Ping, a Pong, an Error or a queued frame does not end.  (A device
\* that goes on after a while is merely slow; a JoinAck is the first thing written
\* and always has room.)
Stalls(c) ==
  /\ "stall" \in Env
  /\ pc[c] = "loop"
  /\ Goes(c, "stuck")
  /\ \/ UNCHANGED queue
     \/ queue[c] # << >> /\ queue' = [queue EXCEPT ![c] = Tail(@)]
  /\ UNCHANGED <<fileVars, allowVars, room, stop, taskVars, cliVars>>

\* The system gives the connection of such a device up.
GivenUp(c) ==
  /\ pc[c] = "stuck"
  /\ Goes(c, "leave")
  /\ UNCHANGED <<fileVars, allowVars, roomVars, taskVars, cliVars>>

-----------------------------------------------------------------------------
(* `zsyncd group': load, change, save; then disable and deny kick the group *)

CliLoad(p, op, g) ==
  /\ cli[p].step = "idle"
  /\ edits < MaxEdits
  /\ edits' = edits + 1
  /\ IF op = "create" THEN file[g] = "unused" ELSE g \in Listed(file)
  /\ cli' = [cli EXCEPT ![p] = [step |-> "save", op |-> op, group |-> g, read |-> file]]
  /\ UNCHANGED <<fileVars, allowVars, roomVars, pc, taskVars>>

\* The standing a group gets from a command.
After(op) == CASE op \in {"create", "enable"} -> "enabled"
               [] op = "disable" -> "disabled"
               [] op = "deny" -> "denied"

\* Temporary file and rename; a later save has a later modification time,
\* unless the file system's clock is too coarse to tell.
CliSave(p) ==
  LET do == cli[p] IN
  /\ do.step = "save"
  /\ file' = [do.read EXCEPT ![do.group] = After(do.op)]
  /\ \/ mtime' = mtime + 1
     \/ "coarse" \in Env /\ mtime' = mtime
  /\ cli' = [cli EXCEPT ![p] = IF do.op \in {"disable", "deny"}
                                 THEN [do EXCEPT !.step = "kick"] ELSE Idle]
  /\ UNCHANGED <<allowVars, roomVars, pc, taskVars, edits>>

CliKickGroup(p) ==
  LET g == cli[p].group IN
  /\ cli[p].step = "kick"
  /\ Expel(g, room[g])
  /\ cli' = [cli EXCEPT ![p] = Idle]
  /\ UNCHANGED <<fileVars, allowVars, queue, pc, taskVars, edits>>

\* `zsyncd group kick'
CliKick(p, m) ==
  /\ cli[p].step = "idle"
  /\ edits < MaxEdits
  /\ edits' = edits + 1
  /\ m \in room[gid[m]]
  /\ Expel(gid[m], {m})
  /\ UNCHANGED <<fileVars, allowVars, queue, pc, taskVars, cli>>

-----------------------------------------------------------------------------
\* Allowlist::new refreshes, so a command may come between its two steps, too.
Init ==
  /\ file = [g \in Group |-> IF g \in First THEN "enabled" ELSE "unused"]
  /\ mtime = 1
  /\ cache = file /\ cached \in 0 .. mtime
  /\ room = [g \in Group |-> {}]
  /\ stop = [c \in Conn |-> FALSE]
  /\ queue = [c \in Conn |-> << >>]
  /\ pc = [c \in Conn |-> "new"]
  /\ gid \in [Conn -> Group] /\ \A c \in Conn : gid[c] \in Asks[c]
  /\ sent = 0
  /\ cli = [p \in Cli |-> Idle]
  /\ edits = 0

\* What a task does by itself, and what its device may make it do.
Task(c) ==
  \/ Enter(c) \/ Ack(c) \/ AckFails(c)
  \/ Stopped(c) \/ PingTick(c) \/ Deliver(c) \/ ChannelClosed(c)
  \/ Relay(c) \/ Leave(c)

Device(c) == Join(c) \/ Data(c) \/ Ends(c) \/ Stalls(c) \/ GivenUp(c)

Admin(p) ==
  \/ \E op \in Commands, g \in Group : CliLoad(p, op, g)
  \/ CliSave(p) \/ CliKickGroup(p)
  \/ \E m \in Conn : CliKick(p, m)

Next ==
  \/ \E c \in Conn : Task(c) \/ Device(c)
  \/ \E p \in Cli : Admin(p)

Spec == Init /\ [][Next]_vars

\* A task that can go on is scheduled again and again, and its writes end unless
\* the device stalls: a task that is stuck goes on only if the system gives the
\* connection up, which nobody promises.  Devices need not connect, send, read or
\* leave, and nobody has to run or finish a command.
Fairness == \A c \in Conn : WF_vars(Task(c))

FairSpec == Spec /\ Fairness

-----------------------------------------------------------------------------
(* Properties *)

\* A device has one session in a room: a reconnecting device replaces the
\* session the server has not yet seen end.
OneSessionPerDevice ==
  \A g \in Group : \A c, d \in room[g] : DeviceOf[c] = DeviceOf[d] => c = d

\* What waits for a device came from another device of its own group, also
\* while sessions of one device replace each other.
OnlyFromOthers ==
  \A c \in Conn : \A i \in DOMAIN queue[c] :
    /\ gid[queue[c][i]] = gid[c]
    /\ DeviceOf[queue[c][i]] # DeviceOf[c]

\* The allowlist never answers from a groups.json that is no longer there.
CacheIsCurrent == cached = mtime => cache = file

\* A session that lost its place in the room, replaced, kicked or evicted,
\* does not live on unheard: its task ends, unless its device has stopped
\* reading, which holds the task in a write that looks at neither stop nor tick.
NoOrphans ==
  \A c \in Conn :
    pc[c] \in Serving /\ c \notin room[gid[c]] ~> pc[c] \in {"closed", "stuck"}

\* Once a group stays disabled or denied, none of its devices that read stays
\* connected, not even one that was admitted before the command and entered
\* after it.
DeniedDrains ==
  \A c \in Conn : <>[](file[gid[c]] # "enabled") => <>[](pc[c] \notin Serving)
=============================================================================
