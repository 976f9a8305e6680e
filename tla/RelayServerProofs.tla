------------------------- MODULE RelayServerProofs -------------------------
(***************************************************************************)
(* Proofs about RelayServer, for every number of connections, groups,      *)
(* devices and administrators.                                             *)
(***************************************************************************)
EXTENDS RelayServer, TLAPS

\* A room has connections of its own group only, and the cache is not from the
\* future.
RoomsFit == \A g \in Group : \A c \in room[g] : gid[c] = g
CachedBefore == cached <= mtime

\* The parts of the type invariant that steps change together.
AllowType ==
  /\ file \in [Group -> Standing] /\ mtime \in Nat
  /\ cache \in [Group -> Standing] /\ cached \in Nat
RoomType == room \in [Group -> SUBSET Conn] /\ stop \in [Conn -> BOOLEAN]
QueueType == queue \in [Conn -> Seq(Conn)] /\ \A c \in Conn : Len(queue[c]) <= QueueCap
TaskType ==
  /\ pc \in [Conn -> Place]
  /\ gid \in [Conn -> Group] /\ sent \in Nat
CliType ==
  /\ cli \in [Cli -> [step : {"idle", "save", "kick"}, op : {"create", "enable", "disable", "deny"},
                      group : Group, read : [Group -> Standing]]]
  /\ edits \in 0 .. MaxEdits

TypeInv == AllowType /\ RoomType /\ QueueType /\ TaskType /\ CliType

\* The inductive invariant.
RoomInv == TypeInv /\ RoomsFit /\ CachedBefore /\ OneSessionPerDevice /\ OnlyFromOthers

\* The parts make up the type invariant.
LEMMA TypeParts == TypeInv => TypeOK
BY DEF TypeInv, AllowType, RoomType, QueueType, TaskType, CliType, TypeOK

-----------------------------------------------------------------------------
(* Where the connections are *)

\* Consulting the allowlist keeps the types, and never sets the cache to a
\* time to come.
LEMMA ConsultKeeps ==
  ASSUME AllowType, CachedBefore, NEW g \in Group, NEW ok \in BOOLEAN, Consult(g, ok),
         file' = file, mtime' = mtime
  PROVE  AllowType' /\ CachedBefore' /\ (CacheIsCurrent => CacheIsCurrent')
<1>1. CASE CacheServes /\ UNCHANGED allowVars
  BY <1>1 DEF allowVars, AllowType, CachedBefore, CacheIsCurrent
<1>2. CASE cache' = file /\ cached' \in Stat
  <2>1. cached' \in Nat /\ cached' <= mtime
    BY <1>2 DEF Stat, AllowType
  <2> QED
    BY <1>2, <2>1 DEF AllowType, CachedBefore, CacheIsCurrent
<1> QED
  BY <1>1, <1>2 DEF Consult

\* Rooms only lose members, or take one in whose namesakes leave.
LEMMA RoomsShrink ==
  ASSUME RoomType, RoomsFit, OneSessionPerDevice, room' \in [Group -> SUBSET Conn], gid' = gid,
         \A g \in Group : room'[g] \subseteq room[g]
  PROVE  RoomsFit' /\ OneSessionPerDevice'
BY DEF RoomsFit, OneSessionPerDevice, RoomType

\* A join replaces the session of its device, so the room has one of each.
LEMMA JoinKeeps ==
  ASSUME RoomType, RoomsFit, OneSessionPerDevice, NEW c \in Conn, gid[c] \in Group,
         JoinRoom(c), gid' = gid
  PROVE  RoomType' /\ RoomsFit' /\ OneSessionPerDevice'
<1> DEFINE g == gid[c]
<1>1. g \in Group
  OBVIOUS
<1>2. room' = [room EXCEPT ![g] = (room[g] \ Namesakes(c)) \cup {c}]
  BY DEF JoinRoom
<1>3. RoomType'
  BY <1>1, <1>2 DEF RoomType, JoinRoom, Namesakes
<1>4. \A h \in Group : room'[h] = IF h = g THEN (room[g] \ Namesakes(c)) \cup {c} ELSE room[h]
  BY <1>1, <1>2 DEF RoomType
<1>5. RoomsFit'
  BY <1>1, <1>4 DEF RoomsFit
<1>6. ASSUME NEW h \in Group, NEW m \in room'[h], NEW n \in room'[h], DeviceOf[m] = DeviceOf[n]
      PROVE  m = n
  <2>1. CASE h = g
    <3>1. \A k \in room[g] : k \notin Namesakes(c) => DeviceOf[k] # DeviceOf[c]
      BY DEF Namesakes
    <3> QED
      BY <1>1, <1>4, <1>6, <2>1, <3>1 DEF OneSessionPerDevice
  <2>2. CASE h # g
    BY <1>4, <1>6, <2>2 DEF OneSessionPerDevice
  <2> QED
    BY <2>1, <2>2
<1> QED
  BY <1>3, <1>5, <1>6 DEF OneSessionPerDevice

\* A frame waits only for members of its sender's group with another device.
LEMMA BroadcastKeeps ==
  ASSUME QueueType, RoomType, RoomsFit, OnlyFromOthers, NEW c \in Conn, gid[c] \in Group,
         Broadcast(c), gid' = gid
  PROVE  QueueType' /\ OnlyFromOthers'
<1>1. \A m \in Conn : queue'[m] = IF m \in Others(c) /\ Hears(m) THEN Append(queue[m], c) ELSE queue[m]
  BY DEF Broadcast
<1>2. queue' \in [Conn -> Seq(Conn)]
  BY <1>1 DEF Broadcast, QueueType
<1>3. ASSUME NEW m \in Conn PROVE Len(queue'[m]) <= QueueCap
  <2>1. queue[m] \in Seq(Conn) /\ Len(queue[m]) <= QueueCap /\ QueueCap \in Nat
    BY QueueCapAssumption DEF QueueType
  <2>2. CASE m \in Others(c) /\ Hears(m)
    <3>1. Len(queue[m]) < QueueCap /\ queue'[m] = Append(queue[m], c)
      BY <1>1, <2>2 DEF Hears
    <3> QED
      BY <2>1, <3>1
  <2>3. CASE ~(m \in Others(c) /\ Hears(m))
    BY <1>1, <2>1, <2>3
  <2> QED
    BY <2>2, <2>3
<1>4. ASSUME NEW m \in Conn, NEW i \in DOMAIN queue'[m]
      PROVE  gid[queue'[m][i]] = gid[m] /\ DeviceOf[queue'[m][i]] # DeviceOf[m]
  <2>1. CASE m \in Others(c) /\ Hears(m)
    <3>1. queue'[m] = Append(queue[m], c) /\ queue[m] \in Seq(Conn)
      BY <1>1, <2>1 DEF QueueType
    <3>2. gid[c] = gid[m] /\ DeviceOf[c] # DeviceOf[m]
      BY <2>1 DEF Others, Namesakes, RoomsFit
    <3>3. CASE i \in DOMAIN queue[m]
      BY <3>1, <3>3 DEF OnlyFromOthers
    <3>4. CASE i \notin DOMAIN queue[m]
      BY <1>4, <3>1, <3>2, <3>4
    <3> QED
      BY <3>3, <3>4
  <2>2. CASE ~(m \in Others(c) /\ Hears(m))
    BY <1>1, <1>4, <2>2 DEF OnlyFromOthers
  <2> QED
    BY <2>1, <2>2
<1> QED
  BY <1>2, <1>3, <1>4 DEF QueueType, OnlyFromOthers

\* Empty rooms and a fresh cache satisfy the invariants.
LEMMA InitRoom == Init => RoomInv /\ CacheIsCurrent
<1> SUFFICES ASSUME Init PROVE RoomInv /\ CacheIsCurrent
  OBVIOUS
<1> USE DEF Init
<1>1. AllowType /\ CachedBefore /\ CacheIsCurrent
  BY GroupAssumption DEF AllowType, CachedBefore, CacheIsCurrent, Standing
<1>2. RoomType /\ RoomsFit /\ OneSessionPerDevice
  BY DEF RoomType, RoomsFit, OneSessionPerDevice
<1>3. QueueType /\ OnlyFromOthers
  BY QueueCapAssumption DEF QueueType, OnlyFromOthers
<1>4. TaskType
  BY DEF TaskType, Place
<1>5. CliType
  <2>1. (CHOOSE g \in Group : TRUE) \in Group
    BY GroupAssumption
  <2> QED
    BY <2>1, BoundAssumption DEF CliType, Idle, Standing
<1> QED
  BY <1>1, <1>2, <1>3, <1>4, <1>5 DEF RoomInv, TypeInv

-----------------------------------------------------------------------------
(* Steps *)

\* A step of a task that changes neither a room nor a channel.
LEMMA QuietStep ==
  ASSUME RoomInv, TaskType', UNCHANGED <<roomVars, gid, cliVars>>,
         AllowType' /\ CachedBefore'
  PROVE  RoomInv'
BY DEF RoomInv, TypeInv, RoomType, QueueType, CliType, RoomsFit, OneSessionPerDevice,
       OnlyFromOthers, roomVars, cliVars

\* A step of a connection keeps the rooms, and never makes the cache stale.
LEMMA TaskStep ==
  ASSUME RoomInv, NEW c \in Conn, Task(c) \/ Device(c)
  PROVE  RoomInv' /\ (CacheIsCurrent => CacheIsCurrent')
<1> USE DEF RoomInv, TypeInv, Goes
<1>0. gid[c] \in Group /\ gid' = gid
  BY DEF TaskType, Task, Device, Join, Enter, Ack, AckFails, Stopped, PingTick, Deliver,
         ChannelClosed, Data, Relay, Ends, Stalls, GivenUp, Leave, taskVars
<1>1. CASE Join(c) \/ PingTick(c) \/ Data(c)
  <2>1. PICK ok \in BOOLEAN : Consult(gid[c], ok)
    BY <1>1 DEF Join, PingTick, Data
  <2>2. UNCHANGED <<fileVars, roomVars, cliVars>>
    BY <1>1 DEF Join, PingTick, Data
  <2>3. AllowType' /\ CachedBefore' /\ (CacheIsCurrent => CacheIsCurrent')
    BY <1>0, <2>1, <2>2, ConsultKeeps DEF fileVars
  <2>4. TaskType'
    BY <1>1 DEF Join, PingTick, Data, TaskType, taskVars, Place, Serving
  <2> QED
    BY <1>0, <2>2, <2>3, <2>4, QuietStep
<1>2. CASE Ack(c) \/ AckFails(c) \/ Stopped(c) \/ ChannelClosed(c) \/ Ends(c) \/ GivenUp(c)
  <2>1. UNCHANGED <<fileVars, allowVars, roomVars, cliVars>>
    BY <1>2 DEF Ack, AckFails, Stopped, ChannelClosed, Ends, GivenUp
  <2>2. TaskType'
    BY <1>2 DEF Ack, AckFails, Stopped, ChannelClosed, Ends, GivenUp, TaskType, taskVars,
       Place, Serving
  <2>3. AllowType' /\ CachedBefore' /\ (CacheIsCurrent => CacheIsCurrent')
    BY <2>1 DEF AllowType, CachedBefore, CacheIsCurrent, fileVars, allowVars
  <2> QED
    BY <1>0, <2>1, <2>2, <2>3, QuietStep
<1>3. CASE Enter(c)
  <2>1. RoomType' /\ RoomsFit' /\ OneSessionPerDevice'
    BY <1>0, <1>3, JoinKeeps DEF Enter
  <2> QED
    BY <1>3, <2>1 DEF Enter, AllowType, CachedBefore, CacheIsCurrent, QueueType, OnlyFromOthers,
       TaskType, CliType, fileVars, allowVars, cliVars, taskVars, Place, Serving
<1>4. CASE Relay(c)
  <2>1. QueueType' /\ OnlyFromOthers'
    BY <1>0, <1>4, BroadcastKeeps DEF Relay
  <2> QED
    BY <1>4, <2>1 DEF Relay, AllowType, CachedBefore, CacheIsCurrent, RoomType, RoomsFit,
       OneSessionPerDevice, TaskType, CliType, fileVars, allowVars, cliVars, taskVars,
       Place, Serving
<1>5. CASE UNCHANGED queue /\ Stalls(c)
  BY <1>5 DEF Stalls, AllowType, CachedBefore, CacheIsCurrent, RoomType, RoomsFit, QueueType,
     OneSessionPerDevice, OnlyFromOthers, TaskType, CliType, fileVars, allowVars, cliVars,
     taskVars, Place
<1>6. CASE Deliver(c) \/ (Stalls(c) /\ queue' # queue)
  <2>1. queue[c] \in Seq(Conn) /\ queue[c] # << >> /\ queue' = [queue EXCEPT ![c] = Tail(queue[c])]
    BY <1>6 DEF Deliver, Stalls, QueueType
  <2>2. /\ Tail(queue[c]) \in Seq(Conn) /\ Len(Tail(queue[c])) = Len(queue[c]) - 1
        /\ \A i \in DOMAIN Tail(queue[c]) : Tail(queue[c])[i] = queue[c][i + 1] /\ i + 1 \in DOMAIN queue[c]
    BY <2>1
  <2>3. Len(Tail(queue[c])) <= QueueCap
    BY <2>1, <2>2, QueueCapAssumption DEF QueueType
  <2>4. QueueType'
    BY <2>1, <2>2, <2>3 DEF QueueType
  <2>5. ASSUME NEW m \in Conn, NEW i \in DOMAIN queue'[m]
        PROVE  gid[queue'[m][i]] = gid[m] /\ DeviceOf[queue'[m][i]] # DeviceOf[m]
    <3>1. CASE m = c
      <4>1. queue'[m] = Tail(queue[c])
        BY <2>1, <3>1 DEF QueueType
      <4> QED
        BY <2>2, <2>5, <3>1, <4>1 DEF OnlyFromOthers
    <3>2. CASE m # c
      BY <2>1, <2>5, <3>2 DEF OnlyFromOthers, QueueType
    <3> QED
      BY <3>1, <3>2
  <2> QED
    BY <1>6, <2>4, <2>5 DEF Deliver, Stalls, AllowType, CachedBefore, CacheIsCurrent,
       RoomType, RoomsFit,
       OneSessionPerDevice, OnlyFromOthers, TaskType, CliType, fileVars, allowVars,
       cliVars, taskVars, Place, Serving
<1>7. CASE Leave(c)
  <2>1. room' = [room EXCEPT ![gid[c]] = room[gid[c]] \ Namesakes(c)]
    BY <1>7 DEF Leave, LeaveRoom
  <2>2. room' \in [Group -> SUBSET Conn] /\ \A g \in Group : room'[g] \subseteq room[g]
    BY <1>0, <2>1 DEF RoomType
  <2>3. RoomsFit' /\ OneSessionPerDevice'
    BY <1>0, <2>2, RoomsShrink
  <2>4. QueueType' /\ OnlyFromOthers'
    <3>1. queue' = [queue EXCEPT ![c] = << >>] /\ gid' = gid
      BY <1>0, <1>7 DEF Leave
    <3> QED
      BY <3>1, QueueCapAssumption DEF QueueType, OnlyFromOthers
  <2> QED
    BY <1>7, <2>2, <2>3, <2>4 DEF Leave, AllowType, CachedBefore, CacheIsCurrent, RoomType,
       TaskType, CliType, fileVars, allowVars, cliVars, taskVars, Place, Serving
<1> QED
  BY <1>1, <1>2, <1>3, <1>4, <1>5, <1>6, <1>7 DEF Task, Device

\* The commands.  A save is later than every time the cache may have.
LEMMA AdminStep ==
  ASSUME RoomInv, NEW p \in Cli, Admin(p)
  PROVE  RoomInv' /\ ("coarse" \notin Env /\ CacheIsCurrent => CacheIsCurrent')
<1> USE DEF RoomInv, TypeInv
<1>1. ASSUME NEW op \in {"create", "enable", "disable", "deny"}, NEW g \in Group, CliLoad(p, op, g)
      PROVE  RoomInv' /\ (CacheIsCurrent => CacheIsCurrent')
  <2>1. CliType'
    BY <1>1, BoundAssumption DEF CliLoad, CliType, AllowType
  <2> QED
    BY <1>1, <2>1 DEF CliLoad, AllowType, CachedBefore, CacheIsCurrent, RoomType, RoomsFit,
       OneSessionPerDevice, QueueType, OnlyFromOthers, TaskType, fileVars, allowVars,
       roomVars, taskVars
<1>2. CASE CliSave(p)
  <2> DEFINE do == cli[p]
  <2>1. do.read \in [Group -> Standing] /\ do.group \in Group /\ After(do.op) \in Standing
    BY DEF CliType, After, Standing
  <2>2. file' \in [Group -> Standing]
    BY <1>2, <2>1 DEF CliSave
  <2>3. CliType'
    BY <1>2, GroupAssumption DEF CliSave, CliType, Idle, Standing
  <2>4. AllowType' /\ CachedBefore' /\ ("coarse" \notin Env => CacheIsCurrent')
    BY <1>2, <2>2 DEF CliSave, AllowType, CachedBefore, CacheIsCurrent, allowVars
  <2> QED
    BY <1>2, <2>3, <2>4 DEF CliSave, RoomType, RoomsFit,
       OneSessionPerDevice, QueueType, OnlyFromOthers, TaskType, allowVars, roomVars, taskVars
<1>3. ASSUME NEW g \in Group, NEW S, Expel(g, S), UNCHANGED <<fileVars, allowVars, queue, pc, taskVars>>,
             CliType'
      PROVE  RoomInv' /\ (CacheIsCurrent => CacheIsCurrent')
  <2>1. room' \in [Group -> SUBSET Conn] /\ \A h \in Group : room'[h] \subseteq room[h]
    BY <1>3 DEF Expel, RoomType
  <2>2. stop' \in [Conn -> BOOLEAN]
    BY <1>3 DEF Expel, RoomType
  <2>3. RoomsFit' /\ OneSessionPerDevice'
    BY <1>3, <2>1, RoomsShrink DEF taskVars
  <2> QED
    BY <1>3, <2>1, <2>2, <2>3 DEF AllowType, CachedBefore, CacheIsCurrent, RoomType, QueueType,
       OnlyFromOthers, TaskType, fileVars, allowVars, taskVars
<1>4. CASE CliKickGroup(p)
  <2>1. cli[p].group \in Group
    BY DEF CliType
  <2>2. CliType'
    BY <1>4, GroupAssumption DEF CliKickGroup, CliType, Idle, Standing
  <2> QED
    BY <1>3, <1>4, <2>1, <2>2 DEF CliKickGroup
<1>5. ASSUME NEW m \in Conn, CliKick(p, m)
      PROVE  RoomInv' /\ (CacheIsCurrent => CacheIsCurrent')
  <2>1. CliType'
    BY <1>5, BoundAssumption DEF CliKick, CliType
  <2> QED
    BY <1>3, <1>5, <2>1 DEF CliKick, TaskType
<1> QED
  BY <1>1, <1>2, <1>4, <1>5, CommandAssumption DEF Admin

\* Every step keeps the rooms; the cache, if the clock tells saves apart.
LEMMA RoomStep ==
  RoomInv /\ [Next]_vars => RoomInv' /\ ("coarse" \notin Env /\ CacheIsCurrent => CacheIsCurrent')
<1> SUFFICES ASSUME RoomInv, [Next]_vars
             PROVE  RoomInv' /\ ("coarse" \notin Env /\ CacheIsCurrent => CacheIsCurrent')
  OBVIOUS
<1>1. CASE Next
  BY <1>1, TaskStep, AdminStep DEF Next
<1>2. CASE UNCHANGED vars
  BY <1>2 DEF vars, RoomInv, TypeInv, AllowType, CachedBefore, CacheIsCurrent, RoomType, RoomsFit,
     OneSessionPerDevice, QueueType, OnlyFromOthers, TaskType, CliType, fileVars, allowVars,
     roomVars, cliVars, taskVars
<1> QED
  BY <1>1, <1>2

-----------------------------------------------------------------------------
(* Theorems *)

\* Every variable keeps its type and every channel its capacity, for any
\* number of connections, groups and administrators.
THEOREM TypeCorrect == Spec => []TypeOK
<1>1. RoomInv => TypeOK
  BY TypeParts DEF RoomInv
<1> QED
  BY <1>1, InitRoom, RoomStep, PTL DEF Spec

\* A device never has two sessions in a room, however its connections join,
\* leave and are kicked.
THEOREM DevicesAreUnique == Spec => []OneSessionPerDevice
<1>1. RoomInv => OneSessionPerDevice
  BY DEF RoomInv
<1> QED
  BY <1>1, InitRoom, RoomStep, PTL DEF Spec

\* Nothing that waits for a device came from another group or from itself.
THEOREM FramesStayInTheirGroup == Spec => []OnlyFromOthers
<1>1. RoomInv => OnlyFromOthers
  BY DEF RoomInv
<1> QED
  BY <1>1, InitRoom, RoomStep, PTL DEF Spec

\* Where the file system tells two saves apart, the allowlist in memory is the
\* one in groups.json whenever their times agree, whoever edits the file.
THEOREM CacheNeverStale == ASSUME "coarse" \notin Env PROVE Spec => []CacheIsCurrent
<1>1. Init => RoomInv /\ CacheIsCurrent
  BY InitRoom
<1>2. RoomInv /\ CacheIsCurrent /\ [Next]_vars => RoomInv' /\ CacheIsCurrent'
  BY RoomStep
<1> QED
  BY <1>1, <1>2, PTL DEF Spec
=============================================================================
