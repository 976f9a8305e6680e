# zsync, verified

TLA+ models of zsync: daemons that share their clipboards over direct TCP
sessions or through groups on a relay server (`zsyncd`). Every definition is
translated from the Rust source; `PROJECT.json` names the lines of each one
(`map`), the runs, what each property can be broken by (`mutants`), the
disagreements found (`findings`), what is hard to test (`hazards`) and what is
proved (`theorems`).

Run a model with `tlc -workers 2 -config X.cfg M`, a proof with `tlapm M.tla`.

## The system

| Part | Source | State | Operations | Modelled in |
|---|---|---|---|---|
| Hub | `hub.rs` | clipboard, suppress guard, `SeenSeq`, broadcast channel | `local_observed`, `local_push`, `apply_from`, `emit`, `pack` | `Hub` |
| Suppress guard | `suppress.rs` | map of hashes to times, ring | `add`, `has`, `gc` | `Suppress`, `SuppressRing` |
| Watcher | `daemon.rs` | `last` | poll, debounce, second read | `Hub` |
| Sessions | `daemon.rs`, `relay.rs` | broadcast receiver, stream, stop channel | `framed_loop`, `run_relay_session`, dial again | `Hub`, `Peers`, `Wire` |
| Peer table | `daemon.rs`, `net.rs` | `peers`, `live`, stop channels | `spawn_peer`, `stop_peer`, maintain loops, `run_incoming`, connect, disconnect | `Peers` |
| StateFile | `config.rs` | counter and peers, in memory and in `state.json` | `next_seq`, `upsert_peer`, `remove_peer` | `Hub`, `Peers` |
| Rooms and `serve_leaf` | `zsyncd.rs` | rooms, stop and data channels | join, leave, broadcast, kick | `RelayServer` |
| Allowlist and `zsyncd group` | `zsyncd.rs` | `groups.json`, cache, modification times | refresh, create, enable, disable, deny, kick | `RelayServer` |
| Probe bans | `zsyncd.rs` | failures, windows, bans per address | `is_banned`, `fail`, `ok`, `gc` | `Probe` |
| Clipboard backends | `clipboard/`, `cli.rs` | clipboard files, their temporary files, `cur`, system clipboard | `open`, `get`, `set`, `put_clipboard` | `FileBackend`; one step each in `Hub` |
| Frames and clip codec | `protocol.rs`, `relay.rs`, `group.rs` | the bytes of a stream | read and write of frames, encode, decode, seal, open | `Wire`, `Codec` |
| Lifecycle | `daemon.rs`, `zsyncd.rs`, `config.rs`, `tlsutil.rs` | pid files, sockets, ports, `tls.crt` and `tls.key`, signals | start, stop, run in the foreground, stale cleanup, guards | `Lifecycle` |
| Keys, TLS pins, addresses, rest of the CLI, IPC, build | `group.rs`, `tlsutil.rs`, `net.rs`, `cli.rs`, `ipc.rs`, `build.rs`, `scripts/` | files and pure functions | | not modelled |

How they interact. A user, or the IPC call `copy`, changes the clipboard of one
daemon. The watcher (or the IPC handler) asks the suppress guard, takes a
sequence number from the StateFile, which saves it, and emits the clip on the
hub's broadcast channel. Each session holds a receiver of that channel; it writes
the clip to its peer, unless the clip came from there (`skip`). The peer's
session calls `apply_from`, which consults `SeenSeq`, reads the clipboard,
suppresses the hash, sets the clipboard and emits the clip again. A relay session
does the same with a server between: `serve_leaf` tasks share the rooms, the
allowlist and the ban list under one mutex each, while administrators' processes
edit `groups.json` and call the admin socket. Below all that, `set` is a sequence
of file operations that several tasks do at once, and both daemons are found,
stopped and cleaned up after by way of files that any command may remove.

What is hard here: the tasks run on several threads and an operation of the hub
takes and releases three locks; a restart forgets everything but the counter;
sessions lose what is queued in them; the relay's tasks, the devices that
reconnect and the administrator change rooms and allowlist between any two steps
of a task; ban windows and TTLs depend on a clock that nothing synchronises with
the calls; claims of a connection have to end with it, whichever way it ends; and
a `select!` drops what its other arms had begun; and a process may be killed
between any two file operations, with the next one reading what it left.

## Modules

* `SuppressRing`: the suppress guard without its clock, as operators: a set of
  hashes whose TTL has not run out and a ring. `Hub` uses it.
* `Hub`: a network of daemons. `clip`, `sup`, `seen`, `seq` and `disk` are the
  clipboard, `Suppress`, `SeenSeq` and the two copies of the counter. `wpc`,
  `ppc` and `jpc` say where the watcher, the IPC handler and each `apply_from`
  are between two locks: `WatchRead` is the second read of the watcher,
  `WatchOversize`, `WatchDrop`, `WatchPass`, `WatchAdd`, `WatchPack`, `WatchEmit`
  are the steps of `local_observed` on what it read; `PushStart` to `PushEmit`
  those of `local_push`; `ApplyKnown`, `ApplyAccept`, `ApplyCompare`,
  `ApplySuppress`, `ApplySet`, `ApplyStored`, `ApplyEmit` those of `apply_from`. `rx` is a receiver of the broadcast
  channel (`Forward` is its arm of the `select!`), `net` a stream, `up` the
  running sessions, and `RelayBroadcast` the relay between the members of one
  group. `Restart`, `Drop`, the `...Fails` actions and `Expire` are the
  environment, switched on by `Env`. `issued`, `copied`, `onboard`, `found` and
  `lapsed` are history; `lapsed` says that a guard lost an entry about a content
  that the watcher had read and not yet looked up.
* `ClipDelivery`: what a network of hubs promises its users, without queues, frames
  or guards. `Delivery == INSTANCE ClipDelivery WITH last <- onboard, board <- clip`
  of `Hub`: packing is `Issue`, `ApplySet` is `Deliver`, what a user or
  `zsync copy` puts on the clipboard is `Local`; all other steps stutter.
* `HubNetworks`: what the theorems about trees and about one writer ask of the links,
  the users and the environment. The `ASSUME`s of `MCHub` show that the networks
  of `hub_tree` and `hub_faults` are trees, and that in `hub_tree` every daemon has a
  path from the writer of the group.
* `SuppressSpec`, `Suppress`: the machine `SuppressRing` makes, and the guard as
  `suppress.rs` has it (map of times, ring, eviction, gc, clock), which
  implements it: `Implements` is `INSTANCE SuppressSpec WITH guard <- bar`.
* `RelayServer`: `pc` is the place of each `serve_leaf` task, cut at every lock;
  `room`, `stop`, `queue` are `Rooms` and the two channels of a member; `file`,
  `mtime`, `cache`, `cached` are `groups.json` and `Allowlist`; `cli` is what
  each administrator's process is doing between load, save and kick. `Stalls` is a
  write to a device that does not read any more: it holds the task (`"stuck"`)
  until the system gives the connection up (`GivenUp`).
* `Probe`: `ProbeTracker` with a clock and the handshakes in progress.
* `Peers`: who a daemon is connected to. `saved` and `disk` are the peer list of
  the StateFile, `table` and `guests` the entries of `Runtime::peers` that are
  dialled and those that dialled in, `live` is `Runtime::live`. `task` has the
  maintain loops (`TaskDials`, `Dials`, `Acked`, `SessionEnds` for a daemon,
  `RelayDials`, `RelayJoined`, `RelayEnds` for a relay), `conn` the connections
  with the `run_incoming` task at the far end (`Hello`, `Remember`, `LookUp`,
  `Ack`, `GuestLeaves`), `call` the calls `connect` and `disconnect`, cut at every
  lock. `Hangs` is a far end that goes silent without closing: the handshake, which
  has no timeout, waits for good. `Panics` and `BootPanics` are the `expect`s on a poisoned or changed
  table; `Down`, `Crash` and `Start` end and begin a daemon. `lost` is history:
  the claims that a failing HelloAck leaves behind.
* `Wire`: one session in pieces. `arm` is what each end's `select!` is doing,
  `part` what the read in progress has taken, `out` what is left to write,
  `pipe` the bounded buffers. `Recv`, `Tick`, `Stop` are the other arms, which drop
  the read; `ReadPart`, `ReadClip`, `ReadShort`, `ReadBad`, `ReadEnd` are
  `read_frame` and the match on its result.
* `Stream`: what a session promises in each direction. `Hub` assumes it, `Wire`
  implements it (`Streams == INSTANCE Stream WITH ...`).
* `FileBackend`: the clipboard directory. `entry` has two directory entries for
  each file, its own and that of its temporary file; `job` is where each call of
  `set` is (`at`) and in `write_atomic` (`io`: `Open`, `Write`, `Rename`), and by
  which entry its open file can be reached (`hand`), since a rename or a removal
  by another call moves the file under it. `List`, `Sweep`, `Undrop`, `Rmdir`,
  `Mkdir`, `Store`, `Offer` are the rest of `set`, `mem` is `cur`, `sys` the system
  clipboard. `Fails` is an error that `set` returns, or the end of a `zsync copy` at
  any step; errors that `set` ignores are a `List` or an `Undrop` of a part, and
  `Spares`. `Crash` and `Start` are the end and the start of the daemon. The history
  variables say when a set ran alone, and whether it left old files (`littered`).
* `Lifecycle`: `zsync` and `zsyncd` (`kind`), their pid file and socket, the listener
  on each port (`port`), the port each process has in its environment (`asks`),
  whose socket loop has ended (`deaf`) and, for `zsyncd`, the TLS files. `at` is the
  place of each process and command. `locks` is history: no two processes had
  different ports at a time, and no accept loop of `zsync` has ended. A process
  goes through `Clean`, `BindPort`, `BindSock`, `WritePid` in the order of its
  daemon, hears or misses a signal, and ends by its guard; a command is `start`,
  `stop` or a daemon in the foreground. `cleanup_stale` is three steps (`Clean`,
  `RmSock`, `RmPid`) that commands and processes share. The two daemons have the
  same functions in two files: one of the two copies is in the map.
* `Codec`: the lengths and limits of a clip's frame, direct and sealed.
* `MCHub`, `MCRelayServer`, `MCPeers`, `MCWire`, `MCFileBackend`, `MCLifecycle`:
  small instances for the runs.
* `HubProofs`, `SuppressProofs`, `ProbeProofs`, `RelayServerProofs`, `PeersProofs`,
  `WireProofs` (with those of `Codec`), `FileBackendProofs`, `LifecycleProofs`: the
  theorems.

## Runs

| Run | What it shows | Bounds |
|---|---|---|
| `hub_tree` | All comes to rest with equal clipboards at the daemons that the clips come to, and nothing at the others, no clip returns to its origin, on the direct and on the relay path (`Agreement`, `NoReturn`, `Settles`) | two daemons in a direct session, one of them in a relay group with a third; the user at either end of that chain copies 2 contents; channels of 2, TTLs run out at any time, at most one entry between a read and its look-up |
| `hub_faults` | Numbers are unique and ahead of what peers accepted, clips stay intact, no older clip of an origin overwrites a newer one, no daemon originates what it wrote itself, the hubs implement `ClipDelivery` (`UniqueSeq`, `RestartIsNotReplay`, `OnlyIssued`, `NewestWins`, `NoEcho`, `Implements`) | 2 daemons, both copy, 2 copies of 3 contents (one too large), 1 restart, any number of lost connections, failing sets and saves, a clipboard that shows one content as another |
| `suppress` | The guard implements its promise and does not leak (`Implements`, `NoLeak`) | 3 contents, ring of 2, TTL 2, 7 ticks |
| `probe` | Failures since the last success keep to the limit, bans have a cause and do not add up (`ScansAreLimited`, `NoUnjustBan`, `BanFollowsFailure`) | 1 address, limit 3, window 2, ban 4, 3 handshakes at a time, 12 ticks |
| `relay_server` | Frames stay in their group, lost places end sessions, denied groups drain (`OneSessionPerDevice`, `OnlyFromOthers`, `CacheIsCurrent`, `NoOrphans`, `DeniedDrains`) | 2 sessions of one device in one group, 1 of another device in that group or in a second one, 1 command, channels of 1, 2 frames from anyone, failing JoinAcks, devices that stop reading |
| `peers` | Loops can be found and stopped, each claim has one holder and ends with it, a wanted peer is connected again unless its dial hangs (`LoopsAreListed`, `ClaimsAreExclusive`, `ClaimsAreHeld`, `Reconnects`) | 2 daemons that may dial each other and a relay, 2 loops each, 2 connections, 2 calls, 1 failure (also a far end that goes silent) |
| `wire` | Each direction is a `Stream`; a clip arrives or the session ends, unless both ends are stuck in a write (`Implements`, `OnlyWedgesStall`) | 2 clips each way and one that is skipped, up to 3 pieces, buffers of 2, 1 ping of each end |
| `file_backend` | Objects are never torn, a set that runs alone repairs whatever was left (but for old files it cannot remove), a crash leaves the old clip or the new (`ObjectsAreWhole`, `LoneSetHolds`, `CrashKeepsOneClip`) | 2 tasks of a daemon and 1 `zsync copy`, 3 items: 2 of one content, one of them a named file, and one of another content and extension; 3 sets or changes of the system clipboard, any number of crashes, of failing steps and of ignored errors, file and native backend |
| `lifecycle` | As long as the port locks, a daemon that is up is in its files and guards remove only their own; an undisturbed start or stop does what it says (`UpIsReachable`, `GuardsOwnFiles`, `LoneStartComesUp`, `LoneStopEndsIt`) | both daemons, 3 processes, 2 commands at a time and 3 in all, 1 fault: a kill at any step, a failing accept on the port or the socket, or a second port |
| `hub_loop` | violated: a clip circulates in a triangle for ever | 3 daemons, 1 copy |
| `peers_panic` | violated: a disconnect empties the table between two lookups of `run_incoming`, which panics | as `peers` |
| `wire_cut` | violated: `select!` drops a read, and the rest of its frame is read as a header | as `wire`, no failures |

Four findings are about a document that says more than the code does; the property
that a passing run checks in each case says what the code does. `hub.rs:188` has a
clip fanned out "to every other peer", but a relay session sends nothing that has a
`skip`, so what came in on a direct session does not reach the relay group:
`Agreement` has the members of that group hold nothing. `ARCH.md` §6.1 has `Apply`
read the clipboard after `set` and suppress what the system made of the content; the
code adds the hash it was given twice, and the content the clipboard shows goes out
as a new clip: `NoEcho` excepts it (`Altered`). `ARCH.md:458` has one session for a
pair of endpoints, by peer id, and only one side dial after a restart; the code
claims an address for a dial and a node id for an incoming session, and dials all
saved peers, so two daemons that dial each other have two sessions:
`ClaimsAreExclusive` is about each claim by itself. `ARCH.md:467` has a failing dial
lead to the next one; a dial whose peer accepts and goes silent never fails:
`Reconnects` excepts it (`Hung`).

Other behaviour met while modelling, which no run states because it is a second form
of a finding, or because we found no document that decides it. With three daemons all
connected to each other `NewestWins` fails too, since `seen.accept` and
`clipboard.set` are two steps. The watcher reads the clipboard and only then looks
the hash up: if the entry lapses in between, because a session puts the next clip in
the guard, the old clip is echoed with a new number and may overwrite the newer one;
`NoEcho` and `Agreement` except that (`lapsed`). A restarted daemon originates what it
finds on its clipboard (`found`). A relay that cannot write the JoinAck (`AckFails`)
leaves the device in its room for good, and a device that does not read keeps its
task, and a denied group its connection, for as long as the system keeps the
connection. A late `leave` of an old session takes the newer session of its device out
of the room, which then ends. An address that succeeds once before the limit begins a
new count of failures. Two ends that both write more than the buffers hold wait for
each other for ever (`Wedged`). A content that is still in the ring is not sent again
when it is copied again, as the flowchart in `docs/design/ARCH.md` §6 says. Two sets
of different contents at once can leave `current.*` of one and `current.json` of the
other, and two of one content show an empty object for a moment; objects are never
removed; old files that cannot be removed stay beside the new ones. Two starts at
once can leave a daemon that is up without its socket or pid file, when the cleanup of
one runs while the other makes its own. Two daemons of one directory with different
ports both come up, each overwrites the files of the other, and the first to end
removes them. `zsyncd` makes `tls.crt` and `tls.key` only if one is missing: a pair
that a crash or two first starts left blank or mixed is never repaired, and no later
start comes up.

Why the bounds are enough. The hub's operations touch one content and one origin
at a time, so two contents in flight, one of them older, are what every hazard
needs; a third daemon is needed for forwarding and for circulation. The ring and
the channels are at 1 or 2 instead of 64, 32 and 16 so that they overflow within
the runs. A ban needs one full set of failures, a second window and a handshake
left over; addresses do not interact, since `gc` treats each entry by itself. In
the relay server every conflict is between two sessions of a device, or one
session and one command; the second group is one a frame could stray into, and
keeps the list from being empty. In `peers` both daemons may dial, and the failure
is the one that starts a race: a lost connection, a crash, a silent far end. Two slots
and two connections let an old session overlap a new one, or two daemons dial each
other. In `hub_tree` a second user does not copy once the first has, since
`Agreement` is about the clips of one. An entry of the guard expires no sooner than
it leaves the ring, where it makes a difference, and none expires after one did
between a read and its look-up, when the properties ask nothing more. In `wire` a frame has a header, a middle and an end, so
a read can be dropped at each place, and the buffers are smaller than two frames
that cross. In
`file_backend` every conflict is between two sets, and a third comes after them to
show what they left; two items share an object and differ in the dropped file, the
third shares neither object nor extension. In `lifecycle` three processes are one
that was killed, one that is up and one that starts, or two with different ports,
and three commands start two daemons and stop one.

What a run leaves out on purpose: `hub_tree` has no failures, since clips queued in
a lost session are lost by design and `Agreement` would say nothing; `file_backend`
has no loss of power, when a rename may reach the disk before the data it names
(`set` never syncs); in `lifecycle` process ids are not used again, and a removal of
a socket or pid file does not fail; `relay_server` has a
file system whose clock tells any two saves apart (`"coarse"` in `Env` drops
that, and then `CacheIsCurrent` fails, as `Allowlist::refresh` compares times for
equality only).

## Fairness

`Hub`: weak fairness of each watcher, IPC handler, apply, relay and dial, since
tokio runs every task that can go on, the watcher's timers are unconditional and
the maintain loops dial for ever. `Forward` gets strong fairness: it competes
with the read arm of the same `select!`, which polls its arms in random order.
`RelayServer`: weak fairness of each task; its ping timer always fires again. A task
that writes to a device which does not read (`"stuck"`) is not assumed to go on:
`NoOrphans` and `DeniedDrains` ask nothing of it.
`Peers`: weak fairness of each maintain loop, incoming task and call, and of
start-up. A connection that breaks is noticed at both ends, and a far end that goes
silent in a handshake is not: that loop hangs, and nothing is assumed of it. `Wire`: weak fairness of each end's loop as a whole, which is polled when a
stream or channel is ready; nothing is assumed of the order in which `select!`
takes its arms.
`Lifecycle`: weak fairness of each process and each command, which are processes of
the operating system; a wait that runs out, a connection that takes the place of a
signal, and kills are not assumed to happen, nor not to happen.
Nothing is assumed of users, devices, administrators, failures or the network.
The safety runs use no fairness.

## Proofs

The theorems hold for every network, ring size, limit and TTL that the named
assumptions admit: channels and rings have at least one place (`Suppress::new`
and the constants of the code ensure it), links go both ways and join different
ends, a ban is longer than a window (10 minutes and one), and the marks for an
absent, empty or half-written file are no contents.

* `HubProofs`. `TypeCorrect` shows the types by parts (`TypeInv`), one step per
  action. The sequence theorems need more than the properties say: `SeqInv` adds
  that the counter in memory is never behind the one on disk, that every issued
  number is at most the one on disk (`next_seq` saves first), that pending clips
  are issued or not yet numbered, and that whatever is in a receiver, a stream or
  an apply was issued. From it follow `SequenceNumbersAreUnique`, `RestartSafe`
  and `NothingInvented`. A restart keeps it because the counter is read back from
  a file that no issued number exceeds.

  The theorems about forwarding assume `Tree`: there are sets of daemons `B`, one for each link,
  such that what comes along a link can only be of the daemons in its set, no set
  leads back to a daemon of its own, and two links into one daemon have disjoint
  sets (`Branches`). A direct session and relay groups without cycles have them, as
  the networks of `hub_tree` and `hub_faults` do; the triangle of `hub_loop` has
  not. `TreeInv` says that every frame keeps to its branch, so `skip` is enough
  (`NothingReturns`), and that all clips of one origin reach a daemon by one
  session, which applies them one at a time: none is accepted between
  `seen.accept` and `set` of another (`NewestStays`). With `SeqInv` that makes every
  step of `Hub` a step of `ClipDelivery` or a stutter (`DeliveryIsImplemented`).

  `NoEchoWhileSuppressed` needs no tree, and asks only that no entry of the guard
  expires (`"expire"` is not in `Env`): daemons restart, sets and saves fail,
  clipboards rewrite what they are given. Then `EchoInv` is inductive: what is on a
  clipboard is in `Sources` (the user's, found there at a restart, or made by the
  clipboard of something else) or in the guard, since `apply_remote` adds the hash
  before it sets the clipboard; and what a watcher has read and not looked up is so
  too, since the guard only grows between two restarts.

  `NoEchoPastTTL` lets the entries expire, connections drop, saves fail and
  `zsync copy` run, and asks instead for a tree, one daemon whose user copies, no
  restart, no failing `set`, clipboards that show what they are given, and a ring of
  two or more (the code has 64). `RingInv`, until an entry lapses between a read and
  its look-up: the other daemons originate nothing, because what their clipboard shows
  is the last hash of the ring, or the last but one while a session is between its
  `suppress.add` and its `set` (`BoardJ`), and what their watcher has read is in the
  guard until it has looked it up (`CheckedW`). On a tree only one session of a daemon
  applies clips of the writer, so no second hash can slip in between.

  `FramesArriveOnce`, on a tree: every frame in flight to a daemon is one that
  `seen.accept` will take, so there `skip` and `SeenSeq` do not overlap and
  `ARCH.md` §3 is right that a payload is on a link once (`hub_loop` shows that with
  a cycle it is not). `OrderInv` orders what waits, what is in flight and what is
  accepted: the numbers of one origin grow along every queue, those on a link are
  above what its end has accepted, those that wait for it are above those on it,
  and on the relay path the same holds across both links. It assumes
  `OneOriginator`, no `zsync copy` and no restart: the watcher and the IPC handler
  take their numbers and emit in two steps each, so together they can emit a lower
  number after a higher one, which arrives and is refused. Connections may drop,
  queues overflow, sets and saves fail, everyone may copy.

  `WriterIsFollowed` proves `Agreement`, with the same exception, for a network of any
  size: one user copies new contents, nothing fails, and each daemon has a path from the writer that the relay does not
  cut (`Connected`: a relay session sends nothing that has a `skip`). `SourceInv` ties
  the newest issued clip to the writer's clipboard and counts copies; `FloodInv` says
  that the newest clip is accepted by a daemon, or waits, flies or is handled
  somewhere on its path (`Served`), and that a daemon that has accepted it shows it or
  is about to (`Shows`). A receiver of the broadcast channel may lag: the channel
  throws away the oldest, and the newest stays. A full channel of the relay throws
  away the newest, so the theorem asks that the copies are no more than it holds
  (`MaxCopies <= LeafCap`); `Ranked` shows that it then never fills. At rest nothing
  waits, so all show the newest. A dropped connection, a failed `set` or a content
  over the limits each make `Agreement` fail, since nothing is sent again.
* `SuppressProofs`. `GuardIsImplemented` is a refinement: a tick maps to a lapse
  of some hashes, an `add` to `Add`, because what eviction and gc remove is never
  live (`AddKeepsLive`). `NothingLeaks` is an action property.
* `ProbeProofs`. `BanInv` says that a full count is banned for longer than its
  window lasts and leaves room for the handshakes in progress. `Ban > Window` is
  what makes it inductive: an address can connect again only after its window is
  over, and then its count is forgotten. `CountsAreBounded` and `BansAreDated`
  follow. `LogInv` ties the counter to the failures behind it, read from the end
  of the log: those counted are of the running window (`Counted`), and of those
  before only `MaxFails - 1` can be less than a window old once no ban is on
  (`Spaced`), because two windows in a row are further apart than one lasts, and a
  ban outlasts every failure of its window. `BansAreJust` and the cardinality bound
  `ScansLimited` follow. All of it is about the failures since the last success, which
  removes the address from the map.
* `RelayServerProofs`. `RoomInv` adds to the properties that a room has connections
  of its own group only (`RoomsFit`) and that the time the cache is of is not later
  than the file's (`CachedBefore`). Joining replaces the session of the device, so
  a room has one of each (`DevicesAreUnique`); a frame is queued for the others
  of the sender's own room only (`FramesStayInTheirGroup`). `CacheNeverStale` needs
  a file system whose clock tells saves apart, which is an assumption of the
  theorem.
* `PeersProofs`. `ClaimInv` counts by claim, not by session: an address in `live[n]`
  has exactly one loop of `n` that is in its handshake or its session, a node id
  there exactly one incoming task, or none and it is in `lost`. A step changes the
  claim of one task at most, and one lemma for each kind of change (`AddrClaims`,
  `AddrReleases`, `NodeClaims`, `NodeReleases` and the two frames) says what follows
  for its daemon. `LoopsListed` is inductive with the types, since `spawn_peer` and
  `stop_peer` tell the loop they take out of the table to stop.
* `WireProofs`. `StreamIsImplemented` is a refinement. `Flow` follows one direction:
  the pieces in `part`, `pipe` and `out`, one after the other, are whole frames, and
  their clips are those of `sent` that `got` lacks, in order (`Whole`). Without the
  positions of the clips the invariant would not be inductive, since a clip is
  delivered when the last piece of its frame is read. A step moves a piece, takes a
  frame off the front (`WholeCompletes`) or adds one at the back (`WholeWrites`). A
  dropped read keeps that, or leaves the inside of a frame at the front (`Cut`,
  `WholeDrops`), which nothing but `ReadBad` takes.
* `LifecycleProofs`. The port is the lock of the files, as long as `locks` holds, that
  is, as long as all processes that run name the same port and none has closed it and
  stayed: a process writes its socket and pid file, and has a guard, only while it
  has the port (`OwnInv`), so no two do (`GuardsKeepToTheirFiles`). `UpInv` says that what a process has made is still
  there unless a cleanup ran beside it, and that no cleanup is under way that could
  still remove it, since a cleanup begins only if no living process is in the pid
  file (`UpReachable`).
* `FileBackendProofs`. `ObjectsStayWhole` follows an object's temporary file: unless
  two sets of one content have had it open at once, it has one writer, which finds
  it empty, writes the whole and only then renames it (`Sound`). For
  `LoneSetsHold`, `Undisturbed` says that the file a set without company has open is
  the one at its place, and `Done` what it has achieved at each place: which files
  are written, which old ones are swept away unless an ignored error left them
  (`littered`). `OneClipIsKept` goes on from the
  last such set that ended well: `Left` is the directory until something is set
  after it, and `Kept` says that, wherever later sets stop, `current.json` names
  that item or one set since, and the object of that item is whole.
* Of `Codec`, in `WireProofs`: `DirectRoundTrip` and `RelayRoundTrip`. A clip that
  passes the limits of `encode_clip_body` fits a frame and its length fields, with
  the envelope too, and passes every check on the way in. Plain arithmetic from the
  constants of the code.

Every safety property of a passing run is the subject of a theorem. Those
about trees hold of the runs' networks, as `MCHub` shows. `NoEchoWhileSuppressed` is
about the network of `hub_faults`, where no entry expires; `NoEchoPastTTL` and
`WriterIsFollowed` are about one writer, as when in `hub_tree` the user of the group
copies. Model-checked
only is everything about liveness (`Settles`, `NoOrphans`, `DeniedDrains`,
`Reconnects`, `OnlyWedgesStall`, `LoneStartComesUp`, `LoneStopEndsIt`), since the
prover has neither ENABLED nor fairness. Proved only is `FramesArriveOnce`, which
no run states.

## Not modelled

Payload bytes stand for their hash, so hash mismatches and truncated clips do
not occur. `Hub` takes frames whole, as `Stream` promises them; `Wire` cuts them
in pieces, a header being one piece, and has no lag (which `Hub` has).
Cryptography, handshakes and address parsing are pure or library code; the rest of
the command line and the IPC transport carry one request at a time; names, MIME
types and the status listing only label. The certificate pins are one read and one
write of a file in each session. The programs a native backend runs (`wl-copy`,
`osascript` and so on) are one step, and the Windows variants are left out. `Peers` leaves out backoff and status texts.

## Plan

Done: every part of the table above that has a state of its own, and the proofs of
their safety properties. To come: the safety half of the liveness arguments, that
is, what each step with `WF` decreases.
