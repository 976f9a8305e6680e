-------------------------------- MODULE Hub --------------------------------
(***************************************************************************)
(* The clipboard hubs of a network of zsync daemons (src/hub.rs) with the  *)
(* tasks that drive each of them:                                          *)
(*   - the clipboard watcher           (src/daemon.rs, watch_clipboard),   *)
(*   - the IPC handler of `zsync copy' (src/daemon.rs, dispatch),          *)
(*   - one session task per link       (framed_loop, run_relay_session),   *)
(* and the relay server as far as it forwards clips between the members of *)
(* one group (src/zsyncd.rs, Rooms::broadcast).                            *)
(*                                                                         *)
(* The tasks run on a multi-threaded runtime.  Hub holds no lock across a  *)
(* whole operation, so an operation is cut where it releases one lock      *)
(* (suppress, seen, state) or leaves the clipboard, and the pieces of      *)
(* different tasks interleave.                                             *)
(***************************************************************************)
EXTENDS Naturals, Sequences, SuppressRing

CONSTANTS
  Node,          \* the daemons
  Relay,         \* the relay server, an end of a link but not a daemon
  Link,          \* directed links: <<from, to>>; a session is a pair of them
  Oversize,      \* contents longer than MAX_CLIP
  Shown,         \* Shown[n][h]: what get() returns at n after set(h)
  Empty,         \* an empty clipboard
  BroadcastCap,  \* BROADCAST_CAP of hub.rs
  LeafCap,       \* capacity of the relay's channel to one member
  Env,           \* which environment events a run allows
  Writer,        \* the daemons whose users copy
  MaxCopies,     \* bound: copies by the users, all together
  MaxRestarts    \* bound: daemon restarts, all together

ASSUME NodeAssumption == Relay \notin Node
ASSUME LinkAssumption ==
  /\ Link \subseteq (Node \cup {Relay}) \X (Node \cup {Relay})
  /\ \A l \in Link : l[1] # l[2] /\ <<l[2], l[1]>> \in Link
ASSUME ContentAssumption ==
  /\ Empty \notin Hash
  /\ Oversize \subseteq Hash
  /\ Shown \in [Node -> [Hash -> Hash]]
ASSUME CapAssumption == BroadcastCap \in Nat \ {0} /\ LeafCap \in Nat
ASSUME BoundAssumption == MaxCopies \in Nat /\ MaxRestarts \in Nat

VARIABLES
  clip,      \* content of the clipboard of each node
  sup,       \* the suppress guard of each node
  seen,      \* SeenSeq: highest sequence accepted, per node and origin
  seq,       \* StateFile: the counter in memory
  disk,      \* StateFile: the counter in state.json
  wpc,       \* watcher: "idle", "debounce", "check", "add", "pack" or "emit"
  wlast,     \* watcher: `last'
  wclip,     \* watcher: the content it read, the clip being originated
  ppc,       \* IPC copy: "idle", "set", "stored", "pack" or "emit"
  pclip,     \* IPC copy: the clip being originated
  jpc,       \* apply_from on each link: "idle", "compare", "present", "absent",
             \* "set", "stored" or "emit"
  jclip,     \* the clip apply_from is working on
  rx,        \* broadcast receiver of the session that writes on a link
  net,       \* frames in flight on a link
  up,        \* links whose session is up
  issued,    \* history: every clip a hub ever packed
  copied,    \* history: contents the user of each node copied
  onboard,   \* history: last sequence per origin put on the clipboard
  found,     \* history: contents on the clipboard of each node at a restart
  lapsed,    \* history: an entry lapsed between a watcher's read and its lookup
  spent      \* bounds: copies and restarts so far

nodeVars  == <<clip, sup, seen, seq, disk>>
watchVars == <<wpc, wlast, wclip>>
pushVars  == <<ppc, pclip>>
jobVars   == <<jpc, jclip>>
wireVars  == <<rx, net, up>>
histVars  == <<issued, copied, onboard, found, lapsed>>
vars == <<nodeVars, watchVars, pushVars, jobVars, wireVars, histVars, spent>>

-----------------------------------------------------------------------------
(* Data *)

\* protocol::Clip, its bytes standing for their hash.
Clip == [origin : Node, seq : Nat, hash : Hash]

NoClip == [origin |-> Relay, seq |-> 0, hash |-> Empty]

\* hub::Outbound; skip is None (Relay, which is never an ingress) or a node.
Outbound == [clip : Clip, skip : Node \cup {Relay}]

NoSkip == Relay

Rev(l) == <<l[2], l[1]>>

\* The node id apply_from gets for a clip that arrives on l: the peer of a
\* direct session, the sealed sender on a relay session, and a relay session
\* only ever sends the sender's own clips (skip is None).
Ingress(l, c) == IF l[1] = Relay THEN c.origin ELSE l[1]

\* The session task that writes on l reads from Rev(l): it is free to do the
\* one only while it is not applying a clip that came in on the other.
Free(l) == jpc[Rev(l)] = "idle"

\* mutant: a forwarded clip gets the forwarder's name
EmittedAsOwn(n, c, skip) ==
  [l \in Link |->
     IF l[1] = n /\ l \in up
       THEN KeepLast(rx[l], [clip |-> [c EXCEPT !.origin = n], skip |-> skip], BroadcastCap)
       ELSE rx[l]]

\* Hub::emit: every subscribed session of n sees the clip; a receiver that
\* lags loses its oldest entries.
Emitted(n, c, skip) ==
  [l \in Link |->
     IF l[1] = n /\ l \in up
       THEN KeepLast(rx[l], [clip |-> c, skip |-> skip], BroadcastCap)
       ELSE rx[l]]

-----------------------------------------------------------------------------
(* The suppress guard, behind its own lock. *)

\* An entry the guard of n loses is about a content the watcher has read and
\* not yet looked up.
Lapses(n, g) ==
  wpc[n] = "check" /\ Has(sup[n], wclip[n].hash) /\ ~Has(g, wclip[n].hash)

\* The guard of n becomes g.
Suppressed(n, g) ==
  /\ sup' = [sup EXCEPT ![n] = g]
  /\ lapsed' = (lapsed \/ Lapses(n, g))

-----------------------------------------------------------------------------
(* StateFile::next_seq, as pack calls it.  The lock is held across the save,  *)
(* and the save replaces state.json by a rename.                              *)

\* mutants: never saved; the old value saved
NextSeqUnsaved(n) ==
  /\ seq' = [seq EXCEPT ![n] = @ + 1]
  /\ UNCHANGED disk

NextSeqLate(n) ==
  /\ seq' = [seq EXCEPT ![n] = @ + 1]
  /\ disk' = [disk EXCEPT ![n] = seq[n]]

NextSeq(n) ==
  /\ seq' = [seq EXCEPT ![n] = @ + 1]
  /\ disk' = [disk EXCEPT ![n] = seq[n] + 1]

\* The save fails: the counter in memory stays advanced.
NextSeqFails(n) ==
  /\ "savefail" \in Env
  /\ seq' = [seq EXCEPT ![n] = @ + 1]
  /\ UNCHANGED disk

\* connect and disconnect save the same file, the counter included.
SavePeers(n) ==
  /\ "peers" \in Env
  /\ disk' = [disk EXCEPT ![n] = seq[n]]
  /\ UNCHANGED <<clip, sup, seen, seq, watchVars, pushVars, jobVars, wireVars,
                 histVars, spent>>

-----------------------------------------------------------------------------
(* Environment *)

\* The copies a run explores: MaxCopies of them, of new contents unless it allows
\* "recopy", and by one user unless it allows "others".
MayCopy(n, h) ==
  /\ n \in Writer
  /\ spent.copies < MaxCopies
  /\ "others" \in Env \/ \A m \in Node \ {n} : copied[m] = {}
  /\ "recopy" \in Env \/ \A m \in Node : h \notin copied[m]
  /\ spent' = [spent EXCEPT !.copies = @ + 1]
  /\ copied' = [copied EXCEPT ![n] = @ \cup {h}]

\* A user, or any program, replaces the content of the clipboard.
UserCopy(n, h) ==
  /\ "copy" \in Env
  /\ MayCopy(n, h)
  /\ clip[n] # h
  /\ clip' = [clip EXCEPT ![n] = h]
  /\ UNCHANGED <<sup, seen, seq, disk, watchVars, pushVars, jobVars, wireVars,
                 issued, onboard, found, lapsed>>

\* Five seconds pass for one suppress entry.  While its hash is in the ring, too,
\* `has' answers the same without it: that entry expires no sooner than it leaves
\* the ring.  Bound: none expires after one did between a read and its lookup.
Expire(n, h) ==
  /\ "expire" \in Env /\ ~lapsed
  /\ h \in sup[n].fresh /\ ~Has(Expired(sup[n], h), h)
  /\ Suppressed(n, Expired(sup[n], h))
  /\ UNCHANGED <<clip, seen, seq, disk, watchVars, pushVars, jobVars, wireVars,
                 issued, copied, onboard, found, spent>>

-----------------------------------------------------------------------------
(* Watcher: poll, debounce, read again, Hub::local_observed *)

WatchPoll(n) ==
  /\ wpc[n] = "idle"
  /\ clip[n] \notin {Empty, wlast[n]}
  /\ wpc' = [wpc EXCEPT ![n] = "debounce"]
  /\ UNCHANGED <<nodeVars, wlast, wclip, pushVars, jobVars, wireVars, histVars,
                 spent>>

\* The clipboard went back to what the watcher saw last.
WatchSettle(n) ==
  /\ wpc[n] = "debounce"
  /\ clip[n] = wlast[n]
  /\ wpc' = [wpc EXCEPT ![n] = "idle"]
  /\ UNCHANGED <<nodeVars, wlast, wclip, pushVars, jobVars, wireVars, histVars,
                 spent>>

\* mutant: the content that is not sent is not remembered as seen
ReadForgets(n) ==
  /\ wpc[n] = "debounce"
  /\ clip[n] \notin {wlast[n]} \cup Oversize
  /\ wpc' = [wpc EXCEPT ![n] = "check"]
  /\ wclip' = [wclip EXCEPT ![n] = [origin |-> n, seq |-> 0, hash |-> clip[n]]]
  /\ UNCHANGED <<nodeVars, wlast, pushVars, jobVars, wireVars, histVars, spent>>

\* The second backend.get: what it returns is `last' from now on, and what is
\* looked up next, whatever the clipboard holds by then.
WatchRead(n) ==
  /\ wpc[n] = "debounce"
  /\ clip[n] \notin {wlast[n]} \cup Oversize
  /\ wpc' = [wpc EXCEPT ![n] = "check"]
  /\ wlast' = [wlast EXCEPT ![n] = clip[n]]
  /\ wclip' = [wclip EXCEPT ![n] = [origin |-> n, seq |-> 0, hash |-> clip[n]]]
  /\ UNCHANGED <<nodeVars, pushVars, jobVars, wireVars, histVars, spent>>

\* The same for a content that is too large: local_observed looks no further.
WatchOversize(n) ==
  /\ wpc[n] = "debounce"
  /\ clip[n] # wlast[n] /\ clip[n] \in Oversize
  /\ wpc' = [wpc EXCEPT ![n] = "idle"]
  /\ wlast' = [wlast EXCEPT ![n] = clip[n]]
  /\ UNCHANGED <<nodeVars, wclip, pushVars, jobVars, wireVars, histVars, spent>>

\* suppress.has: local_observed returns None.
WatchDrop(n) ==
  /\ wpc[n] = "check"
  /\ Has(sup[n], wclip[n].hash)
  /\ wpc' = [wpc EXCEPT ![n] = "idle"]
  /\ wclip' = [wclip EXCEPT ![n] = NoClip]
  /\ UNCHANGED <<nodeVars, wlast, pushVars, jobVars, wireVars, histVars, spent>>

\* suppress.has says no; its lock is released before the next one is taken.
WatchPass(n) ==
  /\ wpc[n] = "check"
  /\ ~Has(sup[n], wclip[n].hash)
  /\ wpc' = [wpc EXCEPT ![n] = "add"]
  /\ UNCHANGED <<nodeVars, wlast, wclip, pushVars, jobVars, wireVars, histVars,
                 spent>>

\* suppress.add
WatchAdd(n) ==
  /\ wpc[n] = "add"
  /\ Suppressed(n, Add(sup[n], wclip[n].hash))
  /\ wpc' = [wpc EXCEPT ![n] = "pack"]
  /\ UNCHANGED <<clip, seen, seq, disk, wlast, wclip, pushVars, jobVars, wireVars,
                 issued, copied, onboard, found, spent>>

WatchPack(n) ==
  /\ wpc[n] = "pack"
  /\ NextSeq(n)
  /\ wpc' = [wpc EXCEPT ![n] = "emit"]
  /\ wclip' = [wclip EXCEPT ![n].seq = seq[n] + 1]
  /\ issued' = issued \cup {wclip'[n]}
  /\ UNCHANGED <<clip, sup, seen, wlast, pushVars, jobVars, wireVars, copied,
                 onboard, found, lapsed, spent>>

WatchPackFails(n) ==
  /\ wpc[n] = "pack"
  /\ NextSeqFails(n)
  /\ wpc' = [wpc EXCEPT ![n] = "idle"]
  /\ wclip' = [wclip EXCEPT ![n] = NoClip]
  /\ UNCHANGED <<clip, sup, seen, wlast, pushVars, jobVars, wireVars, histVars,
                 spent>>

WatchEmit(n) ==
  /\ wpc[n] = "emit"
  /\ rx' = Emitted(n, wclip[n], NoSkip)
  /\ wpc' = [wpc EXCEPT ![n] = "idle"]
  /\ wclip' = [wclip EXCEPT ![n] = NoClip]
  /\ UNCHANGED <<nodeVars, wlast, pushVars, jobVars, net, up, histVars, spent>>

-----------------------------------------------------------------------------
(* `zsync copy': Hub::local_push.  An oversize payload is refused at once. *)

PushStart(n, h) ==
  /\ "push" \in Env
  /\ ppc[n] = "idle"
  /\ h \notin Oversize
  /\ MayCopy(n, h)
  /\ Suppressed(n, Add(sup[n], h))
  /\ ppc' = [ppc EXCEPT ![n] = "set"]
  /\ pclip' = [pclip EXCEPT ![n] = [origin |-> n, seq |-> 0, hash |-> h]]
  /\ UNCHANGED <<clip, seen, seq, disk, watchVars, jobVars, wireVars, issued,
                 onboard, found>>

PushSet(n) ==
  /\ ppc[n] = "set"
  /\ clip' = [clip EXCEPT ![n] = Shown[n][pclip[n].hash]]
  /\ ppc' = [ppc EXCEPT ![n] = "stored"]
  /\ UNCHANGED <<sup, seen, seq, disk, watchVars, pclip, jobVars, wireVars, histVars,
                 spent>>

PushSetFails(n) ==
  /\ "setfail" \in Env
  /\ ppc[n] = "set"
  /\ ppc' = [ppc EXCEPT ![n] = "idle"]
  /\ pclip' = [pclip EXCEPT ![n] = NoClip]
  /\ UNCHANGED <<nodeVars, watchVars, jobVars, wireVars, histVars, spent>>

\* suppress.add(stored.hash).  set() hands back the item it was given: the hash
\* added now is the same one, whatever get() will return.
PushStored(n) ==
  /\ ppc[n] = "stored"
  /\ Suppressed(n, Add(sup[n], pclip[n].hash))
  /\ ppc' = [ppc EXCEPT ![n] = "pack"]
  /\ UNCHANGED <<clip, seen, seq, disk, watchVars, pclip, jobVars, wireVars, issued,
                 copied, onboard, found, spent>>

PushPack(n) ==
  /\ ppc[n] = "pack"
  /\ NextSeq(n)
  /\ ppc' = [ppc EXCEPT ![n] = "emit"]
  /\ pclip' = [pclip EXCEPT ![n].seq = seq[n] + 1]
  /\ issued' = issued \cup {pclip'[n]}
  /\ UNCHANGED <<clip, sup, seen, watchVars, jobVars, wireVars, copied, onboard,
                 found, lapsed, spent>>

PushPackFails(n) ==
  /\ ppc[n] = "pack"
  /\ NextSeqFails(n)
  /\ ppc' = [ppc EXCEPT ![n] = "idle"]
  /\ pclip' = [pclip EXCEPT ![n] = NoClip]
  /\ UNCHANGED <<clip, sup, seen, watchVars, jobVars, wireVars, histVars, spent>>

PushEmit(n) ==
  /\ ppc[n] = "emit"
  /\ rx' = Emitted(n, pclip[n], NoSkip)
  /\ ppc' = [ppc EXCEPT ![n] = "idle"]
  /\ pclip' = [pclip EXCEPT ![n] = NoClip]
  /\ UNCHANGED <<nodeVars, watchVars, jobVars, net, up, histVars, spent>>

-----------------------------------------------------------------------------
(* Sessions: the rx.recv() arm *)

\* A direct session keeps a clip from the peer it came from; a relay session
\* forwards nothing that came in from another peer.
\* (mutant: a direct session forwards nothing)
SkipsForwarded(l, out) == out.skip # NoSkip

Skips(l, out) ==
  IF l[2] = Relay THEN out.skip # NoSkip ELSE out.skip = l[2]

Forward(l) ==
  /\ l \in up /\ l[1] \in Node
  /\ Free(l)
  /\ rx[l] # << >>
  /\ rx' = [rx EXCEPT ![l] = Tail(@)]
  /\ net' = IF Skips(l, Head(rx[l])) THEN net
            ELSE [net EXCEPT ![l] = Append(@, Head(rx[l]).clip)]
  /\ UNCHANGED <<nodeVars, watchVars, pushVars, jobVars, up, histVars, spent>>

\* mutant: the relay sends a frame back to its sender too
ToMember(l, k) == k[1] = Relay

ToOthers(l, k) == k[1] = Relay /\ k[2] # l[1]

\* The relay copies a member's frame to every other member whose channel has
\* room (try_send); a full channel loses the new frame.
RelayBroadcast(l) ==
  /\ l \in up /\ l[2] = Relay
  /\ net[l] # << >>
  /\ net' = [k \in Link |->
               IF k = l THEN Tail(net[l])
               ELSE IF ToOthers(l, k) /\ k \in up /\ Len(net[k]) < LeafCap
                    THEN Append(net[k], Head(net[l]))
               ELSE net[k]]
  /\ UNCHANGED <<nodeVars, watchVars, pushVars, jobVars, rx, up, histVars, spent>>

-----------------------------------------------------------------------------
(* Sessions: the read_frame arm, Hub::apply_from *)

\* Not its own clip, and SeenSeq::accept says it is new.  (mutant: accept
\* takes every number.)
AcceptsAll(n, c) == c.origin # n

Accepts(n, c) == c.origin # n /\ c.seq > seen[n][c.origin]

\* A frame the hub does not apply: its own clip come back ("own-origin"), or a
\* "duplicate".  Both acks are ok, so both are emitted again.
ApplyKnown(l) ==
  /\ l \in up /\ l[2] \in Node
  /\ jpc[l] = "idle" /\ net[l] # << >>
  /\ ~Accepts(l[2], Head(net[l]))
  /\ net' = [net EXCEPT ![l] = Tail(@)]
  /\ jpc' = [jpc EXCEPT ![l] = "emit"]
  /\ jclip' = [jclip EXCEPT ![l] = Head(net[l])]
  /\ UNCHANGED <<nodeVars, watchVars, pushVars, rx, up, histVars, spent>>

\* seen.accept
ApplyAccept(l) ==
  /\ l \in up /\ l[2] \in Node
  /\ jpc[l] = "idle" /\ net[l] # << >>
  /\ Accepts(l[2], Head(net[l]))
  /\ seen' = [seen EXCEPT ![l[2]][Head(net[l]).origin] = Head(net[l]).seq]
  /\ net' = [net EXCEPT ![l] = Tail(@)]
  /\ jpc' = [jpc EXCEPT ![l] = "compare"]
  /\ jclip' = [jclip EXCEPT ![l] = Head(net[l])]
  /\ UNCHANGED <<clip, sup, seq, disk, watchVars, pushVars, rx, up, histVars, spent>>

\* clipboard.get: the content is there already, or it is not.
ApplyCompare(l) ==
  /\ jpc[l] = "compare"
  /\ jpc' = [jpc EXCEPT ![l] = IF clip[l[2]] = jclip[l].hash THEN "present" ELSE "absent"]
  /\ UNCHANGED <<nodeVars, watchVars, pushVars, jclip, wireVars, histVars, spent>>

\* mutant: what is about to be set is suppressed only once it is stored
SuppressLate(l) ==
  /\ jpc[l] \in {"present", "absent"}
  /\ jpc' = [jpc EXCEPT ![l] = IF jpc[l] = "present" THEN "emit" ELSE "set"]
  /\ UNCHANGED <<nodeVars, watchVars, pushVars, jclip, wireVars, histVars, spent>>

\* suppress.add either way: "already-present", or go on to set.
ApplySuppress(l) ==
  /\ jpc[l] \in {"present", "absent"}
  /\ Suppressed(l[2], Add(sup[l[2]], jclip[l].hash))
  /\ jpc' = [jpc EXCEPT ![l] = IF jpc[l] = "present" THEN "emit" ELSE "set"]
  /\ UNCHANGED <<clip, seen, seq, disk, watchVars, pushVars, jclip, wireVars, issued,
                 copied, onboard, found, spent>>

ApplySet(l) ==
  LET n == l[2] IN
  /\ jpc[l] = "set"
  /\ clip' = [clip EXCEPT ![n] = Shown[n][jclip[l].hash]]
  /\ jpc' = [jpc EXCEPT ![l] = "stored"]
  /\ onboard' = [onboard EXCEPT ![n][jclip[l].origin] = jclip[l].seq]
  /\ UNCHANGED <<sup, seen, seq, disk, watchVars, pushVars, jclip, wireVars, issued,
                 copied, found, lapsed, spent>>

\* Both directions of a session end together; whatever was queued or in
\* flight on them is gone.
Closed(l) == {l, Rev(l)}

Cleared(q, L) == [k \in Link |-> IF k \in L THEN << >> ELSE q[k]]

\* An error of set leaves apply_from and the session by `?'.
ApplySetFails(l) ==
  /\ "setfail" \in Env
  /\ jpc[l] = "set"
  /\ jpc' = [jpc EXCEPT ![l] = "idle"]
  /\ jclip' = [jclip EXCEPT ![l] = NoClip]
  /\ rx' = Cleared(rx, Closed(l))
  /\ net' = Cleared(net, Closed(l))
  /\ up' = up \ Closed(l)
  /\ UNCHANGED <<nodeVars, watchVars, pushVars, histVars, spent>>

\* suppress.add(stored.hash), again the hash that was set.
ApplyStored(l) ==
  /\ jpc[l] = "stored"
  /\ Suppressed(l[2], Add(sup[l[2]], jclip[l].hash))
  /\ jpc' = [jpc EXCEPT ![l] = "emit"]
  /\ UNCHANGED <<clip, seen, seq, disk, watchVars, pushVars, jclip, wireVars, issued,
                 copied, onboard, found, spent>>

ApplyEmit(l) ==
  /\ jpc[l] = "emit"
  /\ rx' = Emitted(l[2], jclip[l], Ingress(l, jclip[l]))
  /\ jpc' = [jpc EXCEPT ![l] = "idle"]
  /\ jclip' = [jclip EXCEPT ![l] = NoClip]
  /\ UNCHANGED <<nodeVars, watchVars, pushVars, net, up, histVars, spent>>

-----------------------------------------------------------------------------
(* Sessions and daemons go down and come back *)

\* The connection is lost.  An apply in progress is synchronous and finishes.
Drop(l) ==
  /\ "drop" \in Env
  /\ l \in up
  /\ rx' = Cleared(rx, Closed(l))
  /\ net' = Cleared(net, Closed(l))
  /\ up' = up \ Closed(l)
  /\ UNCHANGED <<nodeVars, watchVars, pushVars, jobVars, histVars, spent>>

\* maintain_tcp and maintain_relay dial again once the old session has
\* returned; the new session subscribes from now on.
Reconnect(l) ==
  /\ l \notin up
  /\ jpc[l] = "idle" /\ jpc[Rev(l)] = "idle"
  /\ up' = up \cup Closed(l)
  /\ UNCHANGED <<nodeVars, watchVars, pushVars, jobVars, rx, net, histVars, spent>>

\* The daemon of n stops, in the middle of anything, and starts again: the
\* counter is read back from state.json, everything else starts empty.
Restart(n) ==
  LET mine == {l \in Link : n \in {l[1], l[2]}} IN
  /\ "restart" \in Env
  /\ spent.restarts < MaxRestarts
  /\ spent' = [spent EXCEPT !.restarts = @ + 1]
  /\ seq' = [seq EXCEPT ![n] = disk[n]]
  /\ sup' = [sup EXCEPT ![n] = EmptyGuard]
  /\ seen' = [seen EXCEPT ![n] = [o \in Node |-> 0]]
  /\ wpc' = [wpc EXCEPT ![n] = "idle"]
  /\ wlast' = [wlast EXCEPT ![n] = Empty]
  /\ wclip' = [wclip EXCEPT ![n] = NoClip]
  /\ ppc' = [ppc EXCEPT ![n] = "idle"]
  /\ pclip' = [pclip EXCEPT ![n] = NoClip]
  /\ jpc' = [l \in Link |-> IF l[2] = n THEN "idle" ELSE jpc[l]]
  /\ jclip' = [l \in Link |-> IF l[2] = n THEN NoClip ELSE jclip[l]]
  /\ rx' = Cleared(rx, mine)
  /\ net' = Cleared(net, mine)
  /\ up' = up \ mine
  /\ onboard' = [onboard EXCEPT ![n] = [o \in Node |-> 0]]
  /\ found' = [found EXCEPT ![n] = @ \cup {clip[n]}]
  /\ UNCHANGED <<clip, disk, issued, copied, lapsed>>

-----------------------------------------------------------------------------
Init ==
  /\ clip = [n \in Node |-> Empty]
  /\ sup = [n \in Node |-> EmptyGuard]
  /\ seen = [n \in Node |-> [o \in Node |-> 0]]
  /\ seq = [n \in Node |-> 0]
  /\ disk = [n \in Node |-> 0]
  /\ wpc = [n \in Node |-> "idle"]
  /\ wlast = [n \in Node |-> Empty]
  /\ wclip = [n \in Node |-> NoClip]
  /\ ppc = [n \in Node |-> "idle"]
  /\ pclip = [n \in Node |-> NoClip]
  /\ jpc = [l \in Link |-> "idle"]
  /\ jclip = [l \in Link |-> NoClip]
  /\ rx = [l \in Link |-> << >>]
  /\ net = [l \in Link |-> << >>]
  /\ up = Link
  /\ issued = {}
  /\ copied = [n \in Node |-> {}]
  /\ onboard = [n \in Node |-> [o \in Node |-> 0]]
  /\ found = [n \in Node |-> {}]
  /\ lapsed = FALSE
  /\ spent = [copies |-> 0, restarts |-> 0]

\* One action per task: the tasks take turns, each runs its own steps in order.
Watcher(n) ==
  \/ WatchPoll(n) \/ WatchSettle(n) \/ WatchRead(n) \/ WatchOversize(n)
  \/ WatchDrop(n) \/ WatchPass(n) \/ WatchAdd(n)
  \/ WatchPack(n) \/ WatchPackFails(n) \/ WatchEmit(n)

Push(n) ==
  \/ PushSet(n) \/ PushSetFails(n) \/ PushStored(n)
  \/ PushPack(n) \/ PushPackFails(n) \/ PushEmit(n)

Apply(l) ==
  \/ ApplyKnown(l) \/ ApplyAccept(l) \/ ApplyCompare(l) \/ ApplySuppress(l)
  \/ ApplySet(l) \/ ApplySetFails(l) \/ ApplyStored(l) \/ ApplyEmit(l)

User(n, h) == UserCopy(n, h) \/ PushStart(n, h) \/ Expire(n, h)

Next ==
  \/ \E n \in Node : Watcher(n) \/ Push(n) \/ Restart(n) \/ SavePeers(n)
  \/ \E n \in Node, h \in Hash : User(n, h)
  \/ \E l \in Link : Forward(l) \/ RelayBroadcast(l) \/ Apply(l) \/ Reconnect(l) \/ Drop(l)

Spec == Init /\ [][Next]_vars

\* The runtime schedules every task that can go on, the watcher's timers fire
\* and the maintain loops dial for ever.  The arms of a session's select! are
\* polled in random order, so an arm that is ready again and again is taken.
\* Nothing is assumed of users, failures, restarts or the network.
Fairness ==
  /\ \A n \in Node : WF_vars(Watcher(n)) /\ WF_vars(Push(n))
  /\ \A l \in Link : WF_vars(Reconnect(l))
  /\ \A l \in {k \in Link : k[1] \in Node} : SF_vars(Forward(l))
  /\ \A l \in {k \in Link : k[2] \in Node} : WF_vars(Apply(l))
  /\ \A l \in {k \in Link : k[2] = Relay} : WF_vars(RelayBroadcast(l))

FairSpec == Spec /\ Fairness

-----------------------------------------------------------------------------
(* Properties *)

Pc(S) == S \cup {"idle", "emit"}

\* Type invariant; the two bounded buffers keep to their capacity.
TypeOK ==
  /\ clip \in [Node -> Hash \cup {Empty}]
  /\ sup \in [Node -> Guard]
  /\ seen \in [Node -> [Node -> Nat]]
  /\ seq \in [Node -> Nat]
  /\ disk \in [Node -> Nat]
  /\ wpc \in [Node -> Pc({"debounce", "check", "add", "pack"})]
  /\ wlast \in [Node -> Hash \cup {Empty}]
  /\ wclip \in [Node -> Clip \cup {NoClip}]
  /\ ppc \in [Node -> Pc({"set", "stored", "pack"})]
  /\ pclip \in [Node -> Clip \cup {NoClip}]
  /\ jpc \in [Link -> Pc({"compare", "present", "absent", "set", "stored"})]
  /\ jclip \in [Link -> Clip \cup {NoClip}]
  /\ rx \in [Link -> Seq(Outbound)]
  /\ net \in [Link -> Seq(Clip)]
  /\ up \in SUBSET Link
  /\ issued \in SUBSET Clip
  /\ copied \in [Node -> SUBSET Hash]
  /\ onboard \in [Node -> [Node -> Nat]]
  /\ found \in [Node -> SUBSET (Hash \cup {Empty})]
  /\ lapsed \in BOOLEAN
  /\ spent \in [copies : Nat, restarts : Nat]
  /\ \A n \in Node : Len(sup[n].ring) <= RingMax
  /\ \A l \in Link : Len(rx[l]) <= BroadcastCap

\* A sequence number names one clip: two clips packed by one origin with the
\* same number are the same clip, also across failed saves and restarts of the
\* origin (StateFile::next_seq persists before the clip exists).
UniqueSeq ==
  \A c, d \in issued : c.origin = d.origin /\ c.seq = d.seq => c = d

\* No hub has accepted a number above the one its origin has on disk, so the
\* first clip of a restarted origin is never taken for a replay.
RestartIsNotReplay ==
  \A n, o \in Node : seen[n][o] <= disk[o] /\ disk[o] <= seq[o]

\* What a hub queues, sends or applies is a clip its origin packed: forwarding
\* keeps origin, number and content together.
OnlyIssued ==
  \A l \in Link :
    /\ \A i \in DOMAIN rx[l] : rx[l][i].clip \in issued
    /\ \A i \in DOMAIN net[l] : net[l][i] \in issued
    /\ jpc[l] # "idle" => jclip[l] \in issued

\* What the clipboard of n shows in place of something it was given.
Altered(n) == {Shown[n][h] : h \in {k \in Hash : Shown[n][k] # k}}

\* What a daemon may originate: what its own user copied, what it found on the
\* clipboard at a restart, and what its clipboard made of something else.
Sources(n) == copied[n] \cup found[n] \cup Altered(n)

\* No daemon originates anything else: a content it wrote itself, for a remote clip
\* or for `zsync copy', is never packed as a new clip.  The exception is an entry
\* of the guard that lapsed after the watcher read the content it is about and
\* before the watcher looked it up.
NoEcho == lapsed \/ \A c \in issued : c.hash \in Sources(c.origin)

\* No frame travels towards the daemon that originated it (`skip').
NoReturn ==
  \A l \in Link : \A i \in DOMAIN net[l] : net[l][i].origin # l[2]

\* A running daemon never replaces a clip on its clipboard by an older clip of
\* the same origin.
NewestWins ==
  [][\A n, o \in Node : spent'.restarts = spent.restarts => onboard'[n][o] >= onboard[n][o]]_vars

\* The hubs deliver clips in the order of their numbers, each at most once and
\* to daemons other than its origin: Hub implements ClipDelivery.
Delivery == INSTANCE ClipDelivery WITH last <- onboard, board <- clip

Implements == Delivery!Spec

\* Every task waits and nothing is in flight.
Quiet ==
  /\ \A n \in Node : wpc[n] = "idle" /\ ppc[n] = "idle" /\ clip[n] \in {Empty, wlast[n]}
  /\ \A l \in Link : jpc[l] = "idle" /\ rx[l] = << >> /\ net[l] = << >>
  /\ up = Link

\* A clip that came in on l may go on along k: through a daemon, but not back
\* and not to the relay, or through the relay.
Onward(l, k) == l[2] = k[1] /\ k[2] \notin {l[1], Relay}

\* The clips of w come to n: on links of which one starts at w, and each ends at
\* n or goes on.
Reached(w, n) ==
  \E Q \in SUBSET Link :
    /\ \E l \in Q : l[1] = w
    /\ \A l \in Q : l[2] = n \/ \E k \in Q : Onward(l, k)

\* When everything has come to rest and one user has copied, the daemons the
\* clips of that one come to hold its clipboard, and the others, as a relay group
\* behind a direct session, hold nothing.
Agreement ==
  Quiet /\ ~lapsed =>
    \A w \in Node :
      copied[w] # {} /\ (\A n \in Node \ {w} : copied[n] = {}) =>
        \A n \in Node : clip[n] = IF n = w \/ Reached(w, n) THEN clip[w] ELSE Empty

\* Once the users stop copying, the network comes to rest: no clip circulates
\* and no echo answers an echo.
Settles == <>[]Quiet
=============================================================================
