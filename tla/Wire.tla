-------------------------------- MODULE Wire --------------------------------
(***************************************************************************)
(* One session, down to the pieces of its frames: the select! loop of      *)
(* framed_loop (src/daemon.rs) at both ends of a stream with bounded       *)
(* buffers, and read_frame and write_frame of src/protocol.rs.  The loop   *)
(* of run_relay_session has the same arms without the acknowledgements.    *)
(*                                                                         *)
(* A frame is a header piece and some payload pieces.  When select! takes  *)
(* another arm it drops the read in progress with the pieces it has taken  *)
(* from the stream; while an arm writes, nothing is read.                  *)
(***************************************************************************)
EXTENDS Naturals, Sequences

CONSTANTS
  End,        \* the two ends of the session
  Clip,       \* clips the hubs at the two ends emit
  From,       \* the end that emits each clip
  Size,       \* payload pieces of the frame of each clip
  Skipped,    \* clips that came from the peer, which are not sent back to it
  Buf,        \* pieces the buffers between the ends hold, in each direction
  Env,        \* what else a run allows
  MaxPings    \* bound: pings of each end

ASSUME WireAssumption ==
  /\ \E a, b \in End : a # b /\ End = {a, b}
  /\ Size \in [Clip -> Nat] /\ From \in [Clip -> End]
  /\ Buf \in Nat \ {0} /\ MaxPings \in Nat

VARIABLES
  arm,     \* select!, an arm that writes, or how the loop has ended
  out,     \* what is left of the frame being written
  part,    \* what the read in progress has taken from the stream
  pipe,    \* the stream towards each end
  rx,      \* the broadcast receiver of each end, a set while nothing is sent
  pings,   \* bound: pings so far
  sent,    \* history: clips each end has begun to write
  got      \* history: clips each end has handed to its hub

vars == <<arm, out, part, pipe, rx, pings, sent, got>>

Other(e) == CHOOSE o \in End : o # e

\* The pieces of a frame; all but clips are short.
Frame == [type : {"clip"}, clip : Clip] \cup [type : {"ack", "ping", "pong", "bye"}]
Short(type) == [type |-> type]
Piece == [frame : Frame, at : Nat]
Pieces(f) == [i \in 1 .. (IF f.type = "clip" THEN Size[f.clip] ELSE 0) + 1 |->
                [frame |-> f, at |-> i - 1]]

\* The loop has returned and its ends of the stream are closed.
Over(e) == arm[e] \in {"closed", "broken"}

-----------------------------------------------------------------------------
(* read_frame *)

\* mutant: what cannot be a header is skipped
SkipsBad(e) == part' = part /\ UNCHANGED arm

\* BadMagic is an error of the session.
RefusesBad(e) == arm' = [arm EXCEPT ![e] = "broken"] /\ UNCHANGED part

\* The header of a frame is expected and a piece of a payload is there: what is
\* left of a frame whose read was dropped.
ReadBad(e) ==
  /\ arm[e] = "select"
  /\ pipe[e] # << >> /\ part[e] = << >> /\ Head(pipe[e]).at # 0
  /\ RefusesBad(e)
  /\ pipe' = [pipe EXCEPT ![e] = Tail(@)]
  /\ UNCHANGED <<out, rx, pings, sent, got>>

\* read_exact takes the next piece of the frame.
Takes(e) ==
  /\ arm[e] = "select"
  /\ pipe[e] # << >>
  /\ part[e] # << >> \/ Head(pipe[e]).at = 0
  /\ pipe' = [pipe EXCEPT ![e] = Tail(@)]

\* The piece is the last one of its frame.
Completes(e) == Len(Pieces(Head(pipe[e]).frame)) = Len(part[e]) + 1

ReadPart(e) ==
  /\ Takes(e)
  /\ ~Completes(e)
  /\ part' = [part EXCEPT ![e] = Append(@, Head(pipe[e]))]
  /\ UNCHANGED <<arm, out, rx, pings, sent, got>>

\* write_frame: the arm does nothing else until the whole frame is in the buffers.
Writes(e, f, how) ==
  /\ arm' = [arm EXCEPT ![e] = how]
  /\ out' = [out EXCEPT ![e] = Pieces(f)]

\* A clip goes to the hub, which takes it and is acknowledged, or fails and ends
\* the session.
ReadClip(e) ==
  LET f == Head(pipe[e]).frame IN
  /\ Takes(e) /\ Completes(e) /\ f.type = "clip"
  /\ part' = [part EXCEPT ![e] = << >>]
  /\ got' = [got EXCEPT ![e] = Append(@, f.clip)]
  /\ \/ Writes(e, Short("ack"), "write")
     \/ "setfail" \in Env /\ arm' = [arm EXCEPT ![e] = "closed"] /\ UNCHANGED out
  /\ UNCHANGED <<rx, pings, sent>>

ReadShort(e) ==
  LET type == Head(pipe[e]).frame.type IN
  /\ Takes(e) /\ Completes(e) /\ type # "clip"
  /\ part' = [part EXCEPT ![e] = << >>]
  /\ \/ type = "ping" /\ Writes(e, Short("pong"), "write")
     \/ type \in {"pong", "ack"} /\ UNCHANGED <<arm, out>>
     \/ type = "bye" /\ arm' = [arm EXCEPT ![e] = "closed"] /\ UNCHANGED out
  /\ UNCHANGED <<rx, pings, sent, got>>

\* The end of the stream, or a reset by an end that had not read everything.
ReadEnd(e) ==
  /\ arm[e] = "select"
  /\ Over(Other(e))
  /\ arm' = [arm EXCEPT ![e] = "closed"]
  /\ UNCHANGED <<out, part, pipe, rx, pings, sent, got>>

-----------------------------------------------------------------------------
(* The other arms.  Each of them drops the read in progress. *)

DropRead(e) == part' = [part EXCEPT ![e] = << >>]

\* rx.recv(): the hub emitted a clip.
Recv(e, c) ==
  /\ arm[e] = "select"
  /\ c \in rx[e]
  /\ rx' = [rx EXCEPT ![e] = @ \ {c}]
  /\ DropRead(e)
  /\ IF c \in Skipped
       THEN UNCHANGED <<arm, out, sent>>
       ELSE /\ Writes(e, [type |-> "clip", clip |-> c], "write")
            /\ sent' = [sent EXCEPT ![e] = Append(@, c)]
  /\ UNCHANGED <<pipe, pings, got>>

\* ping.tick(), for the first time at once.
Tick(e) ==
  /\ arm[e] = "select"
  /\ pings[e] < MaxPings
  /\ pings' = [pings EXCEPT ![e] = @ + 1]
  /\ DropRead(e)
  /\ Writes(e, Short("ping"), "write")
  /\ UNCHANGED <<pipe, rx, sent, got>>

\* stop.changed(): say Bye and leave.
Stop(e) ==
  /\ "stop" \in Env
  /\ arm[e] = "select"
  /\ DropRead(e)
  /\ Writes(e, Short("bye"), "bye")
  /\ UNCHANGED <<pipe, rx, pings, sent, got>>

-----------------------------------------------------------------------------
(* write_all *)

\* mutant: the buffers hold everything
Always(e) == TRUE

Room(e) == Len(pipe[Other(e)]) < Buf

WritePiece(e) ==
  /\ arm[e] \in {"write", "bye"}
  /\ ~Over(Other(e)) /\ Room(e)
  /\ pipe' = [pipe EXCEPT ![Other(e)] = Append(@, Head(out[e]))]
  /\ out' = [out EXCEPT ![e] = Tail(@)]
  /\ arm' = IF Len(out[e]) > 1 THEN arm
            ELSE [arm EXCEPT ![e] = IF @ = "bye" THEN "closed" ELSE "select"]
  /\ UNCHANGED <<part, rx, pings, sent, got>>

\* mutant: an end waits for a peer that is gone
NeverFails(e) == FALSE /\ UNCHANGED vars

WriteFails(e) ==
  /\ arm[e] \in {"write", "bye"}
  /\ Over(Other(e))
  /\ arm' = [arm EXCEPT ![e] = "closed"]
  /\ UNCHANGED <<out, part, pipe, rx, pings, sent, got>>

-----------------------------------------------------------------------------
Init ==
  /\ arm = [e \in End |-> "select"]
  /\ out = [e \in End |-> << >>]
  /\ part = [e \in End |-> << >>]
  /\ pipe = [e \in End |-> << >>]
  /\ rx = [e \in End |-> {c \in Clip : From[c] = e}]
  /\ pings = [e \in End |-> 0]
  /\ sent = [e \in End |-> << >>]
  /\ got = [e \in End |-> << >>]

Read(e) == ReadBad(e) \/ ReadPart(e) \/ ReadClip(e) \/ ReadShort(e) \/ ReadEnd(e)

Loop(e) ==
  \/ Read(e) \/ Tick(e) \/ WritePiece(e) \/ WriteFails(e)
  \/ \E c \in Clip : Recv(e, c)

Next == \E e \in End : Loop(e) \/ Stop(e)

Spec == Init /\ [][Next]_vars

\* The runtime polls a session whose stream or channel is ready.
Fairness == \A e \in End : WF_vars(Loop(e))

FairSpec == Spec /\ Fairness

-----------------------------------------------------------------------------
(* Properties *)

\* Type invariant; the buffers keep to their size, and a frame is being written
\* just while an arm writes.
TypeOK ==
  /\ arm \in [End -> {"select", "write", "bye", "closed", "broken"}]
  /\ out \in [End -> Seq(Piece)]
  /\ part \in [End -> Seq(Piece)]
  /\ pipe \in [End -> Seq(Piece)]
  /\ rx \in [End -> SUBSET Clip]
  /\ pings \in [End -> 0 .. MaxPings]
  /\ sent \in [End -> Seq(Clip)] /\ got \in [End -> Seq(Clip)]
  /\ \A e \in End : Len(pipe[e]) <= Buf
  /\ \A e \in End : arm[e] \in {"write", "bye"} => out[e] # << >>

\* The session is a Stream in each direction: whatever a dropped read leaves
\* behind, no clip is delivered twice, in pieces, or after one that was lost.
Streams == INSTANCE Stream WITH
  Dir <- End,
  sent <- [e \in End |-> sent[Other(e)]],
  open <- [e \in End |-> ~Over(e)]
Implements == Streams!Spec

\* Both ends write, neither reads, and neither has room.
Wedged == \A e \in End : arm[e] \in {"write", "bye"} /\ ~Room(e)

\* A clip that was sent arrives, or the session ends and the daemons dial again;
\* the only way to wait for ever is that both ends do nothing but write.
OnlyWedgesStall ==
  \A e \in End : []<>(got[e] = sent[Other(e)] \/ Over(e) \/ Wedged)

\* Frames arrive as they were sent: no end takes a piece of a payload for a header.
Unbroken == \A e \in End : arm[e] # "broken"
=============================================================================
