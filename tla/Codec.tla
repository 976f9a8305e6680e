------------------------------- MODULE Codec --------------------------------
(***************************************************************************)
(* The lengths in a clip's frame: encode_clip_body, encode_frame,          *)
(* read_frame and decode_clip of src/protocol.rs, and the envelope of      *)
(* seal and open in src/group.rs that goes around the body on the relay    *)
(* path, in the frames of src/relay.rs.  Three limits, two length fields   *)
(* of fixed width and an overhead have to agree with each other.           *)
(***************************************************************************)
EXTENDS Integers

MaxClip  == 10 * 1024 * 1024
MaxFrame == MaxClip + 64 * 1024
MaxMeta  == 16 * 1024

\* to_be_bytes of a length cast to u16 or u32
U16(n) == n % 65536
U32(n) == n % (65536 * 65536)

-----------------------------------------------------------------------------
(* Sending: a clip of data bytes with meta bytes of JSON *)

\* encode_clip_body does not return an error.
Encodes(meta, data) == data <= MaxClip /\ meta <= MaxMeta
Body(meta, data) == 2 + meta + data

\* Version, sender, counter, nonce; and the authentication tag.
Before == 1 + 16 + 8 + 24
Tag    == 16
Envelope(body) == Before + body + Tag

\* encode_frame, and write_frame of relay.rs, do not return an error.
Frames(payload) == payload <= MaxFrame
RelayFrames(payload) == payload <= MaxFrame

-----------------------------------------------------------------------------
(* Receiving *)

\* read_frame takes a payload of so many bytes after a header with this length.
Reads(field, payload) == field <= MaxFrame /\ field = payload
RelayReads(field, payload) == field <= MaxFrame /\ field = payload

\* open finds a whole envelope, and this many bytes of plaintext in it.
Opens(envelope, body) == envelope >= Before + Tag /\ body = envelope - Before - Tag

\* decode_clip does not return an error; size is the one in the JSON.
Decodes(field, body, size) ==
  /\ body >= 2
  /\ field # 0 /\ field <= MaxMeta /\ 2 + field <= body
  /\ size = body - 2 - field
  /\ size <= MaxClip

=============================================================================
