----------------------------- MODULE WireProofs -----------------------------
(***************************************************************************)
(* Wire: its types, and that a session is a Stream in each direction, for  *)
(* any clips, sizes of frames, buffers and pings.                          *)
(*                                                                         *)
(* The invariant follows one direction.  The pieces a read has taken, the  *)
(* ones in the buffers and the ones to write, one after the other, are     *)
(* whole frames, and their clips are those that were sent and not yet      *)
(* delivered, in their order (Whole).  A step moves a piece, takes a frame *)
(* off the front or adds one at the back, unless it drops a read: if that  *)
(* read had taken something, what comes next is no header (Cut), and the   *)
(* loop ends before it delivers anything else.                             *)
(***************************************************************************)
EXTENDS Wire, Codec, TLAPS

\* The two ends.
LEMMA Ends ==
  ASSUME NEW e \in End
  PROVE  /\ Other(e) \in End /\ Other(e) # e /\ Other(Other(e)) = e
         /\ \A d \in End : d = e \/ d = Other(e)
<1>1. PICK a \in End, b \in End : a # b /\ End = {a, b}
  BY WireAssumption
<1>2. ASSUME NEW d \in End PROVE Other(d) \in End /\ Other(d) # d
  <2>1. \E o \in End : o # d
    BY <1>1
  <2> QED
    BY <2>1 DEF Other
<1> QED
  BY <1>1, <1>2

-----------------------------------------------------------------------------
(* Streams of pieces *)

Clipped(c) == [type |-> "clip", clip |-> c]
Last(f) == IF f.type = "clip" THEN Size[f.clip] ELSE 0

\* The pieces of a frame.
LEMMA PiecesAre ==
  ASSUME NEW f \in Frame
  PROVE  /\ Last(f) \in Nat
         /\ Pieces(f) \in Seq(Piece) /\ Len(Pieces(f)) = Last(f) + 1 /\ Pieces(f) # << >>
         /\ \A i \in 1 .. Last(f) + 1 : Pieces(f)[i] = [frame |-> f, at |-> i - 1]
<1>1. Last(f) \in Nat
  BY WireAssumption DEF Last, Frame
<1>2. Pieces(f) = [i \in 1 .. Last(f) + 1 |-> [frame |-> f, at |-> i - 1]]
  BY DEF Pieces, Last
<1>3. \A i \in 1 .. Last(f) + 1 : [frame |-> f, at |-> i - 1] \in Piece
  BY <1>1 DEF Piece
<1> HIDE DEF Last
<1> QED
  BY <1>1, <1>2, <1>3

\* S is what has been read of a frame, what is in the buffers and what is left
\* to write, one after the other.
Joins(S, p, q, r) ==
  /\ Len(S) = Len(p) + Len(q) + Len(r)
  /\ \A i \in 1 .. Len(p) : S[i] = p[i]
  /\ \A i \in 1 .. Len(q) : S[Len(p) + i] = q[i]
  /\ \A i \in 1 .. Len(r) : S[Len(p) + Len(q) + i] = r[i]

\* The first len pieces of S are whole frames.
FramedIn(S, len) ==
  /\ len # 0 => S[1].at = 0
  /\ \A i \in Nat : 1 <= i /\ i <= len =>
       /\ S[i].at <= Last(S[i].frame)
       /\ S[i].at < Last(S[i].frame) =>
            i < len /\ S[i + 1] = [frame |-> S[i].frame, at |-> S[i].at + 1]
       /\ S[i].at = Last(S[i].frame) /\ i < len => S[i + 1].at = 0
Framed(S) == FramedIn(S, Len(S))

\* p is the beginning of one frame, and not all of it.
Begun(p) ==
  \A i \in 1 .. Len(p) :
    /\ p[i] = [frame |-> p[1].frame, at |-> i - 1]
    /\ Len(p) <= Last(p[i].frame)

\* The clips of the first len pieces of S are those of s after the first n and up
\* to last: h says where each begins.
HeadsIn(S, len, h, n, s, last) ==
  /\ n <= last
  /\ \A j \in Nat : n < j /\ j <= last =>
       1 <= h[j] /\ h[j] <= len /\ S[h[j]].frame = Clipped(s[j]) /\ S[h[j]].at = 0
  /\ \A i, j \in Nat : n < i /\ i < j /\ j <= last => h[i] < h[j]
  /\ \A i \in Nat : 1 <= i /\ i <= len /\ S[i].at = 0 /\ S[i].frame.type = "clip" =>
       \E j \in Nat : n < j /\ j <= last /\ h[j] = i
Heads(S, h, n, s) == HeadsIn(S, Len(S), h, n, s, Len(s))

\* A piece moves on.
LEMMA MovesOn ==
  ASSUME NEW S \in Seq(Piece), NEW p \in Seq(Piece), NEW q \in Seq(Piece), NEW r \in Seq(Piece),
         Joins(S, p, q, r)
  PROVE  /\ q # << >> => Joins(S, Append(p, Head(q)), Tail(q), r)
         /\ r # << >> => Joins(S, p, Append(q, Head(r)), Tail(r))
<1>1. ASSUME q # << >> PROVE Joins(S, Append(p, Head(q)), Tail(q), r)
  <2> DEFINE p1 == Append(p, Head(q))
             q1 == Tail(q)
  <2>1. /\ p1 \in Seq(Piece) /\ Len(p1) = Len(p) + 1 /\ p1[Len(p) + 1] = q[1]
        /\ \A i \in 1 .. Len(p) : p1[i] = p[i]
    BY <1>1
  <2>2. Len(q1) = Len(q) - 1 /\ \A i \in 1 .. Len(q1) : q1[i] = q[i + 1]
    BY <1>1
  <2>3. Len(p) \in Nat /\ Len(q) \in Nat \ {0} /\ Len(r) \in Nat
    BY <1>1
  <2> HIDE DEF p1, q1
  <2>4. Len(S) = Len(p1) + Len(q1) + Len(r) /\ Len(p1) + Len(q1) = Len(p) + Len(q)
    BY <2>1, <2>2, <2>3 DEF Joins
  <2>5. ASSUME NEW i \in 1 .. Len(p1) PROVE S[i] = p1[i]
    <3>1. CASE i = Len(p) + 1
      <4>1. 1 \in 1 .. Len(q)
        BY <2>3
      <4> QED
        BY <2>1, <3>1, <4>1 DEF Joins
    <3>2. CASE i # Len(p) + 1
      <4>1. i \in 1 .. Len(p)
        BY <2>1, <2>3, <3>2
      <4> QED
        BY <2>1, <4>1 DEF Joins
    <3> QED
      BY <3>1, <3>2
  <2>6. ASSUME NEW i \in 1 .. Len(q1) PROVE S[Len(p1) + i] = q1[i]
    <3>1. i + 1 \in 1 .. Len(q) /\ Len(p1) + i = Len(p) + (i + 1)
      BY <2>1, <2>2, <2>3
    <3> QED
      BY <2>2, <3>1 DEF Joins
  <2>7. \A i \in 1 .. Len(r) : S[Len(p1) + Len(q1) + i] = r[i]
    BY <2>4 DEF Joins
  <2>8. Joins(S, p1, q1, r)
    BY <2>4, <2>5, <2>6, <2>7 DEF Joins
  <2> QED
    BY <2>8 DEF p1, q1
<1>2. ASSUME r # << >> PROVE Joins(S, p, Append(q, Head(r)), Tail(r))
  <2> DEFINE q1 == Append(q, Head(r))
             r1 == Tail(r)
  <2>1. /\ q1 \in Seq(Piece) /\ Len(q1) = Len(q) + 1 /\ q1[Len(q) + 1] = r[1]
        /\ \A i \in 1 .. Len(q) : q1[i] = q[i]
    BY <1>2
  <2>2. Len(r1) = Len(r) - 1 /\ \A i \in 1 .. Len(r1) : r1[i] = r[i + 1]
    BY <1>2
  <2>3. Len(p) \in Nat /\ Len(q) \in Nat /\ Len(r) \in Nat \ {0}
    BY <1>2
  <2> HIDE DEF q1, r1
  <2>4. Len(S) = Len(p) + Len(q1) + Len(r1) /\ \A i \in 1 .. Len(p) : S[i] = p[i]
    BY <2>1, <2>2, <2>3 DEF Joins
  <2>5. ASSUME NEW i \in 1 .. Len(q1) PROVE S[Len(p) + i] = q1[i]
    <3>1. CASE i = Len(q) + 1
      <4>1. Len(p) + i = Len(p) + Len(q) + 1 /\ 1 \in 1 .. Len(r)
        BY <2>3, <3>1
      <4> QED
        BY <2>1, <3>1, <4>1 DEF Joins
    <3>2. CASE i # Len(q) + 1
      <4>1. i \in 1 .. Len(q)
        BY <2>1, <2>3, <3>2
      <4> QED
        BY <2>1, <4>1 DEF Joins
    <3> QED
      BY <3>1, <3>2
  <2>6. ASSUME NEW i \in 1 .. Len(r1) PROVE S[Len(p) + Len(q1) + i] = r1[i]
    <3>1. i + 1 \in 1 .. Len(r) /\ Len(p) + Len(q1) + i = Len(p) + Len(q) + (i + 1)
      BY <2>1, <2>2, <2>3
    <3> QED
      BY <2>2, <3>1 DEF Joins
  <2>7. Joins(S, p, q1, r1)
    BY <2>4, <2>5, <2>6 DEF Joins
  <2> QED
    BY <2>7 DEF q1, r1
<1> QED
  BY <1>1, <1>2

\* What the next piece to read is.
LEMMA NextPiece ==
  ASSUME NEW S \in Seq(Piece), NEW p \in Seq(Piece), NEW q \in Seq(Piece), NEW r \in Seq(Piece),
         Joins(S, p, q, r), Framed(S), Begun(p), q # << >>
  PROVE  /\ S[Len(p) + 1] = Head(q) /\ Len(p) + 1 <= Len(S)
         /\ Head(q).at = Len(p) /\ Len(p) <= Last(Head(q).frame)
         /\ \A i \in 1 .. Len(p) : p[i] = [frame |-> Head(q).frame, at |-> i - 1]
<1>1. Len(p) \in Nat /\ Len(q) \in Nat \ {0} /\ Len(r) \in Nat /\ Head(q) = q[1] /\ q[1] \in Piece
  OBVIOUS
<1>2. S[Len(p) + 1] = q[1] /\ Len(p) + 1 <= Len(S)
  BY SMTT(30), <1>1 DEF Joins
<1>3. CASE Len(p) = 0
  <2>1. q[1].at = 0
    BY <1>1, <1>2, <1>3 DEF Framed, FramedIn
  <2>2. q[1].frame \in Frame
    BY <1>1 DEF Piece
  <2>3. Last(q[1].frame) \in Nat
    BY <2>2, PiecesAre
  <2> QED
    BY <1>1, <1>2, <1>3, <2>1, <2>3
<1>4. CASE Len(p) > 0
  <2>1. /\ S[Len(p)] = p[Len(p)] /\ p[Len(p)] = [frame |-> p[1].frame, at |-> Len(p) - 1]
        /\ Len(p) <= Last(p[Len(p)].frame) /\ Len(p) \in 1 .. Len(S)
    BY <1>1, <1>2, <1>4 DEF Joins, Begun
  <2>2. Len(p) - 1 < Last(p[1].frame)
    <3>1. p[1].frame \in Frame /\ Last(p[1].frame) \in Nat
      <4>1. p[1] \in Piece
        BY <1>1, <1>4
      <4>2. p[1].frame \in Frame
        BY <4>1 DEF Piece
      <4> QED
        BY <4>2, PiecesAre
    <3> QED
      BY <1>1, <2>1, <3>1
  <2>3. q[1] = [frame |-> p[1].frame, at |-> Len(p)]
    <3>1. Len(p) \in Nat /\ 1 <= Len(p) /\ Len(p) <= Len(S)
      BY <1>1, <1>2, <2>1
    <3>2. S[Len(p)].at < Last(S[Len(p)].frame) =>
            S[Len(p) + 1] = [frame |-> S[Len(p)].frame, at |-> S[Len(p)].at + 1]
      BY <3>1 DEF Framed, FramedIn
    <3>3. S[Len(p)].frame = p[1].frame /\ S[Len(p)].at = Len(p) - 1 /\ Len(p) - 1 + 1 = Len(p)
      BY <1>1, <2>1
    <3> QED
      BY <1>2, <2>2, <3>2, <3>3
  <2> QED
    BY <1>1, <1>2, <2>1, <2>3 DEF Begun
<1> QED
  BY <1>1, <1>3, <1>4

\* T is S without its first m pieces, and k has the positions of h in it.
Shifted(T, lent, S, lens, m) ==
  lent = lens - m /\ \A i \in Nat : 1 <= i /\ i <= lent => T[i] = S[i + m]
Moved(k, h, m) == \A j \in Nat : k[j] = h[j] - m
Headless(S, m) == \A i \in Nat : 2 <= i /\ i <= m => S[i].at # 0

\* What h has after n and up to l is the first piece, and what it has after l
\* is not.
Leads(h, n, l, last) ==
  /\ \A j \in Nat : n < j /\ j <= l => h[j] = 1
  /\ \A j \in Nat : l < j /\ j <= last => h[j] # 1

\* There is such a T,
LEMMA Suffix ==
  ASSUME NEW S \in Seq(Piece), NEW m \in Nat, m <= Len(S)
  PROVE  \E T \in Seq(Piece) : Shifted(T, Len(T), S, Len(S), m)
<1>1. Len(S) \in Nat
  OBVIOUS
<1> DEFINE T == [i \in 1 .. Len(S) - m |-> S[i + m]]
<1>2. T \in Seq(Piece)
  BY <1>1
<1>3. Len(T) = Len(S) - m /\ \A i \in 1 .. Len(T) : T[i] = S[i + m]
  BY <1>1
<1> HIDE DEF T
<1>4. \A i \in Nat : 1 <= i /\ i <= Len(T) => i \in 1 .. Len(T)
  BY <1>1, <1>3
<1> QED
  BY <1>2, <1>3, <1>4 DEF Shifted

\* and there is such a k.
LEMMA Positions ==
  ASSUME NEW h \in [Nat -> Int], NEW m \in Nat
  PROVE  \E k \in [Nat -> Int] : Moved(k, h, m)
<1> DEFINE k == [j \in Nat |-> h[j] - m]
<1>1. k \in [Nat -> Int] /\ \A j \in Nat : k[j] = h[j] - m
  OBVIOUS
<1> QED
  BY <1>1 DEF Moved

\* The clips of S from the l-th on lie behind its first m pieces.
LEMMA HeadsAfter ==
  ASSUME NEW S, NEW lens \in Nat, NEW T, NEW lent \in Nat, NEW m \in Nat, 1 <= m,
         Shifted(T, lent, S, lens, m), Headless(S, m),
         NEW h \in [Nat -> Int], NEW k \in [Nat -> Int], Moved(k, h, m),
         NEW n \in Nat, NEW s, NEW last \in Nat, HeadsIn(S, lens, h, n, s, last),
         NEW l \in Nat, l <= last, n <= l, Leads(h, n, l, last)
  PROVE  HeadsIn(T, lent, k, l, s, last)
<1>1. lent = lens - m
  BY DEF Shifted
<1>2. \A j \in Nat : h[j] \in Int /\ k[j] = h[j] - m
  BY DEF Moved
<1>3. ASSUME NEW j \in Nat, l < j, j <= last
      PROVE  /\ h[j] > m /\ h[j] <= lens
             /\ S[h[j]].frame = Clipped(s[j]) /\ S[h[j]].at = 0
  <2>1. n < j /\ h[j] # 1
    BY <1>3 DEF Leads
  <2>2. 1 <= h[j] /\ h[j] <= lens /\ S[h[j]].frame = Clipped(s[j]) /\ S[h[j]].at = 0
    BY <1>3, <2>1 DEF HeadsIn
  <2>3. h[j] \in Nat
    BY <1>2, <2>2
  <2>4. ~(2 <= h[j] /\ h[j] <= m)
    BY <2>2, <2>3 DEF Headless
  <2>5. h[j] > m
    BY <2>1, <2>2, <2>3, <2>4
  <2> QED
    BY <2>2, <2>5
<1>4. ASSUME NEW j \in Nat, l < j, j <= last
      PROVE  1 <= k[j] /\ k[j] <= lent /\ T[k[j]].frame = Clipped(s[j]) /\ T[k[j]].at = 0
  <2>1. 1 <= k[j] /\ k[j] <= lent /\ k[j] + m = h[j] /\ k[j] \in Nat
    BY <1>1, <1>2, <1>3, <1>4
  <2>2. T[k[j]] = S[h[j]]
    BY <2>1 DEF Shifted
  <2> QED
    BY <1>3, <1>4, <2>1, <2>2
<1>5. ASSUME NEW i \in Nat, NEW j \in Nat, l < i, i < j, j <= last
      PROVE  k[i] < k[j]
  <2>1. n < i /\ i <= last /\ l < j
    BY <1>5
  <2>2. h[i] < h[j]
    BY <1>5, <2>1 DEF HeadsIn
  <2> QED
    BY <1>2, <2>2
<1>6. ASSUME NEW i \in Nat, 1 <= i, i <= lent, T[i].at = 0, T[i].frame.type = "clip"
      PROVE  \E j \in Nat : l < j /\ j <= last /\ k[j] = i
  <2>1. i + m \in Nat /\ 1 <= i + m /\ i + m <= lens
    BY <1>1, <1>6
  <2>2. S[i + m] = T[i]
    BY <1>6 DEF Shifted
  <2>3. PICK j \in Nat : n < j /\ j <= last /\ h[j] = i + m
    BY <1>6, <2>1, <2>2 DEF HeadsIn
  <2>4. h[j] # 1
    BY <1>6, <2>3
  <2>5. l < j
    BY <2>3, <2>4 DEF Leads
  <2>6. k[j] = i
    BY <1>2, <2>3
  <2> QED
    BY <2>3, <2>5, <2>6
<1> QED
  BY <1>4, <1>5, <1>6 DEF HeadsIn

\* The frames of S behind its first m pieces.
LEMMA FramedAfter ==
  ASSUME NEW S, NEW lens \in Nat, NEW T, NEW lent \in Nat, NEW m \in Nat, 1 <= m,
         Shifted(T, lent, S, lens, m), FramedIn(S, lens), S[m].at = Last(S[m].frame)
  PROVE  FramedIn(T, lent)
<1>1. lent = lens - m
  BY DEF Shifted
<1>2. ASSUME lent # 0 PROVE T[1].at = 0
  <2>1. 1 <= lent /\ m <= lens /\ m < lens /\ 1 + m = m + 1
    BY <1>1, <1>2
  <2>2. S[m + 1].at = 0
    BY <2>1 DEF FramedIn
  <2>3. T[1] = S[1 + m]
    BY <2>1 DEF Shifted
  <2> QED
    BY <2>1, <2>2, <2>3
<1>3. ASSUME NEW i \in Nat, 1 <= i, i <= lent
      PROVE  /\ T[i].at <= Last(T[i].frame)
             /\ T[i].at < Last(T[i].frame) =>
                  i < lent /\ T[i + 1] = [frame |-> T[i].frame, at |-> T[i].at + 1]
             /\ T[i].at = Last(T[i].frame) /\ i < lent => T[i + 1].at = 0
  <2>1. i + m \in Nat /\ 1 <= i + m /\ i + m <= lens /\ (i + m < lens <=> i < lent)
    BY <1>1, <1>3
  <2>2. T[i] = S[i + m]
    BY <1>3 DEF Shifted
  <2>3. i < lent => T[i + 1] = S[i + m + 1]
    <3>1. SUFFICES ASSUME i < lent PROVE T[i + 1] = S[i + m + 1]
      OBVIOUS
    <3>2. i + 1 \in Nat /\ 1 <= i + 1 /\ i + 1 <= lent /\ i + 1 + m = i + m + 1
      BY <1>3, <3>1
    <3>3. T[i + 1] = S[i + 1 + m]
      BY <3>2 DEF Shifted
    <3> QED
      BY <3>2, <3>3
  <2>4. /\ S[i + m].at <= Last(S[i + m].frame)
        /\ S[i + m].at < Last(S[i + m].frame) =>
             /\ i + m < lens
             /\ S[i + m + 1] = [frame |-> S[i + m].frame, at |-> S[i + m].at + 1]
        /\ S[i + m].at = Last(S[i + m].frame) /\ i + m < lens => S[i + m + 1].at = 0
    BY <2>1 DEF FramedIn
  <2> QED
    BY <2>1, <2>2, <2>3, <2>4
<1> QED
  BY <1>2, <1>3 DEF FramedIn

\* The clip of the first piece is the first that is left.
LEMMA FirstClip ==
  ASSUME NEW S, NEW lens \in Nat, 1 <= lens, S[1].at = 0,
         NEW h \in [Nat -> Int], NEW n \in Nat, NEW s, NEW last \in Nat,
         HeadsIn(S, lens, h, n, s, last)
  PROVE  /\ S[1].frame.type = "clip" =>
              n < last /\ S[1].frame = Clipped(s[n + 1]) /\ Leads(h, n, n + 1, last)
         /\ S[1].frame.type # "clip" => Leads(h, n, n, last)
<1>1. ASSUME NEW j \in Nat, n < j, j <= last
      PROVE  1 <= h[j] /\ S[h[j]].frame = Clipped(s[j])
  BY <1>1 DEF HeadsIn
<1>2. ASSUME NEW i \in Nat, NEW j \in Nat, n < i, i < j, j <= last
      PROVE  h[i] < h[j]
  BY <1>2 DEF HeadsIn
<1>3. CASE S[1].frame.type = "clip"
  <2>1. PICK j \in Nat : n < j /\ j <= last /\ h[j] = 1
    BY <1>3 DEF HeadsIn
  <2>2. n + 1 \in Nat /\ n < n + 1 /\ n + 1 <= last /\ n < last /\ n + 1 <= j
    BY <2>1
  <2>3. j = n + 1
    <3>1. SUFFICES ASSUME n + 1 < j PROVE FALSE
      BY <2>1, <2>2
    <3>2. h[n + 1] < h[j] /\ 1 <= h[n + 1]
      BY <1>1, <1>2, <2>1, <2>2, <3>1
    <3> QED
      BY <2>1, <2>2, <3>2
  <2>4. ASSUME NEW i \in Nat, n + 1 < i, i <= last PROVE h[i] # 1
    <3>1. h[n + 1] < h[i]
      BY <1>2, <2>2, <2>4
    <3> QED
      BY <2>1, <2>3, <3>1
  <2>5. ASSUME NEW i \in Nat, n < i, i <= n + 1 PROVE h[i] = 1
    <3>1. i = n + 1
      BY <2>5
    <3> QED
      BY <2>1, <2>3, <3>1
  <2>6. S[1].frame = Clipped(s[n + 1])
    BY <1>1, <2>1, <2>3
  <2> QED
    BY <1>3, <2>2, <2>4, <2>5, <2>6 DEF Leads
<1>4. CASE S[1].frame.type # "clip"
  <2>1. ASSUME NEW j \in Nat, n < j, j <= last PROVE h[j] # 1
    <3>1. S[h[j]].frame = Clipped(s[j])
      BY <1>1, <2>1
    <3>2. Clipped(s[j]).type = "clip"
      BY DEF Clipped
    <3> QED
      BY <1>4, <3>1, <3>2
  <2>2. \A j \in Nat : ~(n < j /\ j <= n)
    OBVIOUS
  <2> QED
    BY <1>4, <2>1, <2>2 DEF Leads
<1> QED
  BY <1>3, <1>4

\* T is S with one more frame, which has m pieces.
Extended(T, lent, S, lens, f, m) ==
  /\ lent = lens + m
  /\ \A i \in Nat : 1 <= i /\ i <= lens => T[i] = S[i]
  /\ \A i \in Nat : 1 <= i /\ i <= m => T[lens + i] = [frame |-> f, at |-> i - 1]

\* With one more frame, S still consists of whole frames.
LEMMA FramedMore ==
  ASSUME NEW S, NEW lens \in Nat, NEW T, NEW lent \in Nat, NEW f \in Frame,
         \A i \in Nat : 1 <= i /\ i <= lens => S[i] \in Piece,
         Extended(T, lent, S, lens, f, Last(f) + 1), FramedIn(S, lens)
  PROVE  FramedIn(T, lent)
<1>1. Last(f) \in Nat
  BY PiecesAre
<1>2. lent = lens + Last(f) + 1
  BY <1>1 DEF Extended
<1>3. ASSUME NEW i \in Nat, lens < i, i <= lent
      PROVE  T[i] = [frame |-> f, at |-> i - lens - 1]
  <2>1. i - lens \in Nat /\ 1 <= i - lens /\ i - lens <= Last(f) + 1 /\ lens + (i - lens) = i
    BY <1>1, <1>2, <1>3
  <2> QED
    BY <2>1 DEF Extended
<1>4. ASSUME NEW i \in Nat, 1 <= i, i <= lens
      PROVE  T[i] = S[i] /\ S[i].at \in Nat /\ Last(S[i].frame) \in Nat
  <2>1. S[i] \in Piece
    BY <1>4
  <2>2. S[i].at \in Nat /\ S[i].frame \in Frame
    BY <2>1 DEF Piece
  <2> QED
    BY <1>4, <2>2, PiecesAre DEF Extended
<1>5. T[1].at = 0
  <2>1. CASE lens = 0
    <3>1. lens < 1 /\ 1 <= lent /\ 1 - lens - 1 = 0
      BY <1>1, <1>2, <2>1
    <3>2. T[1] = [frame |-> f, at |-> 1 - lens - 1]
      BY <1>3, <3>1
    <3> QED
      BY <3>1, <3>2
  <2>2. CASE lens # 0
    <3>1. S[1].at = 0
      BY <2>2 DEF FramedIn
    <3> QED
      BY <1>4, <2>2, <3>1
  <2> QED
    BY <2>1, <2>2
<1>6. ASSUME NEW i \in Nat, 1 <= i, i <= lent
      PROVE  /\ T[i].at <= Last(T[i].frame)
             /\ T[i].at < Last(T[i].frame) =>
                  i < lent /\ T[i + 1] = [frame |-> T[i].frame, at |-> T[i].at + 1]
             /\ T[i].at = Last(T[i].frame) /\ i < lent => T[i + 1].at = 0
  <2>1. CASE lens < i
    <3>1. T[i].frame = f /\ T[i].at = i - lens - 1 /\ i - lens - 1 <= Last(f)
      <4>1. T[i] = [frame |-> f, at |-> i - lens - 1]
        BY <1>3, <1>6, <2>1
      <4>2. i - lens - 1 <= Last(f)
        BY <1>1, <1>2, <1>6
      <4> QED
        BY <4>1, <4>2
    <3>2. ASSUME i - lens - 1 < Last(f)
          PROVE  i < lent /\ T[i + 1] = [frame |-> f, at |-> i - lens - 1 + 1]
      <4>1. i + 1 \in Nat /\ lens < i + 1 /\ i + 1 <= lent /\ i < lent
            /\ i + 1 - lens - 1 = i - lens - 1 + 1
        BY <1>1, <1>2, <2>1, <3>2
      <4>2. T[i + 1] = [frame |-> f, at |-> i + 1 - lens - 1]
        BY <1>3, <4>1
      <4> QED
        BY <4>1, <4>2
    <3>3. i - lens - 1 = Last(f) => ~(i < lent)
      BY <1>1, <1>2
    <3> QED
      BY <3>1, <3>2, <3>3
  <2>2. CASE i <= lens
    <3>1. /\ S[i].at <= Last(S[i].frame)
          /\ S[i].at < Last(S[i].frame) =>
               i < lens /\ S[i + 1] = [frame |-> S[i].frame, at |-> S[i].at + 1]
          /\ S[i].at = Last(S[i].frame) /\ i < lens => S[i + 1].at = 0
      BY <1>6, <2>2 DEF FramedIn
    <3>2. T[i] = S[i] /\ S[i].at \in Nat /\ Last(S[i].frame) \in Nat
      BY <1>4, <1>6, <2>2
    <3>3. i < lens => i < lent /\ T[i + 1] = S[i + 1]
      <4>1. SUFFICES ASSUME i < lens PROVE i < lent /\ T[i + 1] = S[i + 1]
        OBVIOUS
      <4>2. i + 1 \in Nat /\ 1 <= i + 1 /\ i + 1 <= lens /\ i < lent
        BY <1>1, <1>2, <4>1
      <4> QED
        BY <1>4, <4>2
    <3>4. i = lens => T[i + 1].at = 0
      <4>1. SUFFICES ASSUME i = lens PROVE T[i + 1].at = 0
        OBVIOUS
      <4>2. i + 1 \in Nat /\ lens < i + 1 /\ i + 1 <= lent /\ i + 1 - lens - 1 = 0
        BY <1>1, <1>2, <4>1
      <4>3. T[i + 1] = [frame |-> f, at |-> i + 1 - lens - 1]
        BY <1>3, <4>2
      <4> QED
        BY <4>2, <4>3
    <3>5. i < lens \/ i = lens
      BY <2>2
    <3> QED
      BY <3>1, <3>2, <3>3, <3>4, <3>5
  <2> QED
    BY <2>1, <2>2
<1> QED
  BY <1>5, <1>6 DEF FramedIn

\* A frame that is no clip adds none.
LEMMA HeadsKept ==
  ASSUME NEW S, NEW lens \in Nat, NEW T, NEW lent \in Nat, NEW f \in Frame, f.type # "clip",
         Extended(T, lent, S, lens, f, Last(f) + 1),
         NEW h \in [Nat -> Int], NEW n \in Nat, NEW s, NEW last \in Nat,
         HeadsIn(S, lens, h, n, s, last)
  PROVE  HeadsIn(T, lent, h, n, s, last)
<1>1. Last(f) \in Nat /\ \A j \in Nat : h[j] \in Int
  BY PiecesAre
<1>2. lent = lens + Last(f) + 1
  BY <1>1 DEF Extended
<1>3. ASSUME NEW j \in Nat, n < j, j <= last
      PROVE  1 <= h[j] /\ h[j] <= lent /\ T[h[j]].frame = Clipped(s[j]) /\ T[h[j]].at = 0
  <2>1. 1 <= h[j] /\ h[j] <= lens /\ S[h[j]].frame = Clipped(s[j]) /\ S[h[j]].at = 0
    BY <1>3 DEF HeadsIn
  <2>2. h[j] \in Nat /\ h[j] <= lent
    BY <1>1, <1>2, <2>1
  <2>3. T[h[j]] = S[h[j]]
    BY <2>1, <2>2 DEF Extended
  <2> QED
    BY <2>1, <2>2, <2>3
<1>4. ASSUME NEW i \in Nat, 1 <= i, i <= lent, T[i].at = 0, T[i].frame.type = "clip"
      PROVE  \E j \in Nat : n < j /\ j <= last /\ h[j] = i
  <2>1. CASE i <= lens
    <3>1. T[i] = S[i]
      BY <1>4, <2>1 DEF Extended
    <3> QED
      BY <1>4, <2>1, <3>1 DEF HeadsIn
  <2>2. CASE lens < i
    <3>1. i - lens \in Nat /\ 1 <= i - lens /\ i - lens <= Last(f) + 1 /\ lens + (i - lens) = i
      BY <1>1, <1>2, <1>4, <2>2
    <3>2. T[i] = [frame |-> f, at |-> i - lens - 1]
      BY <3>1 DEF Extended
    <3> QED
      BY <1>4, <3>2
  <2> QED
    BY <2>1, <2>2
<1> QED
  BY <1>3, <1>4 DEF HeadsIn

\* t is s, which has last clips, with one more.
Longer(t, s, last, c) ==
  (\A j \in Nat : 1 <= j /\ j <= last => t[j] = s[j]) /\ t[last + 1] = c

\* The frame of a clip adds its position.
LEMMA HeadsMore ==
  ASSUME NEW S, NEW lens \in Nat, NEW T, NEW lent \in Nat, NEW c \in Clip, Clipped(c) \in Frame,
         Extended(T, lent, S, lens, Clipped(c), Last(Clipped(c)) + 1),
         NEW h \in [Nat -> Int], NEW n \in Nat, NEW s, NEW last \in Nat,
         HeadsIn(S, lens, h, n, s, last),
         NEW t, Longer(t, s, last, c)
  PROVE  \E k \in [Nat -> Int] : HeadsIn(T, lent, k, n, t, last + 1)
<1> DEFINE f == Clipped(c)
           k == [h EXCEPT ![last + 1] = lens + 1]
<1>1. Last(f) \in Nat /\ \A j \in Nat : h[j] \in Int
  BY PiecesAre
<1>2. lent = lens + Last(f) + 1
  BY <1>1 DEF Extended
<1>3. /\ k \in [Nat -> Int] /\ k[last + 1] = lens + 1
      /\ \A j \in Nat : j <= last => k[j] = h[j]
  OBVIOUS
<1> HIDE DEF k
<1>4. T[lens + 1].frame = Clipped(c) /\ T[lens + 1].at = 0
  <2>1. T[lens + 1] = [frame |-> f, at |-> 1 - 1]
    BY <1>1 DEF Extended
  <2> QED
    BY <2>1
<1>5. ASSUME NEW j \in Nat, n < j, j <= last
      PROVE  /\ 1 <= h[j] /\ h[j] <= lens /\ h[j] <= lent
             /\ T[h[j]].frame = Clipped(t[j]) /\ T[h[j]].at = 0
  <2>1. 1 <= h[j] /\ h[j] <= lens /\ S[h[j]].frame = Clipped(s[j]) /\ S[h[j]].at = 0
    BY <1>5 DEF HeadsIn
  <2>2. h[j] \in Nat /\ h[j] <= lent
    BY <1>1, <1>2, <2>1
  <2>3. T[h[j]] = S[h[j]]
    BY <2>1, <2>2 DEF Extended
  <2>4. 1 <= j
    BY <1>5
  <2> QED
    BY <1>5, <2>1, <2>2, <2>3, <2>4 DEF Longer
<1>6. ASSUME NEW j \in Nat, n < j, j <= last + 1
      PROVE  1 <= k[j] /\ k[j] <= lent /\ T[k[j]].frame = Clipped(t[j]) /\ T[k[j]].at = 0
  <2>1. CASE j = last + 1
    BY <1>1, <1>2, <1>3, <1>4, <2>1 DEF Longer
  <2>2. CASE j # last + 1
    <3>1. j <= last
      BY <1>6, <2>2
    <3> QED
      BY <1>3, <1>5, <1>6, <3>1
  <2> QED
    BY <2>1, <2>2
<1>7. ASSUME NEW i \in Nat, NEW j \in Nat, n < i, i < j, j <= last + 1
      PROVE  k[i] < k[j]
  <2>1. i <= last /\ k[i] = h[i] /\ h[i] <= lens
    BY <1>3, <1>5, <1>7
  <2>2. CASE j = last + 1
    BY <1>1, <1>3, <2>1, <2>2
  <2>3. CASE j # last + 1
    <3>1. j <= last
      BY <1>7, <2>3
    <3>2. h[i] < h[j]
      BY <1>7, <3>1 DEF HeadsIn
    <3> QED
      BY <1>3, <2>1, <3>1, <3>2
  <2> QED
    BY <2>2, <2>3
<1>8. ASSUME NEW i \in Nat, 1 <= i, i <= lent, T[i].at = 0, T[i].frame.type = "clip"
      PROVE  \E j \in Nat : n < j /\ j <= last + 1 /\ k[j] = i
  <2>1. n <= last
    BY DEF HeadsIn
  <2>2. CASE i <= lens
    <3>1. T[i] = S[i]
      BY <1>8, <2>2 DEF Extended
    <3>2. PICK j \in Nat : n < j /\ j <= last /\ h[j] = i
      BY <1>8, <2>2, <3>1 DEF HeadsIn
    <3> QED
      BY <1>3, <3>2
  <2>3. CASE lens < i
    <3>1. i - lens \in Nat /\ 1 <= i - lens /\ i - lens <= Last(f) + 1 /\ lens + (i - lens) = i
      BY <1>1, <1>2, <1>8, <2>3
    <3>2. T[i] = [frame |-> f, at |-> i - lens - 1]
      BY <3>1 DEF Extended
    <3>3. i = lens + 1
      BY <1>8, <3>1, <3>2
    <3> QED
      BY <1>3, <2>1, <3>3
  <2> QED
    BY <2>2, <2>3
<1>9. n <= last + 1
  BY DEF HeadsIn
<1> QED
  BY <1>3, <1>6, <1>7, <1>8, <1>9 DEF HeadsIn

-----------------------------------------------------------------------------
(* One direction *)

\* What is on the way to an end, the read in progress first, is whole frames
\* with the clips of s after the first n, in their order.
Whole(p, q, r, n, s) ==
  \E S \in Seq(Piece), h \in [Nat -> Int] :
    Joins(S, p, q, r) /\ Framed(S) /\ Begun(p) /\ Heads(S, h, n, s)

\* A read was dropped: what comes next is no header.
Cut(p, q, r) ==
  /\ p = << >>
  /\ q # << >> => Head(q).at # 0
  /\ q = << >> => r # << >> /\ Head(r).at # 0

\* A piece that is written.
LEMMA WholeMoves ==
  ASSUME NEW p \in Seq(Piece), NEW q \in Seq(Piece), NEW r \in Seq(Piece), r # << >>,
         NEW n \in Nat, NEW s \in Seq(Clip), Whole(p, q, r, n, s)
  PROVE  Whole(p, Append(q, Head(r)), Tail(r), n, s)
<1>1. PICK S \in Seq(Piece), h \in [Nat -> Int] :
        Joins(S, p, q, r) /\ Framed(S) /\ Begun(p) /\ Heads(S, h, n, s)
  BY DEF Whole
<1>2. Joins(S, p, Append(q, Head(r)), Tail(r))
  BY <1>1, MovesOn
<1> QED
  BY <1>1, <1>2 DEF Whole

\* The same when the next piece is no header.
LEMMA CutMoves ==
  ASSUME NEW p \in Seq(Piece), NEW q \in Seq(Piece), NEW r \in Seq(Piece), r # << >>,
         Cut(p, q, r)
  PROVE  Cut(p, Append(q, Head(r)), Tail(r))
<1> DEFINE q1 == Append(q, Head(r))
<1>1. q1 \in Seq(Piece) /\ Len(q1) = Len(q) + 1 /\ Len(q) \in Nat
  OBVIOUS
<1>2. CASE q = << >>
  <2>1. q1[1] = Head(r)
    BY <1>2
  <2>2. q1 # << >> /\ Head(q1) = q1[1]
    BY SMTT(30), <1>1
  <2> HIDE DEF q1
  <2>3. Cut(p, q1, Tail(r))
    BY <1>2, <2>1, <2>2 DEF Cut
  <2> QED
    BY <2>3 DEF q1
<1>3. CASE q # << >>
  <2>1. q1[1] = Head(q)
    BY <1>3
  <2>2. q1 # << >> /\ Head(q1) = q1[1]
    BY <1>1
  <2> HIDE DEF q1
  <2>3. Cut(p, q1, Tail(r))
    BY <1>3, <2>1, <2>2 DEF Cut
  <2> QED
    BY <2>3 DEF q1
<1> QED
  BY <1>2, <1>3

\* A piece that is read and completes nothing.
LEMMA WholeReads ==
  ASSUME NEW p \in Seq(Piece), NEW q \in Seq(Piece), NEW r \in Seq(Piece), q # << >>,
         NEW n \in Nat, NEW s \in Seq(Clip), Whole(p, q, r, n, s),
         Last(Head(q).frame) # Len(p)
  PROVE  Whole(Append(p, Head(q)), Tail(q), r, n, s)
<1>1. PICK S \in Seq(Piece), h \in [Nat -> Int] :
        Joins(S, p, q, r) /\ Framed(S) /\ Begun(p) /\ Heads(S, h, n, s)
  BY DEF Whole
<1>2. Joins(S, Append(p, Head(q)), Tail(q), r)
  BY <1>1, MovesOn
<1>3. Begun(Append(p, Head(q)))
  <2>1. /\ Head(q).at = Len(p) /\ Len(p) <= Last(Head(q).frame)
        /\ \A i \in 1 .. Len(p) : p[i] = [frame |-> Head(q).frame, at |-> i - 1]
    BY <1>1, NextPiece
  <2>2. Head(q) \in Piece
    OBVIOUS
  <2>3. Head(q).frame \in Frame /\ Head(q) = [frame |-> Head(q).frame, at |-> Head(q).at]
    BY <2>2 DEF Piece
  <2>4. Last(Head(q).frame) \in Nat /\ Len(p) \in Nat
    BY <2>3, PiecesAre
  <2>5. Len(p) + 1 <= Last(Head(q).frame)
    BY <2>1, <2>4
  <2> DEFINE p1 == Append(p, Head(q))
             f == Head(q).frame
             l == Len(p)
  <2>6. /\ Len(p1) = l + 1 /\ p1[l + 1] = Head(q)
        /\ \A i \in 1 .. l : p1[i] = p[i]
    OBVIOUS
  <2>7. Head(q) = [frame |-> f, at |-> l] /\ \A i \in 1 .. l : p[i] = [frame |-> f, at |-> i - 1]
    BY <2>1, <2>3
  <2>8. l \in Nat /\ l + 1 <= Last(f)
    BY <2>4, <2>5
  <2> HIDE DEF p1, f, l
  <2>9. ASSUME NEW i \in 1 .. l + 1 PROVE p1[i] = [frame |-> f, at |-> i - 1]
    <3>1. CASE i = l + 1
      <4>1. i - 1 = l
        BY <2>8, <3>1
      <4> QED
        BY <2>6, <2>7, <3>1, <4>1
    <3>2. CASE i # l + 1
      <4>1. i \in 1 .. l
        BY <2>8, <3>2
      <4> QED
        BY <2>6, <2>7, <4>1
    <3> QED
      BY <3>1, <3>2
  <2>10. ASSUME NEW i \in 1 .. l + 1 PROVE p1[i].frame = f /\ p1[1].frame = f
    <3>1. 1 \in 1 .. l + 1
      BY <2>8
    <3>2. p1[1] = [frame |-> f, at |-> 1 - 1]
      BY <2>9, <3>1
    <3>3. p1[i] = [frame |-> f, at |-> i - 1]
      BY <2>9
    <3> QED
      BY <3>2, <3>3
  <2>11. Begun(p1)
    BY <2>6, <2>8, <2>9, <2>10 DEF Begun
  <2> QED
    BY <2>11 DEF p1
<1> QED
  <2>1. Append(p, Head(q)) \in Seq(Piece) /\ Tail(q) \in Seq(Piece)
    OBVIOUS
  <2> QED
    BY <1>1, <1>2, <1>3 DEF Whole

\* The stream behind a frame that has been read.
LEMMA JoinsAfter ==
  ASSUME NEW S \in Seq(Piece), NEW p \in Seq(Piece), NEW q \in Seq(Piece), NEW r \in Seq(Piece),
         NEW T \in Seq(Piece), Joins(S, p, q, r), Shifted(T, Len(T), S, Len(S), Len(p))
  PROVE  Joins(T, << >>, q, r)
<1> DEFINE l == Len(p)
           a == Len(q)
           b == Len(r)
<1>1. /\ l \in Nat /\ a \in Nat /\ b \in Nat /\ Len(T) \in Nat /\ Len(T) = a + b
      /\ \A i \in 1 .. a : S[l + i] = q[i]
      /\ \A i \in 1 .. b : S[l + a + i] = r[i]
      /\ \A i \in Nat : 1 <= i /\ i <= Len(T) => T[i] = S[i + l]
  BY DEF Joins, Shifted
<1> HIDE DEF l, a, b
<1>2. ASSUME NEW i \in 1 .. a PROVE T[0 + i] = q[i]
  <2>1. i \in Nat /\ 1 <= i /\ i <= Len(T) /\ i + l = l + i /\ 0 + i = i
    BY <1>1
  <2> QED
    BY <1>1, <2>1
<1>3. ASSUME NEW i \in 1 .. b PROVE T[0 + a + i] = r[i]
  <2>1. a + i \in Nat /\ 1 <= a + i /\ a + i <= Len(T) /\ a + i + l = l + a + i /\ 0 + a + i = a + i
    BY <1>1
  <2>2. T[a + i] = S[l + a + i]
    BY <1>1, <2>1
  <2> QED
    BY <1>1, <2>1, <2>2
<1>4. Len(<< >>) = 0 /\ \A i \in 1 .. 0 : T[i] = << >>[i]
  OBVIOUS
<1>5. Len(T) = 0 + a + b
  BY <1>1
<1> QED
  BY <1>2, <1>3, <1>4, <1>5 DEF Joins, a, b

\* The last piece of a frame is read: what is behind it is whole again, and if
\* the frame holds a clip, it is the next one of s.
LEMMA WholeCompletes ==
  ASSUME NEW p \in Seq(Piece), NEW q \in Seq(Piece), NEW r \in Seq(Piece), q # << >>,
         NEW n \in Nat, NEW s \in Seq(Clip), Whole(p, q, r, n, s),
         Last(Head(q).frame) = Len(p)
  PROVE  /\ Head(q).frame.type = "clip" =>
              /\ n < Len(s) /\ Head(q).frame = Clipped(s[n + 1])
              /\ Whole(<< >>, Tail(q), r, n + 1, s)
         /\ Head(q).frame.type # "clip" => Whole(<< >>, Tail(q), r, n, s)
<1>1. PICK S \in Seq(Piece), h \in [Nat -> Int] :
        Joins(S, p, q, r) /\ Framed(S) /\ Begun(p) /\ Heads(S, h, n, s)
  BY DEF Whole
<1> DEFINE m == Len(p) + 1
           f == Head(q).frame
           p1 == Append(p, Head(q))
<1>2. m \in Nat /\ 1 <= m /\ m - 1 = Len(p) /\ Len(p) \in Nat /\ Len(S) \in Nat /\ Len(s) \in Nat
  OBVIOUS
<1>3. p1 \in Seq(Piece) /\ Len(p1) = m /\ Tail(q) \in Seq(Piece)
  OBVIOUS
<1>4. /\ S[m] = Head(q) /\ m <= Len(S) /\ Head(q).at = Len(p)
      /\ \A i \in 1 .. Len(p) : p[i] = [frame |-> f, at |-> i - 1]
  BY <1>1, NextPiece
<1>5. Joins(S, p1, Tail(q), r)
  BY <1>1, MovesOn
<1> HIDE DEF m, f, p1
<1>6. ASSUME NEW i \in Nat, 1 <= i, i <= m
      PROVE  S[i].at = i - 1 /\ S[i].frame = f
  <2>1. CASE i = m
    BY <1>2, <1>4, <2>1 DEF f
  <2>2. CASE i # m
    <3>1. i \in 1 .. Len(p)
      BY <1>2, <1>6, <2>2
    <3>2. S[i] = p[i]
      BY <1>1, <3>1 DEF Joins
    <3>3. p[i] = [frame |-> f, at |-> i - 1]
      BY <1>4, <3>1
    <3> QED
      BY <3>2, <3>3
  <2> QED
    BY <2>1, <2>2
<1>7. PICK T \in Seq(Piece) : Shifted(T, Len(T), S, Len(S), m)
  BY <1>2, <1>4, Suffix
<1>8. PICK k \in [Nat -> Int] : Moved(k, h, m)
  BY <1>2, Positions
<1>9. Joins(T, << >>, Tail(q), r)
  BY <1>3, <1>5, <1>7, JoinsAfter
<1>10. Framed(T)
  <2>1. S[m].at = Last(S[m].frame)
    BY <1>4
  <2>2. FramedIn(S, Len(S)) /\ Len(T) \in Nat
    BY <1>1 DEF Framed
  <2>3. FramedIn(T, Len(T))
    BY <1>2, <1>7, <2>1, <2>2, FramedAfter
  <2> QED
    BY <2>3 DEF Framed
<1>11. Begun(<< >>)
  BY DEF Begun
<1>12. S[1].at = 0 /\ S[1].frame = f /\ 1 <= Len(S)
  <2>1. S[1].at = 1 - 1 /\ S[1].frame = f
    <3>1. 1 \in Nat /\ 1 <= 1 /\ 1 <= m
      BY <1>2
    <3> QED
      BY <1>6, <3>1
  <2>2. 1 <= Len(S)
    BY <1>2, <1>4
  <2> QED
    BY <2>1, <2>2
<1>13. Headless(S, m)
  <2>1. ASSUME NEW i \in Nat, 2 <= i, i <= m PROVE S[i].at # 0
    <3>1. 1 <= i /\ i - 1 # 0
      BY <2>1
    <3> QED
      BY <1>6, <2>1, <3>1
  <2> QED
    BY <2>1 DEF Headless
<1>14. HeadsIn(S, Len(S), h, n, s, Len(s))
  BY <1>1 DEF Heads
<1>15. /\ f.type = "clip" => n < Len(s) /\ f = Clipped(s[n + 1]) /\ Leads(h, n, n + 1, Len(s))
       /\ f.type # "clip" => Leads(h, n, n, Len(s))
  <2>1. /\ S[1].frame.type = "clip" =>
             n < Len(s) /\ S[1].frame = Clipped(s[n + 1]) /\ Leads(h, n, n + 1, Len(s))
        /\ S[1].frame.type # "clip" => Leads(h, n, n, Len(s))
    BY <1>2, <1>12, <1>14, FirstClip
  <2> QED
    BY <1>12, <2>1
<1>16. ASSUME NEW l \in Nat, l <= Len(s), n <= l, Leads(h, n, l, Len(s))
       PROVE  Whole(<< >>, Tail(q), r, l, s)
  <2>1. Len(T) \in Nat
    OBVIOUS
  <2>2. HeadsIn(T, Len(T), k, l, s, Len(s))
    BY <1>2, <1>7, <1>8, <1>13, <1>14, <1>16, <2>1, HeadsAfter
  <2>3. Heads(T, k, l, s)
    BY <2>2 DEF Heads
  <2> QED
    BY <1>9, <1>10, <1>11, <2>3 DEF Whole
<1>17. CASE f.type = "clip"
  <2>1. n + 1 \in Nat /\ n + 1 <= Len(s) /\ n <= n + 1
    BY <1>2, <1>15, <1>17
  <2> QED
    BY <1>15, <1>16, <1>17, <2>1 DEF f
<1>18. CASE f.type # "clip"
  <2>1. n <= Len(s)
    BY <1>14 DEF HeadsIn
  <2> QED
    BY <1>15, <1>16, <1>18, <2>1 DEF f
<1> QED
  BY <1>17, <1>18

\* The sequence of clips when a frame begins to be written.
After(s, f) == IF f.type = "clip" THEN Append(s, f.clip) ELSE s

\* What concatenation gives.
LEMMA Concats ==
  ASSUME NEW S \in Seq(Piece), NEW R \in Seq(Piece)
  PROVE  /\ S \o R \in Seq(Piece) /\ Len(S \o R) = Len(S) + Len(R) /\ Len(S) \in Nat
         /\ \A i \in 1 .. Len(S) : (S \o R)[i] = S[i]
         /\ \A i \in 1 .. Len(R) : (S \o R)[Len(S) + i] = R[i]
<1>1. ASSUME NEW i \in 1 .. Len(R) PROVE (S \o R)[Len(S) + i] = R[i]
  <2>1. /\ Len(S) \in Nat /\ Len(R) \in Nat /\ i \in Nat
        /\ Len(S) + i > Len(S) /\ Len(S) + i - Len(S) = i /\ Len(S) + i \in 1 .. Len(S) + Len(R)
    OBVIOUS
  <2> QED
    BY <2>1
<1> QED
  BY <1>1

\* A frame begins to be written: its pieces come last, and so does its clip.
LEMMA WholeWrites ==
  ASSUME NEW p \in Seq(Piece), NEW q \in Seq(Piece), NEW f \in Frame,
         NEW n \in Nat, NEW s \in Seq(Clip), Whole(p, q, << >>, n, s)
  PROVE  Whole(p, q, Pieces(f), n, After(s, f))
<1>1. PICK S \in Seq(Piece), h \in [Nat -> Int] :
        Joins(S, p, q, << >>) /\ Framed(S) /\ Begun(p) /\ Heads(S, h, n, s)
  BY DEF Whole
<1> DEFINE R == Pieces(f)
           T == S \o R
           l == Len(S)
           m == Last(f) + 1
           a == Len(p)
           b == Len(q)
<1>2. /\ R \in Seq(Piece) /\ Len(R) = m /\ m \in Nat
      /\ \A i \in 1 .. m : R[i] = [frame |-> f, at |-> i - 1]
  BY PiecesAre
<1> HIDE DEF R
<1>3. /\ T \in Seq(Piece) /\ Len(T) = l + m /\ l \in Nat
      /\ \A i \in 1 .. l : T[i] = S[i]
      /\ \A i \in 1 .. m : T[l + i] = R[i]
  <2>1. R \in Seq(Piece) /\ Len(R) = m
    BY <1>2
  <2>2. /\ T \in Seq(Piece) /\ Len(T) = Len(S) + Len(R) /\ Len(S) \in Nat
        /\ \A i \in 1 .. Len(S) : T[i] = S[i]
        /\ \A i \in 1 .. Len(R) : T[Len(S) + i] = R[i]
    BY <2>1, Concats
  <2> HIDE DEF T, m
  <2> QED
    BY <2>1, <2>2
<1>4. a \in Nat /\ b \in Nat /\ l = a + b
  BY <1>1 DEF Joins
<1>5. /\ \A i \in 1 .. a : S[i] = p[i]
      /\ \A i \in 1 .. b : S[a + i] = q[i]
  BY <1>1 DEF Joins
<1>6. \A i \in Nat : 1 <= i /\ i <= l => S[i] \in Piece
  OBVIOUS
<1> HIDE DEF T, l, m, a, b
<1>7. Joins(T, p, q, R)
  <2>1. Len(T) = a + b + m
    BY <1>3, <1>4
  <2>2. ASSUME NEW i \in 1 .. a PROVE T[i] = p[i]
    <3>1. i \in 1 .. l
      BY <1>4
    <3> QED
      BY <1>3, <1>5, <3>1
  <2>3. ASSUME NEW i \in 1 .. b PROVE T[a + i] = q[i]
    <3>1. a + i \in 1 .. l
      BY <1>4
    <3> QED
      BY <1>3, <1>5, <3>1
  <2>4. \A i \in 1 .. m : T[a + b + i] = R[i]
    BY <1>3, <1>4
  <2> QED
    BY <1>2, <2>1, <2>2, <2>3, <2>4 DEF Joins, a, b
<1>8. Extended(T, Len(T), S, l, f, m)
  <2>1. ASSUME NEW i \in Nat, 1 <= i, i <= l PROVE T[i] = S[i]
    BY <1>3, <2>1
  <2>2. ASSUME NEW i \in Nat, 1 <= i, i <= m PROVE T[l + i] = [frame |-> f, at |-> i - 1]
    <3>1. i \in 1 .. m
      BY <1>2, <2>2
    <3> QED
      BY <1>2, <1>3, <3>1
  <2> QED
    BY <1>3, <2>1, <2>2 DEF Extended
<1>9. Len(T) \in Nat
  BY <1>2, <1>3
<1>10. Framed(T)
  <2>1. FramedIn(S, l)
    BY <1>1 DEF Framed, l
  <2>2. FramedIn(T, Len(T))
    BY <1>3, <1>6, <1>8, <1>9, <2>1, FramedMore DEF m
  <2> QED
    BY <2>2 DEF Framed
<1>11. HeadsIn(S, l, h, n, s, Len(s)) /\ Len(s) \in Nat
  BY <1>1 DEF Heads, l
<1>12. \E k \in [Nat -> Int] : Heads(T, k, n, After(s, f))
  <2>1. CASE f.type = "clip"
    <3>1. f = Clipped(f.clip) /\ f.clip \in Clip
      BY <2>1 DEF Frame, Clipped
    <3> DEFINE c == f.clip
               t == Append(s, c)
    <3>2. Len(t) = Len(s) + 1 /\ t[Len(s) + 1] = c /\ \A j \in 1 .. Len(s) : t[j] = s[j]
      BY <3>1
    <3> HIDE DEF t, c
    <3>3. ASSUME NEW j \in Nat, 1 <= j, j <= Len(s) PROVE t[j] = s[j]
      BY <1>11, <3>2, <3>3
    <3>4. Extended(T, Len(T), S, l, Clipped(c), Last(Clipped(c)) + 1) /\ Clipped(c) \in Frame
          /\ c \in Clip
      BY <1>8, <3>1 DEF m, c
    <3>5. \E k \in [Nat -> Int] : HeadsIn(T, Len(T), k, n, t, Len(s) + 1)
      <4>1. l \in Nat
        BY <1>3
      <4>2. Longer(t, s, Len(s), c)
        BY <3>2, <3>3 DEF Longer
      <4> QED
        BY <1>9, <1>11, <3>4, <4>1, <4>2, HeadsMore
    <3>6. After(s, f) = t
      BY <2>1 DEF After, t, c
    <3> QED
      BY <3>2, <3>5, <3>6 DEF Heads
  <2>2. CASE f.type # "clip"
    <3>1. HeadsIn(T, Len(T), h, n, s, Len(s))
      BY <1>3, <1>8, <1>9, <1>11, <2>2, HeadsKept DEF m
    <3> QED
      BY <2>2, <3>1 DEF Heads, After
  <2> QED
    BY <2>1, <2>2
<1> QED
  BY <1>1, <1>3, <1>7, <1>10, <1>12 DEF Whole, R

\* A read that is dropped: it had taken nothing, or what comes next is no header.
LEMMA WholeDrops ==
  ASSUME NEW p \in Seq(Piece), NEW q \in Seq(Piece), NEW r \in Seq(Piece),
         NEW n \in Nat, NEW s \in Seq(Clip), Whole(p, q, r, n, s)
  PROVE  Whole(<< >>, q, r, n, s) \/ Cut(<< >>, q, r)
<1>1. PICK S \in Seq(Piece), h \in [Nat -> Int] :
        Joins(S, p, q, r) /\ Framed(S) /\ Begun(p) /\ Heads(S, h, n, s)
  BY DEF Whole
<1>2. CASE p = << >>
  BY <1>2
<1>3. CASE p # << >>
  <2> DEFINE l == Len(p)
  <2>1. l \in Nat /\ 1 <= l /\ Len(q) \in Nat /\ Len(r) \in Nat /\ p[1] \in Piece /\ Len(S) \in Nat
    BY <1>3
  <2>2. p[1].frame \in Frame /\ Last(p[1].frame) \in Nat
    BY <2>1, PiecesAre DEF Piece
  <2>3. p[l] = [frame |-> p[1].frame, at |-> l - 1] /\ l <= Last(p[l].frame)
    BY <1>1, <2>1 DEF Begun
  <2>4. S[l] = p[l] /\ Len(S) = l + Len(q) + Len(r)
    BY <1>1, <2>1 DEF Joins
  <2>5. S[l].at < Last(S[l].frame)
    BY <2>1, <2>2, <2>3, <2>4
  <2>6. l < Len(S) /\ S[l + 1].at = l
    <3>1. l <= Len(S)
      BY <2>1, <2>4
    <3>2. l < Len(S) /\ S[l + 1] = [frame |-> S[l].frame, at |-> S[l].at + 1]
      BY <1>1, <2>1, <2>5, <3>1 DEF Framed, FramedIn
    <3>3. S[l].at + 1 = l
      BY <2>1, <2>3, <2>4
    <3> QED
      BY <3>2, <3>3
  <2>7. ASSUME q # << >> PROVE Head(q).at # 0
    <3>1. S[l + 1] = q[1] /\ Head(q) = q[1]
      BY <1>1, <2>1, <2>7 DEF Joins
    <3>2. Head(q).at = l
      BY <2>6, <3>1
    <3>3. l # 0
      BY <2>1
    <3> QED
      BY <3>2, <3>3
  <2>8. ASSUME q = << >> PROVE r # << >> /\ Head(r).at # 0
    <3>1. Len(q) = 0 /\ r # << >>
      BY <2>1, <2>4, <2>6, <2>8
    <3>2. S[l + 1] = r[1] /\ Head(r) = r[1]
      BY SMTT(30), <1>1, <2>1, <3>1 DEF Joins
    <3> QED
      BY <2>1, <2>6, <3>1, <3>2
  <2> QED
    BY <2>7, <2>8 DEF Cut
<1> QED
  BY <1>2, <1>3

\* Nothing is on the way at first.
LEMMA WholeAtFirst == Whole(<< >>, << >>, << >>, 0, << >>)
<1> DEFINE S == << >>
           h == [j \in Nat |-> 0]
<1>1. S \in Seq(Piece) /\ h \in [Nat -> Int] /\ Len(S) = 0 /\ << >> \in Seq(Clip)
  OBVIOUS
<1>2. Joins(S, << >>, << >>, << >>)
  BY DEF Joins
<1>3. FramedIn(S, 0) /\ Begun(<< >>)
  BY DEF FramedIn, Begun
<1>4. HeadsIn(S, 0, h, 0, << >>, 0)
  BY DEF HeadsIn
<1> QED
  BY <1>1, <1>2, <1>3, <1>4 DEF Whole, Framed, Heads

-----------------------------------------------------------------------------
(* The type invariant *)

\* Nothing is left to write of an end that reads.
Quiet == \A e \in End : arm[e] = "select" => out[e] = << >>

TInv == TypeOK /\ Quiet

\* A new session has its types.
LEMMA InitTInv == Init => TInv
<1>1. SUFFICES ASSUME Init PROVE TInv
  OBVIOUS
<1>2. << >> \in Seq(Piece) /\ << >> \in Seq(Clip) /\ Len(<< >>) = 0
  OBVIOUS
<1>3. Buf \in Nat /\ MaxPings \in Nat /\ 0 \in 0 .. MaxPings
  BY WireAssumption
<1> QED
  BY <1>1, <1>2, <1>3 DEF Init, TInv, TypeOK, Quiet

\* The frames that are written.
LEMMA FrameTypes ==
  /\ \A type \in {"ack", "ping", "pong", "bye"} :
       Short(type) \in Frame /\ Short(type).type = type
  /\ \A c \in Clip : Clipped(c) \in Frame /\ [type |-> "clip", clip |-> c] = Clipped(c)
BY DEF Short, Frame, Clipped

\* The types of what an arm that writes sets.
LEMMA WritesTypes ==
  ASSUME TypeOK, NEW e \in End, NEW f \in Frame, NEW how \in {"write", "bye"}, Writes(e, f, how)
  PROVE  /\ arm' \in [End -> {"select", "write", "bye", "closed", "broken"}]
         /\ out' \in [End -> Seq(Piece)]
         /\ \A d \in End : arm'[d] \in {"write", "bye"} => out'[d] # << >>
<1>1. Pieces(f) \in Seq(Piece) /\ Pieces(f) # << >>
  BY PiecesAre
<1> QED
  BY <1>1 DEF TypeOK, Writes

\* What is left of a frame when a piece of it is written.
LEMMA Tails ==
  ASSUME NEW r \in Seq(Piece), r # << >>
  PROVE  /\ Head(r) \in Piece /\ Tail(r) \in Seq(Piece)
         /\ Len(r) > 1 => Tail(r) # << >>
         /\ ~(Len(r) > 1) => Tail(r) = << >>
<1>1. Len(r) \in Nat /\ Len(r) # 0 /\ Tail(r) \in Seq(Piece) /\ Len(Tail(r)) = Len(r) - 1
  OBVIOUS
<1>2. \A q \in Seq(Piece) : q = << >> <=> Len(q) = 0
  OBVIOUS
<1>3. ~(Len(r) > 1) => Len(Tail(r)) = 0
  BY <1>1
<1>4. Len(r) > 1 => Len(Tail(r)) # 0
  BY SMTT(30), <1>1
<1>5. Tail(r) = << >> <=> Len(Tail(r)) = 0
  BY <1>1, <1>2
<1>6. Head(r) \in Piece
  OBVIOUS
<1> QED
  BY <1>1, <1>3, <1>4, <1>5, <1>6

\* What is taken off the stream.
LEMMA TakesTypes ==
  ASSUME TypeOK, NEW e \in End, pipe[e] # << >>, pipe' = [pipe EXCEPT ![e] = Tail(@)]
  PROVE  /\ pipe' \in [End -> Seq(Piece)] /\ \A d \in End : Len(pipe'[d]) <= Buf
         /\ Head(pipe[e]) \in Piece /\ Head(pipe[e]).frame \in Frame
<1>1. pipe[e] \in Seq(Piece) /\ Len(pipe[e]) <= Buf
  BY DEF TypeOK
<1>2. Tail(pipe[e]) \in Seq(Piece) /\ Len(Tail(pipe[e])) = Len(pipe[e]) - 1 /\ Len(pipe[e]) \in Nat
      /\ Head(pipe[e]) \in Piece
  BY <1>1
<1>3. Buf \in Nat
  BY WireAssumption
<1>4. Len(Tail(pipe[e])) <= Buf
  BY <1>1, <1>2, <1>3
<1>5. Head(pipe[e]).frame \in Frame
  BY <1>2 DEF Piece
<1> QED
  BY <1>2, <1>4, <1>5 DEF TypeOK

\* Every step keeps the types.
LEMMA StepTInv == TInv /\ [Next]_vars => TInv'
<1>1. SUFFICES ASSUME TInv, [Next]_vars PROVE TInv'
  OBVIOUS
<1>2. TypeOK /\ Quiet
  BY <1>1 DEF TInv
<1>3. << >> \in Seq(Piece)
  OBVIOUS
<1>4. CASE UNCHANGED vars
  BY <1>2, <1>4 DEF vars, TInv, TypeOK, Quiet
<1>5. ASSUME NEW e \in End, ReadBad(e) PROVE TInv'
  BY <1>2, <1>5, TakesTypes DEF ReadBad, RefusesBad, TInv, TypeOK, Quiet
<1>6. ASSUME NEW e \in End, ReadPart(e) PROVE TInv'
  <2>1. /\ pipe' \in [End -> Seq(Piece)] /\ \A d \in End : Len(pipe'[d]) <= Buf
        /\ Head(pipe[e]) \in Piece
    BY <1>2, <1>6, TakesTypes DEF ReadPart, Takes
  <2>2. part[e] \in Seq(Piece)
    BY <1>2 DEF TypeOK
  <2>3. Append(part[e], Head(pipe[e])) \in Seq(Piece)
    BY <2>1, <2>2
  <2>4. part' \in [End -> Seq(Piece)]
    BY <1>2, <1>6, <2>3 DEF ReadPart, TypeOK
  <2> QED
    BY <1>2, <1>6, <2>1, <2>4 DEF ReadPart, TInv, TypeOK, Quiet
<1>7. ASSUME NEW e \in End, ReadClip(e) PROVE TInv'
  <2> DEFINE f == Head(pipe[e]).frame
  <2>1. /\ pipe' \in [End -> Seq(Piece)] /\ \A d \in End : Len(pipe'[d]) <= Buf
        /\ f \in Frame
    BY <1>2, <1>7, TakesTypes DEF ReadClip, Takes
  <2>2. f.clip \in Clip
    BY <1>7, <2>1 DEF ReadClip, Frame
  <2>3. got[e] \in Seq(Clip) /\ part' \in [End -> Seq(Piece)]
    BY <1>2, <1>3, <1>7 DEF TypeOK, ReadClip
  <2>4. Append(got[e], f.clip) \in Seq(Clip)
    BY <2>2, <2>3
  <2>5. got' \in [End -> Seq(Clip)]
    BY <1>2, <1>7, <2>4 DEF TypeOK, ReadClip
  <2>6. CASE Writes(e, Short("ack"), "write")
    <3>1. /\ arm' \in [End -> {"select", "write", "bye", "closed", "broken"}]
          /\ out' \in [End -> Seq(Piece)]
          /\ \A d \in End : arm'[d] \in {"write", "bye"} => out'[d] # << >>
      BY <1>2, <2>6, WritesTypes, FrameTypes
    <3>2. Quiet'
      BY <1>2, <2>6 DEF Quiet, Writes, TypeOK
    <3> QED
      BY <1>2, <1>7, <2>1, <2>3, <2>5, <3>1, <3>2 DEF ReadClip, TInv, TypeOK
  <2>7. CASE arm' = [arm EXCEPT ![e] = "closed"] /\ UNCHANGED out
    BY <1>2, <1>7, <2>1, <2>3, <2>5, <2>7 DEF ReadClip, TInv, TypeOK, Quiet
  <2> QED
    BY <1>7, <2>6, <2>7 DEF ReadClip
<1>8. ASSUME NEW e \in End, ReadShort(e) PROVE TInv'
  <2>1. pipe' \in [End -> Seq(Piece)] /\ \A d \in End : Len(pipe'[d]) <= Buf
    BY <1>2, <1>8, TakesTypes DEF ReadShort, Takes
  <2>2. part' \in [End -> Seq(Piece)]
    BY <1>2, <1>3, <1>8 DEF TypeOK, ReadShort
  <2>3. CASE Writes(e, Short("pong"), "write")
    <3>1. /\ arm' \in [End -> {"select", "write", "bye", "closed", "broken"}]
          /\ out' \in [End -> Seq(Piece)]
          /\ \A d \in End : arm'[d] \in {"write", "bye"} => out'[d] # << >>
      BY <1>2, <2>3, WritesTypes, FrameTypes
    <3>2. Quiet'
      BY <1>2, <2>3 DEF Quiet, Writes, TypeOK
    <3> QED
      BY <1>2, <1>8, <2>1, <2>2, <3>1, <3>2 DEF ReadShort, TInv, TypeOK
  <2>4. CASE UNCHANGED <<arm, out>>
    BY <1>2, <1>8, <2>1, <2>2, <2>4 DEF ReadShort, TInv, TypeOK, Quiet
  <2>5. CASE arm' = [arm EXCEPT ![e] = "closed"] /\ UNCHANGED out
    BY <1>2, <1>8, <2>1, <2>2, <2>5 DEF ReadShort, TInv, TypeOK, Quiet
  <2> QED
    BY <1>8, <2>3, <2>4, <2>5 DEF ReadShort
<1>9. ASSUME NEW e \in End, ReadEnd(e) PROVE TInv'
  BY <1>2, <1>9 DEF ReadEnd, TInv, TypeOK, Quiet
<1>10. ASSUME NEW e \in End, NEW c \in Clip, Recv(e, c) PROVE TInv'
  <2>1. part' \in [End -> Seq(Piece)] /\ rx' \in [End -> SUBSET Clip]
    BY <1>2, <1>3, <1>10 DEF TypeOK, Recv, DropRead
  <2>2. CASE c \in Skipped
    BY <1>2, <1>10, <2>1, <2>2 DEF Recv, TInv, TypeOK, Quiet
  <2>3. CASE c \notin Skipped
    <3>1. Writes(e, Clipped(c), "write") /\ sent' = [sent EXCEPT ![e] = Append(@, c)]
      BY <1>10, <2>3, FrameTypes DEF Recv
    <3>2. /\ arm' \in [End -> {"select", "write", "bye", "closed", "broken"}]
          /\ out' \in [End -> Seq(Piece)]
          /\ \A d \in End : arm'[d] \in {"write", "bye"} => out'[d] # << >>
      BY <1>2, <3>1, WritesTypes, FrameTypes
    <3>3. Quiet'
      BY <1>2, <3>1 DEF Quiet, Writes, TypeOK
    <3>4. sent[e] \in Seq(Clip)
      BY <1>2 DEF TypeOK
    <3>5. Append(sent[e], c) \in Seq(Clip)
      BY <3>4
    <3>6. sent' \in [End -> Seq(Clip)]
      BY <1>2, <3>1, <3>5 DEF TypeOK
    <3> QED
      BY <1>2, <1>10, <2>1, <3>2, <3>3, <3>6 DEF Recv, TInv, TypeOK
  <2> QED
    BY <2>2, <2>3
<1>11. ASSUME NEW e \in End, Tick(e) PROVE TInv'
  <2>1. /\ arm' \in [End -> {"select", "write", "bye", "closed", "broken"}]
        /\ out' \in [End -> Seq(Piece)]
        /\ \A d \in End : arm'[d] \in {"write", "bye"} => out'[d] # << >>
    BY <1>2, <1>11, WritesTypes, FrameTypes DEF Tick
  <2>2. Quiet'
    BY <1>2, <1>11 DEF Quiet, Tick, Writes, TypeOK
  <2>3. part' \in [End -> Seq(Piece)]
    BY <1>2, <1>3, <1>11 DEF TypeOK, Tick, DropRead
  <2>4. pings[e] \in 0 .. MaxPings /\ pings[e] < MaxPings /\ MaxPings \in Nat
    BY <1>2, <1>11, WireAssumption DEF TypeOK, Tick
  <2>5. pings[e] + 1 \in 0 .. MaxPings
    BY <2>4
  <2>6. pings' \in [End -> 0 .. MaxPings]
    BY <1>2, <1>11, <2>5 DEF TypeOK, Tick
  <2> QED
    BY <1>2, <1>11, <2>1, <2>2, <2>3, <2>6 DEF Tick, TInv, TypeOK
<1>12. ASSUME NEW e \in End, Stop(e) PROVE TInv'
  <2>1. /\ arm' \in [End -> {"select", "write", "bye", "closed", "broken"}]
        /\ out' \in [End -> Seq(Piece)]
        /\ \A d \in End : arm'[d] \in {"write", "bye"} => out'[d] # << >>
    BY <1>2, <1>12, WritesTypes, FrameTypes DEF Stop
  <2>2. Quiet'
    BY <1>2, <1>12 DEF Quiet, Stop, Writes, TypeOK
  <2>3. part' \in [End -> Seq(Piece)]
    BY <1>2, <1>3, <1>12 DEF TypeOK, Stop, DropRead
  <2> QED
    BY <1>2, <1>12, <2>1, <2>2, <2>3 DEF Stop, TInv, TypeOK
<1>13. ASSUME NEW e \in End, WritePiece(e) PROVE TInv'
  <2> DEFINE o == Other(e)
  <2>1. o \in End /\ o # e
    BY Ends
  <2>2. out[e] \in Seq(Piece) /\ out[e] # << >> /\ pipe[o] \in Seq(Piece)
    BY <1>2, <1>13, <2>1 DEF TypeOK, WritePiece
  <2>3. /\ Head(out[e]) \in Piece /\ Tail(out[e]) \in Seq(Piece)
        /\ Len(out[e]) > 1 => Tail(out[e]) # << >>
        /\ ~(Len(out[e]) > 1) => Tail(out[e]) = << >>
    BY <2>2, Tails
  <2>4. /\ Append(pipe[o], Head(out[e])) \in Seq(Piece)
        /\ Len(Append(pipe[o], Head(out[e]))) = Len(pipe[o]) + 1 /\ Len(pipe[o]) \in Nat
    BY <2>2, <2>3
  <2>5. Len(pipe[o]) + 1 <= Buf
    BY <1>13, <2>4, WireAssumption DEF WritePiece, Room
  <2> HIDE DEF o
  <2>6. /\ pipe' = [pipe EXCEPT ![o] = Append(@, Head(out[e]))]
        /\ out' = [out EXCEPT ![e] = Tail(@)]
        /\ arm' = IF Len(out[e]) > 1 THEN arm
                  ELSE [arm EXCEPT ![e] = IF @ = "bye" THEN "closed" ELSE "select"]
        /\ arm[e] \in {"write", "bye"}
        /\ UNCHANGED <<part, rx, pings, sent, got>>
    BY <1>13 DEF WritePiece, o
  <2>7. pipe' \in [End -> Seq(Piece)]
    BY <1>2, <2>1, <2>4, <2>6 DEF TypeOK
  <2>8. \A d \in End : Len(pipe'[d]) <= Buf
    BY <1>2, <2>1, <2>4, <2>5, <2>6 DEF TypeOK
  <2>9. out' \in [End -> Seq(Piece)]
    BY <1>2, <2>3, <2>6 DEF TypeOK
  <2>10. /\ arm' \in [End -> {"select", "write", "bye", "closed", "broken"}]
         /\ \A d \in End : arm'[d] \in {"write", "bye"} => out'[d] # << >>
         /\ \A d \in End : arm'[d] = "select" => out'[d] = << >>
    BY <1>2, <2>3, <2>6 DEF TypeOK, Quiet
  <2> QED
    BY <1>2, <2>6, <2>7, <2>8, <2>9, <2>10 DEF TInv, TypeOK, Quiet
<1>14. ASSUME NEW e \in End, WriteFails(e) PROVE TInv'
  BY <1>2, <1>14 DEF WriteFails, TInv, TypeOK, Quiet
<1> QED
  BY <1>1, <1>4, <1>5, <1>6, <1>7, <1>8, <1>9, <1>10, <1>11, <1>12, <1>13, <1>14
     DEF Next, Loop, Read

\* Every state of a session has its types, the buffers keep to their size and an
\* end has something to write just while one of its arms writes.
THEOREM TypeCorrect == Spec => []TypeOK
<1>1. TInv => TypeOK
  BY DEF TInv
<1> QED
  BY <1>1, InitTInv, StepTInv, PTL DEF Spec

-----------------------------------------------------------------------------
(* What is on the way *)

\* The end e reads no more, or what comes next will end its loop, or the clips
\* that are still to come are those it has not got, whole and in their order.
Flow(e) ==
  \/ Over(e)
  \/ Cut(part[e], pipe[e], out[Other(e)])
  \/ Whole(part[e], pipe[e], out[Other(e)], Len(got[e]), sent[Other(e)])

IInv == TInv /\ \A e \in End : Flow(e)

\* A new session satisfies the invariant.
LEMMA InitIInv == Init => IInv
<1>1. SUFFICES ASSUME Init PROVE IInv
  OBVIOUS
<1>2. TInv
  BY <1>1, InitTInv
<1>3. ASSUME NEW e \in End PROVE Flow(e)
  <2>1. /\ part[e] = << >> /\ pipe[e] = << >> /\ out[Other(e)] = << >>
        /\ Len(got[e]) = 0 /\ sent[Other(e)] = << >>
    BY <1>1, Ends DEF Init
  <2> QED
    BY <2>1, WholeAtFirst DEF Flow
<1> QED
  BY <1>2, <1>3 DEF IInv

\* A step that leaves the way to e alone.
LEMMA FlowKept ==
  ASSUME NEW e \in End, Flow(e), Over(e) => Over(e)',
         part'[e] = part[e], pipe'[e] = pipe[e], got'[e] = got[e],
         out'[Other(e)] = out[Other(e)], sent'[Other(e)] = sent[Other(e)]
  PROVE  Flow(e)'
<1>1. Other(e)' = Other(e)
  BY DEF Other
<1> QED
  BY <1>1 DEF Flow

\* A frame that begins to be written towards o.
LEMMA FlowWrites ==
  ASSUME TypeOK, NEW o \in End, Flow(o), Over(o) => Over(o)', NEW f \in Frame,
         part'[o] = part[o], pipe'[o] = pipe[o], got'[o] = got[o],
         out[Other(o)] = << >>, out'[Other(o)] = Pieces(f),
         sent'[Other(o)] = After(sent[Other(o)], f)
  PROVE  Flow(o)'
<1>1. Other(o)' = Other(o) /\ Other(o) \in End
  BY Ends DEF Other
<1>2. /\ part[o] \in Seq(Piece) /\ pipe[o] \in Seq(Piece)
      /\ got[o] \in Seq(Clip) /\ sent[Other(o)] \in Seq(Clip)
  BY <1>1 DEF TypeOK
<1>3. Len(got[o]) \in Nat
  BY <1>2
<1>4. CASE Over(o)
  BY <1>4 DEF Flow
<1>5. CASE Cut(part[o], pipe[o], out[Other(o)])
  <2>1. Cut(part[o], pipe[o], Pieces(f))
    BY <1>5 DEF Cut
  <2> QED
    BY <1>1, <2>1 DEF Flow
<1>6. CASE Whole(part[o], pipe[o], out[Other(o)], Len(got[o]), sent[Other(o)])
  <2>1. Whole(part[o], pipe[o], Pieces(f), Len(got[o]), After(sent[Other(o)], f))
    BY <1>2, <1>3, <1>6, WholeWrites
  <2> QED
    BY <1>1, <2>1 DEF Flow
<1> QED
  BY <1>4, <1>5, <1>6 DEF Flow

\* The read of e is dropped.
LEMMA FlowDrops ==
  ASSUME TypeOK, NEW e \in End, Flow(e), Over(e) => Over(e)',
         part'[e] = << >>, pipe'[e] = pipe[e], got'[e] = got[e],
         out'[Other(e)] = out[Other(e)], sent'[Other(e)] = sent[Other(e)]
  PROVE  Flow(e)'
<1>1. Other(e)' = Other(e) /\ Other(e) \in End
  BY Ends DEF Other
<1>2. /\ part[e] \in Seq(Piece) /\ pipe[e] \in Seq(Piece) /\ out[Other(e)] \in Seq(Piece)
      /\ got[e] \in Seq(Clip) /\ sent[Other(e)] \in Seq(Clip)
  BY <1>1 DEF TypeOK
<1>3. Len(got[e]) \in Nat
  BY <1>2
<1>4. CASE Over(e)
  BY <1>4 DEF Flow
<1>5. CASE Cut(part[e], pipe[e], out[Other(e)])
  <2>1. Cut(<< >>, pipe[e], out[Other(e)])
    BY <1>5 DEF Cut
  <2> QED
    BY <1>1, <2>1 DEF Flow
<1>6. CASE Whole(part[e], pipe[e], out[Other(e)], Len(got[e]), sent[Other(e)])
  <2>1. \/ Whole(<< >>, pipe[e], out[Other(e)], Len(got[e]), sent[Other(e)])
        \/ Cut(<< >>, pipe[e], out[Other(e)])
    BY <1>2, <1>3, <1>6, WholeDrops
  <2> QED
    BY <1>1, <2>1 DEF Flow
<1> QED
  BY <1>4, <1>5, <1>6 DEF Flow

\* What e takes off the stream belongs to whole frames.
LEMMA FlowTakes ==
  ASSUME TypeOK, NEW e \in End, Flow(e), Takes(e)
  PROVE  /\ Whole(part[e], pipe[e], out[Other(e)], Len(got[e]), sent[Other(e)])
         /\ Completes(e) <=> Last(Head(pipe[e]).frame) = Len(part[e])
         /\ part[e] \in Seq(Piece) /\ pipe[e] \in Seq(Piece) /\ out[Other(e)] \in Seq(Piece)
         /\ got[e] \in Seq(Clip) /\ sent[Other(e)] \in Seq(Clip) /\ Len(got[e]) \in Nat
         /\ Head(pipe[e]).frame \in Frame
<1>1. /\ part[e] \in Seq(Piece) /\ pipe[e] \in Seq(Piece) /\ out[Other(e)] \in Seq(Piece)
      /\ got[e] \in Seq(Clip) /\ sent[Other(e)] \in Seq(Clip)
  BY Ends DEF TypeOK
<1>2. ~Over(e)
  BY DEF Takes, Over
<1>3. ~Cut(part[e], pipe[e], out[Other(e)])
  BY DEF Takes, Cut
<1>4. Head(pipe[e]).frame \in Frame
  BY TakesTypes DEF Takes
<1>5. Len(Pieces(Head(pipe[e]).frame)) = Last(Head(pipe[e]).frame) + 1
      /\ Last(Head(pipe[e]).frame) \in Nat
  BY <1>4, PiecesAre
<1>6. Len(part[e]) \in Nat /\ Len(got[e]) \in Nat
  BY <1>1
<1>7. Completes(e) <=> Last(Head(pipe[e]).frame) = Len(part[e])
  BY <1>5, <1>6 DEF Completes
<1> QED
  BY <1>1, <1>2, <1>3, <1>4, <1>6, <1>7 DEF Flow

\* A frame that begins to be written, as far as the other end can tell.
LEMMA Begins ==
  ASSUME TInv, NEW e \in End, NEW f \in Frame, NEW how \in {"write", "bye"},
         arm[e] = "select", Writes(e, f, how), Flow(Other(e)),
         \A d \in End : d # e => part'[d] = part[d] /\ pipe'[d] = pipe[d] /\ got'[d] = got[d],
         sent'[e] = After(sent[e], f)
  PROVE  /\ Flow(Other(e))'
         /\ out'[Other(e)] = out[Other(e)]
         /\ \A d \in End : Over(d)' <=> Over(d)
<1> DEFINE o == Other(e)
<1>1. o \in End /\ o # e /\ Other(o) = e
  BY Ends
<1>2. TypeOK /\ out[e] = << >>
  BY DEF TInv, Quiet
<1>3. out'[e] = Pieces(f) /\ out'[o] = out[o] /\ arm'[o] = arm[o] /\ arm'[e] = how
  BY <1>1, <1>2 DEF Writes, TypeOK
<1>4. ASSUME NEW d \in End PROVE Over(d)' <=> Over(d)
  BY <1>2, <1>3, Ends DEF Over
<1>5. part'[o] = part[o] /\ pipe'[o] = pipe[o] /\ got'[o] = got[o]
  BY <1>1
<1> HIDE DEF o
<1>6. Flow(o)'
  <2>1. /\ out[Other(o)] = << >> /\ out'[Other(o)] = Pieces(f)
        /\ sent'[Other(o)] = After(sent[Other(o)], f)
    BY <1>1, <1>2, <1>3
  <2>2. Flow(o) /\ (Over(o) => Over(o)')
    BY <1>1, <1>4 DEF o
  <2> QED
    BY <1>1, <1>2, <1>5, <2>1, <2>2, FlowWrites
<1> QED
  BY <1>3, <1>4, <1>6 DEF o

\* A step of e that writes nothing, as far as the other end can tell.
LEMMA Silent ==
  ASSUME NEW e \in End, Flow(Other(e)), Over(Other(e)) => Over(Other(e))',
         \A d \in End : d # e => part'[d] = part[d] /\ pipe'[d] = pipe[d] /\ got'[d] = got[d],
         out'[e] = out[e], sent'[e] = sent[e]
  PROVE  Flow(Other(e))'
<1>1. Other(e) \in End /\ Other(e) # e /\ Other(Other(e)) = e
  BY Ends
<1> QED
  BY <1>1, FlowKept

\* Every step keeps what is on the way to either end.
LEMMA StepFlow ==
  ASSUME IInv, Next, TInv', NEW d \in End
  PROVE  Flow(d)'
<1>1. TInv /\ TypeOK /\ Quiet /\ \A x \in End : Flow(x)
  BY DEF IInv, TInv
<1>2. SUFFICES ASSUME NEW e \in End, Loop(e) \/ Stop(e)
               PROVE  Flow(e)' /\ Flow(Other(e))'
  BY Ends DEF Next
<1> DEFINE o == Other(e)
<1>3. o \in End /\ o # e /\ Other(o) = e
  BY Ends
<1> HIDE DEF o
<1>4. Flow(e) /\ Flow(o)
  BY <1>1, <1>3
<1>5. CASE ReadBad(e)
  <2>1. Over(e)' /\ (Over(o) => Over(o)')
    BY <1>1, <1>3, <1>5 DEF ReadBad, RefusesBad, Over, TypeOK
  <2>2. \A x \in End : x # e => part'[x] = part[x] /\ pipe'[x] = pipe[x] /\ got'[x] = got[x]
    BY <1>1, <1>5 DEF ReadBad, RefusesBad, TypeOK
  <2>3. out' = out /\ sent' = sent
    BY <1>5 DEF ReadBad
  <2> QED
    BY <1>3, <1>4, <2>1, <2>2, <2>3, Silent DEF Flow, o
<1>6. CASE ReadPart(e)
  <2>1. Takes(e) /\ ~Completes(e)
    BY <1>6 DEF ReadPart
  <2>2. /\ part'[e] = Append(part[e], Head(pipe[e])) /\ pipe'[e] = Tail(pipe[e])
        /\ arm' = arm /\ out' = out /\ sent' = sent /\ got' = got
    BY <1>1, <1>6 DEF ReadPart, Takes, TypeOK
  <2>3. \A x \in End : x # e => part'[x] = part[x] /\ pipe'[x] = pipe[x] /\ got'[x] = got[x]
    BY <1>1, <1>6 DEF ReadPart, Takes, TypeOK
  <2>4. Over(o) => Over(o)'
    BY <2>2 DEF Over
  <2>5. Whole(part'[e], pipe'[e], out[Other(e)], Len(got[e]), sent[Other(e)])
    <3>1. /\ Whole(part[e], pipe[e], out[Other(e)], Len(got[e]), sent[Other(e)])
          /\ part[e] \in Seq(Piece) /\ pipe[e] \in Seq(Piece) /\ out[Other(e)] \in Seq(Piece)
          /\ sent[Other(e)] \in Seq(Clip) /\ Len(got[e]) \in Nat /\ pipe[e] # << >>
          /\ Last(Head(pipe[e]).frame) # Len(part[e])
      BY <1>1, <1>4, <2>1, FlowTakes DEF Takes
    <3>2. Whole(Append(part[e], Head(pipe[e])), Tail(pipe[e]), out[Other(e)], Len(got[e]),
                sent[Other(e)])
      BY <3>1, WholeReads
    <3> QED
      BY <2>2, <3>2
  <2>6. Flow(e)'
    BY <2>2, <2>5 DEF Flow, Other
  <2> QED
    BY <1>3, <1>4, <2>2, <2>3, <2>4, <2>6, Silent DEF o
<1>7. CASE ReadClip(e)
  <2>1. Takes(e) /\ Completes(e) /\ Head(pipe[e]).frame.type = "clip"
    BY <1>7 DEF ReadClip
  <2>2. /\ part'[e] = << >> /\ pipe'[e] = Tail(pipe[e]) /\ sent' = sent
        /\ got'[e] = Append(got[e], Head(pipe[e]).frame.clip)
    BY <1>1, <1>7 DEF ReadClip, Takes, TypeOK
  <2>3. \A x \in End : x # e => part'[x] = part[x] /\ pipe'[x] = pipe[x] /\ got'[x] = got[x]
    BY <1>1, <1>7 DEF ReadClip, Takes, TypeOK
  <2>4. Len(got'[e]) = Len(got[e]) + 1
    BY <1>1, <1>4, <2>1, <2>2, FlowTakes
  <2>5. Whole(part'[e], pipe'[e], out[Other(e)], Len(got'[e]), sent'[Other(e)])
    <3>1. /\ Whole(part[e], pipe[e], out[Other(e)], Len(got[e]), sent[Other(e)])
          /\ part[e] \in Seq(Piece) /\ pipe[e] \in Seq(Piece) /\ out[Other(e)] \in Seq(Piece)
          /\ sent[Other(e)] \in Seq(Clip) /\ Len(got[e]) \in Nat /\ pipe[e] # << >>
          /\ Last(Head(pipe[e]).frame) = Len(part[e])
      BY <1>1, <1>4, <2>1, FlowTakes DEF Takes
    <3>2. Whole(<< >>, Tail(pipe[e]), out[Other(e)], Len(got[e]) + 1, sent[Other(e)])
      BY <2>1, <3>1, WholeCompletes
    <3>3. Other(e)' = Other(e)
      BY DEF Other
    <3> QED
      BY <2>2, <2>4, <3>2, <3>3
  <2>6. CASE Writes(e, Short("ack"), "write")
    <3>1. After(sent[e], Short("ack")) = sent[e]
      BY FrameTypes DEF After
    <3>2. Flow(o)' /\ out'[Other(e)] = out[Other(e)]
      BY <1>1, <1>4, <2>1, <2>2, <2>3, <2>6, <3>1, Begins, FrameTypes DEF o, Takes
    <3> QED
      BY <2>5, <3>2 DEF Flow, Other, o
  <2>7. CASE arm' = [arm EXCEPT ![e] = "closed"] /\ UNCHANGED out
    <3>1. Over(e)' /\ (Over(o) => Over(o)')
      BY <1>1, <1>3, <2>7 DEF Over, TypeOK
    <3> QED
      BY <1>3, <1>4, <2>2, <2>3, <2>7, <3>1, Silent DEF Flow, o
  <2> QED
    BY <1>7, <2>6, <2>7 DEF ReadClip
<1>8. CASE ReadShort(e)
  <2>1. Takes(e) /\ Completes(e) /\ Head(pipe[e]).frame.type # "clip"
    BY <1>8 DEF ReadShort
  <2>2. /\ part'[e] = << >> /\ pipe'[e] = Tail(pipe[e]) /\ sent' = sent /\ got' = got
    BY <1>1, <1>8 DEF ReadShort, Takes, TypeOK
  <2>3. \A x \in End : x # e => part'[x] = part[x] /\ pipe'[x] = pipe[x] /\ got'[x] = got[x]
    BY <1>1, <1>8 DEF ReadShort, Takes, TypeOK
  <2>4. Whole(part'[e], pipe'[e], out[Other(e)], Len(got'[e]), sent'[Other(e)])
    <3>1. /\ Whole(part[e], pipe[e], out[Other(e)], Len(got[e]), sent[Other(e)])
          /\ part[e] \in Seq(Piece) /\ pipe[e] \in Seq(Piece) /\ out[Other(e)] \in Seq(Piece)
          /\ sent[Other(e)] \in Seq(Clip) /\ Len(got[e]) \in Nat /\ pipe[e] # << >>
          /\ Last(Head(pipe[e]).frame) = Len(part[e])
      BY <1>1, <1>4, <2>1, FlowTakes DEF Takes
    <3>2. Whole(<< >>, Tail(pipe[e]), out[Other(e)], Len(got[e]), sent[Other(e)])
      BY <2>1, <3>1, WholeCompletes
    <3>3. Other(e)' = Other(e)
      BY DEF Other
    <3> QED
      BY <2>2, <3>2, <3>3
  <2>5. CASE Writes(e, Short("pong"), "write")
    <3>1. After(sent[e], Short("pong")) = sent[e]
      BY FrameTypes DEF After
    <3>2. Flow(o)' /\ out'[Other(e)] = out[Other(e)]
      BY <1>1, <1>4, <2>1, <2>2, <2>3, <2>5, <3>1, Begins, FrameTypes DEF o, Takes
    <3> QED
      BY <2>4, <3>2 DEF Flow, Other, o
  <2>6. CASE UNCHANGED <<arm, out>>
    <3>1. Over(o) => Over(o)'
      BY <2>6 DEF Over
    <3>2. Flow(e)'
      BY <2>4, <2>6 DEF Flow, Other
    <3> QED
      BY <1>3, <1>4, <2>2, <2>3, <2>6, <3>1, <3>2, Silent DEF o
  <2>7. CASE arm' = [arm EXCEPT ![e] = "closed"] /\ UNCHANGED out
    <3>1. Over(e)' /\ (Over(o) => Over(o)')
      BY <1>1, <1>3, <2>7 DEF Over, TypeOK
    <3> QED
      BY <1>3, <1>4, <2>2, <2>3, <2>7, <3>1, Silent DEF Flow, o
  <2> QED
    BY <1>8, <2>5, <2>6, <2>7 DEF ReadShort
<1>9. CASE ReadEnd(e)
  <2>1. Over(e)' /\ (Over(o) => Over(o)')
    BY <1>1, <1>3, <1>9 DEF ReadEnd, Over, TypeOK
  <2>2. UNCHANGED <<out, part, pipe, sent, got>>
    BY <1>9 DEF ReadEnd
  <2> QED
    BY <1>3, <1>4, <2>1, <2>2, Silent DEF Flow, o
<1>10. ASSUME NEW c \in Clip, Recv(e, c) PROVE Flow(e)' /\ Flow(Other(e))'
  <2>1. /\ arm[e] = "select" /\ part'[e] = << >> /\ pipe' = pipe /\ got' = got
        /\ \A x \in End : x # e => part'[x] = part[x] /\ pipe'[x] = pipe[x] /\ got'[x] = got[x]
    BY <1>1, <1>10 DEF Recv, DropRead, TypeOK
  <2>2. CASE c \in Skipped
    <3>1. UNCHANGED <<arm, out, sent>>
      BY <1>10, <2>2 DEF Recv
    <3>2. (Over(o) => Over(o)') /\ (Over(e) => Over(e)')
      BY <3>1 DEF Over
    <3>3. Flow(e)'
      BY <1>1, <1>4, <2>1, <3>1, <3>2, FlowDrops
    <3> QED
      BY <1>3, <1>4, <2>1, <3>1, <3>2, <3>3, Silent DEF o
  <2>3. CASE c \notin Skipped
    <3>1. Writes(e, Clipped(c), "write") /\ sent' = [sent EXCEPT ![e] = Append(@, c)]
      BY <1>10, <2>3, FrameTypes DEF Recv
    <3>2. sent'[e] = Append(sent[e], c) /\ sent'[o] = sent[o]
      BY <1>1, <1>3, <3>1 DEF TypeOK
    <3>3. After(sent[e], Clipped(c)) = Append(sent[e], c)
      BY DEF After, Clipped
    <3>4. Flow(o)' /\ out'[o] = out[o] /\ (Over(e)' <=> Over(e))
      BY <1>1, <1>4, <2>1, <3>1, <3>2, <3>3, Begins, FrameTypes DEF o
    <3>5. Flow(e)'
      BY <1>1, <1>4, <2>1, <3>2, <3>4, FlowDrops DEF o
    <3> QED
      BY <3>4, <3>5 DEF o
  <2> QED
    BY <2>2, <2>3
<1>11. ASSUME NEW type \in {"ping", "bye"}, NEW how \in {"write", "bye"}, arm[e] = "select",
              DropRead(e), Writes(e, Short(type), how), UNCHANGED <<pipe, sent, got>>
       PROVE  Flow(e)' /\ Flow(Other(e))'
  <2>1. /\ part'[e] = << >>
        /\ \A x \in End : x # e => part'[x] = part[x] /\ pipe'[x] = pipe[x] /\ got'[x] = got[x]
    BY <1>1, <1>11 DEF DropRead, TypeOK
  <2>2. Short(type) \in Frame /\ After(sent[e], Short(type)) = sent[e]
    BY FrameTypes DEF After
  <2>3. Flow(o)' /\ out'[o] = out[o] /\ (Over(e)' <=> Over(e))
    BY <1>1, <1>4, <1>11, <2>1, <2>2, Begins DEF o
  <2>4. Flow(e)'
    BY <1>1, <1>4, <1>11, <2>1, <2>3, FlowDrops DEF o
  <2> QED
    BY <2>3, <2>4 DEF o
<1>12. CASE Tick(e)
  BY <1>11, <1>12 DEF Tick
<1>13. CASE Stop(e)
  BY <1>11, <1>13 DEF Stop
<1>14. CASE WritePiece(e)
  <2>1. /\ out[e] \in Seq(Piece) /\ out[e] # << >> /\ pipe[o] \in Seq(Piece)
        /\ part[o] \in Seq(Piece) /\ got[o] \in Seq(Clip) /\ sent[e] \in Seq(Clip)
    BY <1>1, <1>3, <1>14 DEF TypeOK, WritePiece
  <2>2. /\ pipe' = [pipe EXCEPT ![o] = Append(@, Head(out[e]))]
        /\ out' = [out EXCEPT ![e] = Tail(@)]
        /\ arm' = IF Len(out[e]) > 1 THEN arm
                  ELSE [arm EXCEPT ![e] = IF @ = "bye" THEN "closed" ELSE "select"]
        /\ arm[e] \in {"write", "bye"}
        /\ UNCHANGED <<part, sent, got>>
    BY <1>14 DEF WritePiece, o
  <2>3. /\ pipe'[o] = Append(pipe[o], Head(out[e])) /\ pipe'[e] = pipe[e]
        /\ out'[e] = Tail(out[e]) /\ out'[o] = out[o] /\ arm'[o] = arm[o]
    BY <1>1, <1>3, <2>2 DEF TypeOK
  <2>4. ~Over(e) /\ (Over(o) <=> Over(o)')
    BY <2>2, <2>3 DEF Over
  <2>5. Flow(e)'
    BY <1>4, <2>2, <2>3, <2>4, FlowKept DEF o
  <2>6. Flow(o)'
    <3>1. CASE Over(o)
      BY <2>4, <3>1 DEF Flow
    <3>2. CASE Cut(part[o], pipe[o], out[e])
      <4>1. Cut(part[o], pipe'[o], out'[e])
        BY <2>1, <2>3, <3>2, CutMoves
      <4> QED
        BY <1>3, <2>2, <4>1 DEF Flow, Other
    <3>3. CASE Whole(part[o], pipe[o], out[e], Len(got[o]), sent[e])
      <4>1. Len(got[o]) \in Nat
        BY <2>1
      <4>2. Whole(part[o], pipe'[o], out'[e], Len(got[o]), sent[e])
        BY <2>1, <2>3, <3>3, <4>1, WholeMoves
      <4> QED
        BY <1>3, <2>2, <4>2 DEF Flow, Other
    <3> QED
      BY <1>3, <1>4, <3>1, <3>2, <3>3 DEF Flow
  <2> QED
    BY <2>5, <2>6 DEF o
<1>15. CASE WriteFails(e)
  <2>1. Over(e)' /\ (Over(o) => Over(o)')
    BY <1>1, <1>3, <1>15 DEF WriteFails, Over, TypeOK
  <2>2. UNCHANGED <<out, part, pipe, sent, got>>
    BY <1>15 DEF WriteFails
  <2> QED
    BY <1>3, <1>4, <2>1, <2>2, Silent DEF Flow, o
<1> QED
  BY <1>2, <1>5, <1>6, <1>7, <1>8, <1>9, <1>10, <1>12, <1>13, <1>14, <1>15 DEF Loop, Read

\* The invariant is inductive.
LEMMA StepIInv == IInv /\ [Next]_vars => IInv'
<1>1. SUFFICES ASSUME IInv, [Next]_vars PROVE IInv'
  OBVIOUS
<1>2. TInv'
  BY <1>1, StepTInv DEF IInv
<1>3. ASSUME NEW e \in End PROVE Flow(e)'
  <2>1. CASE Next
    BY <1>1, <1>2, <2>1, StepFlow
  <2>2. CASE UNCHANGED vars
    BY <1>1, <2>2, FlowKept DEF IInv, vars, Over
  <2> QED
    BY <1>1, <2>1, <2>2
<1> QED
  BY <1>2, <1>3 DEF IInv

-----------------------------------------------------------------------------
(* A session is a stream in each direction *)

\* The clips of each direction, and whether its end still reads.
Sent == [e \in End |-> sent[Other(e)]]
Open == [e \in End |-> ~Over(e)]

\* A new session is a new stream in each direction.
LEMMA InitMaps == Init => Streams!Init
<1>1. SUFFICES ASSUME Init PROVE Streams!Init
  OBVIOUS
<1>2. ASSUME NEW e \in End PROVE sent[Other(e)] = << >> /\ ~Over(e)
  BY <1>1, Ends DEF Init, Over
<1> QED
  BY <1>1, <1>2 DEF Init, Streams!Init

\* A step in which the sequences of clips stay as they are.
LEMMA StillMaps ==
  ASSUME NEW e \in End, UNCHANGED <<sent, got>>,
         \A d \in End : d # e => (Over(d)' <=> Over(d)), Over(e) => Over(e)'
  PROVE  [Streams!Next]_(Streams!vars)
<1>1. Sent' = Sent
  BY DEF Sent, Other
<1>2. CASE Over(e)' <=> Over(e)
  <2>1. Open' = Open
    BY <1>2 DEF Open
  <2> QED
    BY <1>1, <2>1 DEF Streams!vars, Sent, Open
<1>3. CASE Over(e)' /\ ~Over(e)
  <2>1. Open[e] /\ Open' = [Open EXCEPT ![e] = FALSE]
    BY <1>3 DEF Open
  <2>2. Streams!Leave(e) /\ UNCHANGED got
    BY <1>1, <2>1 DEF Streams!Leave, Sent, Open
  <2> QED
    BY <2>2 DEF Streams!Next
<1> QED
  BY <1>2, <1>3

\* The clip that e hands to its hub is the next one of its direction.
LEMMA NextClip ==
  ASSUME IInv, NEW e \in End, Takes(e), Completes(e), Head(pipe[e]).frame.type = "clip"
  PROVE  /\ Len(got[e]) < Len(sent[Other(e)])
         /\ Head(pipe[e]).frame.clip = sent[Other(e)][Len(got[e]) + 1]
<1>1. /\ Whole(part[e], pipe[e], out[Other(e)], Len(got[e]), sent[Other(e)])
      /\ part[e] \in Seq(Piece) /\ pipe[e] \in Seq(Piece) /\ out[Other(e)] \in Seq(Piece)
      /\ sent[Other(e)] \in Seq(Clip) /\ Len(got[e]) \in Nat /\ pipe[e] # << >>
      /\ Last(Head(pipe[e]).frame) = Len(part[e])
  BY FlowTakes DEF IInv, TInv, Takes
<1> DEFINE p == part[e]
           q == pipe[e]
           r == out[Other(e)]
           n == Len(got[e])
           s == sent[Other(e)]
<1> HIDE DEF p, q, r, n, s
<1>2. n < Len(s) /\ Head(q).frame = Clipped(s[n + 1])
  <2>1. /\ Whole(p, q, r, n, s) /\ p \in Seq(Piece) /\ q \in Seq(Piece) /\ r \in Seq(Piece)
        /\ s \in Seq(Clip) /\ n \in Nat /\ q # << >>
        /\ Last(Head(q).frame) = Len(p) /\ Head(q).frame.type = "clip"
    BY <1>1 DEF p, q, r, n, s
  <2> QED
    BY <2>1, WholeCompletes
<1>3. Head(q).frame.clip = s[n + 1]
  BY <1>2 DEF Clipped
<1> QED
  BY <1>2, <1>3 DEF q, n, s

\* Every step of a session is a step of one of its streams, or of none.
LEMMA StepMaps == IInv /\ [Next]_vars => [Streams!Next]_(Streams!vars)
<1>1. SUFFICES ASSUME IInv, [Next]_vars PROVE [Streams!Next]_(Streams!vars)
  OBVIOUS
<1>2. TypeOK
  BY <1>1 DEF IInv, TInv
<1>3. CASE UNCHANGED vars
  <2>1. PICK e \in End : TRUE
    BY WireAssumption
  <2> QED
    BY <1>3, <2>1, StillMaps DEF vars, Over
<1>4. ASSUME NEW e \in End, ReadBad(e) PROVE [Streams!Next]_(Streams!vars)
  BY <1>2, <1>4, StillMaps DEF ReadBad, RefusesBad, Over, TypeOK
<1>5. ASSUME NEW e \in End, ReadPart(e) PROVE [Streams!Next]_(Streams!vars)
  BY <1>5, StillMaps DEF ReadPart, Over
<1>6. ASSUME NEW e \in End, ReadClip(e) PROVE [Streams!Next]_(Streams!vars)
  <2>1. /\ Len(got[e]) < Len(sent[Other(e)])
        /\ Head(pipe[e]).frame.clip = sent[Other(e)][Len(got[e]) + 1]
    BY <1>1, <1>6, NextClip DEF ReadClip
  <2>2. got' = [got EXCEPT ![e] = Append(@, Sent[e][Len(@) + 1])]
    <3>1. got' = [got EXCEPT ![e] = Append(got[e], Head(pipe[e]).frame.clip)]
      BY <1>6 DEF ReadClip
    <3>2. Sent[e] = sent[Other(e)]
      BY DEF Sent
    <3> QED
      BY <2>1, <3>1, <3>2
  <2>3. Sent' = Sent /\ arm[e] = "select" /\ Open[e] /\ Len(got[e]) < Len(Sent[e])
    <3>1. sent' = sent /\ arm[e] = "select"
      BY <1>6 DEF ReadClip, Takes
    <3>2. Sent' = Sent
      BY <3>1 DEF Sent, Other
    <3>3. Open[e] /\ Sent[e] = sent[Other(e)]
      BY <3>1 DEF Open, Sent, Over
    <3> QED
      BY <2>1, <3>1, <3>2, <3>3
  <2>4. \/ Open' = Open
        \/ Open' = [Open EXCEPT ![e] = FALSE]
    <3>1. CASE Writes(e, Short("ack"), "write")
      <4>1. arm'[e] = "write" /\ \A d \in End : d # e => arm'[d] = arm[d]
        BY <1>2, <3>1 DEF Writes, TypeOK
      <4>2. \A d \in End : Over(d)' <=> Over(d)
        BY <2>3, <4>1 DEF Over
      <4> QED
        BY <4>2 DEF Open
    <3>2. CASE arm' = [arm EXCEPT ![e] = "closed"]
      <4>1. arm'[e] = "closed" /\ \A d \in End : d # e => arm'[d] = arm[d]
        BY <1>2, <3>2 DEF TypeOK
      <4>2. Over(e)' /\ \A d \in End : d # e => (Over(d)' <=> Over(d))
        BY <4>1 DEF Over
      <4> QED
        BY <4>2 DEF Open
    <3> QED
      BY <1>6, <3>1, <3>2 DEF ReadClip
  <2>5. Streams!Deliver(e)
    BY <2>2, <2>3, <2>4 DEF Streams!Deliver, Streams!Leave, Sent, Open
  <2> QED
    BY <2>5 DEF Streams!Next
<1>7. ASSUME NEW e \in End, ReadShort(e) PROVE [Streams!Next]_(Streams!vars)
  <2>1. arm[e] = "select" /\ UNCHANGED <<sent, got>>
    BY <1>7 DEF ReadShort, Takes
  <2>2. /\ Over(e) => Over(e)'
        /\ \A d \in End : d # e => (Over(d)' <=> Over(d))
    BY <1>2, <1>7, <2>1 DEF ReadShort, Writes, Over, TypeOK
  <2> QED
    BY <2>1, <2>2, StillMaps
<1>8. ASSUME NEW e \in End, ReadEnd(e) PROVE [Streams!Next]_(Streams!vars)
  BY <1>2, <1>8, StillMaps DEF ReadEnd, Over, TypeOK
<1>9. ASSUME NEW e \in End, NEW c \in Clip, Recv(e, c) PROVE [Streams!Next]_(Streams!vars)
  <2>1. CASE c \in Skipped
    BY <1>9, <2>1, StillMaps DEF Recv, Over
  <2>2. CASE c \notin Skipped
    <3>1. /\ arm[e] = "select" /\ arm' = [arm EXCEPT ![e] = "write"]
          /\ sent' = [sent EXCEPT ![e] = Append(@, c)] /\ got' = got
      BY <1>9, <2>2 DEF Recv, Writes
    <3>2. \A d \in End : Over(d)' <=> Over(d)
      BY <1>2, <3>1 DEF Over, TypeOK
    <3>3. Open' = Open
      BY <3>2 DEF Open
    <3>4. Sent' = [Sent EXCEPT ![Other(e)] = Append(@, c)]
      <4>1. \A d \in End : sent'[d] = IF d = e THEN Append(sent[e], c) ELSE sent[d]
        BY <1>2, <3>1 DEF TypeOK
      <4>2. ASSUME NEW d \in End
            PROVE  Other(d) \in End /\ (Other(d) = e <=> d = Other(e))
        BY Ends
      <4>3. Sent' = [d \in End |-> sent'[Other(d)]]
        BY DEF Sent, Other
      <4>4. Sent' = [d \in End |-> IF d = Other(e) THEN Append(sent[e], c) ELSE sent[Other(d)]]
        BY <4>1, <4>2, <4>3
      <4>5. Sent[Other(e)] = sent[e] /\ Other(e) \in End
        BY Ends DEF Sent
      <4> QED
        BY <4>4, <4>5 DEF Sent
    <3>5. Streams!Send(Other(e), c)
      BY <3>1, <3>3, <3>4 DEF Streams!Send, Sent, Open
    <3>6. Other(e) \in End
      BY Ends
    <3> QED
      BY <3>5, <3>6 DEF Streams!Next
  <2> QED
    BY <2>1, <2>2
<1>10. ASSUME NEW e \in End, Tick(e) PROVE [Streams!Next]_(Streams!vars)
  BY <1>2, <1>10, StillMaps DEF Tick, Writes, Over, TypeOK
<1>11. ASSUME NEW e \in End, Stop(e) PROVE [Streams!Next]_(Streams!vars)
  BY <1>2, <1>11, StillMaps DEF Stop, Writes, Over, TypeOK
<1>12. ASSUME NEW e \in End, WritePiece(e) PROVE [Streams!Next]_(Streams!vars)
  <2>1. arm[e] \in {"write", "bye"} /\ UNCHANGED <<sent, got>>
    BY <1>12 DEF WritePiece
  <2>2. /\ Over(e) => Over(e)'
        /\ \A d \in End : d # e => (Over(d)' <=> Over(d))
    BY <1>2, <1>12, <2>1 DEF WritePiece, Over, TypeOK
  <2> QED
    BY <2>1, <2>2, StillMaps
<1>13. ASSUME NEW e \in End, WriteFails(e) PROVE [Streams!Next]_(Streams!vars)
  BY <1>2, <1>13, StillMaps DEF WriteFails, Over, TypeOK
<1> QED
  BY <1>1, <1>3, <1>4, <1>5, <1>6, <1>7, <1>8, <1>9, <1>10, <1>11, <1>12, <1>13
     DEF Next, Loop, Read

\* Whatever a dropped read leaves behind, each direction of a session delivers the
\* clips of its sender whole, once and in their order until its end leaves: the
\* loops of framed_loop at both ends implement Stream.
THEOREM StreamIsImplemented == Spec => Implements
BY InitIInv, StepIInv, InitMaps, StepMaps, PTL DEF Spec, Implements, Streams!Spec

-----------------------------------------------------------------------------
(* The lengths in a frame: Codec *)

\* A length up to the limit of a frame passes through its field of 32 bits.
LEMMA FieldHoldsFrame ==
  ASSUME NEW n \in Nat, n <= MaxFrame
  PROVE  U32(n) = n
<1>1. n < 65536 * 65536
  BY DEF MaxFrame, MaxClip
<1>2. 65536 * 65536 \in Nat \ {0}
  OBVIOUS
<1>3. \A m \in Nat \ {0} : n < m => n % m = n
  OBVIOUS
<1> QED BY <1>1, <1>2, <1>3 DEF U32

\* The same for the JSON and its field of 16 bits.
LEMMA FieldHoldsMeta ==
  ASSUME NEW n \in Nat, n <= MaxMeta
  PROVE  U16(n) = n
BY DEF U16, MaxMeta

\* Every clip that can be encoded can be framed, read and decoded on a direct
\* session: no length is cut by its field, and no limit of the frame is met
\* before that of the clip.
THEOREM DirectRoundTrip ==
  ASSUME NEW meta \in Nat \ {0}, NEW data \in Nat, Encodes(meta, data)
  PROVE  /\ Frames(Body(meta, data))
         /\ Reads(U32(Body(meta, data)), Body(meta, data))
         /\ Decodes(U16(meta), Body(meta, data), data)
<1>1. Body(meta, data) \in Nat /\ Body(meta, data) <= MaxFrame
  BY DEF Encodes, Body, MaxClip, MaxFrame, MaxMeta
<1>2. Frames(Body(meta, data)) /\ Reads(U32(Body(meta, data)), Body(meta, data))
  BY <1>1, FieldHoldsFrame DEF Frames, Reads
<1>3. U16(meta) = meta
  BY FieldHoldsMeta DEF Encodes
<1>4. Decodes(meta, Body(meta, data), data)
  BY DEF Encodes, Body, Decodes, MaxClip, MaxMeta
<1> QED BY <1>2, <1>3, <1>4

\* The same through a relay, where the envelope comes on top: what is left of the
\* frame's limit above the clip's is enough for both the JSON and the envelope.
THEOREM RelayRoundTrip ==
  ASSUME NEW meta \in Nat \ {0}, NEW data \in Nat, Encodes(meta, data)
  PROVE  LET envelope == Envelope(Body(meta, data)) IN
         /\ RelayFrames(envelope)
         /\ RelayReads(U32(envelope), envelope)
         /\ Opens(envelope, Body(meta, data))
         /\ Decodes(U16(meta), Body(meta, data), data)
<1> DEFINE envelope == Envelope(Body(meta, data))
<1>1. envelope \in Nat /\ envelope <= MaxFrame
  BY DEF Encodes, Envelope, Body, Before, Tag, MaxClip, MaxFrame, MaxMeta
<1>2. RelayFrames(envelope) /\ RelayReads(U32(envelope), envelope)
  BY <1>1, FieldHoldsFrame DEF RelayFrames, RelayReads
<1>3. Opens(envelope, Body(meta, data))
  BY DEF Opens, Envelope, Body, Before, Tag
<1> QED BY <1>2, <1>3, DirectRoundTrip
=============================================================================
