----------------------------- MODULE HubProofs -----------------------------
(***************************************************************************)
(* Proofs about Hub, for every network, every set of contents and every    *)
(* choice of bounds and environment events.                                *)
(***************************************************************************)
EXTENDS HubNetworks, TLAPS

-----------------------------------------------------------------------------
(* The bounded queue and the suppress guard *)

\* A KeepLast queue stays a sequence and keeps to its capacity.
LEMMA KeepLastIsBounded ==
  ASSUME NEW S, NEW s \in Seq(S), NEW x \in S, NEW cap \in Nat \ {0},
         Len(s) <= cap
  PROVE  /\ KeepLast(s, x, cap) \in Seq(S)
         /\ Len(KeepLast(s, x, cap)) <= cap
  <1>1. CASE Len(s) < cap
    BY <1>1 DEF KeepLast
  <1>2. CASE ~(Len(s) < cap)
    <2>1. s # << >>
      BY <1>2
    <2>2. /\ Tail(s) \in Seq(S)
          /\ Len(Tail(s)) = Len(s) - 1
      BY <2>1
    <2> QED
      BY <1>2, <2>2 DEF KeepLast
  <1> QED
    BY <1>1, <1>2

\* A KeepLast queue holds nothing but the new element and what it held before.
LEMMA KeepLastElements ==
  ASSUME NEW S, NEW s \in Seq(S), NEW x \in S, NEW cap \in Nat \ {0},
         NEW i \in DOMAIN KeepLast(s, x, cap)
  PROVE  \/ KeepLast(s, x, cap)[i] = x
         \/ \E j \in DOMAIN s : KeepLast(s, x, cap)[i] = s[j]
  <1>1. CASE Len(s) < cap
    BY <1>1 DEF KeepLast
  <1>2. CASE ~(Len(s) < cap)
    <2>1. s # << >>
      BY <1>2
    <2>2. /\ Tail(s) \in Seq(S)
          /\ Len(Tail(s)) = Len(s) - 1
          /\ \A k \in 1 .. Len(s) - 1 : Tail(s)[k] = s[k + 1]
      BY <2>1
    <2>3. KeepLast(s, x, cap) = Append(Tail(s), x)
      BY <1>2 DEF KeepLast
    <2>4. CASE i = Len(s)
      BY <2>2, <2>3, <2>4
    <2>5. CASE i # Len(s)
      <3>1. i \in 1 .. Len(s) - 1
        BY <2>2, <2>3, <2>5
      <3> QED
        BY <2>2, <2>3, <3>1
    <2> QED
      BY <2>4, <2>5
  <1> QED
    BY <1>1, <1>2

\* Suppress::add keeps the guard well formed and the ring within its maximum.
LEMMA AddIsGuard ==
  ASSUME NEW g \in Guard, NEW h \in Hash, Len(g.ring) <= RingMax
  PROVE  Add(g, h) \in Guard /\ Len(Add(g, h).ring) <= RingMax
  BY KeepLastIsBounded, RingMaxAssumption DEF Add, Guard

\* The guard a hub starts with is well formed.
LEMMA EmptyIsGuard == EmptyGuard \in Guard /\ Len(EmptyGuard.ring) <= RingMax
  BY RingMaxAssumption DEF EmptyGuard, Guard

-----------------------------------------------------------------------------
(* Types *)

USE NodeAssumption, LinkAssumption, ContentAssumption, CapAssumption

\* The type invariant, by the variables it speaks of, each part with what the
\* program counters say of the clip a task works on.
ClipT  == clip \in [Node -> Hash \cup {Empty}]
GuardT == /\ sup \in [Node -> Guard]
          /\ \A n \in Node : Len(sup[n].ring) <= RingMax
CountT == /\ seen \in [Node -> [Node -> Nat]]
          /\ onboard \in [Node -> [Node -> Nat]]
          /\ seq \in [Node -> Nat]
          /\ disk \in [Node -> Nat]
WatchT == /\ wpc \in [Node -> {"idle", "debounce", "check", "add", "pack", "emit"}]
          /\ wlast \in [Node -> Hash \cup {Empty}]
          /\ wclip \in [Node -> Clip \cup {NoClip}]
          /\ \A n \in Node : wpc[n] = "debounce" => clip[n] \in Hash
          /\ \A n \in Node : wpc[n] \in {"check", "add", "pack", "emit"}
                               => wclip[n] \in Clip /\ wclip[n].origin = n
PushT  == /\ ppc \in [Node -> {"idle", "set", "stored", "pack", "emit"}]
          /\ pclip \in [Node -> Clip \cup {NoClip}]
          /\ \A n \in Node : ppc[n] # "idle" => pclip[n] \in Clip /\ pclip[n].origin = n
JobT   == /\ jpc \in [Link -> {"idle", "compare", "present", "absent", "set", "stored",
                             "emit"}]
          /\ jclip \in [Link -> Clip \cup {NoClip}]
          /\ \A l \in Link : jpc[l] # "idle" => jclip[l] \in Clip /\ l[2] \in Node
RxT    == /\ rx \in [Link -> Seq(Outbound)]
          /\ \A l \in Link : Len(rx[l]) <= BroadcastCap
NetT   == net \in [Link -> Seq(Clip)]
HistT  == /\ up \in SUBSET Link
          /\ issued \in SUBSET Clip
          /\ copied \in [Node -> SUBSET Hash]
          /\ spent \in [copies : Nat, restarts : Nat]

\* The two histories of the suppress guard, which no other part depends on.
MarkT  == /\ found \in [Node -> SUBSET (Hash \cup {Empty})]
          /\ lapsed \in BOOLEAN

TypeInv ==
  ClipT /\ GuardT /\ CountT /\ WatchT /\ PushT /\ JobT /\ RxT /\ NetT /\ HistT

\* The parts make up the type invariant.
LEMMA TypeInvImpliesTypeOK == TypeInv /\ MarkT => TypeOK
  BY DEF TypeInv, MarkT, ClipT, GuardT, CountT, WatchT, PushT, JobT, RxT, NetT, HistT,
         TypeOK, Pc

\* Hub::emit leaves every receiver a bounded queue of outbound clips.
LEMMA EmittedIsBounded ==
  ASSUME RxT, NEW n \in Node, NEW c \in Clip, NEW skip \in Node \cup {Relay}
  PROVE  /\ Emitted(n, c, skip) \in [Link -> Seq(Outbound)]
         /\ \A l \in Link : Len(Emitted(n, c, skip)[l]) <= BroadcastCap
  <1> DEFINE out == [clip |-> c, skip |-> skip]
  <1>1. out \in Outbound
    BY DEF Outbound
  <1>2. ASSUME NEW l \in Link
        PROVE  /\ KeepLast(rx[l], out, BroadcastCap) \in Seq(Outbound)
               /\ Len(KeepLast(rx[l], out, BroadcastCap)) <= BroadcastCap
    BY <1>1, KeepLastIsBounded DEF RxT
  <1> QED
    BY <1>2 DEF Emitted, RxT

\* The clip a hub packs: the pending one with its number filled in.
LEMMA Numbered ==
  ASSUME NEW c \in Clip, NEW k \in Nat
  PROVE  /\ [c EXCEPT !.seq = k] \in Clip
         /\ [c EXCEPT !.seq = k].origin = c.origin
         /\ [c EXCEPT !.seq = k].seq = k
  BY DEF Clip

\* The element at the head of a queue, which Forward and Apply take.
LEMMA HeadOfQueue ==
  ASSUME NEW S, NEW s \in Seq(S), s # << >>
  PROVE  /\ Head(s) = s[1] /\ Head(s) \in S /\ 1 \in DOMAIN s
         /\ Tail(s) \in Seq(S)
         /\ \A i \in DOMAIN Tail(s) : i + 1 \in DOMAIN s /\ Tail(s)[i] = s[i + 1]
  OBVIOUS

\* A hub starts well typed.
LEMMA InitTypes == Init => TypeInv /\ MarkT
  <1> SUFFICES ASSUME Init PROVE TypeInv /\ MarkT
    OBVIOUS
  <1>1. ClipT /\ GuardT /\ CountT
    BY EmptyIsGuard DEF Init, ClipT, GuardT, CountT
  <1>2. WatchT /\ PushT /\ JobT
    BY DEF Init, WatchT, PushT, JobT
  <1>3. RxT /\ NetT /\ HistT
    BY DEF Init, RxT, NetT, HistT
  <1>4. MarkT
    BY DEF Init, MarkT
  <1> QED
    BY <1>1, <1>2, <1>3, <1>4 DEF TypeInv

\* Every step keeps the types: under each action, the parts it disturbs.
LEMMA StepTypes == TypeInv /\ [Next]_vars => TypeInv'
  <1> SUFFICES ASSUME TypeInv, [Next]_vars PROVE TypeInv'
    OBVIOUS
  <1> USE DEF vars, nodeVars, watchVars, pushVars, jobVars, wireVars, histVars
  <1>0. ClipT /\ GuardT /\ CountT /\ WatchT /\ PushT /\ JobT /\ RxT /\ NetT /\ HistT
    BY DEF TypeInv
  <1>1. ASSUME NEW n \in Node, WatchPoll(n) PROVE TypeInv'
    <2>1. WatchT'
      BY <1>0, <1>1 DEF WatchPoll, WatchT, ClipT
    <2>2. ClipT' /\ GuardT' /\ CountT' /\ PushT' /\ JobT' /\ RxT' /\ NetT' /\ HistT'
      BY <1>0, <1>1 DEF WatchPoll, ClipT, GuardT, CountT, PushT, JobT, RxT, NetT, HistT
    <2> QED
      BY <2>1, <2>2 DEF TypeInv
  <1>2. ASSUME NEW n \in Node, WatchSettle(n) PROVE TypeInv'
    <2>1. WatchT'
      BY <1>0, <1>2 DEF WatchSettle, WatchT
    <2>2. ClipT' /\ GuardT' /\ CountT' /\ PushT' /\ JobT' /\ RxT' /\ NetT' /\ HistT'
      BY <1>0, <1>2 DEF WatchSettle, ClipT, GuardT, CountT, PushT, JobT, RxT, NetT, HistT
    <2> QED
      BY <2>1, <2>2 DEF TypeInv
  <1>3. ASSUME NEW n \in Node, WatchDrop(n) PROVE TypeInv'
    <2>1. WatchT'
      BY <1>0, <1>3 DEF WatchDrop, WatchT
    <2>2. ClipT' /\ GuardT' /\ CountT' /\ PushT' /\ JobT' /\ RxT' /\ NetT' /\ HistT'
      BY <1>0, <1>3 DEF WatchDrop, ClipT, GuardT, CountT, PushT, JobT, RxT, NetT, HistT
    <2> QED
      BY <2>1, <2>2 DEF TypeInv
  <1>4. ASSUME NEW n \in Node, WatchRead(n) PROVE TypeInv'
    <2>1. WatchT'
      BY <1>0, <1>4 DEF WatchRead, WatchT, ClipT, Clip
    <2>2. ClipT' /\ GuardT' /\ CountT' /\ PushT' /\ JobT' /\ RxT' /\ NetT' /\ HistT'
      BY <1>0, <1>4 DEF WatchRead, ClipT, GuardT, CountT, PushT, JobT, RxT, NetT, HistT
    <2> QED
      BY <2>1, <2>2 DEF TypeInv
  <1>5. ASSUME NEW n \in Node, WatchPack(n) PROVE TypeInv'
    <2>1. /\ seq[n] + 1 \in Nat
          /\ wclip[n] \in Clip /\ wclip[n].origin = n
          /\ wclip' = [wclip EXCEPT ![n] = [wclip[n] EXCEPT !.seq = seq[n] + 1]]
      BY <1>0, <1>5 DEF WatchPack, CountT, WatchT
    <2>2. CountT'
      BY <1>0, <1>5 DEF WatchPack, CountT, NextSeq
    <2>3. WatchT'
      BY <1>0, <1>5, <2>1, Numbered DEF WatchPack, WatchT
    <2>4. HistT'
      BY <1>0, <1>5, <2>1, Numbered DEF WatchPack, HistT, WatchT
    <2>5. ClipT' /\ GuardT' /\ PushT' /\ JobT' /\ RxT' /\ NetT'
      BY <1>0, <1>5 DEF WatchPack, ClipT, GuardT, PushT, JobT, RxT, NetT
    <2> QED
      BY <2>1, <2>2, <2>3, <2>4, <2>5 DEF TypeInv
  <1>6. ASSUME NEW n \in Node, WatchPackFails(n) PROVE TypeInv'
    <2>1. CountT'
      BY <1>0, <1>6 DEF WatchPackFails, CountT, NextSeqFails
    <2>2. WatchT'
      BY <1>0, <1>6 DEF WatchPackFails, WatchT
    <2>3. ClipT' /\ GuardT' /\ PushT' /\ JobT' /\ RxT' /\ NetT' /\ HistT'
      BY <1>0, <1>6 DEF WatchPackFails, ClipT, GuardT, PushT, JobT, RxT, NetT, HistT
    <2> QED
      BY <2>1, <2>2, <2>3 DEF TypeInv
  <1>7. ASSUME NEW n \in Node, WatchEmit(n) PROVE TypeInv'
    <2>1. WatchT'
      BY <1>0, <1>7 DEF WatchEmit, WatchT
    <2>2. RxT'
      BY <1>0, <1>7, EmittedIsBounded DEF WatchEmit, RxT, WatchT, NoSkip
    <2>3. ClipT' /\ GuardT' /\ CountT' /\ PushT' /\ JobT' /\ NetT' /\ HistT'
      BY <1>0, <1>7 DEF WatchEmit, ClipT, GuardT, CountT, PushT, JobT, NetT, HistT
    <2> QED
      BY <2>1, <2>2, <2>3 DEF TypeInv
  <1>8. ASSUME NEW n \in Node, PushSet(n) PROVE TypeInv'
    <2>1. ClipT'
      BY <1>0, <1>8 DEF PushSet, ClipT, PushT, Clip
    <2>2. WatchT'
      BY <1>0, <1>8 DEF PushSet, WatchT, PushT, Clip
    <2>3. PushT'
      BY <1>0, <1>8 DEF PushSet, PushT
    <2>4. GuardT' /\ CountT' /\ JobT' /\ RxT' /\ NetT' /\ HistT'
      BY <1>0, <1>8 DEF PushSet, GuardT, CountT, JobT, RxT, NetT, HistT
    <2> QED
      BY <2>1, <2>2, <2>3, <2>4 DEF TypeInv
  <1>9. ASSUME NEW n \in Node, PushSetFails(n) PROVE TypeInv'
    <2>1. PushT'
      BY <1>0, <1>9 DEF PushSetFails, PushT
    <2>2. ClipT' /\ GuardT' /\ CountT' /\ WatchT' /\ JobT' /\ RxT' /\ NetT' /\ HistT'
      BY <1>0, <1>9 DEF PushSetFails, ClipT, GuardT, CountT, WatchT, JobT, RxT, NetT, HistT
    <2> QED
      BY <2>1, <2>2 DEF TypeInv
  <1>10. ASSUME NEW n \in Node, PushPack(n) PROVE TypeInv'
    <2>1. /\ seq[n] + 1 \in Nat
          /\ pclip[n] \in Clip /\ pclip[n].origin = n
          /\ pclip' = [pclip EXCEPT ![n] = [pclip[n] EXCEPT !.seq = seq[n] + 1]]
      BY <1>0, <1>10 DEF PushPack, CountT, PushT
    <2>3. CountT'
      BY <1>0, <1>10 DEF PushPack, CountT, NextSeq
    <2>4. PushT'
      BY <1>0, <1>10, <2>1, Numbered DEF PushPack, PushT
    <2>5. HistT'
      BY <1>0, <1>10, <2>1, Numbered DEF PushPack, HistT, PushT
    <2>6. ClipT' /\ GuardT' /\ WatchT' /\ JobT' /\ RxT' /\ NetT'
      BY <1>0, <1>10 DEF PushPack, ClipT, GuardT, WatchT, JobT, RxT, NetT
    <2> QED
      BY <2>3, <2>4, <2>5, <2>6 DEF TypeInv
  <1>11. ASSUME NEW n \in Node, PushPackFails(n) PROVE TypeInv'
    <2>2. CountT'
      BY <1>0, <1>11 DEF PushPackFails, CountT, NextSeqFails
    <2>3. PushT'
      BY <1>0, <1>11 DEF PushPackFails, PushT
    <2>4. ClipT' /\ GuardT' /\ WatchT' /\ JobT' /\ RxT' /\ NetT' /\ HistT'
      BY <1>0, <1>11 DEF PushPackFails, ClipT, GuardT, WatchT, JobT, RxT, NetT, HistT
    <2> QED
      BY <2>2, <2>3, <2>4 DEF TypeInv
  <1>12. ASSUME NEW n \in Node, PushEmit(n) PROVE TypeInv'
    <2>1. PushT'
      BY <1>0, <1>12 DEF PushEmit, PushT
    <2>2. RxT'
      BY <1>0, <1>12, EmittedIsBounded DEF PushEmit, RxT, PushT, NoSkip
    <2>3. ClipT' /\ GuardT' /\ CountT' /\ WatchT' /\ JobT' /\ NetT' /\ HistT'
      BY <1>0, <1>12 DEF PushEmit, ClipT, GuardT, CountT, WatchT, JobT, NetT, HistT
    <2> QED
      BY <2>1, <2>2, <2>3 DEF TypeInv
  <1>13. ASSUME NEW n \in Node, Restart(n) PROVE TypeInv'
    <2>1. GuardT'
      BY <1>0, <1>13, EmptyIsGuard DEF Restart, GuardT
    <2>2. CountT'
      BY <1>0, <1>13 DEF Restart, CountT
    <2>3. WatchT'
      BY <1>0, <1>13 DEF Restart, WatchT
    <2>4. PushT'
      BY <1>0, <1>13 DEF Restart, PushT
    <2>5. JobT'
      BY <1>0, <1>13 DEF Restart, JobT
    <2>6. RxT'
      BY <1>0, <1>13 DEF Restart, RxT, Cleared
    <2>7. NetT'
      BY <1>0, <1>13 DEF Restart, NetT, Cleared
    <2>8. HistT'
      <3>1. /\ spent' = [spent EXCEPT !.restarts = spent.restarts + 1]
            /\ up' \subseteq up /\ UNCHANGED <<issued, copied>>
        BY <1>13 DEF Restart
      <3> QED
        BY <1>0, <3>1 DEF HistT
    <2>9. ClipT'
      BY <1>0, <1>13 DEF Restart, ClipT
    <2> QED
      BY <2>1, <2>2, <2>3, <2>4, <2>5, <2>6, <2>7, <2>8, <2>9 DEF TypeInv
  <1>14. ASSUME NEW n \in Node, SavePeers(n) PROVE TypeInv'
    <2>1. CountT'
      BY <1>0, <1>14 DEF SavePeers, CountT
    <2>2. ClipT' /\ GuardT' /\ WatchT' /\ PushT' /\ JobT' /\ RxT' /\ NetT' /\ HistT'
      BY <1>0, <1>14 DEF SavePeers, ClipT, GuardT, WatchT, PushT, JobT, RxT, NetT, HistT
    <2> QED
      BY <2>1, <2>2 DEF TypeInv
  <1>15. ASSUME NEW n \in Node, NEW h \in Hash, UserCopy(n, h) PROVE TypeInv'
    <2>1. ClipT'
      BY <1>0, <1>15 DEF UserCopy, ClipT
    <2>2. WatchT'
      BY <1>0, <1>15 DEF UserCopy, WatchT
    <2>3. HistT'
      BY <1>0, <1>15 DEF UserCopy, HistT, MayCopy
    <2>4. GuardT' /\ CountT' /\ PushT' /\ JobT' /\ RxT' /\ NetT'
      BY <1>0, <1>15 DEF UserCopy, GuardT, CountT, PushT, JobT, RxT, NetT
    <2> QED
      BY <2>1, <2>2, <2>3, <2>4 DEF TypeInv
  <1>16. ASSUME NEW n \in Node, NEW h \in Hash, PushStart(n, h) PROVE TypeInv'
    <2>1. GuardT'
      BY <1>0, <1>16, AddIsGuard DEF PushStart, Suppressed, GuardT
    <2>2. PushT'
      BY <1>0, <1>16 DEF PushStart, PushT, Clip
    <2>3. HistT'
      BY <1>0, <1>16 DEF PushStart, HistT, MayCopy
    <2>4. ClipT' /\ CountT' /\ WatchT' /\ JobT' /\ RxT' /\ NetT'
      BY <1>0, <1>16 DEF PushStart, ClipT, CountT, WatchT, JobT, RxT, NetT
    <2> QED
      BY <2>1, <2>2, <2>3, <2>4 DEF TypeInv
  <1>17. ASSUME NEW n \in Node, NEW h \in Hash, Expire(n, h) PROVE TypeInv'
    <2>1. GuardT'
      BY <1>0, <1>17 DEF Expire, Suppressed, GuardT, Expired, Guard
    <2>2. ClipT' /\ CountT' /\ WatchT' /\ PushT' /\ JobT' /\ RxT' /\ NetT' /\ HistT'
      BY <1>0, <1>17 DEF Expire, ClipT, CountT, WatchT, PushT, JobT, RxT, NetT, HistT
    <2> QED
      BY <2>1, <2>2 DEF TypeInv
  <1>18. ASSUME NEW l \in Link, Forward(l) PROVE TypeInv'
    <2>1. rx[l] \in Seq(Outbound) /\ rx[l] # << >>
      BY <1>0, <1>18 DEF Forward, RxT
    <2>2. Head(rx[l]) \in Outbound
      BY <2>1, HeadOfQueue
    <2>3. Head(rx[l]).clip \in Clip
      BY <2>2 DEF Outbound
    <2>4. RxT'
      BY <1>0, <1>18 DEF Forward, RxT
    <2>5. NetT'
      BY <1>0, <1>18, <2>3 DEF Forward, NetT
    <2>6. ClipT' /\ GuardT' /\ CountT' /\ WatchT' /\ PushT' /\ JobT' /\ HistT'
      BY <1>0, <1>18 DEF Forward, ClipT, GuardT, CountT, WatchT, PushT, JobT, HistT
    <2> QED
      BY <2>1, <2>2, <2>3, <2>4, <2>5, <2>6 DEF TypeInv
  <1>19. ASSUME NEW l \in Link, RelayBroadcast(l) PROVE TypeInv'
    <2>1. NetT'
      BY <1>0, <1>19 DEF RelayBroadcast, NetT
    <2>2. ClipT' /\ GuardT' /\ CountT' /\ WatchT' /\ PushT' /\ JobT' /\ RxT' /\ HistT'
      BY <1>0, <1>19 DEF RelayBroadcast, ClipT, GuardT, CountT, WatchT, PushT, JobT, RxT, HistT
    <2> QED
      BY <2>1, <2>2 DEF TypeInv
  <1>20. ASSUME NEW l \in Link, ApplyKnown(l) PROVE TypeInv'
    <2>1. JobT'
      BY <1>0, <1>20 DEF ApplyKnown, JobT, NetT
    <2>2. NetT'
      BY <1>0, <1>20 DEF ApplyKnown, NetT
    <2>3. ClipT' /\ GuardT' /\ CountT' /\ WatchT' /\ PushT' /\ RxT' /\ HistT'
      BY <1>0, <1>20 DEF ApplyKnown, ClipT, GuardT, CountT, WatchT, PushT, RxT, HistT
    <2> QED
      BY <2>1, <2>2, <2>3 DEF TypeInv
  <1>21. ASSUME NEW l \in Link, ApplyAccept(l) PROVE TypeInv'
    <2>1. net[l] \in Seq(Clip) /\ net[l] # << >>
      BY <1>0, <1>21 DEF ApplyAccept, NetT
    <2>2. Head(net[l]) \in Clip
      BY <2>1, HeadOfQueue
    <2>3. Head(net[l]).seq \in Nat /\ Head(net[l]).origin \in Node
      BY <2>2 DEF Clip
    <2>4. CountT'
      BY <1>0, <1>21, <2>3 DEF ApplyAccept, CountT
    <2>5. JobT'
      BY <1>0, <1>21, <2>2 DEF ApplyAccept, JobT
    <2>6. NetT'
      BY <1>0, <1>21 DEF ApplyAccept, NetT
    <2>7. ClipT' /\ GuardT' /\ WatchT' /\ PushT' /\ RxT' /\ HistT'
      BY <1>0, <1>21 DEF ApplyAccept, ClipT, GuardT, WatchT, PushT, RxT, HistT
    <2> QED
      BY <2>1, <2>2, <2>3, <2>4, <2>5, <2>6, <2>7 DEF TypeInv
  <1>22. ASSUME NEW l \in Link, ApplyCompare(l) PROVE TypeInv'
    <2>2. JobT'
      BY <1>0, <1>22 DEF ApplyCompare, JobT
    <2>3. ClipT' /\ GuardT' /\ CountT' /\ WatchT' /\ PushT' /\ RxT' /\ NetT' /\ HistT'
      BY <1>0, <1>22 DEF ApplyCompare, ClipT, GuardT, CountT, WatchT, PushT, RxT, NetT, HistT
    <2> QED
      BY <2>2, <2>3 DEF TypeInv
  <1>23. ASSUME NEW l \in Link, ApplySet(l) PROVE TypeInv'
    <2>1. ClipT'
      BY <1>0, <1>23 DEF ApplySet, ClipT, JobT, Clip
    <2>2. CountT'
      BY <1>0, <1>23 DEF ApplySet, CountT, JobT, Clip
    <2>3. WatchT'
      BY <1>0, <1>23 DEF ApplySet, WatchT, JobT, Clip
    <2>4. JobT'
      BY <1>0, <1>23 DEF ApplySet, JobT
    <2>5. GuardT' /\ PushT' /\ RxT' /\ NetT' /\ HistT'
      BY <1>0, <1>23 DEF ApplySet, GuardT, PushT, RxT, NetT, HistT
    <2> QED
      BY <2>1, <2>2, <2>3, <2>4, <2>5 DEF TypeInv
  <1>24. ASSUME NEW l \in Link, ApplySetFails(l) PROVE TypeInv'
    <2>1. JobT'
      BY <1>0, <1>24 DEF ApplySetFails, JobT
    <2>2. RxT'
      BY <1>0, <1>24 DEF ApplySetFails, RxT, Cleared
    <2>3. NetT'
      BY <1>0, <1>24 DEF ApplySetFails, NetT, Cleared
    <2>4. HistT'
      BY <1>0, <1>24 DEF ApplySetFails, HistT
    <2>5. ClipT' /\ GuardT' /\ CountT' /\ WatchT' /\ PushT'
      BY <1>0, <1>24 DEF ApplySetFails, ClipT, GuardT, CountT, WatchT, PushT
    <2> QED
      BY <2>1, <2>2, <2>3, <2>4, <2>5 DEF TypeInv
  <1>25. ASSUME NEW l \in Link, ApplyStored(l) PROVE TypeInv'
    <2>1. GuardT'
      BY <1>0, <1>25, AddIsGuard DEF ApplyStored, Suppressed, GuardT, JobT, Clip
    <2>2. JobT'
      BY <1>0, <1>25 DEF ApplyStored, JobT
    <2>3. ClipT' /\ CountT' /\ WatchT' /\ PushT' /\ RxT' /\ NetT' /\ HistT'
      BY <1>0, <1>25 DEF ApplyStored, ClipT, CountT, WatchT, PushT, RxT, NetT, HistT
    <2> QED
      BY <2>1, <2>2, <2>3 DEF TypeInv
  <1>26. ASSUME NEW l \in Link, ApplyEmit(l) PROVE TypeInv'
    <2>1. JobT'
      BY <1>0, <1>26 DEF ApplyEmit, JobT
    <2>2. RxT'
      BY <1>0, <1>26, EmittedIsBounded DEF ApplyEmit, RxT, JobT, Ingress, Clip
    <2>3. ClipT' /\ GuardT' /\ CountT' /\ WatchT' /\ PushT' /\ NetT' /\ HistT'
      BY <1>0, <1>26 DEF ApplyEmit, ClipT, GuardT, CountT, WatchT, PushT, NetT, HistT
    <2> QED
      BY <2>1, <2>2, <2>3 DEF TypeInv
  <1>27. ASSUME NEW l \in Link, Reconnect(l) PROVE TypeInv'
    <2>1. HistT'
      BY <1>0, <1>27 DEF Reconnect, HistT, Closed, Rev
    <2>2. ClipT' /\ GuardT' /\ CountT' /\ WatchT' /\ PushT' /\ JobT' /\ RxT' /\ NetT'
      BY <1>0, <1>27 DEF Reconnect, ClipT, GuardT, CountT, WatchT, PushT, JobT, RxT, NetT
    <2> QED
      BY <2>1, <2>2 DEF TypeInv
  <1>28. ASSUME NEW l \in Link, Drop(l) PROVE TypeInv'
    <2>1. RxT'
      BY <1>0, <1>28 DEF Drop, RxT, Cleared
    <2>2. NetT'
      BY <1>0, <1>28 DEF Drop, NetT, Cleared
    <2>3. HistT'
      BY <1>0, <1>28 DEF Drop, HistT
    <2>4. ClipT' /\ GuardT' /\ CountT' /\ WatchT' /\ PushT' /\ JobT'
      BY <1>0, <1>28 DEF Drop, ClipT, GuardT, CountT, WatchT, PushT, JobT
    <2> QED
      BY <2>1, <2>2, <2>3, <2>4 DEF TypeInv
  <1>30. ASSUME NEW n \in Node, WatchOversize(n) PROVE TypeInv'
    <2>1. WatchT'
      BY <1>0, <1>30 DEF WatchOversize, WatchT, ClipT
    <2>2. ClipT' /\ GuardT' /\ CountT' /\ PushT' /\ JobT' /\ RxT' /\ NetT' /\ HistT'
      BY <1>0, <1>30 DEF WatchOversize, ClipT, GuardT, CountT, PushT, JobT, RxT, NetT, HistT
    <2> QED
      BY <2>1, <2>2 DEF TypeInv
  <1>31. ASSUME NEW n \in Node, WatchPass(n) PROVE TypeInv'
    <2>1. WatchT'
      BY <1>0, <1>31 DEF WatchPass, WatchT
    <2>2. ClipT' /\ GuardT' /\ CountT' /\ PushT' /\ JobT' /\ RxT' /\ NetT' /\ HistT'
      BY <1>0, <1>31 DEF WatchPass, ClipT, GuardT, CountT, PushT, JobT, RxT, NetT, HistT
    <2> QED
      BY <2>1, <2>2 DEF TypeInv
  <1>32. ASSUME NEW n \in Node, WatchAdd(n) PROVE TypeInv'
    <2>1. GuardT'
      BY <1>0, <1>32, AddIsGuard DEF WatchAdd, Suppressed, GuardT, WatchT, Clip
    <2>2. WatchT'
      BY <1>0, <1>32 DEF WatchAdd, WatchT
    <2>3. ClipT' /\ CountT' /\ PushT' /\ JobT' /\ RxT' /\ NetT' /\ HistT'
      BY <1>0, <1>32 DEF WatchAdd, ClipT, CountT, PushT, JobT, RxT, NetT, HistT
    <2> QED
      BY <2>1, <2>2, <2>3 DEF TypeInv
  <1>33. ASSUME NEW n \in Node, PushStored(n) PROVE TypeInv'
    <2>1. GuardT'
      BY <1>0, <1>33, AddIsGuard DEF PushStored, Suppressed, GuardT, PushT, Clip
    <2>2. PushT'
      BY <1>0, <1>33 DEF PushStored, PushT
    <2>3. ClipT' /\ CountT' /\ WatchT' /\ JobT' /\ RxT' /\ NetT' /\ HistT'
      BY <1>0, <1>33 DEF PushStored, ClipT, CountT, WatchT, JobT, RxT, NetT, HistT
    <2> QED
      BY <2>1, <2>2, <2>3 DEF TypeInv
  <1>34. ASSUME NEW l \in Link, ApplySuppress(l) PROVE TypeInv'
    <2>1. GuardT'
      BY <1>0, <1>34, AddIsGuard DEF ApplySuppress, Suppressed, GuardT, JobT, Clip
    <2>2. JobT'
      BY <1>0, <1>34 DEF ApplySuppress, JobT
    <2>3. ClipT' /\ CountT' /\ WatchT' /\ PushT' /\ RxT' /\ NetT' /\ HistT'
      BY <1>0, <1>34 DEF ApplySuppress, ClipT, CountT, WatchT, PushT, RxT, NetT, HistT
    <2> QED
      BY <2>1, <2>2, <2>3 DEF TypeInv
  <1>29. CASE UNCHANGED vars
    BY <1>0, <1>29 DEF TypeInv, ClipT, GuardT, CountT, WatchT, PushT, JobT, RxT, NetT, HistT
  <1> QED
    BY <1>1, <1>2, <1>3, <1>4, <1>5, <1>6, <1>7, <1>8, <1>9, <1>10, <1>11, <1>12, <1>13, <1>14,
       <1>15, <1>16, <1>17, <1>18, <1>19, <1>20, <1>21, <1>22, <1>23, <1>24, <1>25, <1>26, <1>27,
       <1>28, <1>29, <1>30, <1>31, <1>32, <1>33, <1>34
       DEF Next, Watcher, Push, User, Apply

\* The histories of the guard: only a change of the guard and a restart add to
\* them, and a lapsed entry is not forgotten.
LEMMA StepMarks ==
  ASSUME TypeInv, MarkT, [Next]_vars
  PROVE  MarkT' /\ (lapsed => lapsed')
  <1> USE DEF nodeVars, watchVars, pushVars, jobVars, wireVars, histVars
  <1>1. ASSUME UNCHANGED <<found, lapsed>> PROVE MarkT' /\ (lapsed => lapsed')
    BY <1>1 DEF MarkT
  <1>2. ASSUME NEW n, NEW g, Suppressed(n, g), UNCHANGED found
        PROVE  MarkT' /\ (lapsed => lapsed')
    <2>1. lapsed' = (lapsed \/ Lapses(n, g))
      BY <1>2 DEF Suppressed
    <2>2. lapsed' \in BOOLEAN
      BY <2>1
    <2> QED
      BY <1>2, <2>1, <2>2 DEF MarkT
  <1>3. ASSUME NEW n \in Node, Watcher(n) PROVE MarkT' /\ (lapsed => lapsed')
    <2>1. CASE WatchAdd(n)
      BY <1>2, <2>1 DEF WatchAdd
    <2>2. CASE ~WatchAdd(n)
      <3>1. UNCHANGED <<found, lapsed>>
        BY <1>3, <2>2 DEF Watcher, WatchPoll, WatchSettle, WatchRead, WatchOversize, WatchDrop,
             WatchPass, WatchPack, WatchPackFails, WatchEmit
      <3> QED
        BY <1>1, <3>1
    <2> QED
      BY <2>1, <2>2
  <1>4. ASSUME NEW n \in Node, Push(n) PROVE MarkT' /\ (lapsed => lapsed')
    <2>1. CASE PushStored(n)
      BY <1>2, <2>1 DEF PushStored
    <2>2. CASE ~PushStored(n)
      <3>1. UNCHANGED <<found, lapsed>>
        BY <1>4, <2>2 DEF Push, PushSet, PushSetFails, PushPack, PushPackFails, PushEmit
      <3> QED
        BY <1>1, <3>1
    <2> QED
      BY <2>1, <2>2
  <1>5. ASSUME NEW n \in Node, NEW h \in Hash, User(n, h)
        PROVE  MarkT' /\ (lapsed => lapsed')
    <2>1. CASE UserCopy(n, h)
      BY <1>1, <2>1 DEF UserCopy
    <2>2. CASE PushStart(n, h)
      BY <1>2, <2>2 DEF PushStart
    <2>3. CASE Expire(n, h)
      BY <1>2, <2>3 DEF Expire
    <2> QED
      BY <1>5, <2>1, <2>2, <2>3 DEF User
  <1>6. ASSUME NEW l \in Link, Apply(l) PROVE MarkT' /\ (lapsed => lapsed')
    <2>1. CASE ApplySuppress(l)
      BY <1>2, <2>1 DEF ApplySuppress
    <2>2. CASE ApplyStored(l)
      BY <1>2, <2>2 DEF ApplyStored
    <2>3. CASE ~ApplySuppress(l) /\ ~ApplyStored(l)
      <3>1. UNCHANGED <<found, lapsed>>
        BY <1>6, <2>3 DEF Apply, ApplyKnown, ApplyAccept, ApplyCompare, ApplySet, ApplySetFails,
             ApplyEmit
      <3> QED
        BY <1>1, <3>1
    <2> QED
      BY <2>1, <2>2, <2>3
  <1>7. ASSUME NEW l \in Link, Forward(l) \/ RelayBroadcast(l) \/ Reconnect(l) \/ Drop(l)
        PROVE  MarkT' /\ (lapsed => lapsed')
    BY <1>1, <1>7 DEF Forward, RelayBroadcast, Reconnect, Drop
  <1>8. ASSUME NEW n \in Node, SavePeers(n) PROVE MarkT' /\ (lapsed => lapsed')
    BY <1>1, <1>8 DEF SavePeers
  <1>9. ASSUME NEW n \in Node, Restart(n) PROVE MarkT' /\ (lapsed => lapsed')
    <2>1. found' = [found EXCEPT ![n] = found[n] \cup {clip[n]}] /\ UNCHANGED lapsed
      BY <1>9 DEF Restart
    <2>2. clip[n] \in Hash \cup {Empty}
      BY DEF TypeInv, ClipT
    <2> QED
      BY <2>1, <2>2 DEF MarkT
  <1>10. CASE UNCHANGED vars
    BY <1>1, <1>10 DEF vars
  <1> QED
    BY <1>3, <1>4, <1>5, <1>6, <1>7, <1>8, <1>9, <1>10 DEF Next

\* Type correctness of the hubs, for every network.
THEOREM TypeCorrect == Spec => []TypeOK
  <1>1. TypeInv /\ MarkT /\ [Next]_vars => TypeInv' /\ MarkT'
    BY StepTypes, StepMarks
  <1>2. Spec => [](TypeInv /\ MarkT)
    BY <1>1, InitTypes, PTL DEF Spec
  <1> QED
    BY <1>2, TypeInvImpliesTypeOK, PTL

-----------------------------------------------------------------------------
(* Sequence numbers *)

\* The inductive invariant.  A number is on disk before a clip carries it, every
\* clip a task holds, a receiver queues or a link carries has been issued, and a
\* hub has accepted no number that is not on its origin's disk.
CountI  == \A n, o \in Node : seen[n][o] <= disk[o] /\ disk[o] <= seq[o]
IssuedI == \A c \in issued : c.seq <= disk[c.origin]
WatchI  == \A n \in Node : wpc[n] = "emit" => wclip[n] \in issued
PushI   == \A n \in Node : ppc[n] = "emit" => pclip[n] \in issued
JobI    == \A l \in Link : jpc[l] # "idle" => jclip[l] \in issued
RxI     == \A l \in Link : \A i \in DOMAIN rx[l] : rx[l][i].clip \in issued
NetI    == \A l \in Link : \A i \in DOMAIN net[l] : net[l][i] \in issued

SeqInv == CountI /\ IssuedI /\ UniqueSeq /\ WatchI /\ PushI /\ JobI /\ RxI /\ NetI

\* What Hub::emit queues has been issued, if the emitted clip has.
LEMMA EmittedIsIssued ==
  ASSUME RxT, RxI, NEW n \in Node, NEW c \in Clip, c \in issued,
         NEW skip \in Node \cup {Relay}
  PROVE  \A l \in Link : \A i \in DOMAIN Emitted(n, c, skip)[l] :
           Emitted(n, c, skip)[l][i].clip \in issued
  <1> DEFINE out == [clip |-> c, skip |-> skip]
  <1>1. out \in Outbound /\ out.clip = c
    BY DEF Outbound
  <1> SUFFICES ASSUME NEW l \in Link, NEW i \in DOMAIN Emitted(n, c, skip)[l]
               PROVE  Emitted(n, c, skip)[l][i].clip \in issued
    OBVIOUS
  <1>2. CASE l[1] = n /\ l \in up
    <2>1. Emitted(n, c, skip)[l] = KeepLast(rx[l], out, BroadcastCap)
      BY <1>2 DEF Emitted
    <2>2. rx[l] \in Seq(Outbound)
      BY DEF RxT
    <2>3. i \in DOMAIN KeepLast(rx[l], out, BroadcastCap)
      BY <2>1
    <2>4. \/ KeepLast(rx[l], out, BroadcastCap)[i] = out
          \/ \E j \in DOMAIN rx[l] : KeepLast(rx[l], out, BroadcastCap)[i] = rx[l][j]
      BY <1>1, <2>2, <2>3, KeepLastElements
    <2> QED
      BY <1>1, <2>1, <2>4 DEF RxI
  <1>3. CASE ~(l[1] = n /\ l \in up)
    BY <1>3 DEF Emitted, RxI
  <1> QED
    BY <1>2, <1>3

\* A number just taken from the counter is new: no clip of that origin has it.
LEMMA IssueOne ==
  ASSUME TypeInv, CountI, IssuedI, UniqueSeq,
         NEW n \in Node, NEW d \in Clip, d.origin = n, d.seq = seq[n] + 1,
         NextSeq(n), issued' = issued \cup {d}, UNCHANGED seen
  PROVE  CountI' /\ IssuedI' /\ UniqueSeq'
  <1>1. /\ seen \in [Node -> [Node -> Nat]] /\ seq \in [Node -> Nat]
        /\ disk \in [Node -> Nat] /\ issued \in SUBSET Clip
    BY DEF TypeInv, CountT, HistT
  <1>2. /\ \A o \in Node : disk[o] \in Nat /\ disk'[o] \in Nat /\ disk[o] <= disk'[o]
        /\ \A o \in Node : seq'[o] \in Nat /\ disk'[o] <= seq'[o]
        /\ disk'[n] = seq[n] + 1 /\ disk[n] < d.seq
    BY <1>1 DEF NextSeq, CountI
  <1>3. CountI'
    BY <1>1, <1>2 DEF CountI
  <1>4. \A c \in issued : c.origin \in Node /\ c.seq \in Nat
    BY <1>1 DEF Clip
  <1>5. IssuedI'
    BY <1>2, <1>4 DEF IssuedI, Clip
  <1>6. \A c \in issued : c.origin = n => c.seq # d.seq
    BY <1>1, <1>2, <1>4 DEF IssuedI, Clip
  <1>7. UniqueSeq'
    BY <1>6 DEF UniqueSeq
  <1> QED
    BY <1>3, <1>5, <1>7

\* A hub that has packed nothing satisfies the invariant.
LEMMA InitSeq == Init => SeqInv
  BY DEF Init, SeqInv, CountI, IssuedI, UniqueSeq, WatchI, PushI, JobI, RxI, NetI

\* Every step keeps the invariant: under each action, the parts it disturbs.
LEMMA StepSeq == TypeInv /\ TypeInv' /\ SeqInv /\ [Next]_vars => SeqInv'
  <1> SUFFICES ASSUME TypeInv, TypeInv', SeqInv, [Next]_vars PROVE SeqInv'
    OBVIOUS
  <1> USE DEF vars, nodeVars, watchVars, pushVars, jobVars, wireVars, histVars
  <1>0. /\ CountT /\ WatchT /\ PushT /\ JobT /\ RxT /\ NetT /\ HistT
        /\ CountI /\ IssuedI /\ UniqueSeq /\ WatchI /\ PushI /\ JobI /\ RxI /\ NetI
    BY DEF TypeInv, SeqInv
  <1>1. ASSUME NEW n \in Node, WatchPoll(n) PROVE SeqInv'
    <2>1. WatchI'
      BY <1>0, <1>1 DEF WatchPoll, WatchI
    <2>2. CountI' /\ IssuedI' /\ UniqueSeq' /\ PushI' /\ JobI' /\ RxI' /\ NetI'
      BY <1>0, <1>1 DEF WatchPoll, CountI, IssuedI, UniqueSeq, PushI, JobI, RxI, NetI
    <2> QED
      BY <2>1, <2>2 DEF SeqInv
  <1>2. ASSUME NEW n \in Node, WatchSettle(n) PROVE SeqInv'
    <2>1. WatchI'
      BY <1>0, <1>2 DEF WatchSettle, WatchI
    <2>2. CountI' /\ IssuedI' /\ UniqueSeq' /\ PushI' /\ JobI' /\ RxI' /\ NetI'
      BY <1>0, <1>2 DEF WatchSettle, CountI, IssuedI, UniqueSeq, PushI, JobI, RxI, NetI
    <2> QED
      BY <2>1, <2>2 DEF SeqInv
  <1>3. ASSUME NEW n \in Node, WatchDrop(n) PROVE SeqInv'
    <2>1. WatchI'
      BY <1>0, <1>3 DEF WatchDrop, WatchI
    <2>2. CountI' /\ IssuedI' /\ UniqueSeq' /\ PushI' /\ JobI' /\ RxI' /\ NetI'
      BY <1>0, <1>3 DEF WatchDrop, CountI, IssuedI, UniqueSeq, PushI, JobI, RxI, NetI
    <2> QED
      BY <2>1, <2>2 DEF SeqInv
  <1>4. ASSUME NEW n \in Node, WatchRead(n) PROVE SeqInv'
    <2>1. WatchI'
      BY <1>0, <1>4 DEF WatchRead, WatchI, WatchT
    <2>2. CountI' /\ IssuedI' /\ UniqueSeq' /\ PushI' /\ JobI' /\ RxI' /\ NetI'
      BY <1>0, <1>4 DEF WatchRead, CountI, IssuedI, UniqueSeq, PushI, JobI, RxI, NetI
    <2> QED
      BY <2>1, <2>2 DEF SeqInv
  <1>5. ASSUME NEW n \in Node, WatchPack(n) PROVE SeqInv'
    <2>1. /\ seq[n] + 1 \in Nat
          /\ wclip[n] \in Clip /\ wclip[n].origin = n
          /\ wclip' = [wclip EXCEPT ![n] = [wclip[n] EXCEPT !.seq = seq[n] + 1]]
      BY <1>0, <1>5 DEF WatchPack, CountT, WatchT
    <2>2. /\ wclip'[n] \in Clip /\ wclip'[n].origin = n /\ wclip'[n].seq = seq[n] + 1
          /\ issued' = issued \cup {wclip'[n]}
      BY <1>0, <1>5, <2>1, Numbered DEF WatchPack, WatchT
    <2>3. CountI' /\ IssuedI' /\ UniqueSeq'
      BY <1>0, <1>5, <2>2, IssueOne DEF WatchPack
    <2>4. WatchI'
      BY <1>0, <1>5, <2>2 DEF WatchPack, WatchI, WatchT
    <2>5. PushI' /\ JobI' /\ RxI' /\ NetI'
      BY <1>0, <1>5 DEF WatchPack, PushI, JobI, RxI, NetI
    <2> QED
      BY <2>3, <2>4, <2>5 DEF SeqInv
  <1>6. ASSUME NEW n \in Node, WatchPackFails(n) PROVE SeqInv'
    <2>1. CountI'
      BY <1>0, <1>6 DEF WatchPackFails, CountI, NextSeqFails, CountT
    <2>2. IssuedI'
      BY <1>0, <1>6 DEF WatchPackFails, IssuedI, NextSeqFails
    <2>3. WatchI'
      BY <1>0, <1>6 DEF WatchPackFails, WatchI, WatchT
    <2>4. UniqueSeq' /\ PushI' /\ JobI' /\ RxI' /\ NetI'
      BY <1>0, <1>6 DEF WatchPackFails, UniqueSeq, PushI, JobI, RxI, NetI
    <2> QED
      BY <2>1, <2>2, <2>3, <2>4 DEF SeqInv
  <1>7. ASSUME NEW n \in Node, WatchEmit(n) PROVE SeqInv'
    <2>1. WatchI'
      BY <1>0, <1>7 DEF WatchEmit, WatchI, WatchT
    <2>2. RxI'
      BY <1>0, <1>7, EmittedIsIssued DEF WatchEmit, RxI, WatchT, WatchI, NoSkip
    <2>3. CountI' /\ IssuedI' /\ UniqueSeq' /\ PushI' /\ JobI' /\ NetI'
      BY <1>0, <1>7 DEF WatchEmit, CountI, IssuedI, UniqueSeq, PushI, JobI, NetI
    <2> QED
      BY <2>1, <2>2, <2>3 DEF SeqInv
  <1>8. ASSUME NEW n \in Node, PushSet(n) PROVE SeqInv'
    <2>1. PushI'
      BY <1>0, <1>8 DEF PushSet, PushI, PushT
    <2>2. CountI' /\ IssuedI' /\ UniqueSeq' /\ WatchI' /\ JobI' /\ RxI' /\ NetI'
      BY <1>0, <1>8 DEF PushSet, CountI, IssuedI, UniqueSeq, WatchI, JobI, RxI, NetI
    <2> QED
      BY <2>1, <2>2 DEF SeqInv
  <1>9. ASSUME NEW n \in Node, PushSetFails(n) PROVE SeqInv'
    <2>1. PushI'
      BY <1>0, <1>9 DEF PushSetFails, PushI, PushT
    <2>2. CountI' /\ IssuedI' /\ UniqueSeq' /\ WatchI' /\ JobI' /\ RxI' /\ NetI'
      BY <1>0, <1>9 DEF PushSetFails, CountI, IssuedI, UniqueSeq, WatchI, JobI, RxI, NetI
    <2> QED
      BY <2>1, <2>2 DEF SeqInv
  <1>10. ASSUME NEW n \in Node, PushPack(n) PROVE SeqInv'
    <2>1. /\ seq[n] + 1 \in Nat
          /\ pclip[n] \in Clip /\ pclip[n].origin = n
          /\ pclip' = [pclip EXCEPT ![n] = [pclip[n] EXCEPT !.seq = seq[n] + 1]]
      BY <1>0, <1>10 DEF PushPack, CountT, PushT
    <2>2. /\ pclip'[n] \in Clip /\ pclip'[n].origin = n /\ pclip'[n].seq = seq[n] + 1
          /\ issued' = issued \cup {pclip'[n]}
      BY <1>0, <1>10, <2>1, Numbered DEF PushPack, PushT
    <2>3. CountI' /\ IssuedI' /\ UniqueSeq'
      BY <1>0, <1>10, <2>2, IssueOne DEF PushPack
    <2>4. PushI'
      BY <1>0, <1>10, <2>2 DEF PushPack, PushI, PushT
    <2>5. WatchI' /\ JobI' /\ RxI' /\ NetI'
      BY <1>0, <1>10 DEF PushPack, WatchI, JobI, RxI, NetI
    <2> QED
      BY <2>3, <2>4, <2>5 DEF SeqInv
  <1>11. ASSUME NEW n \in Node, PushPackFails(n) PROVE SeqInv'
    <2>1. CountI'
      BY <1>0, <1>11 DEF PushPackFails, CountI, NextSeqFails, CountT
    <2>2. IssuedI'
      BY <1>0, <1>11 DEF PushPackFails, IssuedI, NextSeqFails
    <2>3. PushI'
      BY <1>0, <1>11 DEF PushPackFails, PushI, PushT
    <2>4. UniqueSeq' /\ WatchI' /\ JobI' /\ RxI' /\ NetI'
      BY <1>0, <1>11 DEF PushPackFails, UniqueSeq, WatchI, JobI, RxI, NetI
    <2> QED
      BY <2>1, <2>2, <2>3, <2>4 DEF SeqInv
  <1>12. ASSUME NEW n \in Node, PushEmit(n) PROVE SeqInv'
    <2>1. PushI'
      BY <1>0, <1>12 DEF PushEmit, PushI, PushT
    <2>2. RxI'
      BY <1>0, <1>12, EmittedIsIssued DEF PushEmit, RxI, PushT, PushI, NoSkip
    <2>3. CountI' /\ IssuedI' /\ UniqueSeq' /\ WatchI' /\ JobI' /\ NetI'
      BY <1>0, <1>12 DEF PushEmit, CountI, IssuedI, UniqueSeq, WatchI, JobI, NetI
    <2> QED
      BY <2>1, <2>2, <2>3 DEF SeqInv
  <1>13. ASSUME NEW n \in Node, Restart(n) PROVE SeqInv'
    <2>1. CountI'
      BY <1>0, <1>13 DEF Restart, CountI, CountT
    <2>2. WatchI'
      BY <1>0, <1>13 DEF Restart, WatchI, WatchT
    <2>3. PushI'
      BY <1>0, <1>13 DEF Restart, PushI, PushT
    <2>4. JobI'
      BY <1>0, <1>13 DEF Restart, JobI, JobT
    <2>5. RxI'
      BY <1>0, <1>13 DEF Restart, RxI, Cleared
    <2>6. NetI'
      BY <1>0, <1>13 DEF Restart, NetI, Cleared
    <2>7. IssuedI' /\ UniqueSeq'
      BY <1>0, <1>13 DEF Restart, IssuedI, UniqueSeq
    <2> QED
      BY <2>1, <2>2, <2>3, <2>4, <2>5, <2>6, <2>7 DEF SeqInv
  <1>14. ASSUME NEW n \in Node, SavePeers(n) PROVE SeqInv'
    <2>1. CountI'
      BY <1>0, <1>14 DEF SavePeers, CountI, CountT
    <2>2. IssuedI'
      BY <1>0, <1>14 DEF SavePeers, IssuedI, CountT, CountI, HistT, Clip
    <2>3. UniqueSeq' /\ WatchI' /\ PushI' /\ JobI' /\ RxI' /\ NetI'
      BY <1>0, <1>14 DEF SavePeers, UniqueSeq, WatchI, PushI, JobI, RxI, NetI
    <2> QED
      BY <2>1, <2>2, <2>3 DEF SeqInv
  <1>15. ASSUME NEW n \in Node, NEW h \in Hash, UserCopy(n, h) PROVE SeqInv'
    <2>1. CountI' /\ IssuedI' /\ UniqueSeq' /\ WatchI' /\ PushI' /\ JobI' /\ RxI' /\ NetI'
      BY <1>0, <1>15 DEF UserCopy, CountI, IssuedI, UniqueSeq, WatchI, PushI, JobI, RxI, NetI
    <2> QED
      BY <2>1 DEF SeqInv
  <1>16. ASSUME NEW n \in Node, NEW h \in Hash, PushStart(n, h) PROVE SeqInv'
    <2>1. PushI'
      BY <1>0, <1>16 DEF PushStart, PushI, PushT
    <2>2. CountI' /\ IssuedI' /\ UniqueSeq' /\ WatchI' /\ JobI' /\ RxI' /\ NetI'
      BY <1>0, <1>16 DEF PushStart, CountI, IssuedI, UniqueSeq, WatchI, JobI, RxI, NetI
    <2> QED
      BY <2>1, <2>2 DEF SeqInv
  <1>17. ASSUME NEW n \in Node, NEW h \in Hash, Expire(n, h) PROVE SeqInv'
    <2>1. CountI' /\ IssuedI' /\ UniqueSeq' /\ WatchI' /\ PushI' /\ JobI' /\ RxI' /\ NetI'
      BY <1>0, <1>17 DEF Expire, CountI, IssuedI, UniqueSeq, WatchI, PushI, JobI, RxI, NetI
    <2> QED
      BY <2>1 DEF SeqInv
  <1>18. ASSUME NEW l \in Link, Forward(l) PROVE SeqInv'
    <2>1. rx[l] \in Seq(Outbound) /\ rx[l] # << >>
      BY <1>0, <1>18 DEF Forward, RxT
    <2>2. /\ Head(rx[l]) = rx[l][1] /\ 1 \in DOMAIN rx[l]
          /\ \A i \in DOMAIN Tail(rx[l]) : i + 1 \in DOMAIN rx[l] /\ Tail(rx[l])[i] = rx[l][i + 1]
      BY <2>1, HeadOfQueue
    <2>3. Head(rx[l]).clip \in issued
      BY <1>0, <2>2 DEF RxI
    <2>4. RxI'
      BY <1>0, <1>18, <2>2 DEF Forward, RxI, RxT
    <2>5. NetI'
      BY <1>0, <1>18, <2>2, <2>3 DEF Forward, NetI, NetT, RxT
    <2>6. CountI' /\ IssuedI' /\ UniqueSeq' /\ WatchI' /\ PushI' /\ JobI'
      BY <1>0, <1>18 DEF Forward, CountI, IssuedI, UniqueSeq, WatchI, PushI, JobI
    <2> QED
      BY <2>1, <2>2, <2>3, <2>4, <2>5, <2>6 DEF SeqInv
  <1>19. ASSUME NEW l \in Link, RelayBroadcast(l) PROVE SeqInv'
    <2>1. net[l] \in Seq(Clip) /\ net[l] # << >>
      BY <1>0, <1>19 DEF RelayBroadcast, NetT
    <2>2. /\ Head(net[l]) = net[l][1] /\ 1 \in DOMAIN net[l]
          /\ \A i \in DOMAIN Tail(net[l]) : i + 1 \in DOMAIN net[l] /\ Tail(net[l])[i] = net[l][i + 1]
      BY <2>1, HeadOfQueue
    <2>3. Head(net[l]) \in issued
      BY <1>0, <2>2 DEF NetI
    <2>4. NetI'
      BY <1>0, <1>19, <2>2, <2>3 DEF RelayBroadcast, NetI, NetT
    <2>5. CountI' /\ IssuedI' /\ UniqueSeq' /\ WatchI' /\ PushI' /\ JobI' /\ RxI'
      BY <1>0, <1>19 DEF RelayBroadcast, CountI, IssuedI, UniqueSeq, WatchI, PushI, JobI, RxI
    <2> QED
      BY <2>1, <2>2, <2>3, <2>4, <2>5 DEF SeqInv
  <1>20. ASSUME NEW l \in Link, ApplyKnown(l) PROVE SeqInv'
    <2>1. net[l] \in Seq(Clip) /\ net[l] # << >>
      BY <1>0, <1>20 DEF ApplyKnown, NetT
    <2>2. /\ Head(net[l]) = net[l][1] /\ 1 \in DOMAIN net[l]
          /\ \A i \in DOMAIN Tail(net[l]) : i + 1 \in DOMAIN net[l] /\ Tail(net[l])[i] = net[l][i + 1]
      BY <2>1, HeadOfQueue
    <2>3. Head(net[l]) \in issued
      BY <1>0, <2>2 DEF NetI
    <2>4. JobI'
      BY <1>0, <1>20, <2>3 DEF ApplyKnown, JobI, JobT
    <2>5. NetI'
      BY <1>0, <1>20, <2>2, <2>3 DEF ApplyKnown, NetI, NetT
    <2>6. CountI' /\ IssuedI' /\ UniqueSeq' /\ WatchI' /\ PushI' /\ RxI'
      BY <1>0, <1>20 DEF ApplyKnown, CountI, IssuedI, UniqueSeq, WatchI, PushI, RxI
    <2> QED
      BY <2>1, <2>2, <2>3, <2>4, <2>5, <2>6 DEF SeqInv
  <1>21. ASSUME NEW l \in Link, ApplyAccept(l) PROVE SeqInv'
    <2>1. net[l] \in Seq(Clip) /\ net[l] # << >>
      BY <1>0, <1>21 DEF ApplyAccept, NetT
    <2>2. /\ Head(net[l]) = net[l][1] /\ 1 \in DOMAIN net[l]
          /\ \A i \in DOMAIN Tail(net[l]) : i + 1 \in DOMAIN net[l] /\ Tail(net[l])[i] = net[l][i + 1]
      BY <2>1, HeadOfQueue
    <2>3. Head(net[l]) \in issued
      BY <1>0, <2>2 DEF NetI
    <2>4. /\ Head(net[l]).origin \in Node /\ Head(net[l]).seq \in Nat
          /\ Head(net[l]).seq <= disk[Head(net[l]).origin]
      BY <1>0, <2>3 DEF IssuedI, HistT, Clip
    <2>5. CountI'
      BY <1>0, <1>21, <2>4 DEF ApplyAccept, CountI, CountT
    <2>6. JobI'
      BY <1>0, <1>21, <2>3 DEF ApplyAccept, JobI, JobT
    <2>7. NetI'
      BY <1>0, <1>21, <2>2, <2>3 DEF ApplyAccept, NetI, NetT
    <2>8. IssuedI' /\ UniqueSeq' /\ WatchI' /\ PushI' /\ RxI'
      BY <1>0, <1>21 DEF ApplyAccept, IssuedI, UniqueSeq, WatchI, PushI, RxI
    <2> QED
      BY <2>1, <2>2, <2>3, <2>4, <2>5, <2>6, <2>7, <2>8 DEF SeqInv
  <1>22. ASSUME NEW l \in Link, ApplyCompare(l) PROVE SeqInv'
    <2>1. JobI'
      BY <1>0, <1>22 DEF ApplyCompare, JobI, JobT
    <2>2. CountI' /\ IssuedI' /\ UniqueSeq' /\ WatchI' /\ PushI' /\ RxI' /\ NetI'
      BY <1>0, <1>22 DEF ApplyCompare, CountI, IssuedI, UniqueSeq, WatchI, PushI, RxI, NetI
    <2> QED
      BY <2>1, <2>2 DEF SeqInv
  <1>23. ASSUME NEW l \in Link, ApplySet(l) PROVE SeqInv'
    <2>1. JobI'
      BY <1>0, <1>23 DEF ApplySet, JobI, JobT
    <2>2. CountI' /\ IssuedI' /\ UniqueSeq' /\ WatchI' /\ PushI' /\ RxI' /\ NetI'
      BY <1>0, <1>23 DEF ApplySet, CountI, IssuedI, UniqueSeq, WatchI, PushI, RxI, NetI
    <2> QED
      BY <2>1, <2>2 DEF SeqInv
  <1>24. ASSUME NEW l \in Link, ApplySetFails(l) PROVE SeqInv'
    <2>1. JobI'
      BY <1>0, <1>24 DEF ApplySetFails, JobI, JobT
    <2>2. RxI'
      BY <1>0, <1>24 DEF ApplySetFails, RxI, Cleared
    <2>3. NetI'
      BY <1>0, <1>24 DEF ApplySetFails, NetI, Cleared
    <2>4. CountI' /\ IssuedI' /\ UniqueSeq' /\ WatchI' /\ PushI'
      BY <1>0, <1>24 DEF ApplySetFails, CountI, IssuedI, UniqueSeq, WatchI, PushI
    <2> QED
      BY <2>1, <2>2, <2>3, <2>4 DEF SeqInv
  <1>25. ASSUME NEW l \in Link, ApplyStored(l) PROVE SeqInv'
    <2>1. JobI'
      BY <1>0, <1>25 DEF ApplyStored, JobI, JobT
    <2>2. CountI' /\ IssuedI' /\ UniqueSeq' /\ WatchI' /\ PushI' /\ RxI' /\ NetI'
      BY <1>0, <1>25 DEF ApplyStored, CountI, IssuedI, UniqueSeq, WatchI, PushI, RxI, NetI
    <2> QED
      BY <2>1, <2>2 DEF SeqInv
  <1>26. ASSUME NEW l \in Link, ApplyEmit(l) PROVE SeqInv'
    <2>1. JobI'
      BY <1>0, <1>26 DEF ApplyEmit, JobI, JobT
    <2>2. RxI'
      BY <1>0, <1>26, EmittedIsIssued DEF ApplyEmit, RxI, JobT, JobI, Ingress, Clip
    <2>3. CountI' /\ IssuedI' /\ UniqueSeq' /\ WatchI' /\ PushI' /\ NetI'
      BY <1>0, <1>26 DEF ApplyEmit, CountI, IssuedI, UniqueSeq, WatchI, PushI, NetI
    <2> QED
      BY <2>1, <2>2, <2>3 DEF SeqInv
  <1>27. ASSUME NEW l \in Link, Reconnect(l) PROVE SeqInv'
    <2>1. CountI' /\ IssuedI' /\ UniqueSeq' /\ WatchI' /\ PushI' /\ JobI' /\ RxI' /\ NetI'
      BY <1>0, <1>27 DEF Reconnect, CountI, IssuedI, UniqueSeq, WatchI, PushI, JobI, RxI, NetI
    <2> QED
      BY <2>1 DEF SeqInv
  <1>28. ASSUME NEW l \in Link, Drop(l) PROVE SeqInv'
    <2>1. RxI'
      BY <1>0, <1>28 DEF Drop, RxI, Cleared
    <2>2. NetI'
      BY <1>0, <1>28 DEF Drop, NetI, Cleared
    <2>3. CountI' /\ IssuedI' /\ UniqueSeq' /\ WatchI' /\ PushI' /\ JobI'
      BY <1>0, <1>28 DEF Drop, CountI, IssuedI, UniqueSeq, WatchI, PushI, JobI
    <2> QED
      BY <2>1, <2>2, <2>3 DEF SeqInv
  <1>30. ASSUME NEW n \in Node, WatchOversize(n) PROVE SeqInv'
    <2>1. WatchI'
      BY <1>0, <1>30 DEF WatchOversize, WatchI, WatchT
    <2>2. CountI' /\ IssuedI' /\ UniqueSeq' /\ PushI' /\ JobI' /\ RxI' /\ NetI'
      BY <1>0, <1>30 DEF WatchOversize, CountI, IssuedI, UniqueSeq, PushI, JobI, RxI, NetI
    <2> QED
      BY <2>1, <2>2 DEF SeqInv
  <1>31. ASSUME NEW n \in Node, WatchPass(n) PROVE SeqInv'
    <2>1. WatchI'
      BY <1>0, <1>31 DEF WatchPass, WatchI, WatchT
    <2>2. CountI' /\ IssuedI' /\ UniqueSeq' /\ PushI' /\ JobI' /\ RxI' /\ NetI'
      BY <1>0, <1>31 DEF WatchPass, CountI, IssuedI, UniqueSeq, PushI, JobI, RxI, NetI
    <2> QED
      BY <2>1, <2>2 DEF SeqInv
  <1>32. ASSUME NEW n \in Node, WatchAdd(n) PROVE SeqInv'
    <2>1. WatchI'
      BY <1>0, <1>32 DEF WatchAdd, WatchI, WatchT
    <2>2. CountI' /\ IssuedI' /\ UniqueSeq' /\ PushI' /\ JobI' /\ RxI' /\ NetI'
      BY <1>0, <1>32 DEF WatchAdd, CountI, IssuedI, UniqueSeq, PushI, JobI, RxI, NetI
    <2> QED
      BY <2>1, <2>2 DEF SeqInv
  <1>33. ASSUME NEW n \in Node, PushStored(n) PROVE SeqInv'
    <2>1. PushI'
      BY <1>0, <1>33 DEF PushStored, PushI, PushT
    <2>2. CountI' /\ IssuedI' /\ UniqueSeq' /\ WatchI' /\ JobI' /\ RxI' /\ NetI'
      BY <1>0, <1>33 DEF PushStored, CountI, IssuedI, UniqueSeq, WatchI, JobI, RxI, NetI
    <2> QED
      BY <2>1, <2>2 DEF SeqInv
  <1>34. ASSUME NEW l \in Link, ApplySuppress(l) PROVE SeqInv'
    <2>1. JobI'
      BY <1>0, <1>34 DEF ApplySuppress, JobI, JobT
    <2>2. CountI' /\ IssuedI' /\ UniqueSeq' /\ WatchI' /\ PushI' /\ RxI' /\ NetI'
      BY <1>0, <1>34 DEF ApplySuppress, CountI, IssuedI, UniqueSeq, WatchI, PushI, RxI, NetI
    <2> QED
      BY <2>1, <2>2 DEF SeqInv
  <1>29. CASE UNCHANGED vars
    BY <1>0, <1>29 DEF SeqInv, CountI, IssuedI, UniqueSeq, WatchI, PushI, JobI, RxI, NetI
  <1> QED
    BY <1>1, <1>2, <1>3, <1>4, <1>5, <1>6, <1>7, <1>8, <1>9, <1>10, <1>11, <1>12, <1>13, <1>14,
       <1>15, <1>16, <1>17, <1>18, <1>19, <1>20, <1>21, <1>22, <1>23, <1>24, <1>25, <1>26, <1>27,
       <1>28, <1>29, <1>30, <1>31, <1>32, <1>33, <1>34
       DEF Next, Watcher, Push, User, Apply

\* The invariant holds of every reachable state.
LEMMA SeqInvariant == Spec => []SeqInv
  <1>1. Spec => []TypeInv
    BY InitTypes, StepTypes, PTL DEF Spec
  <1> QED
    BY <1>1, InitSeq, StepSeq, PTL DEF Spec

\* A sequence number names one clip of its origin, across failed saves of the
\* counter and restarts of the daemon.
THEOREM SequenceNumbersAreUnique == Spec => []UniqueSeq
  <1>1. SeqInv => UniqueSeq
    BY DEF SeqInv
  <1> QED
    BY <1>1, SeqInvariant, PTL

\* No clip a restarted origin packs is taken for a replay of an earlier one.
THEOREM RestartSafe == Spec => []RestartIsNotReplay
  <1>1. SeqInv => RestartIsNotReplay
    BY DEF SeqInv, CountI, RestartIsNotReplay
  <1> QED
    BY <1>1, SeqInvariant, PTL

\* A hub queues, sends and applies only clips their origins packed.
THEOREM NothingInvented == Spec => []OnlyIssued
  <1>1. SeqInv => OnlyIssued
    BY DEF SeqInv, JobI, RxI, NetI, OnlyIssued
  <1> QED
    BY <1>1, SeqInvariant, PTL

-----------------------------------------------------------------------------
(* Trees *)

\* What is queued, sent and applied on a link is of its branch.
RxB(B)  == \A l \in Link : \A i \in DOMAIN rx[l] :
             Skips(l, rx[l][i]) \/ rx[l][i].clip.origin \in B[l]
NetB(B) == \A l \in Link : \A i \in DOMAIN net[l] : net[l][i].origin \in B[l]
JobB(B) == \A l \in Link : jpc[l] # "idle" => jclip[l].origin \in B[l]

\* A clip on its way to the clipboard is the newest accepted from its origin.
OrderB == /\ \A n, o \in Node : onboard[n][o] <= seen[n][o]
          /\ \A l \in Link : jpc[l] \in {"compare", "present", "absent", "set"} =>
               /\ jclip[l].seq = seen[l[2]][jclip[l].origin]
               /\ onboard[l[2]][jclip[l].origin] < jclip[l].seq

TreeInv(B) == RxB(B) /\ NetB(B) /\ JobB(B) /\ OrderB

\* What Hub::emit queues is of the branch of each link, or skipped there.
LEMMA EmittedIsOfBranch ==
  ASSUME RxT, NEW B, RxB(B), NEW n \in Node, NEW c \in Clip,
         NEW skip \in Node \cup {Relay},
         \A l \in Link : l[1] = n =>
           Skips(l, [clip |-> c, skip |-> skip]) \/ c.origin \in B[l]
  PROVE  \A l \in Link : \A i \in DOMAIN Emitted(n, c, skip)[l] :
           LET out == Emitted(n, c, skip)[l][i]
           IN  Skips(l, out) \/ out.clip.origin \in B[l]
  <1> DEFINE out == [clip |-> c, skip |-> skip]
  <1>1. out \in Outbound /\ out.clip = c
    BY DEF Outbound
  <1> SUFFICES ASSUME NEW l \in Link, NEW i \in DOMAIN Emitted(n, c, skip)[l]
               PROVE  \/ Skips(l, Emitted(n, c, skip)[l][i])
                      \/ Emitted(n, c, skip)[l][i].clip.origin \in B[l]
    OBVIOUS
  <1>2. CASE l[1] = n /\ l \in up
    <2>1. Emitted(n, c, skip)[l] = KeepLast(rx[l], out, BroadcastCap)
      BY <1>2 DEF Emitted
    <2>2. rx[l] \in Seq(Outbound)
      BY DEF RxT
    <2>3. i \in DOMAIN KeepLast(rx[l], out, BroadcastCap)
      BY <2>1
    <2>4. \/ KeepLast(rx[l], out, BroadcastCap)[i] = out
          \/ \E j \in DOMAIN rx[l] : KeepLast(rx[l], out, BroadcastCap)[i] = rx[l][j]
      BY <1>1, <2>2, <2>3, KeepLastElements
    <2>5. Skips(l, out) \/ c.origin \in B[l]
      BY <1>2
    <2> HIDE DEF out
    <2> QED
      BY <1>1, <2>1, <2>4, <2>5 DEF RxB
  <1>3. CASE ~(l[1] = n /\ l \in up)
    BY <1>3 DEF Emitted, RxB
  <1> QED
    BY <1>2, <1>3

\* A clip of its own is of the branch of every link of a daemon.
LEMMA OwnIsOfBranch ==
  ASSUME NEW B, Branches(B), NEW n \in Node, NEW c \in Clip, c.origin = n
  PROVE  \A l \in Link : l[1] = n => c.origin \in B[l]
  BY DEF Branches

\* A clip that came along j is of the branches it is forwarded to.
LEMMA ForwardedIsOfBranch ==
  ASSUME NEW B, Branches(B), NEW j \in Link, j[2] \in Node,
         NEW c \in Clip, c.origin \in B[j]
  PROVE  \A l \in Link : l[1] = j[2] =>
           Skips(l, [clip |-> c, skip |-> Ingress(j, c)]) \/ c.origin \in B[l]
  <1> SUFFICES ASSUME NEW l \in Link, l[1] = j[2],
                      ~Skips(l, [clip |-> c, skip |-> Ingress(j, c)])
               PROVE  c.origin \in B[l]
    OBVIOUS
  <1>1. Ingress(j, c) # NoSkip
    BY DEF Ingress, NoSkip, Clip
  <1>2. l[2] # Relay /\ Ingress(j, c) # l[2]
    BY <1>1 DEF Skips
  <1>3. l[2] # j[1]
    BY <1>2 DEF Ingress
  <1>4. Onward(j, l)
    BY <1>2, <1>3 DEF Onward
  <1> QED
    BY <1>4 DEF Branches

\* Nothing is on its way yet, so nothing is off its branch.
LEMMA InitTree == ASSUME NEW B PROVE Init => TreeInv(B)
  BY DEF Init, TreeInv, RxB, NetB, JobB, OrderB

\* Every step keeps each clip to its branch, and its number ahead of the clipboard.
LEMMA StepTree ==
  ASSUME NEW B \in [Link -> SUBSET Node], Branches(B), TypeInv, TypeInv', TreeInv(B), [Next]_vars
  PROVE  TreeInv(B)'
  <1> USE DEF vars, nodeVars, watchVars, pushVars, jobVars, wireVars, histVars
  <1>0. /\ CountT /\ WatchT /\ PushT /\ JobT /\ RxT /\ NetT /\ HistT
        /\ RxB(B) /\ NetB(B) /\ JobB(B) /\ OrderB
    BY DEF TypeInv, TreeInv
  <1>1. ASSUME UNCHANGED <<rx, net, jpc, jclip, seen, onboard>>
        PROVE  TreeInv(B)'
    BY <1>0, <1>1 DEF TreeInv, RxB, NetB, JobB, OrderB
  <1>2. ASSUME NEW n \in Node,
               \/ WatchPoll(n) \/ WatchSettle(n) \/ WatchRead(n) \/ WatchOversize(n)
               \/ WatchDrop(n) \/ WatchPass(n) \/ WatchAdd(n) \/ WatchPack(n) \/ WatchPackFails(n)
               \/ PushSet(n) \/ PushSetFails(n) \/ PushStored(n) \/ PushPack(n) \/ PushPackFails(n)
               \/ SavePeers(n)
        PROVE  TreeInv(B)'
    <2>1. UNCHANGED <<rx, net, jpc, jclip, seen, onboard>>
      BY <1>2 DEF WatchPoll, WatchSettle, WatchRead, WatchOversize, WatchDrop, WatchPass, WatchAdd,
                  WatchPack, WatchPackFails, PushSet, PushSetFails, PushStored, PushPack,
                  PushPackFails, SavePeers
    <2> QED
      BY <1>1, <2>1
  <1>3. ASSUME NEW n \in Node, NEW h \in Hash, User(n, h)
        PROVE  TreeInv(B)'
    <2>1. UNCHANGED <<rx, net, jpc, jclip, seen, onboard>>
      BY <1>3 DEF User, UserCopy, PushStart, Expire
    <2> QED
      BY <1>1, <2>1
  <1>4. ASSUME NEW n \in Node, WatchEmit(n) PROVE TreeInv(B)'
    <2>1. wclip[n] \in Clip /\ wclip[n].origin = n
      BY <1>0, <1>4 DEF WatchEmit, WatchT
    <2>2. RxB(B)'
      BY <1>0, <1>4, <2>1, OwnIsOfBranch, EmittedIsOfBranch DEF WatchEmit, RxB, NoSkip
    <2>3. NetB(B)' /\ JobB(B)' /\ OrderB'
      BY <1>0, <1>4 DEF WatchEmit, NetB, JobB, OrderB
    <2> QED
      BY <2>2, <2>3 DEF TreeInv
  <1>5. ASSUME NEW n \in Node, PushEmit(n) PROVE TreeInv(B)'
    <2>1. pclip[n] \in Clip /\ pclip[n].origin = n
      BY <1>0, <1>5 DEF PushEmit, PushT
    <2>2. RxB(B)'
      BY <1>0, <1>5, <2>1, OwnIsOfBranch, EmittedIsOfBranch DEF PushEmit, RxB, NoSkip
    <2>3. NetB(B)' /\ JobB(B)' /\ OrderB'
      BY <1>0, <1>5 DEF PushEmit, NetB, JobB, OrderB
    <2> QED
      BY <2>2, <2>3 DEF TreeInv
  <1>6. ASSUME NEW n \in Node, Restart(n) PROVE TreeInv(B)'
    <2>1. RxB(B)'
      BY <1>0, <1>6 DEF Restart, RxB, Cleared
    <2>2. NetB(B)'
      BY <1>0, <1>6 DEF Restart, NetB, Cleared
    <2>3. JobB(B)'
      BY <1>0, <1>6 DEF Restart, JobB
    <2>4. OrderB'
      BY <1>0, <1>6 DEF Restart, OrderB, CountT, JobT, Clip
    <2> QED
      BY <2>1, <2>2, <2>3, <2>4 DEF TreeInv
  <1>7. ASSUME NEW l \in Link, Forward(l) PROVE TreeInv(B)'
    <2>1. rx[l] \in Seq(Outbound) /\ rx[l] # << >>
      BY <1>0, <1>7 DEF Forward, RxT
    <2>2. /\ Head(rx[l]) = rx[l][1] /\ 1 \in DOMAIN rx[l]
          /\ \A i \in DOMAIN Tail(rx[l]) : i + 1 \in DOMAIN rx[l] /\ Tail(rx[l])[i] = rx[l][i + 1]
      BY <2>1, HeadOfQueue
    <2>3. Skips(l, Head(rx[l])) \/ Head(rx[l]).clip.origin \in B[l]
      BY <1>0, <2>2 DEF RxB
    <2>4. RxB(B)'
      BY <1>0, <1>7, <2>2 DEF Forward, RxB, RxT
    <2>5. NetB(B)'
      <3>1. CASE Skips(l, Head(rx[l]))
        BY <1>0, <1>7, <3>1 DEF Forward, NetB
      <3>2. CASE ~Skips(l, Head(rx[l]))
        <4>1. net' = [net EXCEPT ![l] = Append(net[l], Head(rx[l]).clip)]
          BY <1>7, <3>2 DEF Forward
        <4> QED
          BY <1>0, <2>3, <3>2, <4>1 DEF NetB, NetT
      <3> QED
        BY <3>1, <3>2
    <2>6. JobB(B)' /\ OrderB'
      BY <1>0, <1>7 DEF Forward, JobB, OrderB
    <2> QED
      BY <2>4, <2>5, <2>6 DEF TreeInv
  <1>8. ASSUME NEW l \in Link, RelayBroadcast(l) PROVE TreeInv(B)'
    <2>1. net[l] \in Seq(Clip) /\ net[l] # << >>
      BY <1>0, <1>8 DEF RelayBroadcast, NetT
    <2>2. /\ Head(net[l]) = net[l][1] /\ 1 \in DOMAIN net[l]
          /\ \A i \in DOMAIN Tail(net[l]) : i + 1 \in DOMAIN net[l] /\ Tail(net[l])[i] = net[l][i + 1]
      BY <2>1, HeadOfQueue
    <2>3. Head(net[l]).origin \in B[l]
      BY <1>0, <2>2 DEF NetB
    <2>4. ASSUME NEW k \in Link, ToOthers(l, k)
          PROVE  Head(net[l]).origin \in B[k]
      <3>1. k[1] = Relay /\ k[2] # Relay /\ k[2] # l[1] /\ l[2] = Relay
        BY <1>8, <2>4 DEF ToOthers, RelayBroadcast
      <3>2. B[l] \subseteq B[k]
        BY <3>1 DEF Onward, Branches
      <3> QED
        BY <2>3, <3>2
    <2>5. NetB(B)'
      <3> SUFFICES ASSUME NEW k \in Link, NEW i \in DOMAIN net'[k] PROVE net'[k][i].origin \in B[k]
        BY DEF NetB
      <3>1. net'[k] = IF k = l THEN Tail(net[l])
                      ELSE IF ToOthers(l, k) /\ k \in up /\ Len(net[k]) < LeafCap
                           THEN Append(net[k], Head(net[l]))
                      ELSE net[k]
        BY <1>8 DEF RelayBroadcast
      <3>2. CASE k = l
        BY <1>0, <2>2, <3>1, <3>2 DEF NetB
      <3>3. CASE k # l /\ net'[k] = net[k]
        BY <1>0, <3>3 DEF NetB
      <3>4. CASE k # l /\ ToOthers(l, k) /\ net'[k] = Append(net[k], Head(net[l]))
        BY <1>0, <2>4, <3>4 DEF NetB, NetT
      <3> QED
        BY <3>1, <3>2, <3>3, <3>4
    <2>6. RxB(B)' /\ JobB(B)' /\ OrderB'
      BY <1>0, <1>8 DEF RelayBroadcast, RxB, JobB, OrderB
    <2> QED
      BY <2>5, <2>6 DEF TreeInv
  <1>9. ASSUME NEW l \in Link, ApplyKnown(l) \/ ApplyAccept(l)
        PROVE  NetB(B)' /\ JobB(B)' /\ RxB(B)' /\ Head(net[l]).origin \in B[l]
    <2>1. net[l] \in Seq(Clip) /\ net[l] # << >>
      BY <1>0, <1>9 DEF ApplyKnown, ApplyAccept, NetT
    <2>2. /\ Head(net[l]) = net[l][1] /\ 1 \in DOMAIN net[l]
          /\ \A i \in DOMAIN Tail(net[l]) : i + 1 \in DOMAIN net[l] /\ Tail(net[l])[i] = net[l][i + 1]
      BY <2>1, HeadOfQueue
    <2>3. Head(net[l]).origin \in B[l]
      BY <1>0, <2>2 DEF NetB
    <2>4. /\ net' = [net EXCEPT ![l] = Tail(net[l])] /\ rx' = rx
          /\ jclip' = [jclip EXCEPT ![l] = Head(net[l])]
          /\ \A k \in Link \ {l} : jpc'[k] = jpc[k]
      BY <1>0, <1>9 DEF ApplyKnown, ApplyAccept, JobT
    <2>5. NetB(B)'
      BY <1>0, <2>2, <2>4 DEF NetB, NetT
    <2>6. JobB(B)'
      BY <1>0, <2>3, <2>4 DEF JobB, JobT
    <2> QED
      BY <1>0, <2>3, <2>4, <2>5, <2>6 DEF RxB
  <1>10. ASSUME NEW l \in Link, ApplyKnown(l) PROVE TreeInv(B)'
    <2>1. OrderB'
      <3>1. jpc' = [jpc EXCEPT ![l] = "emit"] /\ jclip' = [jclip EXCEPT ![l] = Head(net[l])]
            /\ UNCHANGED <<seen, onboard>>
        BY <1>10 DEF ApplyKnown
      <3> QED
        BY <1>0, <3>1 DEF OrderB, JobT
    <2> QED
      BY <1>9, <1>10, <2>1 DEF TreeInv
  <1>11. ASSUME NEW l \in Link, ApplyAccept(l) PROVE TreeInv(B)'
    <2> DEFINE c == Head(net[l])
               n == l[2]
    <2>1. /\ n \in Node /\ c \in Clip /\ c.origin \in B[l] /\ c.seq > seen[n][c.origin]
          /\ jpc' = [jpc EXCEPT ![l] = "compare"] /\ jclip' = [jclip EXCEPT ![l] = c]
          /\ seen' = [seen EXCEPT ![n][c.origin] = c.seq] /\ onboard' = onboard
      BY <1>0, <1>9, <1>11, HeadOfQueue DEF ApplyAccept, Accepts, NetT
    <2> HIDE DEF c, n
    <2>2. c.origin \in Node /\ c.seq \in Nat
      BY <2>1 DEF Clip
    <2>3. /\ seen'[n][c.origin] = c.seq
          /\ \A m, o \in Node : m # n \/ o # c.origin => seen'[m][o] = seen[m][o]
      BY <1>0, <2>1, <2>2 DEF CountT
    <2>4. \A m, o \in Node : onboard'[m][o] <= seen'[m][o]
      BY <1>0, <2>1, <2>2, <2>3 DEF OrderB, CountT
    <2>5. ASSUME NEW k \in Link, jpc'[k] \in {"compare", "present", "absent", "set"}
          PROVE  /\ jclip'[k].seq = seen'[k[2]][jclip'[k].origin]
                 /\ onboard'[k[2]][jclip'[k].origin] < jclip'[k].seq
      <3>1. CASE k = l
        <4>1. jclip'[k] = c /\ k[2] = n
          BY <1>0, <2>1, <3>1 DEF JobT, n
        <4>2. onboard[n][c.origin] <= seen[n][c.origin]
          BY <1>0, <2>1, <2>2 DEF OrderB
        <4>3. onboard[n][c.origin] \in Nat /\ seen[n][c.origin] \in Nat
          BY <1>0, <2>1, <2>2 DEF CountT
        <4>4. onboard[n][c.origin] < c.seq
          BY <2>1, <2>2, <4>2, <4>3
        <4> QED
          BY <2>1, <2>3, <4>1, <4>4
      <3>2. CASE k # l
        <4>1. jclip'[k] = jclip[k] /\ jpc'[k] = jpc[k]
          BY <1>0, <2>1, <3>2 DEF JobT
        <4>2. /\ jclip[k].seq = seen[k[2]][jclip[k].origin]
              /\ onboard[k[2]][jclip[k].origin] < jclip[k].seq
          BY <1>0, <2>5, <4>1 DEF OrderB
        <4>3. jclip[k] \in Clip /\ k[2] \in Node /\ jclip[k].origin \in B[k]
          BY <1>0, <2>5, <4>1 DEF JobT, JobB
        <4>4. k[2] # n \/ jclip[k].origin # c.origin
          BY <2>1, <3>2, <4>3 DEF Branches, n
        <4>5. jclip[k].origin \in Node
          BY <4>3 DEF Clip
        <4>6. seen'[k[2]][jclip[k].origin] = seen[k[2]][jclip[k].origin]
          BY <2>3, <4>3, <4>4, <4>5
        <4> QED
          BY <2>1, <4>1, <4>2, <4>6
      <3> QED
        BY <3>1, <3>2
    <2>6. OrderB'
      BY <2>4, <2>5 DEF OrderB
    <2> QED
      BY <1>9, <1>11, <2>6 DEF TreeInv
  <1>12. ASSUME NEW l \in Link, ApplyCompare(l) \/ ApplySuppress(l) PROVE TreeInv(B)'
    <2>1. /\ jpc[l] \in {"compare", "present", "absent"}
          /\ UNCHANGED <<rx, net, jclip, seen, onboard>>
          /\ \E s \in {"present", "absent", "emit", "set"} : jpc' = [jpc EXCEPT ![l] = s]
      BY <1>12 DEF ApplyCompare, ApplySuppress
    <2>2. RxB(B)' /\ NetB(B)'
      BY <1>0, <2>1 DEF RxB, NetB
    <2>3. JobB(B)' /\ OrderB'
      BY <1>0, <2>1 DEF JobB, OrderB, JobT
    <2> QED
      BY <2>2, <2>3 DEF TreeInv
  <1>13. ASSUME NEW l \in Link, ApplySet(l) PROVE TreeInv(B)'
    <2> DEFINE c == jclip[l]
               n == l[2]
    <2>1. /\ c \in Clip /\ n \in Node /\ c.origin \in Node /\ c.origin \in B[l]
          /\ c.seq = seen[n][c.origin] /\ jpc[l] = "set"
          /\ jpc' = [jpc EXCEPT ![l] = "stored"] /\ onboard' = [onboard EXCEPT ![n][c.origin] = c.seq]
          /\ UNCHANGED <<rx, net, jclip, seen>>
      BY <1>0, <1>13 DEF ApplySet, JobT, JobB, OrderB, Clip
    <2> HIDE DEF c, n
    <2>2. RxB(B)' /\ NetB(B)'
      BY <1>0, <2>1 DEF RxB, NetB
    <2>3. JobB(B)'
      BY <1>0, <2>1 DEF JobB, JobT
    <2>4. \A m, o \in Node : onboard'[m][o] = IF m = n /\ o = c.origin THEN c.seq ELSE onboard[m][o]
      BY <1>0, <2>1 DEF CountT
    <2>5. \A m, o \in Node : onboard'[m][o] <= seen'[m][o]
      BY <1>0, <2>1, <2>4 DEF OrderB, CountT
    <2>6. ASSUME NEW k \in Link, jpc'[k] \in {"compare", "present", "absent", "set"}
          PROVE  /\ jclip'[k].seq = seen'[k[2]][jclip'[k].origin]
                 /\ onboard'[k[2]][jclip'[k].origin] < jclip'[k].seq
      <3>1. k # l /\ jpc[k] \in {"compare", "present", "absent", "set"}
        BY <1>0, <2>1, <2>6 DEF JobT
      <3>2. jclip[k] \in Clip /\ k[2] \in Node /\ jclip[k].origin \in B[k]
        BY <1>0, <3>1 DEF JobT, JobB
      <3>3. jclip[k].origin \in Node
        BY <3>2 DEF Clip
      <3>4. k[2] # n \/ jclip[k].origin # c.origin
        BY <2>1, <3>1, <3>2 DEF Branches, n
      <3>5. onboard'[k[2]][jclip[k].origin] = onboard[k[2]][jclip[k].origin]
        BY <2>4, <3>2, <3>3, <3>4
      <3> QED
        BY <1>0, <2>1, <3>1, <3>5 DEF OrderB
    <2>7. OrderB'
      BY <2>5, <2>6 DEF OrderB
    <2> QED
      BY <2>2, <2>3, <2>7 DEF TreeInv
  <1>14. ASSUME NEW l \in Link, ApplySetFails(l) PROVE TreeInv(B)'
    <2>1. RxB(B)'
      BY <1>0, <1>14 DEF ApplySetFails, RxB, Cleared
    <2>2. NetB(B)'
      BY <1>0, <1>14 DEF ApplySetFails, NetB, Cleared
    <2>3. JobB(B)' /\ OrderB'
      BY <1>0, <1>14 DEF ApplySetFails, JobB, OrderB, JobT
    <2> QED
      BY <2>1, <2>2, <2>3 DEF TreeInv
  <1>15. ASSUME NEW l \in Link, ApplyStored(l) PROVE TreeInv(B)'
    <2>1. RxB(B)' /\ NetB(B)'
      BY <1>0, <1>15 DEF ApplyStored, RxB, NetB
    <2>2. JobB(B)' /\ OrderB'
      BY <1>0, <1>15 DEF ApplyStored, JobB, OrderB, JobT
    <2> QED
      BY <2>1, <2>2 DEF TreeInv
  <1>16. ASSUME NEW l \in Link, ApplyEmit(l) PROVE TreeInv(B)'
    <2>1. jclip[l] \in Clip /\ l[2] \in Node /\ jclip[l].origin \in B[l]
      BY <1>0, <1>16 DEF ApplyEmit, JobT, JobB
    <2>2. Ingress(l, jclip[l]) \in Node
      BY <2>1 DEF Ingress, Clip
    <2>3. RxB(B)'
      BY <1>0, <1>16, <2>1, <2>2, ForwardedIsOfBranch, EmittedIsOfBranch DEF ApplyEmit, RxB
    <2>4. NetB(B)'
      BY <1>0, <1>16 DEF ApplyEmit, NetB
    <2>5. JobB(B)' /\ OrderB'
      BY <1>0, <1>16 DEF ApplyEmit, JobB, OrderB, JobT
    <2> QED
      BY <2>3, <2>4, <2>5 DEF TreeInv
  <1>17. ASSUME NEW l \in Link, Reconnect(l) PROVE TreeInv(B)'
    BY <1>1, <1>17 DEF Reconnect
  <1>18. ASSUME NEW l \in Link, Drop(l) PROVE TreeInv(B)'
    <2>1. RxB(B)'
      BY <1>0, <1>18 DEF Drop, RxB, Cleared
    <2>2. NetB(B)'
      BY <1>0, <1>18 DEF Drop, NetB, Cleared
    <2>3. JobB(B)' /\ OrderB'
      BY <1>0, <1>18 DEF Drop, JobB, OrderB
    <2> QED
      BY <2>1, <2>2, <2>3 DEF TreeInv
  <1>19. CASE UNCHANGED vars
    BY <1>1, <1>19
  <1> QED
    BY <1>2, <1>3, <1>4, <1>5, <1>6, <1>7, <1>8, <1>10, <1>11, <1>12, <1>13, <1>14, <1>15, <1>16,
       <1>17, <1>18, <1>19 DEF Next, Watcher, Push, Apply

\* The steps that change a clipboard, issue a clip or forget what was delivered.
LEMMA BoardSteps ==
  ASSUME [Next]_vars
  PROVE  \/ \E n \in Node, h \in Hash : UserCopy(n, h)
         \/ \E n \in Node : WatchPack(n) \/ PushPack(n) \/ PushSet(n) \/ Restart(n)
         \/ \E l \in Link : ApplySet(l)
         \/ UNCHANGED <<clip, issued, onboard>>
  <1> USE DEF nodeVars, histVars
  <1>1. ASSUME NEW n \in Node, Watcher(n), ~WatchPack(n) PROVE UNCHANGED <<clip, issued, onboard>>
    BY <1>1 DEF Watcher, WatchPoll, WatchSettle, WatchRead, WatchOversize, WatchDrop, WatchPass,
                WatchAdd, WatchPackFails, WatchEmit
  <1>2. ASSUME NEW n \in Node, Push(n), ~PushPack(n), ~PushSet(n)
        PROVE  UNCHANGED <<clip, issued, onboard>>
    BY <1>2 DEF Push, PushSetFails, PushStored, PushPackFails, PushEmit
  <1>3. ASSUME NEW n \in Node, NEW h \in Hash, User(n, h), ~UserCopy(n, h)
        PROVE  UNCHANGED <<clip, issued, onboard>>
    BY <1>3 DEF User, PushStart, Expire
  <1>4. ASSUME NEW l \in Link, Apply(l), ~ApplySet(l) PROVE UNCHANGED <<clip, issued, onboard>>
    BY <1>4 DEF Apply, ApplyKnown, ApplyAccept, ApplyCompare, ApplySuppress, ApplySetFails,
                ApplyStored, ApplyEmit
  <1>5. ASSUME NEW l \in Link, Forward(l) \/ RelayBroadcast(l) \/ Reconnect(l) \/ Drop(l)
        PROVE  UNCHANGED <<clip, issued, onboard>>
    BY <1>5 DEF Forward, RelayBroadcast, Reconnect, Drop
  <1>6. ASSUME NEW n \in Node, SavePeers(n) PROVE UNCHANGED <<clip, issued, onboard>>
    BY <1>6 DEF SavePeers
  <1>7. ASSUME UNCHANGED vars PROVE UNCHANGED <<clip, issued, onboard>>
    BY <1>7 DEF vars
  <1> QED
    BY <1>1, <1>2, <1>3, <1>4, <1>5, <1>6, <1>7 DEF Next

\* What is on the clipboard is older than what ApplySet puts there, and only a
\* restart forgets it.
LEMMA BoardGrows ==
  ASSUME NEW B, Branches(B), TypeInv, TreeInv(B), [Next]_vars,
         spent'.restarts = spent.restarts, NEW n \in Node, NEW o \in Node
  PROVE  onboard'[n][o] >= onboard[n][o]
  <1>0. CountT /\ JobT /\ HistT /\ OrderB
    BY DEF TypeInv, TreeInv
  <1>1. onboard[n][o] \in Nat
    BY <1>0 DEF CountT
  <1>2. CASE \E l \in Link : ApplySet(l)
    <2>1. PICK l \in Link : ApplySet(l)
      BY <1>2
    <2>2. /\ jclip[l] \in Clip /\ l[2] \in Node /\ jclip[l].origin \in Node /\ jclip[l].seq \in Nat
          /\ onboard' = [onboard EXCEPT ![l[2]][jclip[l].origin] = jclip[l].seq]
          /\ onboard[l[2]][jclip[l].origin] < jclip[l].seq
      BY <1>0, <2>1 DEF ApplySet, JobT, OrderB, Clip
    <2>3. CASE n = l[2] /\ o = jclip[l].origin
      <3>1. onboard'[n][o] = jclip[l].seq
        BY <1>0, <2>2, <2>3 DEF CountT
      <3> QED
        BY <1>1, <2>2, <2>3, <3>1
    <2>4. CASE ~(n = l[2] /\ o = jclip[l].origin)
      <3>1. onboard'[n][o] = onboard[n][o]
        BY <1>0, <2>2, <2>4 DEF CountT
      <3> QED
        BY <1>1, <3>1
    <2> QED
      BY <2>3, <2>4
  <1>3. CASE \E m \in Node : Restart(m)
    <2>1. spent'.restarts = spent.restarts + 1
      BY <1>0, <1>3 DEF Restart, HistT
    <2>2. spent.restarts \in Nat
      BY <1>0 DEF HistT
    <2> QED
      BY <2>1, <2>2
  <1>4. CASE UNCHANGED onboard
    BY <1>1, <1>4
  <1>5. \/ \E l \in Link : ApplySet(l)
        \/ \E m \in Node : Restart(m)
        \/ UNCHANGED onboard
    BY BoardSteps DEF UserCopy, WatchPack, PushPack, PushSet, histVars
  <1> QED
    BY <1>2, <1>3, <1>4, <1>5

\* On a tree of daemons and relay no frame travels towards the daemon that
\* originated it: `skip' is enough.
THEOREM NothingReturns == ASSUME Tree PROVE Spec => []NoReturn
  <1>1. PICK B \in [Link -> SUBSET Node] : Branches(B)
    BY DEF Tree
  <1>2. TreeInv(B) => NoReturn
    BY <1>1 DEF TreeInv, NetB, NoReturn, Branches
  <1>3. Init => TypeInv /\ TreeInv(B)
    BY InitTypes, InitTree
  <1>4. TypeInv /\ TreeInv(B) /\ [Next]_vars => TypeInv' /\ TreeInv(B)'
    BY <1>1, StepTypes, StepTree
  <1> QED
    BY <1>2, <1>3, <1>4, PTL DEF Spec

\* On a tree a running daemon never replaces a clip by an older one of the same
\* origin: the clips of an origin come along one link, whose session applies
\* them one at a time, so none is accepted between seen.accept and set.
THEOREM NewestStays == ASSUME Tree PROVE Spec => NewestWins
  <1>1. PICK B \in [Link -> SUBSET Node] : Branches(B)
    BY DEF Tree
  <1>2. Init => TypeInv /\ TreeInv(B)
    BY InitTypes, InitTree
  <1>3. TypeInv /\ TreeInv(B) /\ [Next]_vars => TypeInv' /\ TreeInv(B)'
    BY <1>1, StepTypes, StepTree
  <1>4. TypeInv /\ TreeInv(B) /\ [Next]_vars =>
          [\A n, o \in Node : spent'.restarts = spent.restarts => onboard'[n][o] >= onboard[n][o]]_vars
    BY <1>1, BoardGrows
  <1> QED
    BY <1>2, <1>3, <1>4, PTL DEF Spec, NewestWins

\* Packing a clip is the abstract step Issue: on disk, and so in every clip issued
\* so far, are smaller numbers than the one the counter is about to give.
LEMMA PackIssues ==
  ASSUME TypeInv, SeqInv, NEW n \in Node, NEW c \in Clip, c.origin = n, c.seq = seq[n] + 1,
         issued' = issued \cup {c}, UNCHANGED <<clip, onboard>>
  PROVE  Delivery!Issue(n)
  <1>1. seq[n] \in Nat /\ disk[n] \in Nat /\ issued \subseteq Clip
    BY DEF TypeInv, CountT, HistT
  <1>2. ASSUME NEW d \in issued, d.origin = n PROVE d.seq < c.seq
    <2>1. d.seq <= disk[n] /\ disk[n] <= seq[n] /\ d.seq \in Nat
      BY <1>1, <1>2 DEF SeqInv, IssuedI, CountI, Clip
    <2> QED
      BY <1>1, <2>1
  <1>3. c \notin issued
    <2> SUFFICES ASSUME c \in issued PROVE FALSE
      OBVIOUS
    <2> QED
      BY <1>1, <1>2
  <1> QED
    BY <1>2, <1>3 DEF Delivery!Issue

\* What ApplySet puts on a clipboard is delivered: issued by another daemon, and
\* newer than what the clipboard was given of it before.
LEMMA SetDelivers ==
  ASSUME NEW B, Branches(B), TypeInv, SeqInv, TreeInv(B), NEW l \in Link, ApplySet(l)
  PROVE  Delivery!Deliver(l[2])
  <1> DEFINE c == jclip[l]
             n == l[2]
  <1>1. c \in issued /\ c \in Clip /\ n \in Node /\ c.origin \in B[l]
    BY DEF ApplySet, TypeInv, JobT, SeqInv, JobI, TreeInv, JobB
  <1>2. c.origin # n
    BY <1>1 DEF Branches
  <1>3. onboard[n][c.origin] < c.seq
    BY DEF ApplySet, TreeInv, OrderB
  <1>4. c.seq > onboard[n][c.origin]
    <2>1. c.seq \in Nat /\ onboard[n][c.origin] \in Nat
      BY <1>1 DEF Clip, TypeInv, CountT
    <2> QED
      BY <1>3, <2>1
  <1>5. /\ onboard' = [onboard EXCEPT ![n][c.origin] = c.seq]
        /\ clip' = [clip EXCEPT ![n] = Shown[n][c.hash]]
        /\ issued' = issued
    BY DEF ApplySet
  <1> HIDE DEF c, n
  <1> QED
    BY <1>1, <1>2, <1>4, <1>5 DEF Delivery!Deliver, n

\* Every step of the hubs is a step of ClipDelivery or leaves its variables alone.
LEMMA StepDelivers ==
  ASSUME NEW B, Branches(B), TypeInv, SeqInv, TreeInv(B), [Next]_vars
  PROVE  Delivery!Next \/ UNCHANGED <<issued, onboard, clip>>
  <1>1. ASSUME NEW n \in Node, NEW h \in Hash, UserCopy(n, h) PROVE Delivery!Local(n)
    BY <1>1 DEF UserCopy, Delivery!Local
  <1>2. ASSUME NEW n \in Node, PushSet(n) PROVE Delivery!Local(n)
    <2>1. pclip[n] \in Clip
      BY <1>2 DEF PushSet, TypeInv, PushT
    <2>2. Shown[n][pclip[n].hash] \in Hash
      BY <2>1 DEF Clip
    <2> QED
      BY <1>2, <2>2 DEF PushSet, Delivery!Local, histVars
  <1>3. ASSUME NEW n \in Node, WatchPack(n) PROVE Delivery!Issue(n)
    <2>1. /\ seq[n] + 1 \in Nat /\ wclip[n] \in Clip /\ wclip[n].origin = n
          /\ wclip' = [wclip EXCEPT ![n] = [wclip[n] EXCEPT !.seq = seq[n] + 1]]
          /\ wclip \in [Node -> Clip \cup {NoClip}]
      BY <1>3 DEF WatchPack, TypeInv, CountT, WatchT
    <2>2. wclip'[n] \in Clip /\ wclip'[n].origin = n /\ wclip'[n].seq = seq[n] + 1
      BY <2>1, Numbered
    <2>3. issued' = issued \cup {wclip'[n]} /\ UNCHANGED <<clip, onboard>>
      BY <1>3 DEF WatchPack
    <2> QED
      BY <2>2, <2>3, PackIssues
  <1>4. ASSUME NEW n \in Node, PushPack(n) PROVE Delivery!Issue(n)
    <2>1. /\ seq[n] + 1 \in Nat /\ pclip[n] \in Clip /\ pclip[n].origin = n
          /\ pclip' = [pclip EXCEPT ![n] = [pclip[n] EXCEPT !.seq = seq[n] + 1]]
          /\ pclip \in [Node -> Clip \cup {NoClip}]
      BY <1>4 DEF PushPack, TypeInv, CountT, PushT
    <2>2. pclip'[n] \in Clip /\ pclip'[n].origin = n /\ pclip'[n].seq = seq[n] + 1
      BY <2>1, Numbered
    <2>3. issued' = issued \cup {pclip'[n]} /\ UNCHANGED <<clip, onboard>>
      BY <1>4 DEF PushPack
    <2> QED
      BY <2>2, <2>3, PackIssues
  <1>5. ASSUME NEW n \in Node, Restart(n) PROVE Delivery!Restart(n)
    BY <1>5 DEF Restart, Delivery!Restart
  <1>6. ASSUME NEW l \in Link, ApplySet(l) PROVE l[2] \in Node /\ Delivery!Deliver(l[2])
    <2>1. l[2] \in Node
      BY <1>6 DEF ApplySet, TypeInv, JobT
    <2> QED
      BY <1>6, <2>1, SetDelivers
  <1> QED
    BY BoardSteps, <1>1, <1>2, <1>3, <1>4, <1>5, <1>6 DEF Delivery!Next

\* On a tree the hubs implement ClipDelivery: each daemon is given the clips of
\* every other one in the order of their numbers, none twice, none of its own.
THEOREM DeliveryIsImplemented == ASSUME Tree PROVE Spec => Implements
  <1>1. PICK B \in [Link -> SUBSET Node] : Branches(B)
    BY DEF Tree
  <1>2. Init => TypeInv /\ SeqInv /\ TreeInv(B) /\ Delivery!Init
    BY InitTypes, InitSeq, InitTree DEF Init, Delivery!Init
  <1>3. TypeInv /\ SeqInv /\ TreeInv(B) /\ [Next]_vars => TypeInv' /\ SeqInv' /\ TreeInv(B)'
    BY <1>1, StepTypes, StepSeq, StepTree
  <1>4. TypeInv /\ SeqInv /\ TreeInv(B) /\ [Next]_vars => [Delivery!Next]_(Delivery!vars)
    BY <1>1, StepDelivers DEF Delivery!vars
  <1> QED
    BY <1>2, <1>3, <1>4, PTL DEF Spec, Implements, Delivery!Spec

-----------------------------------------------------------------------------
(* Echoes *)

\* What a clipboard holds is its user's, an exception or suppressed, from before
\* it is set until it is replaced; so is what the watcher has read, and once the
\* guard has let it pass it is not suppressed.  Without expiry what is in the ring
\* is fresh, so no entry is lost.
BoardE == \A n \in Node : clip[n] # Empty => clip[n] \in Sources(n) \cup sup[n].fresh
JobE   == \A l \in Link : jpc[l] \in {"set", "stored"} => jclip[l].hash \in sup[l[2]].fresh
OwnE   == /\ \A n \in Node : wpc[n] = "check" => wclip[n].hash \in Sources(n) \cup sup[n].fresh
          /\ \A n \in Node : wpc[n] \in {"add", "pack", "emit"} => wclip[n].hash \in Sources(n)
          /\ \A n \in Node : ppc[n] # "idle" => pclip[n].hash \in copied[n]
IssueE == \A c \in issued : c.hash \in Sources(c.origin)
RingF  == \A n \in Node : \A i \in DOMAIN sup[n].ring : sup[n].ring[i] \in sup[n].fresh

EchoInv == BoardE /\ JobE /\ OwnE /\ IssueE /\ RingF /\ lapsed = FALSE

\* Steps that only add to the sources and to what is suppressed keep the parts they
\* do not change otherwise.
LEMMA EchoGrows ==
  ASSUME EchoInv,
         \A n \in Node : Sources(n) \subseteq Sources(n)' /\ sup[n].fresh \subseteq sup'[n].fresh,
         TypeInv
  PROVE  /\ clip' = clip => BoardE'
         /\ UNCHANGED <<jpc, jclip>> => JobE'
         /\ UNCHANGED <<wpc, wclip, ppc, pclip, copied>> => OwnE'
         /\ issued' = issued => IssueE'
         /\ sup' = sup => RingF'
  <1>0. BoardE /\ JobE /\ OwnE /\ IssueE /\ RingF
    BY DEF EchoInv
  <1>1. clip' = clip => BoardE'
    BY <1>0 DEF BoardE
  <1>2. UNCHANGED <<jpc, jclip>> => JobE'
    BY <1>0 DEF JobE, TypeInv, JobT
  <1>3. UNCHANGED <<wpc, wclip, ppc, pclip, copied>> => OwnE'
    BY <1>0 DEF OwnE
  <1>4. issued' = issued => IssueE'
    BY <1>0 DEF IssueE, TypeInv, HistT, Clip
  <1>5. sup' = sup => RingF'
    BY <1>0 DEF RingF
  <1> QED
    BY <1>1, <1>2, <1>3, <1>4, <1>5

\* More copied and found at a daemon are more sources.
LEMMA SourcesGrow ==
  ASSUME \A n \in Node : copied[n] \subseteq copied'[n] /\ found[n] \subseteq found'[n]
  PROVE  \A n \in Node : Sources(n) \subseteq Sources(n)'
  BY DEF Sources, Altered

\* An add to a guard whose ring is fresh makes the hash fresh and loses none.
LEMMA AddLosesNone ==
  ASSUME GuardT, RingF, lapsed = FALSE, NEW n \in Node, NEW h \in Hash,
         Suppressed(n, Add(sup[n], h))
  PROVE  /\ h \in sup'[n].fresh
         /\ \A m \in Node : sup[m].fresh \subseteq sup'[m].fresh
         /\ RingF' /\ lapsed' = FALSE
  <1> DEFINE g == Add(sup[n], h)
  <1>1. /\ sup[n] \in Guard /\ sup \in [Node -> Guard]
        /\ sup' = [sup EXCEPT ![n] = g] /\ lapsed' = (lapsed \/ Lapses(n, g))
    BY DEF GuardT, Suppressed
  <1>2. /\ g.fresh = sup[n].fresh \cup {h} /\ g.ring = KeepLast(sup[n].ring, h, RingMax)
        /\ sup[n].ring \in Seq(Hash) /\ RingMax \in Nat \ {0}
    BY <1>1, RingMaxAssumption DEF Add, Guard
  <1>3. \A m \in Node : sup'[m] = IF m = n THEN g ELSE sup[m]
    BY <1>1
  <1>4. ASSUME NEW i \in DOMAIN g.ring PROVE g.ring[i] \in g.fresh
    <2>1. \/ g.ring[i] = h
          \/ \E j \in DOMAIN sup[n].ring : g.ring[i] = sup[n].ring[j]
      BY <1>2, <1>4, KeepLastElements
    <2> QED
      BY <1>2, <2>1 DEF RingF
  <1>5. RingF'
    BY <1>3, <1>4 DEF RingF
  <1>6. ~Lapses(n, g)
    BY <1>2 DEF Lapses, Has, RingF
  <1> QED
    BY <1>1, <1>2, <1>3, <1>5, <1>6

\* Every step keeps what is on a clipboard a source of its daemon or suppressed.
LEMMA StepEcho ==
  ASSUME "expire" \notin Env, TypeInv, TypeInv', MarkT, EchoInv, [Next]_vars
  PROVE  EchoInv'
  <1> USE DEF nodeVars, watchVars, pushVars, jobVars, wireVars, histVars
  <1>0. /\ ClipT /\ GuardT /\ WatchT /\ PushT /\ JobT /\ HistT
        /\ BoardE /\ JobE /\ OwnE /\ IssueE /\ RingF /\ lapsed = FALSE
    BY DEF TypeInv, EchoInv
  <1>b. \A n \in Node : copied[n] \subseteq Sources(n)
    BY DEF Sources
  <1>c. ASSUME NEW n \in Node, NEW h, copied' = [copied EXCEPT ![n] = copied[n] \cup {h}],
               UNCHANGED found
        PROVE  /\ h \in copied'[n] /\ h \in Sources(n)'
               /\ \A m \in Node : copied[m] \subseteq copied'[m]
               /\ \A m \in Node : Sources(m) \subseteq Sources(m)'
    <2>1. h \in copied'[n] /\ \A m \in Node : copied[m] \subseteq copied'[m]
      BY <1>0, <1>c DEF HistT
    <2>2. \A m \in Node : Sources(m) \subseteq Sources(m)'
      BY <1>c, <2>1, SourcesGrow
    <2> QED
      BY <2>1, <2>2 DEF Sources
  <1>s. UNCHANGED sup => \A n \in Node : sup[n].fresh \subseteq sup'[n].fresh
    OBVIOUS
  <1>d. UNCHANGED <<copied, found>> => \A n \in Node : Sources(n) \subseteq Sources(n)'
    BY SourcesGrow
  <1>1. ASSUME UNCHANGED <<clip, sup, copied, found, lapsed, issued, jpc, jclip, wpc, wclip,
                           ppc, pclip>>
        PROVE  EchoInv'
    BY <1>0, <1>1, <1>s, <1>d, EchoGrows DEF EchoInv
  <1>2. ASSUME NEW n \in Node,
               \/ WatchPoll(n) \/ WatchSettle(n) \/ WatchOversize(n) \/ WatchDrop(n)
               \/ WatchPackFails(n) \/ WatchEmit(n)
        PROVE  EchoInv'
    <2>1. /\ UNCHANGED <<clip, sup, copied, found, lapsed, issued, jpc, jclip, ppc, pclip>>
          /\ \A m \in Node : wpc'[m] \in {"check", "add", "pack", "emit"} =>
                               wpc'[m] = wpc[m] /\ wclip'[m] = wclip[m]
      BY <1>0, <1>2 DEF WatchPoll, WatchSettle, WatchOversize, WatchDrop, WatchPackFails, WatchEmit,
                        WatchT, NextSeqFails
    <2>2. \A m \in Node : Sources(m) \subseteq Sources(m)'
      BY <1>d, <2>1
    <2>3. OwnE'
      BY <1>0, <2>1, <2>2 DEF OwnE
    <2> QED
      BY <1>0, <1>s, <2>1, <2>2, <2>3, EchoGrows DEF EchoInv
  <1>3. ASSUME NEW n \in Node, WatchRead(n) PROVE EchoInv'
    <2>1. clip[n] \in Sources(n) \cup sup[n].fresh
      <3>1. clip[n] # Empty
        BY <1>0, <1>3 DEF WatchRead, WatchT
      <3> QED
        BY <1>0, <3>1 DEF BoardE
    <2>2. /\ UNCHANGED <<clip, sup, copied, found, lapsed, issued, jpc, jclip, ppc, pclip>>
          /\ wpc' = [wpc EXCEPT ![n] = "check"]
          /\ wclip' = [wclip EXCEPT ![n] = [origin |-> n, seq |-> 0, hash |-> clip[n]]]
      BY <1>3 DEF WatchRead
    <2>3. \A m \in Node : Sources(m) \subseteq Sources(m)'
      BY <1>d, <2>2
    <2>4. OwnE'
      <3>1. wclip'[n].hash = clip[n] /\ wpc'[n] = "check"
        BY <1>0, <2>2 DEF WatchT
      <3>2. \A m \in Node \ {n} : wclip'[m] = wclip[m] /\ wpc'[m] = wpc[m]
        BY <1>0, <2>2 DEF WatchT
      <3> QED
        BY <1>0, <2>1, <2>2, <2>3, <3>1, <3>2 DEF OwnE
    <2> QED
      BY <1>0, <1>s, <2>2, <2>3, <2>4, EchoGrows DEF EchoInv
  <1>4. ASSUME NEW n \in Node, WatchPack(n) PROVE EchoInv'
    <2>1. /\ UNCHANGED <<clip, sup, copied, found, lapsed, jpc, jclip, ppc, pclip>>
          /\ wpc' = [wpc EXCEPT ![n] = "emit"]
          /\ wclip' = [wclip EXCEPT ![n] = [wclip[n] EXCEPT !.seq = seq[n] + 1]]
          /\ issued' = issued \cup {wclip'[n]}
      BY <1>4 DEF WatchPack
    <2>2. wclip[n] \in Clip /\ wclip[n].origin = n /\ wclip[n].hash \in Sources(n)
      BY <1>0, <1>4 DEF WatchPack, WatchT, OwnE
    <2>3. wclip'[n].origin = n /\ wclip'[n].hash = wclip[n].hash
      BY <1>0, <2>1, <2>2 DEF WatchT, Clip
    <2>4. \A m \in Node : Sources(m) \subseteq Sources(m)'
      BY <1>d, <2>1
    <2>5. OwnE'
      BY <1>0, <2>1, <2>2, <2>3, <2>4 DEF OwnE, WatchT
    <2>6. IssueE'
      <3> SUFFICES ASSUME NEW c \in issued' PROVE c.hash \in Sources(c.origin)'
        BY DEF IssueE
      <3>1. CASE c \in issued
        <4>1. c.origin \in Node /\ c.hash \in Sources(c.origin)
          BY <1>0, <3>1 DEF IssueE, HistT, Clip
        <4> QED
          BY <2>4, <4>1
      <3>2. CASE c = wclip'[n]
        BY <2>2, <2>3, <2>4, <3>2
      <3> QED
        BY <2>1, <3>1, <3>2
    <2> QED
      BY <1>0, <1>s, <2>1, <2>4, <2>5, <2>6, EchoGrows DEF EchoInv
  <1>5. ASSUME NEW n \in Node, PushSet(n) PROVE EchoInv'
    <2>1. pclip[n] \in Clip /\ pclip[n].hash \in copied[n] /\ pclip[n].hash \in Hash
      BY <1>0, <1>5 DEF PushSet, PushT, OwnE, Clip
    <2>2. Shown[n][pclip[n].hash] \in Sources(n)
      BY <2>1 DEF Sources, Altered
    <2>3. /\ UNCHANGED <<sup, copied, found, lapsed, issued, jpc, jclip, wpc, wclip, pclip>>
          /\ clip' = [clip EXCEPT ![n] = Shown[n][pclip[n].hash]]
          /\ ppc' = [ppc EXCEPT ![n] = "stored"] /\ ppc[n] = "set"
      BY <1>5 DEF PushSet
    <2>4. \A m \in Node : Sources(m) \subseteq Sources(m)'
      BY <1>d, <2>3
    <2>5. BoardE'
      BY <1>0, <2>2, <2>3, <2>4 DEF BoardE, ClipT
    <2>6. OwnE'
      <3>1. \A m \in Node : ppc'[m] # "idle" => ppc[m] # "idle"
        BY <1>0, <2>3 DEF PushT
      <3> QED
        BY <1>0, <2>3, <2>4, <3>1 DEF OwnE
    <2> QED
      BY <1>0, <1>s, <2>3, <2>4, <2>5, <2>6, EchoGrows DEF EchoInv
  <1>6. ASSUME NEW n \in Node, PushSetFails(n) \/ PushPackFails(n) \/ PushEmit(n) PROVE EchoInv'
    <2>1. /\ UNCHANGED <<clip, sup, copied, found, lapsed, issued, jpc, jclip, wpc, wclip>>
          /\ ppc' = [ppc EXCEPT ![n] = "idle"] /\ pclip' = [pclip EXCEPT ![n] = NoClip]
      BY <1>6 DEF PushSetFails, PushPackFails, PushEmit, NextSeqFails
    <2>2. \A m \in Node : Sources(m) \subseteq Sources(m)'
      BY <1>d, <2>1
    <2>3. OwnE'
      BY <1>0, <2>1, <2>2 DEF OwnE, PushT
    <2> QED
      BY <1>0, <1>s, <2>1, <2>2, <2>3, EchoGrows DEF EchoInv
  <1>7. ASSUME NEW n \in Node, PushPack(n) PROVE EchoInv'
    <2>1. /\ UNCHANGED <<clip, sup, copied, found, lapsed, jpc, jclip, wpc, wclip>>
          /\ ppc' = [ppc EXCEPT ![n] = "emit"]
          /\ pclip' = [pclip EXCEPT ![n] = [pclip[n] EXCEPT !.seq = seq[n] + 1]]
          /\ issued' = issued \cup {pclip'[n]}
      BY <1>7 DEF PushPack
    <2>2. pclip[n] \in Clip /\ pclip[n].origin = n /\ pclip[n].hash \in copied[n]
      BY <1>0, <1>7 DEF PushPack, PushT, OwnE
    <2>3. pclip'[n].origin = n /\ pclip'[n].hash = pclip[n].hash
      BY <1>0, <2>1, <2>2 DEF PushT, Clip
    <2>4. \A m \in Node : Sources(m) \subseteq Sources(m)'
      BY <1>d, <2>1
    <2>5. OwnE'
      BY <1>0, <2>1, <2>2, <2>3, <2>4 DEF OwnE, PushT
    <2>6. IssueE'
      <3> SUFFICES ASSUME NEW c \in issued' PROVE c.hash \in Sources(c.origin)'
        BY DEF IssueE
      <3>1. CASE c \in issued
        <4>1. c.origin \in Node /\ c.hash \in Sources(c.origin)
          BY <1>0, <3>1 DEF IssueE, HistT, Clip
        <4> QED
          BY <2>4, <4>1
      <3>2. CASE c = pclip'[n]
        BY <1>b, <2>2, <2>3, <2>4, <3>2
      <3> QED
        BY <2>1, <3>1, <3>2
    <2> QED
      BY <1>0, <1>s, <2>1, <2>4, <2>5, <2>6, EchoGrows DEF EchoInv
  <1>8. ASSUME NEW n \in Node, NEW h \in Hash, UserCopy(n, h) PROVE EchoInv'
    <2>1. /\ UNCHANGED <<sup, found, lapsed, issued, jpc, jclip, wpc, wclip, ppc, pclip>>
          /\ clip' = [clip EXCEPT ![n] = h] /\ copied' = [copied EXCEPT ![n] = copied[n] \cup {h}]
      BY <1>8 DEF UserCopy, MayCopy
    <2>2. /\ h \in Sources(n)' /\ \A m \in Node : copied[m] \subseteq copied'[m]
          /\ \A m \in Node : Sources(m) \subseteq Sources(m)'
      BY <1>c, <2>1
    <2>3. BoardE'
      BY <1>0, <2>1, <2>2 DEF BoardE, ClipT
    <2>4. OwnE'
      BY <1>0, <2>1, <2>2 DEF OwnE
    <2> QED
      BY <1>0, <1>s, <2>1, <2>2, <2>3, <2>4, EchoGrows DEF EchoInv
  <1>9. ASSUME NEW n \in Node, NEW h \in Hash, PushStart(n, h) PROVE EchoInv'
    <2>1. /\ UNCHANGED <<clip, found, issued, jpc, jclip, wpc, wclip>>
          /\ Suppressed(n, Add(sup[n], h))
          /\ copied' = [copied EXCEPT ![n] = copied[n] \cup {h}]
          /\ ppc' = [ppc EXCEPT ![n] = "set"]
          /\ pclip' = [pclip EXCEPT ![n] = [origin |-> n, seq |-> 0, hash |-> h]]
      BY <1>9 DEF PushStart, MayCopy
    <2>2. /\ h \in copied'[n] /\ \A m \in Node : copied[m] \subseteq copied'[m]
          /\ \A m \in Node : Sources(m) \subseteq Sources(m)'
      BY <1>c, <2>1
    <2>3. (\A m \in Node : sup[m].fresh \subseteq sup'[m].fresh) /\ RingF' /\ lapsed' = FALSE
      BY <1>0, <2>1, AddLosesNone
    <2>4. OwnE'
      <3>1. pclip'[n].hash = h /\ \A m \in Node \ {n} : pclip'[m] = pclip[m] /\ ppc'[m] = ppc[m]
        BY <1>0, <2>1 DEF PushT
      <3> QED
        BY <1>0, <2>1, <2>2, <2>3, <3>1 DEF OwnE
    <2> QED
      BY <1>0, <2>1, <2>2, <2>3, <2>4, EchoGrows DEF EchoInv
  <1>10. ASSUME NEW l \in Link,
                \/ ApplyKnown(l) \/ ApplyAccept(l) \/ ApplyCompare(l) \/ ApplySetFails(l)
                \/ ApplyEmit(l)
         PROVE  EchoInv'
    <2>1. /\ UNCHANGED <<clip, sup, copied, found, lapsed, issued, wpc, wclip, ppc, pclip>>
          /\ \A k \in Link : jpc'[k] \in {"set", "stored"} => jpc[k] = jpc'[k] /\ jclip'[k] = jclip[k]
      BY <1>0, <1>10 DEF ApplyKnown, ApplyAccept, ApplyCompare, ApplySetFails, ApplyEmit, JobT
    <2>2. JobE'
      BY <1>0, <2>1 DEF JobE
    <2> QED
      BY <1>0, <1>s, <1>d, <2>1, <2>2, EchoGrows DEF EchoInv
  <1>11. ASSUME NEW l \in Link, ApplySuppress(l) \/ ApplyStored(l) PROVE EchoInv'
    <2>1. /\ UNCHANGED <<clip, copied, found, issued, jclip, wpc, wclip, ppc, pclip>>
          /\ Suppressed(l[2], Add(sup[l[2]], jclip[l].hash))
          /\ \A k \in Link \ {l} : jpc'[k] = jpc[k]
      BY <1>0, <1>11 DEF ApplySuppress, ApplyStored, JobT
    <2>2. l[2] \in Node /\ jclip[l].hash \in Hash
      BY <1>0, <1>11 DEF ApplySuppress, ApplyStored, JobT, Clip
    <2>3. /\ jclip[l].hash \in sup'[l[2]].fresh
          /\ \A m \in Node : sup[m].fresh \subseteq sup'[m].fresh
          /\ RingF' /\ lapsed' = FALSE
      BY <1>0, <2>1, <2>2, AddLosesNone
    <2>4. \A k \in Link : jpc[k] # "idle" => k[2] \in Node
      BY <1>0 DEF JobT
    <2>5. JobE'
      BY <1>0, <2>1, <2>3, <2>4 DEF JobE
    <2> QED
      BY <1>0, <1>d, <2>1, <2>3, <2>5, EchoGrows DEF EchoInv
  <1>12. ASSUME NEW l \in Link, ApplySet(l) PROVE EchoInv'
    <2>1. /\ l[2] \in Node /\ jclip[l] \in Clip /\ jclip[l].hash \in Hash
          /\ jclip[l].hash \in sup[l[2]].fresh
      BY <1>0, <1>12 DEF ApplySet, JobT, JobE, Clip
    <2>2. Shown[l[2]][jclip[l].hash] \in Sources(l[2]) \cup sup[l[2]].fresh
      BY <2>1 DEF Sources, Altered
    <2>3. /\ UNCHANGED <<sup, copied, found, lapsed, issued, jclip, wpc, wclip, ppc, pclip>>
          /\ clip' = [clip EXCEPT ![l[2]] = Shown[l[2]][jclip[l].hash]]
          /\ \A k \in Link \ {l} : jpc'[k] = jpc[k]
      BY <1>0, <1>12 DEF ApplySet, JobT
    <2>4. \A m \in Node : Sources(m) \subseteq Sources(m)'
      BY <1>d, <2>3
    <2>5. BoardE'
      BY <1>0, <2>1, <2>2, <2>3, <2>4 DEF BoardE, ClipT
    <2>6. JobE'
      BY <1>0, <2>1, <2>3 DEF JobE
    <2> QED
      BY <1>0, <1>s, <2>3, <2>4, <2>5, <2>6, EchoGrows DEF EchoInv
  <1>13. ASSUME NEW l \in Link, Forward(l) \/ RelayBroadcast(l) \/ Reconnect(l) \/ Drop(l)
         PROVE  EchoInv'
    <2>1. UNCHANGED <<clip, sup, copied, found, lapsed, issued, jpc, jclip, wpc, wclip, ppc, pclip>>
      BY <1>13 DEF Forward, RelayBroadcast, Reconnect, Drop
    <2> QED
      BY <1>1, <2>1
  <1>14. ASSUME NEW n \in Node, SavePeers(n) PROVE EchoInv'
    <2>1. UNCHANGED <<clip, sup, copied, found, lapsed, issued, jpc, jclip, wpc, wclip, ppc, pclip>>
      BY <1>14 DEF SavePeers
    <2> QED
      BY <1>1, <2>1
  <1>15. ASSUME NEW n \in Node, Restart(n) PROVE EchoInv'
    <2>1. /\ UNCHANGED <<clip, issued, copied, lapsed>>
          /\ found' = [found EXCEPT ![n] = found[n] \cup {clip[n]}]
          /\ sup' = [sup EXCEPT ![n] = EmptyGuard]
          /\ wpc' = [wpc EXCEPT ![n] = "idle"] /\ ppc' = [ppc EXCEPT ![n] = "idle"]
          /\ wclip' = [wclip EXCEPT ![n] = NoClip] /\ pclip' = [pclip EXCEPT ![n] = NoClip]
          /\ jpc' = [l \in Link |-> IF l[2] = n THEN "idle" ELSE jpc[l]]
          /\ jclip' = [l \in Link |-> IF l[2] = n THEN NoClip ELSE jclip[l]]
      BY <1>15 DEF Restart
    <2>2. clip[n] \in found'[n] /\ \A m \in Node : found[m] \subseteq found'[m]
      BY <2>1 DEF MarkT
    <2>3. \A m \in Node : Sources(m) \subseteq Sources(m)'
      BY <2>1, <2>2, SourcesGrow
    <2>4. clip[n] \in Sources(n)'
      BY <2>2 DEF Sources
    <2>5. sup'[n] = EmptyGuard /\ \A m \in Node \ {n} : sup'[m] = sup[m]
      BY <1>0, <2>1 DEF GuardT
    <2>6. BoardE'
      <3> SUFFICES ASSUME NEW m \in Node, clip[m] # Empty
                   PROVE  clip[m] \in Sources(m)' \cup sup'[m].fresh
        BY <2>1 DEF BoardE
      <3>1. CASE m = n
        BY <2>4, <3>1
      <3>2. CASE m # n
        BY <1>0, <2>3, <2>5, <3>2 DEF BoardE
      <3> QED
        BY <3>1, <3>2
    <2>7. JobE'
      <3> SUFFICES ASSUME NEW l \in Link, jpc'[l] \in {"set", "stored"}
                   PROVE  jclip'[l].hash \in sup'[l[2]].fresh
        BY DEF JobE
      <3>1. l[2] # n /\ jpc'[l] = jpc[l] /\ jclip'[l] = jclip[l]
        BY <2>1
      <3>2. l[2] \in Node
        BY <1>0, <3>1 DEF JobT
      <3> QED
        BY <1>0, <2>5, <3>1, <3>2 DEF JobE
    <2>8. OwnE'
      <3>1. wpc'[n] = "idle" /\ ppc'[n] = "idle"
        BY <1>0, <2>1 DEF WatchT, PushT
      <3>2. \A m \in Node \ {n} : /\ wpc'[m] = wpc[m] /\ wclip'[m] = wclip[m]
                                 /\ ppc'[m] = ppc[m] /\ pclip'[m] = pclip[m]
        BY <1>0, <2>1 DEF WatchT, PushT
      <3> QED
        BY <1>0, <2>1, <2>3, <2>5, <3>1, <3>2 DEF OwnE
    <2>9. IssueE'
      BY <1>0, <2>1, <2>3 DEF IssueE, HistT, Clip
    <2>10. RingF'
      BY <1>0, <2>5 DEF RingF, EmptyGuard
    <2> QED
      BY <1>0, <2>1, <2>6, <2>7, <2>8, <2>9, <2>10 DEF EchoInv
  <1>16. \A n \in Node : \A h \in Hash : ~Expire(n, h)
    BY DEF Expire
  <1>17. ASSUME NEW n \in Node, WatchPass(n) PROVE EchoInv'
    <2>1. /\ UNCHANGED <<clip, sup, copied, found, lapsed, issued, jpc, jclip, wclip, ppc, pclip>>
          /\ wpc[n] = "check" /\ wpc' = [wpc EXCEPT ![n] = "add"] /\ ~Has(sup[n], wclip[n].hash)
      BY <1>17 DEF WatchPass
    <2>2. wclip[n].hash \in Sources(n)
      BY <1>0, <2>1 DEF OwnE, Has
    <2>3. \A m \in Node : Sources(m) \subseteq Sources(m)'
      BY <1>d, <2>1
    <2>4. OwnE'
      BY <1>0, <2>1, <2>2, <2>3 DEF OwnE, WatchT
    <2> QED
      BY <1>0, <1>s, <2>1, <2>3, <2>4, EchoGrows DEF EchoInv
  <1>18. ASSUME NEW n \in Node, WatchAdd(n) PROVE EchoInv'
    <2>1. /\ UNCHANGED <<clip, copied, found, issued, jpc, jclip, wclip, ppc, pclip>>
          /\ wpc[n] = "add" /\ wpc' = [wpc EXCEPT ![n] = "pack"]
          /\ Suppressed(n, Add(sup[n], wclip[n].hash))
      BY <1>18 DEF WatchAdd
    <2>2. wclip[n].hash \in Hash /\ wclip[n].hash \in Sources(n)
      BY <1>0, <2>1 DEF WatchT, OwnE, Clip
    <2>3. (\A m \in Node : sup[m].fresh \subseteq sup'[m].fresh) /\ RingF' /\ lapsed' = FALSE
      BY <1>0, <2>1, <2>2, AddLosesNone
    <2>4. \A m \in Node : Sources(m) \subseteq Sources(m)'
      BY <1>d, <2>1
    <2>5. OwnE'
      BY <1>0, <2>1, <2>2, <2>3, <2>4 DEF OwnE, WatchT
    <2> QED
      BY <1>0, <2>1, <2>3, <2>4, <2>5, EchoGrows DEF EchoInv
  <1>19. ASSUME NEW n \in Node, PushStored(n) PROVE EchoInv'
    <2>1. /\ UNCHANGED <<clip, copied, found, issued, jpc, jclip, wpc, wclip, pclip>>
          /\ ppc[n] = "stored" /\ ppc' = [ppc EXCEPT ![n] = "pack"]
          /\ Suppressed(n, Add(sup[n], pclip[n].hash))
      BY <1>19 DEF PushStored
    <2>2. pclip[n].hash \in Hash
      BY <1>0, <2>1 DEF PushT, Clip
    <2>3. (\A m \in Node : sup[m].fresh \subseteq sup'[m].fresh) /\ RingF' /\ lapsed' = FALSE
      BY <1>0, <2>1, <2>2, AddLosesNone
    <2>4. \A m \in Node : Sources(m) \subseteq Sources(m)'
      BY <1>d, <2>1
    <2>5. OwnE'
      <3>1. \A m \in Node : ppc'[m] # "idle" => ppc[m] # "idle"
        BY <1>0, <2>1 DEF PushT
      <3> QED
        BY <1>0, <2>1, <2>3, <2>4, <3>1 DEF OwnE
    <2> QED
      BY <1>0, <2>1, <2>3, <2>4, <2>5, EchoGrows DEF EchoInv
  <1>20. CASE UNCHANGED vars
    BY <1>1, <1>20 DEF vars
  <1> QED
    BY <1>2, <1>3, <1>4, <1>5, <1>6, <1>7, <1>8, <1>9, <1>10, <1>11, <1>12, <1>13, <1>14, <1>15,
       <1>16, <1>17, <1>18, <1>19, <1>20 DEF Next, Watcher, Push, Apply, User

\* While no suppress entry lapses, no interleaving of watcher, `zsync copy' and
\* sessions, no restart and no failure makes a daemon originate what its user did
\* not copy, unless its clipboard altered it or it was there at a restart: each
\* content is in the guard before it is on the clipboard.
THEOREM NoEchoWhileSuppressed ==
  ASSUME "expire" \notin Env PROVE Spec => [](NoEcho /\ ~lapsed)
  <1>1. Init => TypeInv /\ MarkT /\ EchoInv
    <2>1. Init => EchoInv
      BY DEF Init, EchoInv, BoardE, JobE, OwnE, IssueE, RingF, EmptyGuard
    <2> QED
      BY <2>1, InitTypes
  <1>2. TypeInv /\ MarkT /\ EchoInv /\ [Next]_vars => TypeInv' /\ MarkT' /\ EchoInv'
    BY StepTypes, StepMarks, StepEcho
  <1>3. EchoInv => NoEcho /\ ~lapsed
    BY DEF EchoInv, IssueE, NoEcho
  <1> QED
    BY <1>1, <1>2, <1>3, PTL DEF Spec

-----------------------------------------------------------------------------
(* The order of the clips on a link *)

\* The links whose frames left on l: l, and behind the relay the other members'.
Reach(l) == {l} \cup {k \in Link : l[2] = Relay /\ ToOthers(l, k)}

\* What is queued for l, in flight on l, or accepted at its end, of one origin,
\* has smaller numbers.
RxBelow(l, o, s) ==
  \A i \in DOMAIN rx[l] : rx[l][i].clip.origin = o => rx[l][i].clip.seq < s
NetBelow(l, o, s) ==
  \A i \in DOMAIN net[l] : net[l][i].origin = o => net[l][i].seq < s
SeenBelow(l, o, s) == l[2] \in Node => seen[l[2]][o] < s

Clear(l, o, s) == \A k \in Reach(l) : NetBelow(k, o, s) /\ SeenBelow(k, o, s)

\* Each queue is in the order of the numbers of each origin ...
RxSorted  == \A l \in Link : \A i, j \in DOMAIN rx[l] :
               i < j /\ rx[l][i].clip.origin = rx[l][j].clip.origin
                 => rx[l][i].clip.seq < rx[l][j].clip.seq
NetSorted == \A l \in Link : \A i, j \in DOMAIN net[l] :
               i < j /\ net[l][i].origin = net[l][j].origin => net[l][i].seq < net[l][j].seq

\* ... and everything ahead of a clip, of its origin, is older: ahead of one that
\* is queued, in flight, about to be originated and about to be forwarded.
RxClear   == \A l \in Link : \A i \in DOMAIN rx[l] :
               l[1] \in Node /\ ~Skips(l, rx[l][i])
                 => Clear(l, rx[l][i].clip.origin, rx[l][i].clip.seq)
NetClear  == \A l \in Link : \A i \in DOMAIN net[l] :
               /\ SeenBelow(l, net[l][i].origin, net[l][i].seq)
               /\ \A k \in Reach(l) \ {l} : /\ NetBelow(k, net[l][i].origin, net[l][i].seq)
                                            /\ SeenBelow(k, net[l][i].origin, net[l][i].seq)
WatchClear == \A l \in Link : l[1] \in Node =>
                (wpc[l[1]] = "emit" => /\ Clear(l, l[1], wclip[l[1]].seq)
                                       /\ RxBelow(l, l[1], wclip[l[1]].seq))
JobClear  == \A j, l \in Link : jpc[j] # "idle" /\ l[1] = j[2] =>
               /\ RxBelow(l, jclip[j].origin, jclip[j].seq)
               /\ Onward(j, l) => Clear(l, jclip[j].origin, jclip[j].seq)

\* A daemon forwards what it has accepted: none is newer on the links from it.
JobSeen   == \A j \in Link : jpc[j] # "idle" => jclip[j].seq <= seen[j[2]][jclip[j].origin]
RxSeen    == \A l \in Link : \A o \in Node :
               l[1] \in Node /\ o # l[1] => RxBelow(l, o, seen[l[1]][o] + 1)
LinkSeen(B) == \A l \in Link : \A o \in B[l] :
                 l[1] \in Node /\ l[2] \in Node /\ o # l[1] =>
                   /\ NetBelow(l, o, seen[l[1]][o] + 1)
                   /\ SeenBelow(l, o, seen[l[1]][o] + 1)

NoPush == \A n \in Node : ppc[n] = "idle"

OrderInv(B) == /\ RxSorted /\ NetSorted /\ RxClear /\ NetClear /\ WatchClear /\ JobClear
               /\ JobSeen /\ RxSeen /\ LinkSeen(B) /\ NoPush

\* Clips that wait or are in flight are clips.
LEMMA QueuedAreClips ==
  ASSUME RxT, NetT, NEW l \in Link
  PROVE  /\ \A i \in DOMAIN rx[l] : /\ rx[l][i] \in Outbound /\ rx[l][i].clip \in Clip
                                   /\ rx[l][i].clip.origin \in Node /\ rx[l][i].clip.seq \in Nat
         /\ \A i \in DOMAIN net[l] : /\ net[l][i] \in Clip /\ net[l][i].origin \in Node
                                    /\ net[l][i].seq \in Nat
  <1>1. rx[l] \in Seq(Outbound) /\ net[l] \in Seq(Clip)
    BY DEF RxT, NetT
  <1>2. \A i \in DOMAIN rx[l] : rx[l][i] \in Outbound
    BY <1>1
  <1>3. \A i \in DOMAIN net[l] : net[l][i] \in Clip
    BY <1>1
  <1> QED
    BY <1>2, <1>3 DEF Outbound, Clip

\* A link behind the relay is of the branch of the link before it.
LEMMA ReachIsOfBranch ==
  ASSUME NEW B, Branches(B), NEW l \in Link, NEW k \in Reach(l)
  PROVE  /\ k \in Link /\ B[l] \subseteq B[k]
         /\ k # l => k[1] = Relay /\ k[2] \in Node /\ l[2] = Relay
         /\ l[2] # Relay => k = l
  <1>1. CASE k = l
    BY <1>1
  <1>2. CASE k # l
    <2>1. k \in Link /\ l[2] = Relay /\ k[1] = Relay /\ k[2] # l[1]
      BY <1>2 DEF Reach, ToOthers
    <2>2. k[2] # Relay /\ k[2] \in Node
      BY <2>1
    <2>3. Onward(l, k)
      BY <2>1, <2>2 DEF Onward
    <2>4. B[l] \subseteq B[k]
      BY <2>1, <2>3 DEF Branches
    <2> QED
      BY <1>2, <2>1, <2>2, <2>4
  <1> QED
    BY <1>1, <1>2

\* What Hub::emit leaves on a link was there before or is the new clip.
LEMMA EmittedElements ==
  ASSUME RxT, NEW n \in Node, NEW c \in Clip, NEW skip \in Node \cup {Relay},
         NEW l \in Link, NEW i \in DOMAIN Emitted(n, c, skip)[l]
  PROVE  \/ \E j \in DOMAIN rx[l] : Emitted(n, c, skip)[l][i] = rx[l][j]
         \/ l[1] = n /\ Emitted(n, c, skip)[l][i] = [clip |-> c, skip |-> skip]
  <1> DEFINE out == [clip |-> c, skip |-> skip]
  <1>1. out \in Outbound
    BY DEF Outbound
  <1>2. rx[l] \in Seq(Outbound)
    BY DEF RxT
  <1>3. CASE l[1] = n /\ l \in up
    <2>1. Emitted(n, c, skip)[l] = KeepLast(rx[l], out, BroadcastCap)
      BY <1>3 DEF Emitted
    <2> HIDE DEF out
    <2>2. i \in DOMAIN KeepLast(rx[l], out, BroadcastCap)
      BY <2>1
    <2>3. \/ KeepLast(rx[l], out, BroadcastCap)[i] = out
          \/ \E j \in DOMAIN rx[l] : KeepLast(rx[l], out, BroadcastCap)[i] = rx[l][j]
      BY <1>1, <1>2, <2>2, KeepLastElements
    <2> QED
      BY <1>3, <2>1, <2>3 DEF out
  <1>4. CASE ~(l[1] = n /\ l \in up)
    <2>1. Emitted(n, c, skip)[l] = rx[l]
      BY <1>4 DEF Emitted
    <2> QED
      BY <2>1
  <1> QED
    BY <1>3, <1>4

\* A full KeepLast queue loses its head, and the new element is last.
LEMMA KeepLastShape ==
  ASSUME NEW S, NEW s \in Seq(S), NEW x \in S, NEW cap \in Nat \ {0}
  PROVE  \/ KeepLast(s, x, cap) = Append(s, x)
         \/ s # << >> /\ KeepLast(s, x, cap) = Append(Tail(s), x)
  <1>1. CASE Len(s) < cap
    BY <1>1 DEF KeepLast
  <1>2. CASE ~(Len(s) < cap)
    <2>1. s # << >>
      BY <1>2
    <2> QED
      BY <1>2, <2>1 DEF KeepLast
  <1> QED
    BY <1>1, <1>2

\* Hub::emit keeps every receiver in order, if the clip is newer than what waits.
LEMMA EmittedIsSorted ==
  ASSUME RxT, RxSorted, NEW n \in Node, NEW c \in Clip, NEW skip \in Node \cup {Relay},
         \A l \in Link : l[1] = n => RxBelow(l, c.origin, c.seq),
         rx' = Emitted(n, c, skip)
  PROVE  RxSorted'
  <1> DEFINE out == [clip |-> c, skip |-> skip]
  <1>1. out \in Outbound /\ out.clip = c
    BY DEF Outbound
  <1> SUFFICES ASSUME NEW l \in Link, NEW i \in DOMAIN rx'[l], NEW j \in DOMAIN rx'[l],
                      i < j, rx'[l][i].clip.origin = rx'[l][j].clip.origin
               PROVE  rx'[l][i].clip.seq < rx'[l][j].clip.seq
    BY DEF RxSorted
  <1>2. rx[l] \in Seq(Outbound)
    BY DEF RxT
  <1>3. CASE l[1] = n /\ l \in up
    <2>1. rx'[l] = KeepLast(rx[l], out, BroadcastCap)
      BY <1>3 DEF Emitted
    <2> HIDE DEF out
    <2>2. \E t \in Seq(Outbound), d \in {0, 1} :
            /\ rx'[l] = Append(t, out)
            /\ \A k \in DOMAIN t : k + d \in DOMAIN rx[l] /\ t[k] = rx[l][k + d]
      <3>1. CASE KeepLast(rx[l], out, BroadcastCap) = Append(rx[l], out)
        <4>1. \A k \in DOMAIN rx[l] : k + 0 \in DOMAIN rx[l] /\ rx[l][k] = rx[l][k + 0]
          BY <1>2
        <4> QED
          BY <1>2, <2>1, <3>1, <4>1
      <3>2. CASE rx[l] # << >> /\ KeepLast(rx[l], out, BroadcastCap) = Append(Tail(rx[l]), out)
        <4>1. /\ Tail(rx[l]) \in Seq(Outbound)
              /\ \A k \in DOMAIN Tail(rx[l]) : k + 1 \in DOMAIN rx[l] /\ Tail(rx[l])[k] = rx[l][k + 1]
          BY <1>2, <3>2, HeadOfQueue
        <4> QED
          BY <2>1, <3>2, <4>1
      <3> QED
        <4>0. BroadcastCap \in Nat \ {0} /\ out \in Outbound
          BY <1>1
        <4>1. \/ KeepLast(rx[l], out, BroadcastCap) = Append(rx[l], out)
              \/ /\ rx[l] # << >>
                 /\ KeepLast(rx[l], out, BroadcastCap) = Append(Tail(rx[l]), out)
          BY <1>2, <4>0, KeepLastShape
        <4> QED
          BY <4>1, <3>1, <3>2
    <2>t. PICK t \in Seq(Outbound), d \in {0, 1} :
            /\ rx'[l] = Append(t, out)
            /\ \A k \in DOMAIN t : k + d \in DOMAIN rx[l] /\ t[k] = rx[l][k + d]
      BY <2>2
    <2>3. i \in DOMAIN t /\ rx'[l][i] = t[i] /\ i \in Nat /\ j \in Nat
      BY <1>1, <2>t
    <2>4. i + d \in DOMAIN rx[l] /\ rx'[l][i] = rx[l][i + d]
      BY <2>t, <2>3
    <2>5. CASE j \in DOMAIN t
      <3>1. j + d \in DOMAIN rx[l] /\ rx'[l][j] = rx[l][j + d] /\ i + d < j + d
        BY <1>1, <2>t, <2>3, <2>5
      <3> QED
        BY <2>4, <3>1 DEF RxSorted
    <2>6. CASE j \notin DOMAIN t
      <3>1. rx'[l][j] = out
        BY <1>1, <2>t, <2>6
      <3> QED
        BY <1>1, <1>3, <2>4, <3>1 DEF RxBelow
    <2> QED
      BY <2>5, <2>6
  <1>4. CASE ~(l[1] = n /\ l \in up)
    <2>1. rx'[l] = rx[l]
      BY <1>4 DEF Emitted
    <2> QED
      BY <2>1 DEF RxSorted
  <1> QED
    BY <1>3, <1>4

\* What is not skipped on a link goes on along it.
LEMMA UnskippedIsOnward ==
  ASSUME NEW j \in Link, j[2] \in Node, NEW c \in Clip, NEW l \in Link, l[1] = j[2],
         ~Skips(l, [clip |-> c, skip |-> Ingress(j, c)])
  PROVE  Onward(j, l)
  <1>1. Ingress(j, c) # NoSkip
    BY DEF Ingress, NoSkip, Clip
  <1>2. l[2] # Relay /\ Ingress(j, c) # l[2]
    BY <1>1 DEF Skips
  <1>3. l[2] # j[1]
    BY <1>2 DEF Ingress
  <1> QED
    BY <1>2, <1>3 DEF Onward

\* A hub that has sent nothing is in order.
LEMMA InitOrder == ASSUME NEW B \in [Link -> SUBSET Node] PROVE Init => OrderInv(B)
  <1> SUFFICES ASSUME Init PROVE OrderInv(B)
    OBVIOUS
  <1>1. /\ \A l \in Link : rx[l] = << >> /\ net[l] = << >> /\ jpc[l] = "idle"
        /\ \A n \in Node : wpc[n] = "idle" /\ ppc[n] = "idle"
        /\ \A n, o \in Node : seen[n][o] = 0
    BY DEF Init
  <1>2. RxSorted /\ NetSorted /\ RxClear /\ NetClear
    BY <1>1 DEF RxSorted, NetSorted, RxClear, NetClear
  <1>3. WatchClear /\ JobClear /\ JobSeen /\ NoPush
    BY <1>1 DEF WatchClear, JobClear, JobSeen, NoPush
  <1>4. RxSeen
    BY <1>1 DEF RxSeen, RxBelow
  <1>5. LinkSeen(B)
    <2> SUFFICES ASSUME NEW l \in Link, NEW o \in B[l], l[1] \in Node, l[2] \in Node, o # l[1]
                 PROVE  /\ NetBelow(l, o, seen[l[1]][o] + 1)
                        /\ SeenBelow(l, o, seen[l[1]][o] + 1)
      BY DEF LinkSeen
    <2> QED
      BY <1>1 DEF NetBelow, SeenBelow
  <1> QED
    BY <1>2, <1>3, <1>4, <1>5 DEF OrderInv

\* Steps that only empty queues, end jobs and drop pending clips keep the order.
LEMMA FewerInOrder ==
  ASSUME NEW B, OrderInv(B), UNCHANGED seen,
         \A l \in Link : rx'[l] \in {rx[l], << >>} /\ net'[l] \in {net[l], << >>},
         \A l \in Link : jpc'[l] # "idle" => jpc[l] # "idle" /\ jclip'[l] = jclip[l],
         \A n \in Node : wpc'[n] = "emit" => wpc[n] = "emit" /\ wclip'[n] = wclip[n],
         \A n \in Node : ppc'[n] = "idle"
  PROVE  OrderInv(B)'
  <1>0. /\ RxSorted /\ NetSorted /\ RxClear /\ NetClear /\ WatchClear /\ JobClear
        /\ JobSeen /\ RxSeen /\ LinkSeen(B)
    BY DEF OrderInv
  <1>1. /\ \A l \in Link : \A o, s : RxBelow(l, o, s) => RxBelow(l, o, s)'
        /\ \A l \in Link : \A o, s : NetBelow(l, o, s) => NetBelow(l, o, s)'
        /\ \A l \in Link : \A o, s : SeenBelow(l, o, s) => SeenBelow(l, o, s)'
    BY DEF RxBelow, NetBelow, SeenBelow
  <1>2. \A l \in Link : \A o, s : Clear(l, o, s) => Clear(l, o, s)'
    BY <1>1 DEF Clear, Reach
  <1>3. RxSorted' /\ NetSorted'
    BY <1>0 DEF RxSorted, NetSorted
  <1>4. RxClear'
    BY <1>0, <1>2 DEF RxClear, Skips
  <1>5. NetClear'
    BY <1>0, <1>1 DEF NetClear, Reach
  <1>6. WatchClear'
    BY <1>0, <1>1, <1>2 DEF WatchClear
  <1>7. JobClear' /\ JobSeen'
    BY <1>0, <1>1, <1>2 DEF JobClear, JobSeen
  <1>8. RxSeen' /\ LinkSeen(B)'
    BY <1>0, <1>1 DEF RxSeen, LinkSeen
  <1> QED
    BY <1>3, <1>4, <1>5, <1>6, <1>7, <1>8 DEF OrderInv, NoPush

\* The number a daemon is about to give is above every one of its own anywhere.
LEMMA NextIsAbove ==
  ASSUME TypeInv, SeqInv, NEW n \in Node, NEW l \in Link
  PROVE  /\ RxBelow(l, n, seq[n] + 1) /\ NetBelow(l, n, seq[n] + 1)
         /\ SeenBelow(l, n, seq[n] + 1)
  <1>0. /\ CountT /\ RxT /\ NetT /\ HistT /\ CountI /\ IssuedI /\ RxI /\ NetI
    BY DEF TypeInv, SeqInv
  <1>1. ASSUME NEW c \in issued, c.origin = n PROVE c.seq < seq[n] + 1
    <2>1. c.seq <= disk[n] /\ disk[n] <= seq[n] /\ c.seq \in Nat /\ disk[n] \in Nat /\ seq[n] \in Nat
      BY <1>0, <1>1 DEF IssuedI, CountI, CountT, HistT, Clip
    <2> QED
      BY <2>1
  <1>2. RxBelow(l, n, seq[n] + 1) /\ NetBelow(l, n, seq[n] + 1)
    BY <1>0, <1>1 DEF RxBelow, NetBelow, RxI, NetI
  <1>3. SeenBelow(l, n, seq[n] + 1)
    <2> SUFFICES ASSUME l[2] \in Node PROVE seen[l[2]][n] < seq[n] + 1
      BY DEF SeenBelow
    <2>1. seen[l[2]][n] <= disk[n] /\ disk[n] <= seq[n]
      BY <1>0 DEF CountI
    <2>2. seen[l[2]][n] \in Nat /\ disk[n] \in Nat /\ seq[n] \in Nat
      BY <1>0 DEF CountT
    <2> QED
      BY <2>1, <2>2
  <1> QED
    BY <1>2, <1>3

\* Hub::emit keeps the order, of a clip newer than what is ahead of it: on the
\* links where it is not skipped nothing of its origin, on the others nothing queued.
LEMMA EmitInOrder ==
  ASSUME NEW B, OrderInv(B), TypeInv, NEW n \in Node, NEW c \in Clip,
         NEW skip \in Node \cup {Relay}, rx' = Emitted(n, c, skip), UNCHANGED <<net, seen, ppc>>,
         \A l \in Link : l[1] = n => RxBelow(l, c.origin, c.seq),
         \A l \in Link : l[1] = n /\ ~Skips(l, [clip |-> c, skip |-> skip])
                            => Clear(l, c.origin, c.seq),
         c.origin # n => c.seq <= seen[n][c.origin],
         \A m \in Node : wpc'[m] = "emit" =>
            wpc[m] = "emit" /\ wclip'[m] = wclip[m] /\ (m = n => c.origin # n),
         \A j \in Link : jpc'[j] # "idle" =>
            jpc[j] # "idle" /\ jclip'[j] = jclip[j] /\ (j[2] = n => c.origin # jclip[j].origin)
  PROVE  OrderInv(B)'
  <1> DEFINE out == [clip |-> c, skip |-> skip]
  <1>0. /\ RxSorted /\ NetSorted /\ RxClear /\ NetClear /\ WatchClear /\ JobClear
        /\ JobSeen /\ RxSeen /\ LinkSeen(B) /\ NoPush /\ RxT /\ CountT
    BY DEF OrderInv, TypeInv
  <1>1. out.clip = c
    OBVIOUS
  <1>2. \A l \in Link : \A i \in DOMAIN rx'[l] :
          \/ \E j \in DOMAIN rx[l] : rx'[l][i] = rx[l][j]
          \/ l[1] = n /\ rx'[l][i] = out
    BY <1>0, EmittedElements
  <1>3. /\ \A l \in Link : \A o, s : NetBelow(l, o, s) => NetBelow(l, o, s)'
        /\ \A l \in Link : \A o, s : SeenBelow(l, o, s) => SeenBelow(l, o, s)'
    BY DEF NetBelow, SeenBelow
  <1>4. \A l \in Link : \A o, s : Clear(l, o, s) => Clear(l, o, s)'
    BY <1>3 DEF Clear, Reach
  <1> HIDE DEF out
  <1>5. ASSUME NEW l \in Link, NEW o, NEW s, RxBelow(l, o, s), l[1] = n => c.origin # o
        PROVE  RxBelow(l, o, s)'
    BY <1>1, <1>2, <1>5 DEF RxBelow
  <1>6. RxSorted'
    BY <1>0, EmittedIsSorted
  <1>7. RxClear'
    <2> SUFFICES ASSUME NEW l \in Link, NEW i \in DOMAIN rx'[l], l[1] \in Node, ~Skips(l, rx'[l][i])
                 PROVE  Clear(l, rx[l][i].clip.origin, rx[l][i].clip.seq)'
      BY DEF RxClear, Skips
    <2>1. CASE \E j \in DOMAIN rx[l] : rx'[l][i] = rx[l][j]
      BY <1>0, <1>4, <2>1 DEF RxClear
    <2>2. CASE l[1] = n /\ rx'[l][i] = out
      BY <1>1, <1>4, <2>2 DEF out
    <2> QED
      BY <1>2, <2>1, <2>2
  <1>8. NetSorted' /\ NetClear'
    BY <1>0, <1>3 DEF NetSorted, NetClear, Reach
  <1>9. WatchClear'
    BY <1>0, <1>4, <1>5 DEF WatchClear
  <1>10. JobClear' /\ JobSeen'
    BY <1>0, <1>4, <1>5 DEF JobClear, JobSeen
  <1>11. RxSeen'
    <2> SUFFICES ASSUME NEW l \in Link, NEW o \in Node, l[1] \in Node, o # l[1],
                        NEW i \in DOMAIN rx'[l], rx'[l][i].clip.origin = o
                 PROVE  rx'[l][i].clip.seq < seen[l[1]][o] + 1
      BY DEF RxSeen, RxBelow
    <2>1. CASE \E j \in DOMAIN rx[l] : rx'[l][i] = rx[l][j]
      BY <1>0, <2>1 DEF RxSeen, RxBelow
    <2>2. CASE l[1] = n /\ rx'[l][i] = out
      <3>1. c.origin = o /\ c.seq <= seen[n][o] /\ c.seq \in Nat /\ seen[n][o] \in Nat
        BY <1>0, <1>1, <2>2 DEF CountT, Clip
      <3> QED
        BY <1>1, <2>2, <3>1
    <2> QED
      BY <1>2, <2>1, <2>2
  <1>12. LinkSeen(B)'
    BY <1>0, <1>3 DEF LinkSeen
  <1> QED
    BY <1>0, <1>6, <1>7, <1>8, <1>9, <1>10, <1>11, <1>12 DEF OrderInv, NoPush

\* The positions behind the head of a queue.
LEMMA TailOfQueue ==
  ASSUME NEW S, NEW s \in Seq(S), s # << >>
  PROVE  /\ \A i \in DOMAIN Tail(s) : i + 1 \in DOMAIN s /\ 1 < i + 1 /\ Tail(s)[i] = s[i + 1]
         /\ \A i, j \in DOMAIN Tail(s) : i < j => i + 1 < j + 1
  <1>1. Tail(s) \in Seq(S) /\ \A i \in DOMAIN Tail(s) : i + 1 \in DOMAIN s /\ Tail(s)[i] = s[i + 1]
    BY HeadOfQueue
  <1>2. \A i \in DOMAIN Tail(s) : i \in Nat /\ i >= 1
    BY <1>1
  <1> QED
    BY <1>1, <1>2

\* Forwarding what a receiver holds moves it behind what is ahead of it.
LEMMA ForwardInOrder ==
  ASSUME NEW B \in [Link -> SUBSET Node], OrderInv(B), TypeInv, NEW l \in Link, Forward(l)
  PROVE  OrderInv(B)'
  <1> DEFINE h == Head(rx[l]).clip
  <1>0. /\ RxSorted /\ NetSorted /\ RxClear /\ NetClear /\ WatchClear /\ JobClear
        /\ JobSeen /\ RxSeen /\ LinkSeen(B) /\ NoPush /\ RxT /\ NetT
    BY DEF OrderInv, TypeInv
  <1>1. /\ l[1] \in Node /\ UNCHANGED <<seen, jpc, jclip, wpc, wclip, ppc>>
        /\ rx' = [rx EXCEPT ![l] = Tail(rx[l])]
        /\ net' = [net EXCEPT ![l] = IF Skips(l, Head(rx[l])) THEN net[l] ELSE Append(net[l], h)]
    BY <1>0 DEF Forward, nodeVars, watchVars, pushVars, jobVars, NetT
  <1>2. /\ rx[l] \in Seq(Outbound) /\ Head(rx[l]) = rx[l][1] /\ 1 \in DOMAIN rx[l]
        /\ h \in Clip /\ Tail(rx[l]) \in Seq(Outbound)
        /\ \A i \in DOMAIN Tail(rx[l]) : i + 1 \in DOMAIN rx[l] /\ Tail(rx[l])[i] = rx[l][i + 1]
        /\ \A i \in DOMAIN Tail(rx[l]) : i \in Nat /\ i >= 1
    <2>1. rx[l] \in Seq(Outbound) /\ rx[l] # << >>
      BY <1>0 DEF Forward, RxT
    <2>2. /\ Head(rx[l]) = rx[l][1] /\ Head(rx[l]) \in Outbound /\ 1 \in DOMAIN rx[l]
          /\ Tail(rx[l]) \in Seq(Outbound)
          /\ \A i \in DOMAIN Tail(rx[l]) : i + 1 \in DOMAIN rx[l] /\ Tail(rx[l])[i] = rx[l][i + 1]
      BY <2>1, HeadOfQueue
    <2>3. \A i \in DOMAIN Tail(rx[l]) : i \in Nat /\ i >= 1
      BY <2>2
    <2> QED
      BY <2>1, <2>2, <2>3 DEF Outbound
  <1>r. \A i, j \in DOMAIN Tail(rx[l]) : i < j => i + 1 < j + 1
    <2>1. rx[l] # << >>
      BY DEF Forward
    <2> QED
      BY <1>2, <2>1, TailOfQueue
  <1>3. rx[l][1].clip = h
    BY <1>2
  <1> HIDE DEF h
  <1>4. \A k \in Link \ {l} : rx'[k] = rx[k] /\ net'[k] = net[k]
    BY <1>0, <1>1 DEF RxT, NetT
  <1>5. rx'[l] = Tail(rx[l])
    BY <1>0, <1>1 DEF RxT
  <1>6. /\ DOMAIN net[l] = 1 .. Len(net[l]) /\ Len(net[l]) \in Nat
        /\ \/ net'[l] = net[l]
           \/ /\ ~Skips(l, Head(rx[l])) /\ DOMAIN net'[l] = 1 .. Len(net[l]) + 1
              /\ net'[l][Len(net[l]) + 1] = h
              /\ \A i \in DOMAIN net[l] : net'[l][i] = net[l][i]
    <2>1. net[l] \in Seq(Clip)
      BY <1>0 DEF NetT
    <2>2. CASE Skips(l, Head(rx[l]))
      BY <1>0, <1>1, <2>1, <2>2 DEF NetT
    <2>3. CASE ~Skips(l, Head(rx[l]))
      <3>1. net'[l] = Append(net[l], h)
        BY <1>0, <1>1, <2>3 DEF NetT
      <3> QED
        BY <1>2, <2>1, <2>3, <3>1
    <2> QED
      BY <2>2, <2>3
  <1>7. \A k \in Link : \A o, s : RxBelow(k, o, s) => RxBelow(k, o, s)'
    <2> SUFFICES ASSUME NEW k \in Link, NEW o, NEW s, RxBelow(k, o, s), NEW i \in DOMAIN rx'[k]
                 PROVE  rx'[k][i].clip.origin = o => rx'[k][i].clip.seq < s
      BY DEF RxBelow
    <2>1. CASE k = l
      <3>1. i + 1 \in DOMAIN rx[l] /\ rx'[k][i] = rx[l][i + 1]
        BY <1>2, <1>5, <2>1
      <3> QED
        BY <2>1, <3>1 DEF RxBelow
    <2>2. CASE k # l
      BY <1>4, <2>2 DEF RxBelow
    <2> QED
      BY <2>1, <2>2
  <1>8. \A k \in Link : \A o, s :
          NetBelow(k, o, s) /\ (k = l => (h.origin = o => h.seq < s)) => NetBelow(k, o, s)'
    <2> SUFFICES ASSUME NEW k \in Link, NEW o, NEW s, NetBelow(k, o, s),
                        k = l => (h.origin = o => h.seq < s), NEW i \in DOMAIN net'[k]
                 PROVE  net'[k][i].origin = o => net'[k][i].seq < s
      BY DEF NetBelow
    <2>1. CASE i \in DOMAIN net[k]
      <3>1. net'[k][i] = net[k][i]
        BY <1>4, <1>6, <2>1
      <3> QED
        BY <2>1, <3>1 DEF NetBelow
    <2>2. CASE i \notin DOMAIN net[k]
      <3>1. k = l /\ net'[l][i] = h
        BY <1>4, <1>6, <2>2
      <3> QED
        BY <3>1
    <2> QED
      BY <2>1, <2>2
  <1>9. \A k \in Link : \A o, s : SeenBelow(k, o, s) => SeenBelow(k, o, s)'
    BY <1>1 DEF SeenBelow
  <1>10. \A k \in Link : \A m \in Reach(k) : m \in Link /\ (m # k => m # l)
    BY <1>1 DEF Reach, ToOthers
  <1>11. ASSUME NEW k \in Link, NEW o, NEW s, Clear(k, o, s), k = l => (h.origin = o => h.seq < s)
         PROVE  Clear(k, o, s)'
    BY <1>8, <1>9, <1>10, <1>11 DEF Clear, Reach
  <1>12. RxSorted'
    <2> SUFFICES ASSUME NEW k \in Link, NEW i \in DOMAIN rx'[k], NEW j \in DOMAIN rx'[k],
                        i < j, rx'[k][i].clip.origin = rx'[k][j].clip.origin
                 PROVE  rx'[k][i].clip.seq < rx'[k][j].clip.seq
      BY DEF RxSorted
    <2>1. CASE k = l
      <3>1. /\ i + 1 \in DOMAIN rx[l] /\ rx'[k][i] = rx[l][i + 1]
            /\ j + 1 \in DOMAIN rx[l] /\ rx'[k][j] = rx[l][j + 1]
            /\ i + 1 < j + 1
        <4>1. i \in DOMAIN Tail(rx[l]) /\ j \in DOMAIN Tail(rx[l])
          BY <1>5, <2>1
        <4>2. i + 1 < j + 1
          BY <1>r, <4>1
        <4> QED
          BY <1>2, <1>5, <2>1, <4>1, <4>2
      <3> QED
        BY <1>0, <3>1 DEF RxSorted
    <2>2. CASE k # l
      BY <1>0, <1>4, <2>2 DEF RxSorted
    <2> QED
      BY <2>1, <2>2
  <1>13. NetSorted'
    <2> SUFFICES ASSUME NEW k \in Link, NEW i \in DOMAIN net'[k], NEW j \in DOMAIN net'[k],
                        i < j, net'[k][i].origin = net'[k][j].origin
                 PROVE  net'[k][i].seq < net'[k][j].seq
      BY DEF NetSorted
    <2>1. CASE i \in DOMAIN net[k] /\ j \in DOMAIN net[k]
      <3>1. net'[k][i] = net[k][i] /\ net'[k][j] = net[k][j]
        BY <1>4, <1>6, <2>1
      <3> QED
        BY <1>0, <2>1, <3>1 DEF NetSorted
    <2>2. CASE ~(i \in DOMAIN net[k] /\ j \in DOMAIN net[k])
      <3>1. k = l /\ ~Skips(l, rx[l][1])
        BY <1>2, <1>4, <1>6, <2>2
      <3>2. i \in DOMAIN net[l] /\ net'[l][i] = net[l][i] /\ net'[l][j] = h
        BY <1>6, <2>2, <3>1
      <3>3. NetBelow(l, h.origin, h.seq)
        BY <1>0, <1>1, <1>2, <1>3, <3>1 DEF RxClear, Clear, Reach
      <3> QED
        BY <3>1, <3>2, <3>3 DEF NetBelow
    <2> QED
      BY <2>1, <2>2
  <1>14. RxClear'
    <2> SUFFICES ASSUME NEW k \in Link, NEW i \in DOMAIN rx'[k], k[1] \in Node, ~Skips(k, rx'[k][i])
                 PROVE  Clear(k, rx[k][i].clip.origin, rx[k][i].clip.seq)'
      BY DEF RxClear, Skips
    <2>1. CASE k # l
      BY <1>0, <1>4, <1>11, <2>1 DEF RxClear
    <2>2. CASE k = l
      <3>1. i + 1 \in DOMAIN rx[l] /\ rx'[l][i] = rx[l][i + 1] /\ 1 < i + 1
        <4>1. i \in DOMAIN Tail(rx[l]) /\ i \in Nat /\ i >= 1
          BY <1>2, <1>5, <2>2
        <4> QED
          BY <1>2, <1>5, <4>1
      <3>2. Clear(l, rx'[l][i].clip.origin, rx'[l][i].clip.seq)
        BY <1>0, <2>2, <3>1 DEF RxClear
      <3>3. h.origin = rx'[l][i].clip.origin => h.seq < rx'[l][i].clip.seq
        BY <1>0, <1>2, <1>3, <3>1 DEF RxSorted
      <3> QED
        BY <1>11, <2>2, <3>2, <3>3
    <2> QED
      BY <2>1, <2>2
  <1>15. NetClear'
    <2> SUFFICES ASSUME NEW k \in Link, NEW i \in DOMAIN net'[k], NEW o, NEW s,
                        o = net'[k][i].origin, s = net'[k][i].seq
                 PROVE  /\ SeenBelow(k, o, s)'
                        /\ \A m \in Reach(k) \ {k} : NetBelow(m, o, s)' /\ SeenBelow(m, o, s)'
      BY DEF NetClear, Reach, SeenBelow, NetBelow
    <2>1. SeenBelow(k, o, s) /\ \A m \in Reach(k) \ {k} : NetBelow(m, o, s) /\ SeenBelow(m, o, s)
      <3>1. CASE i \in DOMAIN net[k]
        <4>1. net'[k][i] = net[k][i]
          BY <1>4, <1>6, <3>1
        <4> QED
          BY <1>0, <3>1, <4>1 DEF NetClear
      <3>2. CASE i \notin DOMAIN net[k]
        <4>1. k = l /\ net'[l][i] = h /\ ~Skips(l, rx[l][1])
          BY <1>2, <1>4, <1>6, <3>2
        <4>2. Clear(l, h.origin, h.seq)
          BY <1>0, <1>1, <1>2, <1>3, <4>1 DEF RxClear
        <4> QED
          BY <4>1, <4>2 DEF Clear, Reach
      <3> QED
        BY <3>1, <3>2
    <2> QED
      BY <1>8, <1>9, <1>10, <2>1
  <1>16. WatchClear'
    <2>1. \A o, s : RxBelow(l, o, s) => (h.origin = o => h.seq < s)
      BY <1>2, <1>3 DEF RxBelow
    <2> QED
      BY <1>0, <1>1, <1>7, <1>11, <2>1 DEF WatchClear
  <1>17. JobClear' /\ JobSeen'
    <2>1. \A o, s : RxBelow(l, o, s) => (h.origin = o => h.seq < s)
      BY <1>2, <1>3 DEF RxBelow
    <2> QED
      BY <1>0, <1>1, <1>7, <1>11, <2>1 DEF JobClear, JobSeen
  <1>18. RxSeen'
    BY <1>0, <1>1, <1>7 DEF RxSeen
  <1>19. LinkSeen(B)'
    <2>1. \A o, s : RxBelow(l, o, s) => (h.origin = o => h.seq < s)
      BY <1>2, <1>3 DEF RxBelow
    <2>2. \A o \in B[l] : o \in Node
      OBVIOUS
    <2> QED
      BY <1>0, <1>1, <1>8, <1>9, <2>1, <2>2 DEF LinkSeen, RxSeen
  <1> QED
    BY <1>0, <1>1, <1>12, <1>13, <1>14, <1>15, <1>16, <1>17, <1>18, <1>19 DEF OrderInv, NoPush

\* The relay moves a member's oldest frame behind those of the other members.
LEMMA BroadcastInOrder ==
  ASSUME NEW B \in [Link -> SUBSET Node], Branches(B), OrderInv(B), TypeInv, TreeInv(B),
         NEW l \in Link, RelayBroadcast(l)
  PROVE  OrderInv(B)'
  <1> DEFINE h == Head(net[l])
  <1>0. /\ RxSorted /\ NetSorted /\ RxClear /\ NetClear /\ WatchClear /\ JobClear
        /\ JobSeen /\ RxSeen /\ LinkSeen(B) /\ NoPush /\ RxT /\ NetT /\ JobT
        /\ RxB(B) /\ NetB(B) /\ JobB(B)
    BY DEF OrderInv, TypeInv, TreeInv
  <1>1. /\ l[2] = Relay /\ l[1] \in Node /\ UNCHANGED <<rx, seen, jpc, jclip, wpc, wclip, ppc>>
        /\ net[l] \in Seq(Clip) /\ net[l] # << >>
    BY <1>0 DEF RelayBroadcast, nodeVars, watchVars, pushVars, jobVars, NetT
  <1>2. h = net[l][1] /\ 1 \in DOMAIN net[l] /\ h \in Clip /\ h.origin \in B[l]
    BY <1>0, <1>1, HeadOfQueue DEF NetB
  <1>3. /\ \A i \in DOMAIN Tail(net[l]) : /\ i + 1 \in DOMAIN net[l] /\ 1 < i + 1
                                          /\ Tail(net[l])[i] = net[l][i + 1]
        /\ \A i, j \in DOMAIN Tail(net[l]) : i < j => i + 1 < j + 1
    BY <1>1, TailOfQueue
  <1> HIDE DEF h
  <1>4. net'[l] = Tail(net[l])
    BY DEF RelayBroadcast
  <1>5. ASSUME NEW k \in Link, k # l
        PROVE  \/ net'[k] = net[k]
               \/ /\ k \in Reach(l) /\ k[1] = Relay /\ k[2] \in Node
                  /\ net'[k] = Append(net[k], h)
    <2>1. CASE ToOthers(l, k)
      BY <1>1, <1>5, <2>1 DEF RelayBroadcast, ToOthers, Reach, h
    <2>2. CASE ~ToOthers(l, k)
      BY <1>5, <2>2 DEF RelayBroadcast
    <2> QED
      BY <2>1, <2>2
  <1>6. ASSUME NEW k \in Link, NEW i \in DOMAIN net'[k]
        PROVE  \/ k # l /\ i \in DOMAIN net[k] /\ net'[k][i] = net[k][i]
               \/ k = l /\ i \in DOMAIN Tail(net[l]) /\ net'[k][i] = net[l][i + 1]
               \/ /\ k # l /\ k \in Reach(l) /\ k[1] = Relay /\ k[2] \in Node
                  /\ net'[k] = Append(net[k], h) /\ net'[k][i] = h /\ i = Len(net[k]) + 1
    <2>1. CASE k = l
      BY <1>3, <1>4, <1>6, <2>1
    <2>2. CASE k # l /\ net'[k] = net[k]
      BY <1>6, <2>2
    <2>3. CASE k # l /\ net'[k] # net[k]
      <3>1. net[k] \in Seq(Clip)
        BY <1>0 DEF NetT
      <3>2. k \in Reach(l) /\ k[1] = Relay /\ k[2] \in Node /\ net'[k] = Append(net[k], h)
        BY <1>5, <2>3
      <3>3. \/ i \in DOMAIN net[k] /\ net'[k][i] = net[k][i]
            \/ i = Len(net[k]) + 1 /\ net'[k][i] = h
        BY <1>2, <1>6, <3>1, <3>2
      <3> QED
        BY <2>3, <3>2, <3>3
    <2> QED
      BY <2>1, <2>2, <2>3
  <1>7. ASSUME NEW k \in Link, NEW o, NEW s, NetBelow(k, o, s),
               k # l /\ k \in Reach(l) => (h.origin = o => h.seq < s)
        PROVE  NetBelow(k, o, s)'
    <2> SUFFICES ASSUME NEW i \in DOMAIN net'[k] PROVE net'[k][i].origin = o => net'[k][i].seq < s
      BY DEF NetBelow
    <2> QED
      BY <1>3, <1>6, <1>7 DEF NetBelow
  <1>8. \A k \in Link : \A o, s : SeenBelow(k, o, s) => SeenBelow(k, o, s)'
    BY <1>1 DEF SeenBelow
  <1>9. ASSUME NEW k \in Link, NEW o \in B[k], NEW s, k[2] = Relay,
               k = l => (h.origin = o => h.seq < s)
        PROVE  h.origin = o => h.seq < s
    BY <1>1, <1>2, <1>9 DEF Branches
  <1>10. ASSUME NEW k \in Link, k[1] \in Node, NEW o \in B[k], NEW s, Clear(k, o, s)
         PROVE  Clear(k, o, s)'
    <2> SUFFICES ASSUME NEW m \in Reach(k) PROVE NetBelow(m, o, s)' /\ SeenBelow(m, o, s)'
      BY DEF Clear, Reach
    <2>1. m \in Link /\ NetBelow(m, o, s) /\ SeenBelow(m, o, s)
      BY <1>10 DEF Clear, Reach
    <2>2. ASSUME m # l, m \in Reach(l) PROVE h.origin = o => h.seq < s
      <3>1. m[1] = Relay /\ k # m /\ k[2] = Relay
        BY <1>10, <2>2 DEF Reach, ToOthers
      <3>2. k = l => (h.origin = o => h.seq < s)
        BY <1>2, <1>10 DEF Clear, Reach, NetBelow
      <3> QED
        BY <1>9, <3>1, <3>2
    <2> QED
      BY <1>7, <1>8, <2>1, <2>2
  <1>11. NetSorted'
    <2> SUFFICES ASSUME NEW k \in Link, NEW i \in DOMAIN net'[k], NEW j \in DOMAIN net'[k],
                        i < j, net'[k][i].origin = net'[k][j].origin
                 PROVE  net'[k][i].seq < net'[k][j].seq
      BY DEF NetSorted
    <2>1. CASE k = l
      <3>1. i \in DOMAIN Tail(net[l]) /\ j \in DOMAIN Tail(net[l])
        BY <1>4, <2>1
      <3>2. /\ i + 1 \in DOMAIN net[l] /\ j + 1 \in DOMAIN net[l] /\ i + 1 < j + 1
            /\ net'[k][i] = net[l][i + 1] /\ net'[k][j] = net[l][j + 1]
        BY <1>3, <1>4, <2>1, <3>1
      <3> QED
        BY <1>0, <3>2 DEF NetSorted
    <2>2. CASE k # l /\ i \in DOMAIN net[k] /\ j \in DOMAIN net[k]
      <3>1. net[k] \in Seq(Clip)
        BY <1>0 DEF NetT
      <3>2. net'[k][i] = net[k][i] /\ net'[k][j] = net[k][j]
        <4>1. CASE net'[k] = net[k]
          BY <4>1
        <4>2. CASE net'[k] = Append(net[k], h)
          BY <1>2, <2>2, <3>1, <4>2
        <4> QED
          BY <1>5, <2>2, <4>1, <4>2
      <3> QED
        BY <1>0, <2>2, <3>2 DEF NetSorted
    <2>3. CASE k # l /\ ~(i \in DOMAIN net[k] /\ j \in DOMAIN net[k])
      <3>1. net[k] \in Seq(Clip)
        BY <1>0 DEF NetT
      <3>2. k \in Reach(l) /\ net'[k] = Append(net[k], h)
        BY <1>5, <2>3
      <3>3. i \in DOMAIN net[k] /\ net'[k][i] = net[k][i] /\ net'[k][j] = h
        BY <1>2, <2>3, <3>1, <3>2
      <3>4. NetBelow(k, h.origin, h.seq)
        BY <1>0, <1>2, <2>3, <3>2 DEF NetClear
      <3> QED
        BY <3>3, <3>4 DEF NetBelow
    <2> QED
      BY <2>1, <2>2, <2>3
  <1>12. RxSorted'
    BY <1>0, <1>1 DEF RxSorted
  <1>13. RxClear'
    <2> SUFFICES ASSUME NEW k \in Link, NEW i \in DOMAIN rx[k], k[1] \in Node, ~Skips(k, rx[k][i])
                 PROVE  Clear(k, rx[k][i].clip.origin, rx[k][i].clip.seq)'
      BY <1>1 DEF RxClear, Skips
    <2>1. rx[k][i].clip.origin \in B[k]
      BY <1>0 DEF RxB
    <2>2. Clear(k, rx[k][i].clip.origin, rx[k][i].clip.seq)
      BY <1>0 DEF RxClear
    <2> QED
      BY <1>1, <1>10, <2>1, <2>2
  <1>14. NetClear'
    <2> SUFFICES ASSUME NEW k \in Link, NEW i \in DOMAIN net'[k], NEW o, NEW s,
                        o = net'[k][i].origin, s = net'[k][i].seq
                 PROVE  /\ SeenBelow(k, o, s)'
                        /\ \A m \in Reach(k) \ {k} : NetBelow(m, o, s)' /\ SeenBelow(m, o, s)'
      BY DEF NetClear, Reach, SeenBelow, NetBelow
    <2>1. ASSUME NEW i0 \in DOMAIN net[k], net'[k][i] = net[k][i0], k = l => 1 < i0
          PROVE  /\ SeenBelow(k, o, s)'
                 /\ \A m \in Reach(k) \ {k} : NetBelow(m, o, s)' /\ SeenBelow(m, o, s)'
      <3>1. /\ o \in B[k] /\ SeenBelow(k, o, s)
            /\ \A m \in Reach(k) \ {k} : NetBelow(m, o, s) /\ SeenBelow(m, o, s)
        BY <1>0, <2>1 DEF NetClear, NetB
      <3>2. k = l => (h.origin = o => h.seq < s)
        BY <1>0, <1>2, <2>1 DEF NetSorted
      <3>3. ASSUME NEW m \in Reach(k) \ {k} PROVE NetBelow(m, o, s)' /\ SeenBelow(m, o, s)'
        <4>1. m \in Link /\ k[2] = Relay
          BY DEF Reach
        <4>2. h.origin = o => h.seq < s
          BY <1>9, <3>1, <3>2, <4>1
        <4> QED
          BY <1>7, <1>8, <3>1, <4>1, <4>2
      <3> QED
        BY <1>8, <3>1, <3>3
    <2>2. CASE k # l /\ k \in Reach(l) /\ k[1] = Relay /\ k[2] \in Node /\ net'[k][i] = h
      <3>1. SeenBelow(k, o, s)
        BY <1>0, <1>2, <2>2 DEF NetClear
      <3>2. Reach(k) = {k}
        BY <2>2 DEF Reach
      <3> QED
        BY <1>8, <3>1, <3>2
    <2>3. CASE k # l /\ i \in DOMAIN net[k] /\ net'[k][i] = net[k][i]
      BY <2>1, <2>3
    <2>4. CASE k = l /\ i \in DOMAIN Tail(net[l]) /\ net'[k][i] = net[l][i + 1]
      BY <1>3, <2>1, <2>4
    <2> QED
      BY <1>6, <2>2, <2>3, <2>4
  <1>15. \A k \in Link : \A o, s : RxBelow(k, o, s) => RxBelow(k, o, s)'
    BY <1>1 DEF RxBelow
  <1>16. WatchClear'
    <2>1. \A k \in Link : k[1] \in Node => k[1] \in B[k]
      BY DEF Branches
    <2> QED
      BY <1>0, <1>1, <1>10, <1>15, <2>1 DEF WatchClear
  <1>17. JobClear' /\ JobSeen'
    <2>1. \A j, k \in Link : jpc[j] # "idle" /\ k[1] = j[2] => k[1] \in Node
      BY <1>0 DEF JobT
    <2>2. \A j, k \in Link : jpc[j] # "idle" /\ Onward(j, k) => jclip[j].origin \in B[k]
      BY <1>0 DEF JobB, Branches
    <2> QED
      BY <1>0, <1>1, <1>10, <1>15, <2>1, <2>2 DEF JobClear, JobSeen
  <1>18. RxSeen'
    BY <1>0, <1>1, <1>15 DEF RxSeen
  <1>19. LinkSeen(B)'
    <2>1. \A k \in Link : k[1] \in Node /\ k[2] \in Node => net'[k] = net[k]
      BY <1>1, <1>5
    <2>2. \A k \in Link : \A o, s : k[1] \in Node /\ k[2] \in Node /\ NetBelow(k, o, s) => NetBelow(k, o, s)'
      BY <2>1 DEF NetBelow
    <2> QED
      BY <1>0, <1>1, <1>8, <2>2 DEF LinkSeen
  <1> QED
    BY <1>0, <1>1, <1>11, <1>12, <1>13, <1>14, <1>16, <1>17, <1>18, <1>19 DEF OrderInv, NoPush

\* An accepted clip is newer than what the daemon has forwarded of its origin, and
\* older than what is still behind it.
LEMMA AcceptInOrder ==
  ASSUME NEW B \in [Link -> SUBSET Node], Branches(B), OrderInv(B), TypeInv, TreeInv(B),
         NEW j \in Link, ApplyAccept(j)
  PROVE  OrderInv(B)'
  <1> DEFINE n == j[2]
  <1> SUFFICES ASSUME NEW h, h = Head(net[j]), NEW p, p = h.origin PROVE OrderInv(B)'
    OBVIOUS
  <1>0. /\ RxSorted /\ NetSorted /\ RxClear /\ NetClear /\ WatchClear /\ JobClear
        /\ JobSeen /\ RxSeen /\ LinkSeen(B) /\ NoPush /\ RxT /\ NetT /\ JobT /\ CountT
        /\ RxB(B) /\ NetB(B) /\ JobB(B)
    BY DEF OrderInv, TypeInv, TreeInv
  <1>1. /\ n \in Node /\ net[j] \in Seq(Clip) /\ net[j] # << >>
        /\ UNCHANGED <<rx, wpc, wclip, ppc>>
        /\ net' = [net EXCEPT ![j] = Tail(net[j])]
        /\ seen' = [seen EXCEPT ![n][p] = h.seq]
        /\ jpc' = [jpc EXCEPT ![j] = "compare"] /\ jclip' = [jclip EXCEPT ![j] = h]
        /\ h.seq > seen[n][p]
    BY <1>0 DEF ApplyAccept, Accepts, watchVars, pushVars, NetT
  <1>2. h = net[j][1] /\ 1 \in DOMAIN net[j] /\ h \in Clip /\ p \in B[j] /\ p \in Node /\ h.seq \in Nat
    <2>1. h = net[j][1] /\ 1 \in DOMAIN net[j] /\ h \in Clip
      BY <1>1, HeadOfQueue
    <2> QED
      BY <1>0, <2>1 DEF NetB, Clip
  <1>3. /\ \A i \in DOMAIN Tail(net[j]) : /\ i + 1 \in DOMAIN net[j] /\ 1 < i + 1
                                          /\ Tail(net[j])[i] = net[j][i + 1]
        /\ \A i, k \in DOMAIN Tail(net[j]) : i < k => i + 1 < k + 1
    BY <1>1, TailOfQueue
  <1>4. /\ net'[j] = Tail(net[j]) /\ jpc'[j] = "compare" /\ jclip'[j] = h
        /\ \A k \in Link \ {j} : net'[k] = net[k] /\ jpc'[k] = jpc[k] /\ jclip'[k] = jclip[k]
    BY <1>0, <1>1 DEF NetT, JobT
  <1>5. /\ seen'[n][p] = h.seq
        /\ \A m, o \in Node : m # n \/ o # p => seen'[m][o] = seen[m][o]
        /\ \A m, o \in Node : seen[m][o] <= seen'[m][o]
        /\ \A m, o \in Node : seen[m][o] \in Nat /\ seen'[m][o] \in Nat
    <2>1. seen \in [Node -> [Node -> Nat]]
      BY <1>0 DEF CountT
    <2>2. \A m, o \in Node : seen'[m][o] = IF m = n /\ o = p THEN h.seq ELSE seen[m][o]
      BY <1>1, <1>2, <2>1
    <2>3. \A m, o \in Node : seen[m][o] \in Nat
      BY <2>1
    <2> HIDE DEF n
    <2> QED
      BY <1>1, <1>2, <2>2, <2>3
  <1> HIDE DEF n
  <1>6. /\ \A k \in Link : k # j /\ k[2] = n => p \notin B[k]
        /\ \A k \in Link : k[1] = n => k # j
    BY <1>1, <1>2 DEF Branches, n
  <1>7. \A k \in Link : \A o, s : NetBelow(k, o, s) => NetBelow(k, o, s)'
    <2> SUFFICES ASSUME NEW k \in Link, NEW o, NEW s, NetBelow(k, o, s), NEW i \in DOMAIN net'[k]
                 PROVE  net'[k][i].origin = o => net'[k][i].seq < s
      BY DEF NetBelow
    <2>1. CASE k = j
      <3>1. i + 1 \in DOMAIN net[j] /\ net'[k][i] = net[j][i + 1]
        BY <1>3, <1>4, <2>1
      <3> QED
        BY <2>1, <3>1 DEF NetBelow
    <2>2. CASE k # j
      BY <1>4, <2>2 DEF NetBelow
    <2> QED
      BY <2>1, <2>2
  <1>8. ASSUME NEW k \in Link, NEW o \in B[k], NEW s, SeenBelow(k, o, s),
               k = j => (o = p => h.seq < s)
        PROVE  SeenBelow(k, o, s)'
    <2> SUFFICES ASSUME k[2] \in Node PROVE seen'[k[2]][o] < s
      BY DEF SeenBelow
    <2>1. o \in Node /\ seen[k[2]][o] < s
      BY <1>8 DEF SeenBelow
    <2>2. CASE k[2] = n /\ o = p
      BY <1>5, <1>6, <1>8, <2>2
    <2>3. CASE ~(k[2] = n /\ o = p)
      BY <1>5, <2>1, <2>3
    <2> QED
      BY <2>2, <2>3
  <1>9. ASSUME NEW k \in Link, NEW o \in B[k], NEW s, NetBelow(k, o, s) /\ SeenBelow(k, o, s)
        PROVE  NetBelow(k, o, s)' /\ SeenBelow(k, o, s)'
    <2>1. k = j => (o = p => h.seq < s)
      BY <1>2, <1>9 DEF NetBelow
    <2> QED
      BY <1>7, <1>8, <1>9, <2>1
  <1>10. ASSUME NEW k \in Link, NEW o \in B[k], NEW s, Clear(k, o, s)
         PROVE  Clear(k, o, s)'
    <2> SUFFICES ASSUME NEW m \in Reach(k) PROVE NetBelow(m, o, s)' /\ SeenBelow(m, o, s)'
      BY DEF Clear, Reach
    <2>1. m \in Link /\ o \in B[m]
      BY ReachIsOfBranch
    <2>2. NetBelow(m, o, s) /\ SeenBelow(m, o, s)
      BY <1>10 DEF Clear
    <2> QED
      BY <1>9, <2>1, <2>2
  <1>11. NetSorted'
    <2> SUFFICES ASSUME NEW k \in Link, NEW i \in DOMAIN net'[k], NEW i2 \in DOMAIN net'[k],
                        i < i2, net'[k][i].origin = net'[k][i2].origin
                 PROVE  net'[k][i].seq < net'[k][i2].seq
      BY DEF NetSorted
    <2>1. CASE k = j
      <3>1. i \in DOMAIN Tail(net[j]) /\ i2 \in DOMAIN Tail(net[j])
        BY <1>4, <2>1
      <3>2. /\ i + 1 \in DOMAIN net[j] /\ i2 + 1 \in DOMAIN net[j] /\ i + 1 < i2 + 1
            /\ net'[k][i] = net[j][i + 1] /\ net'[k][i2] = net[j][i2 + 1]
        BY <1>3, <1>4, <2>1, <3>1
      <3> QED
        BY <1>0, <3>2 DEF NetSorted
    <2>2. CASE k # j
      BY <1>0, <1>4, <2>2 DEF NetSorted
    <2> QED
      BY <2>1, <2>2
  <1>12. RxSorted'
    BY <1>0, <1>1 DEF RxSorted
  <1>13. RxClear'
    <2> SUFFICES ASSUME NEW k \in Link, NEW i \in DOMAIN rx[k], k[1] \in Node, ~Skips(k, rx[k][i])
                 PROVE  Clear(k, rx[k][i].clip.origin, rx[k][i].clip.seq)'
      BY <1>1 DEF RxClear, Skips
    <2>1. rx[k][i].clip.origin \in B[k]
      BY <1>0 DEF RxB
    <2>2. Clear(k, rx[k][i].clip.origin, rx[k][i].clip.seq)
      BY <1>0 DEF RxClear
    <2> QED
      BY <1>1, <1>10, <2>1, <2>2
  <1>14. NetClear'
    <2> SUFFICES ASSUME NEW k \in Link, NEW i \in DOMAIN net'[k], NEW o, NEW s,
                        o = net'[k][i].origin, s = net'[k][i].seq
                 PROVE  /\ SeenBelow(k, o, s)'
                        /\ \A m \in Reach(k) \ {k} : NetBelow(m, o, s)' /\ SeenBelow(m, o, s)'
      BY DEF NetClear, Reach, SeenBelow, NetBelow
    <2>1. PICK i0 \in DOMAIN net[k] : net'[k][i] = net[k][i0] /\ (k = j => 1 < i0)
      <3>1. CASE k = j
        <4>1. i + 1 \in DOMAIN net[j] /\ 1 < i + 1 /\ net'[k][i] = net[j][i + 1]
          BY <1>3, <1>4, <3>1
        <4> QED
          BY <3>1, <4>1
      <3>2. CASE k # j
        BY <1>4, <3>2
      <3> QED
        BY <3>1, <3>2
    <2>2. /\ o \in B[k] /\ SeenBelow(k, o, s)
          /\ \A m \in Reach(k) \ {k} : NetBelow(m, o, s) /\ SeenBelow(m, o, s)
      BY <1>0, <2>1 DEF NetClear, NetB
    <2>3. k = j => (o = p => h.seq < s)
      BY <1>0, <1>2, <2>1 DEF NetSorted
    <2>4. ASSUME NEW m \in Reach(k) \ {k} PROVE NetBelow(m, o, s)' /\ SeenBelow(m, o, s)'
      <3>1. m \in Link /\ o \in B[m]
        BY <2>2, ReachIsOfBranch
      <3> QED
        BY <1>9, <2>2, <3>1
    <2> QED
      BY <1>8, <2>2, <2>3, <2>4
  <1>15. \A k \in Link : \A o, s : RxBelow(k, o, s) => RxBelow(k, o, s)'
    BY <1>1 DEF RxBelow
  <1>16. WatchClear'
    <2>1. \A k \in Link : k[1] \in Node => k[1] \in B[k]
      BY DEF Branches
    <2> QED
      BY <1>0, <1>1, <1>10, <1>15, <2>1 DEF WatchClear
  <1>17. JobClear'
    <2> SUFFICES ASSUME NEW i \in Link, NEW k \in Link, jpc'[i] # "idle", k[1] = i[2]
                 PROVE  /\ RxBelow(k, jclip[i].origin, jclip[i].seq)'
                        /\ Onward(i, k) => Clear(k, jclip[i].origin, jclip[i].seq)'
      BY DEF JobClear
    <2>1. CASE i # j
      <3>1. jpc[i] # "idle" /\ jclip'[i] = jclip[i]
        BY <1>4, <2>1
      <3>2. Onward(i, k) => jclip[i].origin \in B[k]
        BY <1>0, <3>1 DEF JobB, Branches
      <3>3. /\ RxBelow(k, jclip[i].origin, jclip[i].seq)
            /\ Onward(i, k) => Clear(k, jclip[i].origin, jclip[i].seq)
        BY <1>0, <3>1 DEF JobClear
      <3> QED
        BY <1>10, <1>15, <3>1, <3>2, <3>3
    <2>2. CASE i = j
      <3>1. jclip'[i] = h /\ k[1] = n /\ p # n
        BY <1>1, <1>2, <1>4, <2>2 DEF Branches, n
      <3>2. RxBelow(k, p, seen[n][p] + 1)
        BY <1>0, <1>1, <1>2, <3>1 DEF RxSeen
      <3>3. \A s \in Nat : s < seen[n][p] + 1 => s < h.seq
        BY <1>1, <1>2, <1>5
      <3>4. RxBelow(k, p, h.seq)
        <4>1. \A i2 \in DOMAIN rx[k] : rx[k][i2].clip.seq \in Nat
          BY <1>0, QueuedAreClips
        <4> QED
          BY <3>2, <3>3, <4>1 DEF RxBelow
      <3>5. ASSUME Onward(j, k) PROVE Clear(k, p, h.seq)
        <4>1. k[2] \in Node /\ p \in B[k]
          BY <1>2, <3>5 DEF Onward, Branches
        <4>2. NetBelow(k, p, seen[n][p] + 1) /\ SeenBelow(k, p, seen[n][p] + 1)
          BY <1>0, <1>1, <3>1, <4>1 DEF LinkSeen
        <4>3. \A i2 \in DOMAIN net[k] : net[k][i2].seq \in Nat
          BY <1>0, QueuedAreClips
        <4>4. NetBelow(k, p, h.seq) /\ SeenBelow(k, p, h.seq)
          BY <1>2, <1>5, <3>3, <4>2, <4>3 DEF NetBelow, SeenBelow
        <4>5. Reach(k) = {k}
          BY <4>1 DEF Reach
        <4> QED
          BY <4>4, <4>5 DEF Clear
      <3>6. Onward(j, k) => p \in B[k]
        BY <1>2 DEF Branches
      <3> QED
        BY <1>10, <1>15, <2>2, <3>1, <3>4, <3>5, <3>6
    <2> QED
      BY <2>1, <2>2
  <1>18. JobSeen'
    <2> SUFFICES ASSUME NEW i \in Link, jpc'[i] # "idle"
                 PROVE  jclip'[i].seq <= seen'[i[2]][jclip'[i].origin]
      BY DEF JobSeen
    <2>1. CASE i = j
      BY <1>2, <1>4, <1>5, <2>1 DEF n
    <2>2. CASE i # j
      <3>1. jpc[i] # "idle" /\ jclip'[i] = jclip[i]
        BY <1>4, <2>2
      <3>2. i[2] \in Node /\ jclip[i].origin \in Node /\ jclip[i].seq \in Nat
        BY <1>0, <3>1 DEF JobT, Clip
      <3>3. jclip[i].seq <= seen[i[2]][jclip[i].origin]
        BY <1>0, <3>1 DEF JobSeen
      <3> QED
        BY <1>5, <3>1, <3>2, <3>3
    <2> QED
      BY <2>1, <2>2
  <1>19. ASSUME NEW k \in Link, NEW m \in Node, NEW o \in Node
         PROVE  /\ RxBelow(k, o, seen[m][o] + 1) => RxBelow(k, o, seen'[m][o] + 1)
                /\ NetBelow(k, o, seen[m][o] + 1) => NetBelow(k, o, seen'[m][o] + 1)
                /\ SeenBelow(k, o, seen[m][o] + 1) => SeenBelow(k, o, seen'[m][o] + 1)
    <2>1. /\ \A i \in DOMAIN rx[k] : rx[k][i].clip.seq \in Nat
          /\ \A i \in DOMAIN net[k] : net[k][i].seq \in Nat
      BY <1>0, QueuedAreClips
    <2>2. \A s \in Nat : s < seen[m][o] + 1 => s < seen'[m][o] + 1
      BY <1>5
    <2> QED
      BY <1>5, <2>1, <2>2 DEF RxBelow, NetBelow, SeenBelow
  <1>20. RxSeen'
    <2> SUFFICES ASSUME NEW k \in Link, NEW o \in Node, NEW s, k[1] \in Node, o # k[1],
                        s = seen'[k[1]][o] + 1
                 PROVE  RxBelow(k, o, s)'
      BY DEF RxSeen, RxBelow
    <2> QED
      BY <1>0, <1>15, <1>19 DEF RxSeen
  <1>21. LinkSeen(B)'
    <2> SUFFICES ASSUME NEW k \in Link, NEW o \in B[k], NEW s, k[1] \in Node, k[2] \in Node,
                        o # k[1], s = seen'[k[1]][o] + 1
                 PROVE  NetBelow(k, o, s)' /\ SeenBelow(k, o, s)'
      BY DEF LinkSeen, NetBelow, SeenBelow
    <2>1. o \in Node
      OBVIOUS
    <2>2. NetBelow(k, o, seen[k[1]][o] + 1) /\ SeenBelow(k, o, seen[k[1]][o] + 1)
      BY <1>0 DEF LinkSeen
    <2> QED
      BY <1>9, <1>19, <2>1, <2>2
  <1>22. NoPush'
    BY <1>0, <1>1 DEF NoPush
  <1> QED
    BY <1>11, <1>12, <1>13, <1>14, <1>16, <1>17, <1>18, <1>20, <1>21, <1>22 DEF OrderInv

\* No frame in flight to a daemon is its own clip or one it has accepted before.
FramesAreNew ==
  \A l \in Link : l[2] \in Node => \A i \in DOMAIN net[l] : Accepts(l[2], net[l][i])

\* The order, on a tree, makes every frame new where it arrives.
LEMMA OrderedFramesAreNew ==
  ASSUME NEW B \in [Link -> SUBSET Node], Branches(B), TreeInv(B), OrderInv(B), TypeInv
  PROVE  FramesAreNew
  <1> SUFFICES ASSUME NEW l \in Link, l[2] \in Node, NEW i \in DOMAIN net[l]
               PROVE  Accepts(l[2], net[l][i])
    BY DEF FramesAreNew
  <1>1. net[l][i].origin \in Node /\ net[l][i].seq \in Nat
    BY QueuedAreClips DEF TypeInv
  <1>2. net[l][i].origin # l[2]
    BY DEF TreeInv, NetB, Branches
  <1>3. seen[l[2]][net[l][i].origin] < net[l][i].seq
    BY DEF OrderInv, NetClear, SeenBelow
  <1>4. seen[l[2]][net[l][i].origin] \in Nat
    BY <1>1 DEF TypeInv, CountT
  <1> QED
    BY <1>1, <1>2, <1>3, <1>4 DEF Accepts

\* Every step of daemons that have one originator each keeps the order.
LEMMA StepOrder ==
  ASSUME NEW B \in [Link -> SUBSET Node], Branches(B), OneOriginator, TypeInv, SeqInv,
         TreeInv(B), OrderInv(B), [Next]_vars
  PROVE  OrderInv(B)'
  <1> USE DEF nodeVars, watchVars, pushVars, jobVars, wireVars, histVars
  <1>0. /\ WatchT /\ JobT /\ RxT /\ NetT /\ CountT /\ NoPush /\ JobB(B) /\ WatchClear /\ JobClear
        /\ JobSeen /\ \A n \in Node : ppc[n] = "idle"
    BY DEF TypeInv, OrderInv, TreeInv, NoPush
  <1>1. CASE UNCHANGED vars
    BY <1>0, <1>1, FewerInOrder DEF vars
  <1>2. ASSUME NEW n \in Node,
               \/ WatchPoll(n) \/ WatchSettle(n) \/ WatchRead(n) \/ WatchOversize(n)
               \/ WatchDrop(n) \/ WatchPass(n) \/ WatchAdd(n) \/ WatchPackFails(n) \/ SavePeers(n)
        PROVE  OrderInv(B)'
    <2>1. /\ UNCHANGED <<seen, rx, net, jpc, jclip, ppc>>
          /\ \A m \in Node : wpc'[m] = "emit" => wpc[m] = "emit" /\ wclip'[m] = wclip[m]
      BY <1>0, <1>2 DEF WatchPoll, WatchSettle, WatchRead, WatchOversize, WatchDrop, WatchPass,
                        WatchAdd, WatchPackFails, NextSeqFails, SavePeers, WatchT
    <2> QED
      BY <1>0, <2>1, FewerInOrder
  <1>3. ASSUME NEW n \in Node, WatchPack(n) PROVE OrderInv(B)'
    <2>1. /\ UNCHANGED <<seen, rx, net, jpc, jclip, ppc>>
          /\ wpc' = [wpc EXCEPT ![n] = "emit"] /\ wclip' = [wclip EXCEPT ![n].seq = seq[n] + 1]
          /\ wpc[n] = "pack" /\ wclip[n] \in Clip /\ seq[n] \in Nat
      BY <1>0, <1>3 DEF WatchPack, NextSeq, WatchT, CountT
    <2>2. wclip'[n].seq = seq[n] + 1
      BY <1>0, <2>1, Numbered DEF WatchT
    <2>3. \A m \in Node \ {n} : wpc'[m] = wpc[m] /\ wclip'[m] = wclip[m]
      BY <1>0, <2>1 DEF WatchT
    <2>4. \A l \in Link : /\ RxBelow(l, n, seq[n] + 1) /\ NetBelow(l, n, seq[n] + 1)
                          /\ SeenBelow(l, n, seq[n] + 1)
      BY NextIsAbove
    <2>5. /\ \A l \in Link : \A o, s : RxBelow(l, o, s) => RxBelow(l, o, s)'
          /\ \A l \in Link : \A o, s : Clear(l, o, s) => Clear(l, o, s)'
      BY <2>1 DEF RxBelow, Clear, Reach, NetBelow, SeenBelow
    <2>6. WatchClear'
      <3> SUFFICES ASSUME NEW l \in Link, l[1] \in Node, wpc'[l[1]] = "emit", NEW s, s = wclip'[l[1]].seq
                   PROVE  Clear(l, l[1], s)' /\ RxBelow(l, l[1], s)'
        BY DEF WatchClear, Clear, Reach, RxBelow, NetBelow, SeenBelow
      <3>1. CASE l[1] = n
        <4>1. Clear(l, n, s)
          BY <2>2, <2>4, <3>1 DEF Clear, Reach
        <4> QED
          BY <2>2, <2>4, <2>5, <3>1, <4>1
      <3>2. CASE l[1] # n
        BY <1>0, <2>3, <2>5, <3>2 DEF WatchClear
      <3> QED
        BY <3>1, <3>2
    <2>7. /\ RxSorted' /\ NetSorted' /\ JobSeen' /\ RxSeen' /\ LinkSeen(B)' /\ NoPush'
      BY <2>1 DEF OrderInv, RxSorted, NetSorted, JobSeen, RxSeen, LinkSeen, NoPush,
                  RxBelow, NetBelow, SeenBelow
    <2>8. RxClear'
      <3>1. RxClear
        BY DEF OrderInv
      <3> QED
        BY <2>1, <3>1 DEF RxClear, Clear, Reach, NetBelow, SeenBelow
    <2>9. NetClear'
      BY <2>1 DEF OrderInv, NetClear, Reach, NetBelow, SeenBelow
    <2>10. JobClear'
      BY <2>1 DEF OrderInv, JobClear, Clear, Reach, RxBelow, NetBelow, SeenBelow
    <2> QED
      BY <2>6, <2>7, <2>8, <2>9, <2>10 DEF OrderInv
  <1>4. ASSUME NEW n \in Node, WatchEmit(n) PROVE OrderInv(B)'
    <2>1. /\ wclip[n] \in Clip /\ wclip[n].origin = n /\ wpc[n] = "emit"
          /\ rx' = Emitted(n, wclip[n], NoSkip) /\ UNCHANGED <<net, seen, ppc, jpc, jclip>>
          /\ NoSkip \in Node \cup {Relay}
      BY <1>0, <1>4 DEF WatchEmit, WatchT, NoSkip
    <2>2. \A m \in Node : wpc'[m] = "emit" => wpc[m] = "emit" /\ wclip'[m] = wclip[m] /\ m # n
      BY <1>0, <1>4 DEF WatchEmit, WatchT
    <2>3. \A l \in Link : l[1] = n => Clear(l, n, wclip[n].seq) /\ RxBelow(l, n, wclip[n].seq)
      BY <1>0, <2>1 DEF WatchClear
    <2>4. \A j \in Link : jpc'[j] # "idle" =>
            jpc[j] # "idle" /\ jclip'[j] = jclip[j] /\ (j[2] = n => wclip[n].origin # jclip[j].origin)
      BY <1>0, <2>1 DEF JobB, Branches
    <2>5. /\ \A l \in Link : l[1] = n => RxBelow(l, wclip[n].origin, wclip[n].seq)
          /\ \A l \in Link : l[1] = n /\ ~Skips(l, [clip |-> wclip[n], skip |-> NoSkip])
                             => Clear(l, wclip[n].origin, wclip[n].seq)
      BY <2>1, <2>3
    <2> QED
      <3> DEFINE c == wclip[n]
      <3>1. /\ c \in Clip /\ (c.origin # n => c.seq <= seen[n][c.origin])
            /\ \A m \in Node : wpc'[m] = "emit" =>
                 wpc[m] = "emit" /\ wclip'[m] = wclip[m] /\ (m = n => c.origin # n)
            /\ rx' = Emitted(n, c, NoSkip) /\ UNCHANGED <<net, seen, ppc>>
        BY <2>1, <2>2
      <3>2. /\ \A j \in Link : jpc'[j] # "idle" =>
                 jpc[j] # "idle" /\ jclip'[j] = jclip[j] /\ (j[2] = n => c.origin # jclip[j].origin)
            /\ \A l \in Link : l[1] = n => RxBelow(l, c.origin, c.seq)
            /\ \A l \in Link : l[1] = n /\ ~Skips(l, [clip |-> c, skip |-> NoSkip])
                               => Clear(l, c.origin, c.seq)
        BY <2>4, <2>5
      <3> HIDE DEF c
      <3> QED
        BY <2>1, <3>1, <3>2, EmitInOrder
  <1>5. ASSUME NEW j \in Link, ApplyEmit(j) PROVE OrderInv(B)'
    <2>1. /\ jpc[j] = "emit" /\ jclip[j] \in Clip /\ j[2] \in Node
          /\ rx' = Emitted(j[2], jclip[j], Ingress(j, jclip[j]))
          /\ UNCHANGED <<net, seen, ppc, wpc, wclip>>
      BY <1>0, <1>5 DEF ApplyEmit, JobT
    <2>2. Ingress(j, jclip[j]) \in Node \cup {Relay}
      BY <2>1 DEF Ingress, Clip
    <2>3. \A l \in Link : l[1] = j[2] =>
             /\ RxBelow(l, jclip[j].origin, jclip[j].seq)
             /\ Onward(j, l) => Clear(l, jclip[j].origin, jclip[j].seq)
      BY <1>0, <2>1 DEF JobClear
    <2>4. \A l \in Link : l[1] = j[2] /\ ~Skips(l, [clip |-> jclip[j], skip |-> Ingress(j, jclip[j])])
                            => Clear(l, jclip[j].origin, jclip[j].seq)
      BY <2>1, <2>3, UnskippedIsOnward
    <2>5. jclip[j].seq <= seen[j[2]][jclip[j].origin] /\ jclip[j].origin # j[2]
      BY <1>0, <2>1 DEF JobSeen, JobB, Branches
    <2>6. \A k \in Link : jpc'[k] # "idle" =>
            jpc[k] # "idle" /\ jclip'[k] = jclip[k] /\ (k[2] = j[2] => jclip[j].origin # jclip[k].origin)
      <3>1. \A k \in Link : jpc'[k] # "idle" => k # j /\ jpc[k] # "idle" /\ jclip'[k] = jclip[k]
        BY <1>0, <1>5 DEF ApplyEmit, JobT
      <3> QED
        BY <1>0, <2>1, <3>1 DEF JobB, Branches
    <2> QED
      BY <2>1, <2>2, <2>3, <2>4, <2>5, <2>6, EmitInOrder
  <1>6. ASSUME NEW n \in Node, NEW h \in Hash, UserCopy(n, h) \/ Expire(n, h)
        PROVE  OrderInv(B)'
    <2>1. UNCHANGED <<seen, rx, net, jpc, jclip, ppc, wpc, wclip>>
      BY <1>6 DEF UserCopy, Expire
    <2> QED
      BY <1>0, <2>1, FewerInOrder
  <1>7. ASSUME NEW l \in Link,
               \/ ApplyCompare(l) \/ ApplySuppress(l) \/ ApplySet(l) \/ ApplyStored(l) \/ Reconnect(l)
        PROVE  OrderInv(B)'
    <2>1. /\ UNCHANGED <<seen, rx, net, jclip, ppc, wpc, wclip>>
          /\ \A k \in Link : jpc'[k] # "idle" => jpc[k] # "idle"
      BY <1>0, <1>7 DEF ApplyCompare, ApplySuppress, ApplySet, ApplyStored, Reconnect, JobT
    <2> QED
      BY <1>0, <2>1, FewerInOrder
  <1>8. ASSUME NEW l \in Link, ApplySetFails(l) \/ Drop(l) PROVE OrderInv(B)'
    <2>1. /\ UNCHANGED <<seen, ppc, wpc, wclip>>
          /\ rx' = Cleared(rx, Closed(l)) /\ net' = Cleared(net, Closed(l))
          /\ \A k \in Link : jpc'[k] # "idle" => jpc[k] # "idle" /\ jclip'[k] = jclip[k]
      BY <1>0, <1>8 DEF ApplySetFails, Drop, JobT
    <2>2. \A k \in Link : rx'[k] \in {rx[k], << >>} /\ net'[k] \in {net[k], << >>}
      BY <2>1 DEF Cleared
    <2> QED
      BY <1>0, <2>1, <2>2, FewerInOrder
  <1>9. ASSUME NEW l \in Link, ApplyKnown(l) PROVE FALSE
    <2>1. FramesAreNew
      BY OrderedFramesAreNew
    <2>2. l[2] \in Node /\ net[l] \in Seq(Clip) /\ net[l] # << >> /\ ~Accepts(l[2], Head(net[l]))
      BY <1>0, <1>9 DEF ApplyKnown, NetT
    <2>3. Head(net[l]) = net[l][1] /\ 1 \in DOMAIN net[l]
      BY <2>2, HeadOfQueue
    <2> QED
      BY <2>1, <2>2, <2>3 DEF FramesAreNew
  <1>10. ASSUME NEW n \in Node, Push(n) \/ Restart(n) \/ \E h \in Hash : PushStart(n, h)
         PROVE  FALSE
    BY <1>0, <1>10 DEF Push, PushSet, PushSetFails, PushStored, PushPack, PushPackFails, PushEmit,
                       PushStart, Restart, OneOriginator
  <1> QED
    <2>1. CASE Next
      BY <2>1, <1>2, <1>3, <1>4, <1>5, <1>6, <1>7, <1>8, <1>9, <1>10, ForwardInOrder,
         BroadcastInOrder, AcceptInOrder DEF Next, Watcher, Apply, User
    <2> QED
      BY <1>1, <2>1

\* On a tree whose daemons originate clips from their watchers only and do not
\* restart, every frame that reaches a daemon is new to it.
THEOREM FramesArriveOnce == ASSUME Tree, OneOriginator PROVE Spec => []FramesAreNew
  <1>1. PICK B \in [Link -> SUBSET Node] : Branches(B)
    BY DEF Tree
  <1>2. TypeInv /\ TreeInv(B) /\ OrderInv(B) => FramesAreNew
    BY <1>1, OrderedFramesAreNew
  <1>3. Init => TypeInv /\ SeqInv /\ TreeInv(B) /\ OrderInv(B)
    BY InitTypes, InitSeq, InitTree, InitOrder
  <1>4. TypeInv /\ SeqInv /\ TreeInv(B) /\ OrderInv(B) /\ [Next]_vars
          => TypeInv' /\ SeqInv' /\ TreeInv(B)' /\ OrderInv(B)'
    BY <1>1, StepTypes, StepSeq, StepTree, StepOrder
  <1> QED
    BY <1>2, <1>3, <1>4, PTL DEF Spec

-----------------------------------------------------------------------------
(* One writer *)

\* What the writer's daemon shows, originates and has issued is its user's; the
\* others originate nothing.
OwnW(w) ==
  /\ clip[w] \in copied[w] \cup {Empty}
  /\ wpc[w] \in {"check", "add", "pack", "emit"} => wclip[w].hash \in copied[w]
  /\ ppc[w] # "idle" => pclip[w].hash \in copied[w]
  /\ \A c \in issued : c.origin = w /\ c.hash \in copied[w]
OthersW(w) ==
  \A n \in Node \ {w} : copied[n] = {} /\ wpc[n] \in {"idle", "debounce", "check"} /\ ppc[n] = "idle"

\* What another watcher has read is suppressed when it looks it up.
CheckedW(w) == \A n \in Node \ {w} : wpc[n] = "check" => Has(sup[n], wclip[n].hash)

\* The hash added last to a ring.
Newest(g) == g.ring[Len(g.ring)]

\* The clip a session is setting is the last of the ring, and so is what the
\* clipboard shows, but while a session is setting another clip: then it is the
\* last but one.
RingJ == \A l \in Link : jpc[l] \in {"set", "stored"} =>
           sup[l[2]].ring # << >> /\ Newest(sup[l[2]]) = jclip[l].hash
RingE(w) == \A n \in Node \ {w} : clip[n] # Empty =>
              /\ sup[n].ring # << >>
              /\ \/ clip[n] = Newest(sup[n])
                 \/ /\ Len(sup[n].ring) > 1
                    /\ clip[n] = sup[n].ring[Len(sup[n].ring) - 1]
                    /\ \E l \in Link : l[2] = n /\ jpc[l] = "set"

\* What a session found there is still there when it suppresses it.
BoardJ == \A l \in Link : jpc[l] = "present" => clip[l[2]] = jclip[l].hash

RingInv(w) == OwnW(w) /\ OthersW(w) /\ CheckedW(w) /\ RingJ /\ RingE(w) /\ BoardJ

\* An added hash is the last of the ring, and what was last is the last but one.
LEMMA KeepLastEnds ==
  ASSUME NEW S, NEW s \in Seq(S), NEW x \in S, NEW cap \in Nat, cap >= 2
  PROVE  LET r == KeepLast(s, x, cap) IN
         /\ r # << >> /\ r[Len(r)] = x
         /\ s # << >> => Len(r) > 1 /\ r[Len(r) - 1] = s[Len(s)]
  <1>1. CASE KeepLast(s, x, cap) = Append(s, x)
    <2>1. Len(Append(s, x)) = Len(s) + 1 /\ Append(s, x)[Len(s) + 1] = x
      OBVIOUS
    <2>2. s # << >> => Len(s) >= 1 /\ Append(s, x)[Len(s)] = s[Len(s)]
      OBVIOUS
    <2> QED
      BY <1>1, <2>1, <2>2
  <1>2. CASE ~(Len(s) < cap)
    <2>1. KeepLast(s, x, cap) = Append(Tail(s), x) /\ Len(s) >= 2 /\ s # << >>
      BY <1>2 DEF KeepLast
    <2>2. Tail(s) \in Seq(S) /\ Len(Tail(s)) = Len(s) - 1
      BY <2>1
    <2>3. Len(s) - 1 \in DOMAIN Tail(s) /\ Tail(s)[Len(s) - 1] = s[Len(s)]
      BY <2>1, <2>2
    <2> DEFINE t == Tail(s)
    <2> HIDE DEF t
    <2>4. t \in Seq(S) /\ Len(t) = Len(s) - 1 /\ t[Len(s) - 1] = s[Len(s)]
      BY <2>2, <2>3 DEF t
    <2>5. Len(Append(t, x)) = Len(s) /\ Append(t, x)[Len(s)] = x /\ Append(t, x)[Len(s) - 1] = s[Len(s)]
      BY <2>1, <2>4
    <2> QED
      BY <2>1, <2>5 DEF t
  <1>3. CASE Len(s) < cap
    BY <1>1, <1>3 DEF KeepLast
  <1> QED
    BY <1>2, <1>3

\* The same of a guard.
LEMMA AddEnds ==
  ASSUME NEW g \in Guard, NEW h \in Hash, RingMax >= 2
  PROVE  /\ Add(g, h).ring # << >> /\ Newest(Add(g, h)) = h
         /\ g.ring # << >> => /\ Len(Add(g, h).ring) > 1
                              /\ Add(g, h).ring[Len(Add(g, h).ring) - 1] = Newest(g)
  <1>1. g.ring \in Seq(Hash) /\ Add(g, h).ring = KeepLast(g.ring, h, RingMax) /\ RingMax \in Nat
    BY RingMaxAssumption DEF Guard, Add
  <1> QED
    BY <1>1, KeepLastEnds DEF Newest

\* What is in the ring is suppressed, whatever its age.
LEMMA RingIsSuppressed ==
  ASSUME TypeInv, NEW w, RingE(w), NEW n \in Node \ {w}, clip[n] # Empty
  PROVE  Has(sup[n], clip[n])
  <1>1. sup[n].ring \in Seq(Hash) /\ sup[n].ring # << >>
    BY DEF TypeInv, GuardT, Guard, RingE
  <1>2. Len(sup[n].ring) \in DOMAIN sup[n].ring
    BY <1>1
  <1>3. Len(sup[n].ring) > 1 => Len(sup[n].ring) - 1 \in DOMAIN sup[n].ring
    BY <1>1
  <1> QED
    BY <1>2, <1>3 DEF RingE, Newest, Has

\* A clip of the writer is applied by one session of a daemon at a time, and never
\* by the writer's own.
LEMMA OneJob ==
  ASSUME NEW B, Branches(B), JobB(B), JobI, NEW w, OwnW(w), NEW l \in Link, jpc[l] # "idle"
  PROVE  /\ jclip[l] \in issued /\ jclip[l].origin = w /\ w \in B[l] /\ l[2] # w
         /\ \A k \in Link : k[2] = l[2] /\ jpc[k] # "idle" => k = l
  <1>1. \A k \in Link : jpc[k] # "idle" => jclip[k] \in issued /\ jclip[k].origin = w /\ w \in B[k]
    BY DEF JobB, JobI, OwnW
  <1> QED
    BY <1>1 DEF Branches

\* A hub that has sent nothing has one writer.
LEMMA InitRing == ASSUME NEW w \in Node PROVE Init => RingInv(w)
  BY DEF Init, RingInv, OwnW, OthersW, CheckedW, RingJ, RingE, BoardJ

\* Steps that leave the writer's clipboard, copies and clips alone.
LEMMA OwnKept ==
  ASSUME NEW w \in Node, OwnW(w), OthersW(w), TypeInv', UNCHANGED <<copied, issued>>,
         clip'[w] = clip[w],
         \A n \in Node \ {w} : wpc'[n] \in {"add", "pack", "emit"} => wpc[n] \in {"add", "pack", "emit"},
         \A n \in Node : ppc'[n] # "idle" => ppc[n] # "idle",
         wpc'[w] \in {"check", "add", "pack", "emit"} =>
            wpc[w] \in {"check", "add", "pack", "emit"} /\ wclip'[w] = wclip[w],
         ppc'[w] # "idle" => pclip'[w] = pclip[w]
  PROVE  OwnW(w)' /\ OthersW(w)'
  <1>1. OwnW(w)'
    BY DEF OwnW
  <1>2. OthersW(w)'
    BY DEF OthersW, TypeInv, WatchT
  <1> QED
    BY <1>1, <1>2

\* Every step keeps the writer's content its own, and the others quiet.
LEMMA StepOwn ==
  ASSUME NEW B \in [Link -> SUBSET Node], Branches(B), NEW w, OneWriter(w), TypeInv, TypeInv',
         SeqInv, TreeInv(B), RingInv(w), [Next]_vars
  PROVE  OwnW(w)' /\ OthersW(w)'
  <1> USE DEF nodeVars, watchVars, pushVars, jobVars, wireVars, histVars
  <1>0. /\ w \in Node /\ OwnW(w) /\ OthersW(w) /\ CheckedW(w) /\ JobB(B) /\ JobI
        /\ ClipT /\ WatchT /\ PushT /\ JobT /\ HistT /\ CountT
    BY DEF TypeInv, RingInv, TreeInv, SeqInv, OneWriter
  <1>t. /\ copied \in [Node -> SUBSET Hash]
        /\ wpc \in [Node -> {"idle", "debounce", "check", "add", "pack", "emit"}]
        /\ ppc \in [Node -> {"idle", "set", "stored", "pack", "emit"}]
        /\ clip \in [Node -> Hash \cup {Empty}] /\ issued \subseteq Clip
    BY <1>0 DEF ClipT, WatchT, PushT, HistT
  <1>1. CASE UNCHANGED vars
    BY <1>0, <1>1, OwnKept DEF vars
  <1>2. ASSUME NEW n \in Node,
               \/ WatchPoll(n) \/ WatchSettle(n) \/ WatchOversize(n) \/ WatchDrop(n) \/ WatchAdd(n)
               \/ WatchPackFails(n) \/ WatchEmit(n) \/ PushEmit(n) \/ PushSetFails(n)
               \/ PushStored(n) \/ SavePeers(n)
        PROVE  OwnW(w)' /\ OthersW(w)'
    <2>1. /\ UNCHANGED <<copied, issued, clip>>
          /\ \A m \in Node : wpc'[m] \in {"check", "add", "pack", "emit"} =>
                wpc[m] \in {"check", "add", "pack", "emit"} /\ wclip'[m] = wclip[m]
          /\ \A m \in Node : wpc'[m] \in {"add", "pack", "emit"} => wpc[m] \in {"add", "pack", "emit"}
          /\ \A m \in Node : ppc'[m] # "idle" => ppc[m] # "idle" /\ pclip'[m] = pclip[m]
      BY <1>0, <1>2 DEF WatchPoll, WatchSettle, WatchOversize, WatchDrop, WatchAdd, WatchPackFails,
                        NextSeqFails, WatchEmit, PushEmit, PushSetFails, PushStored, SavePeers,
                        WatchT, PushT
    <2> QED
      BY <1>0, <2>1, OwnKept
  <1>3. ASSUME NEW n \in Node, WatchRead(n) PROVE OwnW(w)' /\ OthersW(w)'
    <2>1. /\ UNCHANGED <<clip, copied, issued, ppc, pclip>> /\ wpc'[n] = "check"
          /\ \A m \in Node \ {n} : wpc'[m] = wpc[m] /\ wclip'[m] = wclip[m]
          /\ wclip'[n].hash = clip[n] /\ clip[n] \in Hash
      BY <1>0, <1>3 DEF WatchRead, WatchT
    <2> QED
      BY <1>0, <2>1 DEF OwnW, OthersW
  <1>11. ASSUME NEW n \in Node, WatchPass(n) PROVE OwnW(w)' /\ OthersW(w)'
    <2>1. n = w
      BY <1>0, <1>11 DEF WatchPass, CheckedW
    <2>2. /\ UNCHANGED <<clip, copied, issued, ppc, pclip, wclip>> /\ wpc[w] = "check"
          /\ \A m \in Node \ {w} : wpc'[m] = wpc[m]
      BY <1>0, <1>11, <2>1 DEF WatchPass, WatchT
    <2> QED
      BY <1>0, <2>2, OwnKept
  <1>4. ASSUME NEW n \in Node, WatchPack(n) PROVE OwnW(w)' /\ OthersW(w)'
    <2>1. n = w
      BY <1>0, <1>4 DEF WatchPack, OthersW
    <2>2. wclip[w] \in Clip /\ wclip[w].origin = w /\ wclip[w].hash \in copied[w]
      BY <1>0, <1>4, <2>1 DEF WatchPack, WatchT, OwnW
    <2>3. /\ UNCHANGED <<clip, copied, ppc, pclip>> /\ issued' = issued \cup {wclip'[w]}
          /\ wclip' = [wclip EXCEPT ![w].seq = seq[w] + 1]
          /\ \A m \in Node \ {w} : wpc'[m] = wpc[m]
      BY <1>0, <1>4, <2>1 DEF WatchPack, WatchT
    <2>4. wclip'[w].hash = wclip[w].hash /\ wclip'[w].origin = w
      BY <1>0, <2>2, <2>3 DEF WatchT, Clip
    <2> QED
      BY <1>0, <2>2, <2>3, <2>4 DEF OwnW, OthersW
  <1>5. ASSUME NEW n \in Node, PushPack(n) PROVE OwnW(w)' /\ OthersW(w)'
    <2>1. n = w
      BY <1>0, <1>5 DEF PushPack, OthersW
    <2>2. pclip[w] \in Clip /\ pclip[w].origin = w /\ pclip[w].hash \in copied[w]
      BY <1>0, <1>5, <2>1 DEF PushPack, PushT, OwnW
    <2>3. /\ UNCHANGED <<clip, copied, wpc, wclip>> /\ issued' = issued \cup {pclip'[w]}
          /\ pclip' = [pclip EXCEPT ![w].seq = seq[w] + 1]
          /\ \A m \in Node \ {w} : ppc'[m] = ppc[m]
      BY <1>0, <1>5, <2>1 DEF PushPack, PushT
    <2>4. pclip'[w].hash = pclip[w].hash /\ pclip'[w].origin = w
      BY <1>0, <2>2, <2>3 DEF PushT, Clip
    <2> QED
      BY <1>0, <2>2, <2>3, <2>4 DEF OwnW, OthersW
  <1>6. ASSUME NEW n \in Node, PushPackFails(n) PROVE OwnW(w)' /\ OthersW(w)'
    <2>1. /\ UNCHANGED <<copied, issued, clip, wpc, wclip>>
          /\ \A m \in Node : ppc'[m] # "idle" => ppc[m] # "idle" /\ pclip'[m] = pclip[m]
      BY <1>0, <1>6 DEF PushPackFails, NextSeqFails, PushT
    <2> QED
      BY <1>0, <2>1, OwnKept
  <1>7. ASSUME NEW n \in Node, PushSet(n) PROVE OwnW(w)' /\ OthersW(w)'
    <2>1. n = w
      BY <1>0, <1>7 DEF PushSet, OthersW
    <2>2. pclip[w].hash \in copied[w] /\ pclip[w].hash \in Hash
      BY <1>0, <1>7, <2>1 DEF PushSet, OwnW, PushT, Clip
    <2>3. /\ clip'[w] = pclip[w].hash /\ UNCHANGED <<copied, issued, wpc, wclip, pclip>>
          /\ \A m \in Node \ {w} : ppc'[m] = ppc[m]
          /\ ppc[w] # "idle"
      BY <1>0, <1>7, <2>1, <2>2 DEF PushSet, PushT, ClipT, OneWriter
    <2> QED
      BY <1>0, <2>2, <2>3 DEF OwnW, OthersW
  <1>8. ASSUME NEW n \in Node, NEW h \in Hash, User(n, h) PROVE OwnW(w)' /\ OthersW(w)'
    <2>1. CASE UserCopy(n, h)
      <3>1. n = w
        BY <2>1 DEF UserCopy, MayCopy, OneWriter
      <3>2. /\ clip'[w] = h /\ copied'[w] = copied[w] \cup {h}
            /\ \A m \in Node \ {w} : copied'[m] = copied[m]
            /\ UNCHANGED <<issued, wpc, wclip, ppc, pclip>>
        BY <1>t, <2>1, <3>1 DEF UserCopy, MayCopy
      <3> QED
        BY <1>0, <3>2 DEF OwnW, OthersW
    <2>2. CASE PushStart(n, h)
      <3>1. n = w
        BY <2>2 DEF PushStart, MayCopy, OneWriter
      <3>2. /\ clip' = clip /\ copied'[w] = copied[w] \cup {h}
            /\ \A m \in Node \ {w} : copied'[m] = copied[m] /\ ppc'[m] = ppc[m]
            /\ UNCHANGED <<issued, wpc, wclip>> /\ pclip'[w].hash = h
        BY <1>0, <1>t, <2>2, <3>1 DEF PushStart, MayCopy, PushT
      <3> QED
        BY <1>0, <3>2 DEF OwnW, OthersW
    <2>3. CASE Expire(n, h)
      BY <1>0, <2>3, OwnKept DEF Expire
    <2> QED
      BY <1>8, <2>1, <2>2, <2>3 DEF User
  <1>9. ASSUME NEW l \in Link, Forward(l) \/ RelayBroadcast(l) \/ Apply(l) \/ Reconnect(l) \/ Drop(l)
        PROVE  OwnW(w)' /\ OthersW(w)'
    <2>1. UNCHANGED <<copied, issued, wpc, wclip, ppc, pclip>>
      BY <1>9 DEF Forward, RelayBroadcast, Apply, ApplyKnown, ApplyAccept, ApplyCompare,
                  ApplySuppress, ApplySet, ApplySetFails, ApplyStored, ApplyEmit, Reconnect, Drop
    <2>2. clip'[w] = clip[w]
      <3>1. CASE ApplySet(l)
        <4>1. l[2] # w
          BY <1>0, <3>1, OneJob DEF ApplySet
        <4> QED
          BY <1>t, <3>1, <4>1 DEF ApplySet
      <3>2. CASE ~ApplySet(l)
        <4>1. UNCHANGED clip
          BY <1>9, <3>2 DEF Forward, RelayBroadcast, Apply, ApplyKnown, ApplyAccept, ApplyCompare,
                            ApplySuppress, ApplySetFails, ApplyStored, ApplyEmit, Reconnect, Drop
        <4> QED
          BY <4>1
      <3> QED
        BY <3>1, <3>2
    <2> QED
      BY <1>0, <2>1, <2>2, OwnKept
  <1>10. ~\E n \in Node : Restart(n)
    BY DEF Restart, OneWriter
  <1> QED
    BY <1>1, <1>2, <1>3, <1>4, <1>5, <1>6, <1>7, <1>8, <1>9, <1>10, <1>11 DEF Next, Watcher, Push

\* A look-up stays due to find an entry unless that entry lapses.
LEMMA CheckedKept ==
  ASSUME NEW w, CheckedW(w), GuardT, sup' = sup \/ \E m \in Node : \E g : Suppressed(m, g),
         \A n \in Node \ {w} : wpc'[n] = "check" => wpc[n] = "check" /\ wclip'[n] = wclip[n]
  PROVE  lapsed' \/ CheckedW(w)'
  <1>1. CASE sup' = sup
    BY <1>1 DEF CheckedW
  <1>2. ASSUME NEW m \in Node, NEW g, Suppressed(m, g), ~lapsed' PROVE CheckedW(w)'
    <2>1. /\ sup'[m] = g /\ \A n \in Node \ {m} : sup'[n] = sup[n]
          /\ ~Lapses(m, g)
      BY <1>2 DEF Suppressed, GuardT
    <2> SUFFICES ASSUME NEW n \in Node \ {w}, wpc'[n] = "check" PROVE Has(sup'[n], wclip'[n].hash)
      BY DEF CheckedW, Has
    <2>2. wpc[n] = "check" /\ wclip'[n] = wclip[n] /\ Has(sup[n], wclip[n].hash)
      BY DEF CheckedW
    <2> QED
      BY <2>1, <2>2 DEF Lapses
  <1> QED
    BY <1>1, <1>2

\* Every step keeps what another watcher has read suppressed, unless an entry lapses.
LEMMA StepChecked ==
  ASSUME NEW B \in [Link -> SUBSET Node], NEW w, OneWriter(w), TypeInv, RingInv(w), [Next]_vars
  PROVE  lapsed' \/ CheckedW(w)'
  <1> USE DEF nodeVars, watchVars, pushVars, jobVars, wireVars, histVars
  <1>0. w \in Node /\ CheckedW(w) /\ OthersW(w) /\ RingE(w) /\ GuardT /\ WatchT /\ JobT
    BY DEF TypeInv, RingInv, OneWriter
  <1>1. ASSUME sup' = sup \/ \E m \in Node : \E g : Suppressed(m, g), UNCHANGED <<wpc, wclip>>
        PROVE  lapsed' \/ CheckedW(w)'
    BY <1>0, <1>1, CheckedKept
  <1>2. ASSUME NEW n \in Node, WatchRead(n) PROVE CheckedW(w)'
    <2>1. /\ UNCHANGED <<clip, sup>> /\ clip[n] # Empty /\ wclip'[n].hash = clip[n]
          /\ \A m \in Node \ {n} : wpc'[m] = wpc[m] /\ wclip'[m] = wclip[m]
      BY <1>0, <1>2 DEF WatchRead, WatchT
    <2>2. n # w => Has(sup[n], clip[n])
      BY <1>0, <2>1, RingIsSuppressed
    <2> QED
      BY <1>0, <2>1, <2>2 DEF CheckedW
  <1>3. ASSUME NEW n \in Node, Watcher(n), ~WatchRead(n) PROVE lapsed' \/ CheckedW(w)'
    <2>1. \A m \in Node : wpc'[m] = "check" => wpc[m] = "check" /\ wclip'[m] = wclip[m]
      BY <1>0, <1>3 DEF Watcher, WatchPoll, WatchSettle, WatchOversize, WatchDrop, WatchPass, WatchAdd,
                        WatchPack, WatchPackFails, NextSeq, NextSeqFails, WatchEmit, WatchT
    <2>2. sup' = sup \/ Suppressed(n, Add(sup[n], wclip[n].hash))
      BY <1>3 DEF Watcher, WatchPoll, WatchSettle, WatchOversize, WatchDrop, WatchPass, WatchAdd,
                  WatchPack, WatchPackFails, WatchEmit
    <2> QED
      BY <1>0, <2>1, <2>2, CheckedKept
  <1>4. ASSUME NEW n \in Node, Push(n) \/ SavePeers(n) PROVE lapsed' \/ CheckedW(w)'
    <2>1. UNCHANGED <<wpc, wclip>> /\ (sup' = sup \/ Suppressed(n, Add(sup[n], pclip[n].hash)))
      BY <1>4 DEF Push, PushSet, PushSetFails, PushStored, PushPack, PushPackFails, PushEmit, SavePeers
    <2> QED
      BY <1>1, <2>1
  <1>5. ASSUME NEW n \in Node, NEW h \in Hash, User(n, h) PROVE lapsed' \/ CheckedW(w)'
    <2>1. /\ UNCHANGED <<wpc, wclip>>
          /\ sup' = sup \/ Suppressed(n, Add(sup[n], h)) \/ Suppressed(n, Expired(sup[n], h))
      BY <1>5 DEF User, UserCopy, PushStart, Expire
    <2> QED
      BY <1>1, <2>1
  <1>6. ASSUME NEW l \in Link, Apply(l) PROVE lapsed' \/ CheckedW(w)'
    <2>1. UNCHANGED <<wpc, wclip>> /\ (sup' = sup \/ ApplySuppress(l) \/ ApplyStored(l))
      BY <1>6 DEF Apply, ApplyKnown, ApplyAccept, ApplyCompare, ApplySuppress, ApplySet, ApplySetFails,
                  ApplyStored, ApplyEmit
    <2>2. ApplySuppress(l) \/ ApplyStored(l) =>
            l[2] \in Node /\ Suppressed(l[2], Add(sup[l[2]], jclip[l].hash))
      BY <1>0 DEF ApplySuppress, ApplyStored, JobT
    <2> QED
      BY <1>1, <2>1, <2>2
  <1>7. ASSUME NEW l \in Link, Forward(l) \/ RelayBroadcast(l) \/ Reconnect(l) \/ Drop(l)
        PROVE  lapsed' \/ CheckedW(w)'
    <2>1. UNCHANGED <<sup, wpc, wclip>>
      BY <1>7 DEF Forward, RelayBroadcast, Reconnect, Drop
    <2> QED
      BY <1>1, <2>1
  <1>8. ~\E n \in Node : Restart(n)
    BY DEF Restart, OneWriter
  <1>9. CASE UNCHANGED vars
    BY <1>1, <1>9 DEF vars
  <1> QED
    BY <1>2, <1>3, <1>4, <1>5, <1>6, <1>7, <1>8, <1>9 DEF Next

\* Every step leaves what a session found there on the clipboard until it is suppressed:
\* one session of a daemon sets a clip at a time, and no user copies there.
LEMMA StepBoardJ ==
  ASSUME NEW B \in [Link -> SUBSET Node], Branches(B), NEW w, OneWriter(w), TypeInv,
         SeqInv, TreeInv(B), RingInv(w), [Next]_vars
  PROVE  BoardJ'
  <1> USE DEF nodeVars, watchVars, pushVars, jobVars, wireVars, histVars
  <1>0. /\ w \in Node /\ OwnW(w) /\ OthersW(w) /\ BoardJ /\ JobB(B) /\ JobI /\ ClipT /\ JobT
    BY DEF TypeInv, RingInv, TreeInv, SeqInv, OneWriter
  <1>j. \A l \in Link : jpc[l] # "idle" =>
          /\ l[2] \in Node \ {w}
          /\ \A k \in Link : k[2] = l[2] /\ jpc[k] # "idle" => k = l
    BY <1>0, OneJob DEF JobT
  <1>1. ASSUME \A n \in Node \ {w} : clip'[n] = clip[n],
               \A l \in Link : jpc'[l] = "present" => jpc[l] = "present" /\ jclip'[l] = jclip[l]
        PROVE  BoardJ'
    BY <1>0, <1>1, <1>j DEF BoardJ
  <1>2. ASSUME NEW n \in Node, Watcher(n) \/ Push(n) \/ SavePeers(n) PROVE BoardJ'
    <2>1. UNCHANGED <<jpc, jclip>> /\ (clip' = clip \/ PushSet(n))
      BY <1>2 DEF Watcher, WatchPoll, WatchSettle, WatchRead, WatchOversize, WatchDrop, WatchPass,
                  WatchAdd, WatchPack, WatchPackFails, WatchEmit, Push, PushSet, PushSetFails,
                  PushStored, PushPack, PushPackFails, PushEmit, SavePeers
    <2>2. PushSet(n) => n = w /\ \A m \in Node \ {n} : clip'[m] = clip[m]
      BY <1>0 DEF PushSet, OthersW, ClipT
    <2> QED
      BY <1>1, <2>1, <2>2
  <1>3. ASSUME NEW n \in Node, NEW h \in Hash, User(n, h) PROVE BoardJ'
    <2>1. UNCHANGED <<jpc, jclip>> /\ (clip' = clip \/ UserCopy(n, h))
      BY <1>3 DEF User, UserCopy, PushStart, Expire
    <2>2. UserCopy(n, h) => n = w /\ \A m \in Node \ {n} : clip'[m] = clip[m]
      BY <1>0 DEF UserCopy, MayCopy, OneWriter, ClipT
    <2> QED
      BY <1>1, <2>1, <2>2
  <1>4. ASSUME NEW l \in Link,
               \/ Forward(l) \/ RelayBroadcast(l) \/ ApplyKnown(l) \/ ApplyAccept(l)
               \/ ApplySuppress(l) \/ ApplyStored(l) \/ ApplyEmit(l) \/ Reconnect(l) \/ Drop(l)
        PROVE  BoardJ'
    <2>1. /\ UNCHANGED clip
          /\ \A k \in Link : jpc'[k] = "present" => jpc[k] = "present" /\ jclip'[k] = jclip[k]
      BY <1>0, <1>4 DEF Forward, RelayBroadcast, ApplyKnown, ApplyAccept, ApplySuppress, ApplyStored,
                        ApplyEmit, Reconnect, Drop, JobT
    <2> QED
      BY <1>1, <2>1
  <1>5. ASSUME NEW l \in Link, ApplyCompare(l) PROVE BoardJ'
    <2>1. /\ UNCHANGED <<clip, jclip>> /\ \A k \in Link \ {l} : jpc'[k] = jpc[k]
          /\ jpc'[l] = (IF clip[l[2]] = jclip[l].hash THEN "present" ELSE "absent")
      BY <1>0, <1>5 DEF ApplyCompare, JobT
    <2> QED
      BY <1>0, <2>1 DEF BoardJ
  <1>6. ASSUME NEW l \in Link, ApplySet(l) PROVE BoardJ'
    <2>1. /\ UNCHANGED jclip /\ jpc[l] = "set" /\ jpc'[l] = "stored"
          /\ \A k \in Link \ {l} : jpc'[k] = jpc[k]
          /\ \A n \in Node \ {l[2]} : clip'[n] = clip[n]
      BY <1>0, <1>6 DEF ApplySet, JobT, ClipT
    <2> SUFFICES ASSUME NEW k \in Link, jpc'[k] = "present" PROVE clip'[k[2]] = jclip[k].hash
      BY <2>1 DEF BoardJ
    <2>2. k # l /\ jpc[k] = "present"
      BY <2>1
    <2>3. k[2] \in Node \ {l[2]}
      BY <1>j, <2>1, <2>2
    <2> QED
      BY <1>0, <2>1, <2>2, <2>3 DEF BoardJ
  <1>7. /\ ~\E n \in Node : Restart(n)
        /\ ~\E l \in Link : ApplySetFails(l)
    BY DEF Restart, ApplySetFails, OneWriter
  <1>8. CASE UNCHANGED vars
    BY <1>1, <1>8 DEF vars
  <1> QED
    BY <1>2, <1>3, <1>4, <1>5, <1>6, <1>7, <1>8 DEF Next, Apply

\* Steps that leave the other daemons' clipboards and rings alone.
LEMMA RingKept ==
  ASSUME NEW w, RingJ, RingE(w),
         \A n \in Node \ {w} : clip'[n] = clip[n] /\ sup'[n].ring = sup[n].ring,
         \A l \in Link : jpc'[l] \in {"set", "stored"} =>
            jpc[l] = jpc'[l] /\ jclip'[l] = jclip[l] /\ l[2] \in Node \ {w},
         \A l \in Link : jpc[l] = "set" => jpc'[l] = "set"
  PROVE  RingJ' /\ RingE(w)'
  <1>1. RingJ'
    BY DEF RingJ, Newest
  <1>2. RingE(w)'
    BY DEF RingE, Newest
  <1> QED
    BY <1>1, <1>2

\* Every step keeps what is on a clipboard at the end of its ring; it keeps all of
\* the invariant unless an entry lapses.
LEMMA StepRing ==
  ASSUME NEW B \in [Link -> SUBSET Node], Branches(B), NEW w, OneWriter(w), TypeInv, TypeInv',
         SeqInv, TreeInv(B), RingInv(w), [Next]_vars
  PROVE  lapsed' \/ RingInv(w)'
  <1> USE DEF nodeVars, watchVars, pushVars, jobVars, wireVars, histVars
  <1>0. /\ w \in Node /\ OwnW(w) /\ OthersW(w) /\ RingJ /\ RingE(w) /\ BoardJ /\ JobB(B) /\ JobI
        /\ RingMax >= 2
    BY DEF TypeInv, RingInv, TreeInv, SeqInv, OneWriter
  <1>t. /\ sup \in [Node -> Guard] /\ clip \in [Node -> Hash \cup {Empty}] /\ issued \subseteq Clip
        /\ jpc \in [Link -> {"idle", "compare", "present", "absent", "set", "stored", "emit"}]
        /\ jclip \in [Link -> Clip \cup {NoClip}]
        /\ \A n \in Node : sup[n] \in Guard
    BY DEF TypeInv, ClipT, GuardT, HistT, JobT
  <1>j. \A l \in Link : jpc[l] # "idle" =>
          /\ l[2] \in Node \ {w} /\ jclip[l] \in Clip
          /\ \A k \in Link : k[2] = l[2] /\ jpc[k] # "idle" => k = l
    BY <1>0, OneJob DEF TypeInv, JobT
  <1>1. ASSUME UNCHANGED vars PROVE RingJ' /\ RingE(w)'
    <2>1. UNCHANGED <<clip, sup, jpc, jclip>>
      BY <1>1 DEF vars
    <2> QED
      BY <1>0, <1>j, <2>1, RingKept
  <1>2. ASSUME NEW n \in Node, Watcher(n) \/ Push(n) \/ SavePeers(n)
        PROVE  RingJ' /\ RingE(w)'
    <2>1. UNCHANGED <<jpc, jclip>>
      BY <1>2 DEF Watcher, WatchPoll, WatchSettle, WatchRead, WatchOversize, WatchDrop, WatchPass,
                  WatchAdd, WatchPack, WatchPackFails, WatchEmit, Push, PushSet, PushSetFails,
                  PushStored, PushPack, PushPackFails, PushEmit, SavePeers
    <2>2. UNCHANGED <<clip, sup>> \/ WatchAdd(n) \/ PushSet(n) \/ PushStored(n)
      BY <1>2 DEF Watcher, WatchPoll, WatchSettle, WatchRead, WatchOversize, WatchDrop, WatchPass,
                  WatchPack, WatchPackFails, WatchEmit, Push, PushSetFails, PushPack, PushPackFails,
                  PushEmit, SavePeers
    <2>3. CASE UNCHANGED <<clip, sup>>
      BY <1>0, <1>j, <2>1, <2>3, RingKept
    <2>4. CASE WatchAdd(n) \/ PushSet(n) \/ PushStored(n)
      <3>1. n = w
        BY <1>0, <2>4 DEF WatchAdd, PushSet, PushStored, OthersW
      <3>2. \A m \in Node \ {w} : clip'[m] = clip[m] /\ sup'[m].ring = sup[m].ring
        BY <1>t, <2>4, <3>1 DEF WatchAdd, PushSet, PushStored, Suppressed
      <3> QED
        BY <1>0, <1>j, <2>1, <3>2, RingKept
    <2> QED
      BY <2>2, <2>3, <2>4
  <1>3. ASSUME NEW n \in Node, NEW h \in Hash, User(n, h) PROVE RingJ' /\ RingE(w)'
    <2>1. UNCHANGED <<jpc, jclip>>
      BY <1>3 DEF User, UserCopy, PushStart, Expire
    <2>2. \A m \in Node \ {w} : clip'[m] = clip[m] /\ sup'[m].ring = sup[m].ring
      <3>1. CASE UserCopy(n, h) \/ PushStart(n, h)
        <4>1. n = w
          BY <3>1 DEF UserCopy, PushStart, MayCopy, OneWriter
        <4> QED
          BY <1>t, <3>1, <4>1 DEF UserCopy, PushStart, Suppressed
      <3>2. CASE Expire(n, h)
        <4>1. /\ sup' = [sup EXCEPT ![n] = Expired(sup[n], h)] /\ clip' = clip
              /\ Expired(sup[n], h).ring = sup[n].ring
          BY <1>t, <3>2 DEF Expire, Expired, Guard, Suppressed
        <4> QED
          BY <1>t, <4>1
      <3> QED
        BY <1>3, <3>1, <3>2 DEF User
    <2> QED
      BY <1>0, <1>j, <2>1, <2>2, RingKept
  <1>4. ASSUME NEW l \in Link, ApplySuppress(l) PROVE RingJ' /\ RingE(w)'
    <2> DEFINE n == l[2]
               h == jclip[l].hash
    <2>1. /\ jpc[l] \in {"present", "absent"} /\ n \in Node \ {w} /\ h \in Hash
          /\ sup' = [sup EXCEPT ![n] = Add(sup[n], h)] /\ UNCHANGED <<clip, jclip>>
          /\ jpc' = [jpc EXCEPT ![l] = IF jpc[l] = "present" THEN "emit" ELSE "set"]
          /\ \A k \in Link : k[2] = n /\ jpc[k] # "idle" => k = l
          /\ jpc[l] = "present" => clip[n] = h
      BY <1>0, <1>j, <1>4 DEF ApplySuppress, Suppressed, BoardJ, Clip
    <2> HIDE DEF n, h
    <2>2. /\ sup'[n] = Add(sup[n], h) /\ \A m \in Node \ {n} : sup'[m] = sup[m]
          /\ jpc'[l] = (IF jpc[l] = "present" THEN "emit" ELSE "set")
          /\ \A k \in Link \ {l} : jpc'[k] = jpc[k]
      BY <1>t, <2>1
    <2>3. /\ Add(sup[n], h).ring # << >> /\ Newest(Add(sup[n], h)) = h
          /\ sup[n].ring # << >> =>
               /\ Len(Add(sup[n], h).ring) > 1
               /\ Add(sup[n], h).ring[Len(Add(sup[n], h).ring) - 1] = Newest(sup[n])
      BY <1>0, <1>t, <2>1, AddEnds
    <2>4. RingJ'
      <3> SUFFICES ASSUME NEW k \in Link, jpc'[k] \in {"set", "stored"}
                   PROVE  sup'[k[2]].ring # << >> /\ Newest(sup'[k[2]]) = jclip'[k].hash
        BY DEF RingJ, Newest
      <3>1. CASE k = l
        BY <2>1, <2>2, <2>3, <3>1 DEF n, h
      <3>2. CASE k # l
        <4>1. jpc[k] \in {"set", "stored"}
          BY <2>2, <3>2
        <4>2. k[2] \in Node \ {n}
          BY <1>j, <2>1, <3>2, <4>1
        <4> QED
          BY <1>0, <2>1, <2>2, <4>1, <4>2 DEF RingJ
      <3> QED
        BY <3>1, <3>2
    <2>5. RingE(w)'
      <3> SUFFICES ASSUME NEW m \in Node \ {w}, clip'[m] # Empty
                   PROVE  /\ sup'[m].ring # << >>
                          /\ \/ clip'[m] = Newest(sup'[m])
                             \/ /\ Len(sup'[m].ring) > 1
                                /\ clip'[m] = sup'[m].ring[Len(sup'[m].ring) - 1]
                                /\ \E k \in Link : k[2] = m /\ jpc'[k] = "set"
        BY DEF RingE, Newest
      <3>1. CASE m = n
        <4>1. sup[n].ring # << >> /\ clip[n] = Newest(sup[n])
          BY <1>0, <2>1, <3>1 DEF RingE
        <4>2. CASE jpc[l] = "present"
          BY <2>1, <2>2, <2>3, <3>1, <4>2
        <4>3. CASE jpc[l] = "absent"
          <5>1. l[2] = m /\ jpc'[l] = "set"
            BY <2>2, <3>1, <4>3 DEF n
          <5> QED
            BY <2>1, <2>2, <2>3, <3>1, <4>1, <5>1
        <4> QED
          BY <2>1, <4>2, <4>3
      <3>2. CASE m # n
        <4>1. \A k \in Link : k[2] = m => jpc'[k] = jpc[k]
          BY <2>2, <3>2 DEF n
        <4>2. sup'[m] = sup[m] /\ clip'[m] = clip[m]
          BY <2>1, <2>2, <3>2
        <4>3. /\ sup[m].ring # << >>
              /\ \/ clip[m] = Newest(sup[m])
                 \/ /\ Len(sup[m].ring) > 1
                    /\ clip[m] = sup[m].ring[Len(sup[m].ring) - 1]
                    /\ \E k \in Link : k[2] = m /\ jpc[k] = "set"
          BY <1>0, <4>2 DEF RingE
        <4> QED
          BY <4>1, <4>2, <4>3
      <3> QED
        BY <3>1, <3>2
    <2> QED
      BY <2>4, <2>5
  <1>5. ASSUME NEW l \in Link, ApplySet(l) PROVE RingJ' /\ RingE(w)'
    <2> DEFINE n == l[2]
    <2>1. /\ jpc[l] = "set" /\ n \in Node \ {w} /\ jclip[l].hash \in Hash
          /\ clip' = [clip EXCEPT ![n] = Shown[n][jclip[l].hash]]
          /\ UNCHANGED <<sup, jclip>> /\ jpc' = [jpc EXCEPT ![l] = "stored"]
      BY <1>j, <1>5 DEF ApplySet, Clip
    <2>2. /\ clip'[n] = jclip[l].hash /\ \A m \in Node \ {n} : clip'[m] = clip[m]
          /\ jpc'[l] = "stored" /\ \A k \in Link \ {l} : jpc'[k] = jpc[k]
      BY <1>t, <2>1 DEF OneWriter
    <2>3. sup[n].ring # << >> /\ Newest(sup[n]) = jclip[l].hash
      BY <1>0, <2>1 DEF RingJ
    <2>4. RingJ'
      BY <1>0, <2>1, <2>2 DEF RingJ, Newest
    <2>5. RingE(w)'
      <3> SUFFICES ASSUME NEW m \in Node \ {w}, clip'[m] # Empty
                   PROVE  /\ sup[m].ring # << >>
                          /\ \/ clip'[m] = Newest(sup[m])
                             \/ /\ Len(sup[m].ring) > 1
                                /\ clip'[m] = sup[m].ring[Len(sup[m].ring) - 1]
                                /\ \E k \in Link : k[2] = m /\ jpc'[k] = "set"
        BY <2>1 DEF RingE, Newest
      <3>1. CASE m = n
        BY <2>2, <2>3, <3>1
      <3>2. CASE m # n
        <4>1. \A k \in Link : k[2] = m => jpc'[k] = jpc[k]
          BY <2>2, <3>2
        <4> QED
          BY <1>0, <2>2, <3>2, <4>1 DEF RingE
      <3> QED
        BY <3>1, <3>2
    <2> QED
      BY <2>4, <2>5
  <1>6. ASSUME NEW l \in Link, ApplyStored(l) PROVE RingJ' /\ RingE(w)'
    <2> DEFINE n == l[2]
               h == jclip[l].hash
    <2>1. /\ jpc[l] = "stored" /\ n \in Node \ {w} /\ h \in Hash
          /\ sup' = [sup EXCEPT ![n] = Add(sup[n], h)] /\ UNCHANGED <<clip, jclip>>
          /\ jpc' = [jpc EXCEPT ![l] = "emit"]
          /\ \A k \in Link : k[2] = n /\ jpc[k] # "idle" => k = l
          /\ sup[n].ring # << >> /\ Newest(sup[n]) = h
      BY <1>0, <1>j, <1>6 DEF ApplyStored, Suppressed, Clip, RingJ
    <2> HIDE DEF n, h
    <2>2. /\ sup'[n] = Add(sup[n], h) /\ \A m \in Node \ {n} : sup'[m] = sup[m]
          /\ jpc'[l] = "emit" /\ \A k \in Link \ {l} : jpc'[k] = jpc[k]
      BY <1>t, <2>1
    <2>3. Add(sup[n], h).ring # << >> /\ Newest(Add(sup[n], h)) = h
      BY <1>0, <1>t, <2>1, AddEnds
    <2>4. RingJ'
      <3> SUFFICES ASSUME NEW k \in Link, jpc'[k] \in {"set", "stored"}
                   PROVE  sup'[k[2]].ring # << >> /\ Newest(sup'[k[2]]) = jclip'[k].hash
        BY DEF RingJ, Newest
      <3>1. k # l /\ jpc[k] \in {"set", "stored"}
        BY <2>2
      <3>2. k[2] \in Node \ {n}
        BY <1>j, <2>1, <3>1
      <3> QED
        BY <1>0, <2>1, <2>2, <3>1, <3>2 DEF RingJ
    <2>5. RingE(w)'
      <3> SUFFICES ASSUME NEW m \in Node \ {w}, clip[m] # Empty
                   PROVE  /\ sup'[m].ring # << >>
                          /\ \/ clip[m] = Newest(sup'[m])
                             \/ /\ Len(sup'[m].ring) > 1
                                /\ clip[m] = sup'[m].ring[Len(sup'[m].ring) - 1]
                                /\ \E k \in Link : k[2] = m /\ jpc'[k] = "set"
        BY <2>1 DEF RingE, Newest
      <3>1. CASE m = n
        <4>1. clip[n] = h
          BY <1>0, <2>1, <3>1 DEF RingE
        <4> QED
          BY <2>2, <2>3, <3>1, <4>1
      <3>2. CASE m # n
        <4>1. \A k \in Link : k[2] = m => jpc'[k] = jpc[k]
          BY <2>2, <3>2 DEF n
        <4>2. sup'[m] = sup[m] /\ clip'[m] = clip[m]
          BY <2>1, <2>2, <3>2
        <4>3. /\ sup[m].ring # << >>
              /\ \/ clip[m] = Newest(sup[m])
                 \/ /\ Len(sup[m].ring) > 1
                    /\ clip[m] = sup[m].ring[Len(sup[m].ring) - 1]
                    /\ \E k \in Link : k[2] = m /\ jpc[k] = "set"
          BY <1>0, <4>2 DEF RingE
        <4> QED
          BY <4>1, <4>2, <4>3
      <3> QED
        BY <3>1, <3>2
    <2> QED
      BY <2>4, <2>5
  <1>7. ASSUME NEW l \in Link,
               \/ Forward(l) \/ RelayBroadcast(l) \/ ApplyKnown(l) \/ ApplyAccept(l)
               \/ ApplyCompare(l) \/ ApplyEmit(l) \/ Reconnect(l) \/ Drop(l)
        PROVE  RingJ' /\ RingE(w)'
    <2>1. /\ UNCHANGED <<clip, sup>>
          /\ \A k \in Link : jpc'[k] \in {"set", "stored"} => jpc[k] = jpc'[k] /\ jclip'[k] = jclip[k]
          /\ \A k \in Link : jpc[k] = "set" => jpc'[k] = "set"
      BY <1>t, <1>7 DEF Forward, RelayBroadcast, ApplyKnown, ApplyAccept, ApplyCompare, ApplyEmit,
                        Reconnect, Drop
    <2> QED
      BY <1>0, <1>j, <2>1, RingKept
  <1>8. /\ ~\E n \in Node : Restart(n)
        /\ ~\E l \in Link : ApplySetFails(l)
    BY DEF Restart, ApplySetFails, OneWriter
  <1>9. OwnW(w)' /\ OthersW(w)'
    BY StepOwn
  <1>10. ASSUME Next PROVE RingJ' /\ RingE(w)'
    BY <1>2, <1>3, <1>4, <1>5, <1>6, <1>7, <1>8, <1>10 DEF Next, Apply
  <1>11. BoardJ' /\ (lapsed' \/ CheckedW(w)')
    BY StepBoardJ, StepChecked
  <1> QED
    BY <1>1, <1>9, <1>10, <1>11 DEF RingInv

\* One writer on a tree: no daemon originates a content it wrote itself, however
\* old its suppress entries are, for what a clipboard shows is still in the ring;
\* unless the ring lost an entry between a watcher's read and its lookup.
THEOREM NoEchoPastTTL ==
  ASSUME Tree, NEW w, OneWriter(w) PROVE Spec => []NoEcho
  <1>1. PICK B \in [Link -> SUBSET Node] : Branches(B)
    BY DEF Tree
  <1> DEFINE Inv == TypeInv /\ MarkT /\ SeqInv /\ TreeInv(B) /\ (lapsed \/ RingInv(w))
  <1>2. Inv => NoEcho
    BY DEF RingInv, OwnW, NoEcho, Sources
  <1>3. Init => Inv
    BY InitTypes, InitSeq, InitTree, InitRing DEF OneWriter
  <1>4. Inv /\ [Next]_vars => Inv'
    BY <1>1, StepTypes, StepMarks, StepSeq, StepTree, StepRing
  <1> HIDE DEF Inv
  <1> QED
    BY <1>2, <1>3, <1>4, PTL DEF Spec

-----------------------------------------------------------------------------
(* Nothing is lost *)

\* What the writer's guard knows has been copied, a content its watcher has not seen
\* or not looked up is not suppressed, and a clip on its way has what it saw last.
WatchW(w) ==
  /\ \A h \in Hash : Has(sup[w], h) => h \in copied[w]
  /\ clip[w] # wlast[w] => clip[w] # Empty /\ ~Has(sup[w], clip[w])
  /\ wpc[w] = "check" => ~Has(sup[w], wclip[w].hash)
  /\ wpc[w] \in {"check", "add", "pack", "emit"} => wclip[w].hash = wlast[w]
  /\ wpc[w] = "emit" => wclip[w].seq = seq[w]

\* A clip of w has been read and has no number yet.
Coming(w) == wpc[w] \in {"check", "add", "pack"}

\* The newest clip has what the writer's watcher saw last.
LatestW(w) ==
  /\ \A c \in issued : c.seq >= 1
  /\ seq[w] = 0 => issued = {} /\ (~Coming(w) => wlast[w] = Empty)
  /\ seq[w] > 0 => \E c \in issued : c.seq = seq[w] /\ (~Coming(w) => c.hash = wlast[w])

\* Every number the writer's daemon gives stands for a copy of its user.
CountW(w) ==
  /\ seq[w] + (IF Coming(w) THEN 1 ELSE 0) + (IF clip[w] # wlast[w] THEN 1 ELSE 0)
       <= spent.copies
  /\ spent.copies <= MaxCopies

SourceInv(w) == up = Link /\ WatchW(w) /\ LatestW(w) /\ CountW(w)

\* A network that has sent nothing has lost nothing.
LEMMA InitSource == ASSUME NEW w \in Node PROVE Init => SourceInv(w)
  BY BoundAssumption DEF Init, SourceInv, WatchW, Coming, LatestW, CountW, Has, EmptyGuard

\* Steps of the other daemons and of the links.
LEMMA SourceKept ==
  ASSUME NEW w \in Node, SourceInv(w), UNCHANGED <<up, issued, spent>>,
         sup'[w] = sup[w], copied'[w] = copied[w], clip'[w] = clip[w], wlast'[w] = wlast[w],
         wclip'[w] = wclip[w], wpc'[w] = wpc[w], seq'[w] = seq[w]
  PROVE  SourceInv(w)'
  <1>1. WatchW(w)'
    BY DEF SourceInv, WatchW
  <1>2. LatestW(w)'
    BY DEF SourceInv, LatestW, Coming
  <1>3. CountW(w)'
    BY DEF SourceInv, CountW, Coming
  <1> QED
    BY <1>1, <1>2, <1>3 DEF SourceInv

\* Every step keeps the newest clip at what the watcher saw last.
LEMMA StepSource ==
  ASSUME NEW B \in [Link -> SUBSET Node], Branches(B), NEW w, Undisturbed(w), TypeInv, TypeInv',
         SeqInv, TreeInv(B), RingInv(w), NoPush, SourceInv(w), [Next]_vars
  PROVE  SourceInv(w)'
  <1> USE DEF nodeVars, watchVars, pushVars, jobVars, wireVars, histVars
  <1>0. /\ w \in Node /\ OwnW(w) /\ OthersW(w) /\ CheckedW(w) /\ JobB(B) /\ JobI /\ CountI /\ IssuedI
        /\ up = Link /\ WatchW(w) /\ LatestW(w) /\ CountW(w) /\ Oversize = {}
        /\ Writer = {w}
        /\ {"recopy", "push", "savefail", "setfail", "drop", "restart"} \cap Env = {}
    BY DEF RingInv, TreeInv, SeqInv, Undisturbed, OneWriter, SourceInv
  <1>t. /\ sup \in [Node -> Guard] /\ clip \in [Node -> Hash \cup {Empty}] /\ issued \subseteq Clip
        /\ copied \in [Node -> SUBSET Hash] /\ seq \in [Node -> Nat]
        /\ wpc \in [Node -> {"idle", "debounce", "check", "add", "pack", "emit"}]
        /\ wlast \in [Node -> Hash \cup {Empty}] /\ wclip \in [Node -> Clip \cup {NoClip}]
        /\ spent \in [copies : Nat, restarts : Nat]
        /\ \A n \in Node : wpc[n] = "debounce" => clip[n] \in Hash
        /\ \A n \in Node : sup[n] \in Guard /\ seq[n] \in Nat
        /\ \A c \in issued : c.seq \in Nat
    BY DEF TypeInv, ClipT, GuardT, HistT, WatchT, CountT, Clip
  <1>1. ASSUME UNCHANGED vars PROVE SourceInv(w)'
    BY <1>0, <1>1, SourceKept DEF vars
  <1>2. ASSUME NEW n \in Node, n # w, Watcher(n) \/ SavePeers(n) PROVE SourceInv(w)'
    <2>1. ~WatchOversize(n) /\ ~WatchPass(n) /\ ~WatchAdd(n) /\ ~WatchPack(n) /\ ~WatchPackFails(n) /\ ~WatchEmit(n)
      <3>1. ~WatchOversize(n)
        BY <1>0 DEF WatchOversize
      <3>2. ~WatchPass(n)
        BY <1>0, <1>2 DEF WatchPass, CheckedW
      <3> QED
        BY <1>0, <1>2, <3>1, <3>2 DEF WatchAdd, WatchPack, WatchPackFails, WatchEmit, OthersW
    <2>2. /\ UNCHANGED <<up, issued, spent, sup, copied, clip, seq>>
          /\ wlast'[w] = wlast[w] /\ wclip'[w] = wclip[w] /\ wpc'[w] = wpc[w]
      BY <1>t, <1>0, <1>2, <2>1 DEF Watcher, WatchPoll, WatchSettle, WatchRead, WatchDrop, SavePeers
    <2> QED
      BY <1>0, <2>2, SourceKept
  <1>3. ASSUME WatchPoll(w) \/ WatchSettle(w) \/ SavePeers(w) PROVE SourceInv(w)'
    <2>1. /\ UNCHANGED <<up, issued, spent, sup, copied, clip, seq, wlast, wclip>>
          /\ wpc'[w] = wpc[w] \/ (wpc[w] \in {"idle", "debounce"} /\ wpc'[w] \in {"idle", "debounce"})
      BY <1>t, <1>0, <1>3 DEF WatchPoll, WatchSettle, SavePeers
    <2>2. WatchW(w)'
      BY <1>0, <2>1 DEF WatchW
    <2>3. LatestW(w)'
      BY <1>0, <2>1 DEF LatestW, Coming
    <2>4. CountW(w)'
      BY <1>0, <2>1 DEF CountW, Coming
    <2> QED
      BY <1>0, <2>1, <2>2, <2>3, <2>4 DEF SourceInv
  <1>4. ~WatchOversize(w) /\ ~WatchDrop(w) /\ ~WatchPackFails(w)
    BY <1>0 DEF WatchOversize, WatchDrop, WatchW, WatchPackFails, NextSeqFails
  <1>12. ASSUME WatchRead(w) PROVE SourceInv(w)'
    <2>1. /\ UNCHANGED <<up, issued, spent, copied, clip, seq, sup>>
          /\ wpc[w] = "debounce" /\ wpc'[w] = "check" /\ wlast'[w] = clip[w] /\ clip[w] # wlast[w]
          /\ wclip'[w].hash = clip[w]
      BY <1>t, <1>0, <1>12 DEF WatchRead
    <2>2. ~Has(sup[w], clip[w])
      BY <1>0, <2>1 DEF WatchW
    <2>3. WatchW(w)'
      BY <1>0, <2>1, <2>2 DEF WatchW
    <2>4. LatestW(w)'
      BY <1>0, <2>1 DEF LatestW, Coming
    <2>5. CountW(w)'
      BY <1>0, <1>t, <2>1 DEF CountW, Coming
    <2> QED
      BY <1>0, <2>1, <2>3, <2>4, <2>5 DEF SourceInv
  <1>13. ASSUME WatchPass(w) PROVE SourceInv(w)'
    <2>1. /\ UNCHANGED <<up, issued, spent, copied, clip, seq, sup, wlast, wclip>>
          /\ wpc[w] = "check" /\ wpc'[w] = "add"
      BY <1>t, <1>0, <1>13 DEF WatchPass
    <2>3. WatchW(w)'
      BY <1>0, <2>1 DEF WatchW
    <2>4. LatestW(w)'
      BY <1>0, <2>1 DEF LatestW, Coming
    <2>5. CountW(w)'
      BY <1>0, <2>1 DEF CountW, Coming
    <2> QED
      BY <1>0, <2>1, <2>3, <2>4, <2>5 DEF SourceInv
  <1>5. ASSUME WatchAdd(w), NEW x, x = wclip[w].hash PROVE SourceInv(w)'
    <2>1. /\ UNCHANGED <<up, issued, spent, copied, clip, seq, wlast, wclip>>
          /\ wpc[w] = "add" /\ wpc'[w] = "pack" /\ sup'[w] = Add(sup[w], x)
          /\ x \in Hash /\ x \in copied[w] /\ x = wlast[w]
      BY <1>t, <1>0, <1>5 DEF WatchAdd, Suppressed, OwnW, WatchW, TypeInv, WatchT, Clip
    <2>2. ASSUME NEW h, Has(sup'[w], h), h # x PROVE Has(sup[w], h)
      <3> DEFINE g == sup[w]
                 k == KeepLast(g.ring, x, RingMax)
      <3>1. g.ring \in Seq(Hash) /\ RingMax \in Nat \ {0}
        BY <1>0, <1>t, RingMaxAssumption DEF Guard
      <3>2. h \in g.fresh \cup {x} \/ \E i \in DOMAIN k : k[i] = h
        BY <2>1, <2>2 DEF Has, Add
      <3>3. \A i \in DOMAIN k : k[i] = x \/ \E j \in DOMAIN g.ring : k[i] = g.ring[j]
        BY <2>1, <3>1, KeepLastElements
      <3> QED
        BY <2>2, <3>2, <3>3 DEF Has
    <2>3. WatchW(w)'
      BY <1>0, <2>1, <2>2 DEF WatchW
    <2>4. LatestW(w)'
      BY <1>0, <2>1 DEF LatestW, Coming
    <2>5. CountW(w)'
      BY <1>0, <2>1 DEF CountW, Coming
    <2> QED
      BY <1>0, <2>1, <2>3, <2>4, <2>5 DEF SourceInv
  <1>6. ASSUME WatchPack(w) PROVE SourceInv(w)'
    <2>1. /\ UNCHANGED <<up, spent, copied, clip, sup, wlast>>
          /\ wpc[w] = "pack" /\ wpc'[w] = "emit" /\ seq'[w] = seq[w] + 1
          /\ wclip' = [wclip EXCEPT ![w].seq = seq[w] + 1] /\ issued' = issued \cup {wclip'[w]}
          /\ wclip[w] \in Clip
      BY <1>t, <1>0, <1>6 DEF WatchPack, NextSeq, TypeInv, WatchT
    <2>2. wclip'[w].seq = seq[w] + 1 /\ wclip'[w].hash = wlast[w]
      BY <1>0, <1>t, <2>1 DEF WatchW, Clip
    <2>3. WatchW(w)'
      BY <1>0, <2>1, <2>2 DEF WatchW
    <2>4. LatestW(w)'
      <3>1. wclip'[w] \in issued' /\ seq'[w] >= 1 /\ wclip'[w].seq = seq'[w]
        BY <1>0, <1>t, <2>1, <2>2
      <3>2. \A c \in issued' : c.seq >= 1
        BY <1>0, <2>1, <3>1 DEF LatestW, Coming
      <3>3. ~(seq'[w] = 0) /\ wclip'[w].hash = wlast'[w]
        BY <2>1, <2>2, <3>1
      <3> QED
        BY <3>1, <3>2, <3>3 DEF LatestW, Coming
    <2>5. CountW(w)'
      BY <1>0, <1>t, <2>1 DEF CountW, Coming
    <2> QED
      BY <1>0, <2>1, <2>3, <2>4, <2>5 DEF SourceInv
  <1>7. ASSUME WatchEmit(w) PROVE SourceInv(w)'
    <2>1. /\ UNCHANGED <<up, issued, spent, sup, copied, clip, seq, wlast>>
          /\ wpc[w] = "emit" /\ wpc'[w] = "idle"
      BY <1>t, <1>0, <1>7 DEF WatchEmit
    <2>2. WatchW(w)'
      BY <1>0, <2>1 DEF WatchW
    <2>3. LatestW(w)'
      BY <1>0, <2>1 DEF LatestW, Coming
    <2>4. CountW(w)'
      BY <1>0, <2>1 DEF CountW, Coming
    <2> QED
      BY <1>0, <2>1, <2>2, <2>3, <2>4 DEF SourceInv
  <1>8. ASSUME NEW n \in Node, NEW h \in Hash, UserCopy(n, h) PROVE SourceInv(w)'
    <2>1. /\ UNCHANGED <<up, issued, sup, seq, wlast, wpc, wclip>>
          /\ clip'[w] = h /\ copied'[w] = copied[w] \cup {h} /\ h \notin copied[w]
          /\ spent'.copies = spent.copies + 1 /\ spent.copies < MaxCopies
      BY <1>t, <1>0, <1>8 DEF UserCopy, MayCopy
    <2>2. WatchW(w)'
      BY <1>0, <2>1 DEF WatchW
    <2>3. LatestW(w)'
      BY <1>0, <2>1 DEF LatestW, Coming
    <2>4. CountW(w)'
      BY <1>0, <1>t, <2>1, BoundAssumption DEF CountW, Coming
    <2> QED
      BY <1>0, <2>1, <2>2, <2>3, <2>4 DEF SourceInv
  <1>9. ASSUME NEW n \in Node, NEW h \in Hash, Expire(n, h) PROVE SourceInv(w)'
    <2>1. /\ UNCHANGED <<up, issued, spent, copied, clip, seq, wlast, wpc, wclip>>
          /\ sup' = [sup EXCEPT ![n] = Expired(sup[n], h)]
      BY <1>9 DEF Expire, Suppressed
    <2>2. \A i : Has(sup'[w], i) => Has(sup[w], i)
      BY <1>0, <1>t, <2>1 DEF Has, Expired, Guard
    <2>3. clip[w] \in Hash \cup {Empty}
      BY <1>0, <1>t
    <2>4. WatchW(w)'
      BY <1>0, <2>1, <2>2, <2>3 DEF WatchW
    <2>5. LatestW(w)'
      BY <1>0, <2>1 DEF LatestW, Coming
    <2>6. CountW(w)'
      BY <1>0, <2>1 DEF CountW, Coming
    <2> QED
      BY <1>0, <2>1, <2>4, <2>5, <2>6 DEF SourceInv
  <1>10. ASSUME NEW l \in Link, Forward(l) \/ RelayBroadcast(l) \/ Apply(l) \/ Reconnect(l)
         PROVE  SourceInv(w)'
    <2>1. /\ UNCHANGED <<up, issued, spent, copied, seq, wlast, wpc, wclip>>
          /\ clip' = clip \/ ApplySet(l)
          /\ sup' = sup \/ ApplySuppress(l) \/ ApplyStored(l)
      BY <1>0, <1>10 DEF Forward, RelayBroadcast, Apply, ApplyKnown, ApplyAccept, ApplyCompare,
                   ApplySuppress, ApplySet, ApplySetFails, ApplyStored, ApplyEmit, Reconnect
    <2>2. clip'[w] = clip[w] /\ sup'[w] = sup[w]
      <3>1. ASSUME ApplySet(l) \/ ApplySuppress(l) \/ ApplyStored(l)
            PROVE  clip'[w] = clip[w] /\ sup'[w] = sup[w]
        <4>1. l[2] # w
          BY <1>0, <3>1, OneJob DEF ApplySet, ApplySuppress, ApplyStored
        <4> QED
          BY <1>0, <1>t, <3>1, <4>1 DEF ApplySet, ApplySuppress, ApplyStored, Suppressed
      <3> QED
        BY <2>1, <3>1
    <2> QED
      BY <1>0, <2>1, <2>2, SourceKept
  <1>11. /\ \A n \in Node : ~Push(n) /\ ~Restart(n) /\ (\A h \in Hash : ~PushStart(n, h))
         /\ \A l \in Link : ~Drop(l)
    <2>1. \A n \in Node : ppc[n] = "idle"
      BY DEF NoPush
    <2> QED
      BY <1>0, <2>1 DEF Push, PushSet, PushSetFails, PushStored, PushPack, PushPackFails, PushEmit,
                  Restart, PushStart, Drop
  <1> QED
    <2>1. ASSUME Next PROVE SourceInv(w)'
      BY <1>2, <1>3, <1>4, <1>5, <1>6, <1>7, <1>8, <1>9, <1>10, <1>11, <1>12,
         <1>13, <2>1 DEF Next, Watcher, User
    <2> QED
      BY <1>1, <2>1

-----------------------------------------------------------------------------
(* From the writer to every daemon *)

\* A clip waits for a link, is in flight on it, or is in the hands of the session
\* at its end.
Waits(l, d)   == \E i \in DOMAIN rx[l] : rx[l][i].clip = d /\ ~Skips(l, rx[l][i])
Flies(l, d)   == \E i \in DOMAIN net[l] : net[l][i] = d
Handled(l, d) == jpc[l] # "idle" /\ jclip[l] = d

\* A clip is still on its way to n along the links of L.
Carried(w, L, n, d) ==
  \/ wpc[w] = "emit"
  \/ \E l \in L : Waits(l, d) \/ Flies(l, d) \/ (l[2] # n /\ Handled(l, d))

\* The newest clip has been accepted by a daemon or is on its way to it; once
\* accepted it is on the clipboard or about to be; before the first, clipboards
\* are empty.
Served(w, Q) == \A n \in Node \ {w} : \A d \in issued :
                  d.seq = seq[w] => seen[n][w] = d.seq \/ Carried(w, Q[n], n, d)
Shows(w) == \A n \in Node \ {w} : \A d \in issued : d.seq = seq[w] /\ seen[n][w] = d.seq =>
              \/ clip[n] = d.hash
              \/ \E l \in Link : l[2] = n /\ jpc[l] \in {"compare", "absent", "set"} /\ jclip[l] = d
Blank(w) == issued = {} => \A n \in Node \ {w} : clip[n] = Empty

\* The frames on a link are as many as their numbers allow.
Ranked == \A l \in Link : \A i \in DOMAIN net[l] : i <= net[l][i].seq

FloodInv(w, Q) == Ranked /\ Served(w, Q) /\ Shows(w) /\ Blank(w)

\* Before the first copy there is nothing to carry.
LEMMA InitFlood == ASSUME NEW w \in Node, NEW Q PROVE Init => FloodInv(w, Q)
  BY DEF Init, FloodInv, Ranked, Served, Shows, Blank

\* A frame with a new number fits behind those on its link.
LEMMA AppendRanked ==
  ASSUME NEW s \in Seq(Clip), NEW h \in Clip, h.seq >= 1,
         \A i \in DOMAIN s : i <= s[i].seq /\ s[i].seq < h.seq
  PROVE  /\ Len(s) < h.seq
         /\ \A i \in DOMAIN Append(s, h) : i <= Append(s, h)[i].seq
  <1>0. \A i \in DOMAIN s : s[i] \in Clip
    OBVIOUS
  <1>1. h.seq \in Nat /\ \A i \in DOMAIN s : s[i].seq \in Nat
    BY <1>0 DEF Clip
  <1>2. Len(s) < h.seq
    <2>1. CASE s = << >>
      BY <1>1, <2>1
    <2>2. CASE s # << >>
      <3>1. Len(s) \in DOMAIN s /\ Len(s) \in Nat
        BY <2>2
      <3> QED
        BY <1>1, <3>1
    <2> QED
      BY <2>1, <2>2
  <1>3. ASSUME NEW i \in DOMAIN Append(s, h) PROVE i <= Append(s, h)[i].seq
    <2>1. CASE i \in DOMAIN s
      BY <1>1, <2>1
    <2>2. CASE i \notin DOMAIN s
      <3>1. i = Len(s) + 1 /\ Append(s, h)[i] = h /\ Len(s) \in Nat
        BY <2>2
      <3> QED
        BY <1>1, <1>2, <3>1
    <2> QED
      BY <2>1, <2>2
  <1> QED
    BY <1>2, <1>3

\* What Hub::emit emits is queued on every link of the daemon that is up.
LEMMA EmittedIsQueued ==
  ASSUME RxT, NEW n \in Node, NEW c \in Clip, NEW skip \in Node \cup {Relay},
         NEW l \in Link, l[1] = n, l \in up
  PROVE  \E i \in DOMAIN Emitted(n, c, skip)[l] :
            Emitted(n, c, skip)[l][i] = [clip |-> c, skip |-> skip]
  <1> DEFINE out == [clip |-> c, skip |-> skip]
  <1>1. out \in Outbound /\ rx[l] \in Seq(Outbound) /\ BroadcastCap \in Nat \ {0}
    BY DEF Outbound, RxT
  <1>2. Emitted(n, c, skip)[l] = KeepLast(rx[l], out, BroadcastCap)
    BY DEF Emitted
  <1> HIDE DEF out
  <1>3. \E t \in Seq(Outbound) : KeepLast(rx[l], out, BroadcastCap) = Append(t, out)
    <2>1. \/ KeepLast(rx[l], out, BroadcastCap) = Append(rx[l], out)
          \/ /\ rx[l] # << >>
             /\ KeepLast(rx[l], out, BroadcastCap) = Append(Tail(rx[l]), out)
      BY <1>1, KeepLastShape
    <2>2. rx[l] # << >> => Tail(rx[l]) \in Seq(Outbound)
      BY <1>1
    <2> QED
      BY <1>1, <2>1, <2>2
  <1>4. PICK t \in Seq(Outbound) : KeepLast(rx[l], out, BroadcastCap) = Append(t, out)
    BY <1>3
  <1>5. Len(t) + 1 \in DOMAIN Append(t, out) /\ Append(t, out)[Len(t) + 1] = out
    BY <1>1
  <1> QED
    BY <1>2, <1>4, <1>5 DEF out

\* A forwarded clip goes from the queue of a link onto the link.
LEMMA ForwardCarries ==
  ASSUME RxT, NetT, NEW l \in Link, Forward(l), NEW k \in Link, NEW d
  PROVE  /\ Waits(k, d) => Waits(k, d)' \/ Flies(k, d)'
         /\ Flies(k, d) => Flies(k, d)'
  <1>1. /\ rx[l] \in Seq(Outbound) /\ rx[l] # << >> /\ net[l] \in Seq(Clip)
        /\ rx' = [rx EXCEPT ![l] = Tail(rx[l])]
        /\ net' = IF Skips(l, Head(rx[l])) THEN net
                  ELSE [net EXCEPT ![l] = Append(net[l], Head(rx[l]).clip)]
    BY DEF Forward, RxT, NetT
  <1>2. Head(rx[l]) = rx[l][1] /\ Head(rx[l]).clip \in Clip
    <2>1. Head(rx[l]) = rx[l][1] /\ Head(rx[l]) \in Outbound
      BY <1>1, HeadOfQueue
    <2> QED
      BY <2>1 DEF Outbound
  <1>3. \A i \in DOMAIN net[l] : /\ i \in DOMAIN Append(net[l], Head(rx[l]).clip)
                                /\ Append(net[l], Head(rx[l]).clip)[i] = net[l][i]
    BY <1>1, <1>2
  <1>4. \E i \in DOMAIN Append(net[l], Head(rx[l]).clip) :
           Append(net[l], Head(rx[l]).clip)[i] = Head(rx[l]).clip
    <2>1. /\ Len(net[l]) + 1 \in DOMAIN Append(net[l], Head(rx[l]).clip)
          /\ Append(net[l], Head(rx[l]).clip)[Len(net[l]) + 1] = Head(rx[l]).clip
      BY <1>1, <1>2
    <2> QED
      BY <2>1
  <1>5. \A i \in DOMAIN rx[l] : i # 1 => \E j \in DOMAIN Tail(rx[l]) : Tail(rx[l])[j] = rx[l][i]
    <2> SUFFICES ASSUME NEW i \in DOMAIN rx[l], i # 1
                 PROVE  \E j \in DOMAIN Tail(rx[l]) : Tail(rx[l])[j] = rx[l][i]
      OBVIOUS
    <2>1. i - 1 \in DOMAIN Tail(rx[l]) /\ Tail(rx[l])[i - 1] = rx[l][i]
      BY <1>1
    <2> QED
      BY <2>1
  <1>6. Flies(k, d) => Flies(k, d)'
    BY <1>1, <1>3 DEF Flies, NetT
  <1>7. ASSUME Waits(k, d) PROVE Waits(k, d)' \/ Flies(k, d)'
    <2>1. CASE k # l
      BY <1>1, <1>7, <2>1 DEF Waits, RxT, Skips
    <2>2. CASE k = l
      <3>1. PICK i \in DOMAIN rx[l] : rx[l][i].clip = d /\ ~Skips(l, rx[l][i])
        BY <1>7, <2>2 DEF Waits
      <3>2. CASE i = 1
        <4>1. net'[l] = Append(net[l], d) /\ Head(rx[l]).clip = d
          BY <1>1, <1>2, <3>1, <3>2 DEF NetT
        <4> QED
          BY <1>4, <2>2, <4>1 DEF Flies
      <3>3. CASE i # 1
        <4>1. rx'[l] = Tail(rx[l])
          BY <1>1 DEF RxT
        <4> QED
          BY <1>5, <2>2, <3>1, <3>3, <4>1 DEF Waits, Skips
      <3> QED
        BY <3>2, <3>3
    <2> QED
      BY <2>1, <2>2
  <1> QED
    BY <1>6, <1>7

\* What is in flight to the relay goes on to every other member with room.
LEMMA BroadcastCarries ==
  ASSUME NetT, up = Link, NEW l \in Link, RelayBroadcast(l), NEW d,
         \A k \in Link : ToOthers(l, k) => Len(net[k]) < LeafCap
  PROVE  /\ \A k \in Link : Flies(k, d) /\ k # l => Flies(k, d)'
         /\ Flies(l, d) /\ ~Flies(l, d)' => \A k \in Link : ToOthers(l, k) => Flies(k, d)'
  <1> DEFINE h == Head(net[l])
  <1>1. /\ net[l] \in Seq(Clip) /\ net[l] # << >> /\ l[2] = Relay
        /\ \A k \in Link : net[k] \in Seq(Clip)
    BY DEF RelayBroadcast, NetT
  <1>2. h = net[l][1] /\ h \in Clip
    BY <1>1, HeadOfQueue
  <1>3. /\ net'[l] = Tail(net[l])
        /\ \A k \in Link : k # l => net'[k] = IF ToOthers(l, k) THEN Append(net[k], h) ELSE net[k]
    BY DEF RelayBroadcast
  <1> HIDE DEF h
  <1>4. ASSUME NEW k \in Link
        PROVE  /\ \A i \in DOMAIN net[k] : /\ i \in DOMAIN Append(net[k], h)
                                          /\ Append(net[k], h)[i] = net[k][i]
               /\ \E i \in DOMAIN Append(net[k], h) : Append(net[k], h)[i] = h
    <2>1. Len(net[k]) + 1 \in DOMAIN Append(net[k], h) /\ Append(net[k], h)[Len(net[k]) + 1] = h
      BY <1>1, <1>2
    <2>2. \A i \in DOMAIN net[k] : i \in DOMAIN Append(net[k], h) /\ Append(net[k], h)[i] = net[k][i]
      BY <1>1, <1>2
    <2> QED
      BY <2>1, <2>2
  <1>5. \A i \in DOMAIN net[l] : i # 1 => \E j \in DOMAIN Tail(net[l]) : Tail(net[l])[j] = net[l][i]
    <2> SUFFICES ASSUME NEW i \in DOMAIN net[l], i # 1
                 PROVE  \E j \in DOMAIN Tail(net[l]) : Tail(net[l])[j] = net[l][i]
      OBVIOUS
    <2>1. i - 1 \in DOMAIN Tail(net[l]) /\ Tail(net[l])[i - 1] = net[l][i]
      BY <1>1
    <2> QED
      BY <2>1
  <1>6. ASSUME NEW k \in Link, Flies(k, d), k # l PROVE Flies(k, d)'
    <2>1. PICK i \in DOMAIN net[k] : net[k][i] = d
      BY <1>6 DEF Flies
    <2>2. CASE net'[k] = net[k]
      BY <2>1, <2>2 DEF Flies
    <2>3. CASE net'[k] = Append(net[k], h)
      <3>1. i \in DOMAIN net'[k] /\ net'[k][i] = d
        BY <1>4, <2>1, <2>3
      <3> QED
        BY <3>1 DEF Flies
    <2> QED
      BY <1>3, <1>6, <2>2, <2>3
  <1>7. ASSUME Flies(l, d), ~Flies(l, d)', NEW k \in Link, ToOthers(l, k) PROVE Flies(k, d)'
    <2>1. h = d
      BY <1>2, <1>3, <1>5, <1>7 DEF Flies
    <2>2. net'[k] = Append(net[k], h)
      BY <1>1, <1>3, <1>7 DEF ToOthers
    <2>3. \E i \in DOMAIN net'[k] : net'[k][i] = d
      BY <1>4, <2>1, <2>2
    <2> QED
      BY <2>3 DEF Flies
  <1> QED
    BY <1>6, <1>7

\* A frame that is accepted is in the hands of the session.
LEMMA AcceptCarries ==
  ASSUME CountT, JobT, NetT, NEW l \in Link, ApplyAccept(l), NEW d
  PROVE  /\ \A k \in Link : Flies(k, d) /\ k # l => Flies(k, d)'
         /\ Flies(l, d) => \/ Flies(l, d)'
                           \/ Handled(l, d)' /\ seen'[l[2]][d.origin] = d.seq
         /\ \A k \in Link : Handled(k, d) => Handled(k, d)'
  <1> DEFINE h == Head(net[l])
  <1>1. /\ net[l] \in Seq(Clip) /\ net[l] # << >> /\ l[2] \in Node /\ jpc[l] = "idle"
        /\ net' = [net EXCEPT ![l] = Tail(net[l])]
        /\ jpc' = [jpc EXCEPT ![l] = "compare"] /\ jclip' = [jclip EXCEPT ![l] = h]
        /\ seen' = [seen EXCEPT ![l[2]][h.origin] = h.seq]
    BY DEF ApplyAccept, NetT
  <1>2. h = net[l][1] /\ h \in Clip
    BY <1>1, HeadOfQueue
  <1>3. /\ net'[l] = Tail(net[l]) /\ \A k \in Link : k # l => net'[k] = net[k]
        /\ jpc'[l] = "compare" /\ jclip'[l] = h
        /\ \A k \in Link : k # l => jpc'[k] = jpc[k] /\ jclip'[k] = jclip[k]
    BY <1>1 DEF JobT, NetT
  <1>4. seen'[l[2]][h.origin] = h.seq
    <2>1. h.origin \in Node
      BY <1>2 DEF Clip
    <2> QED
      BY <1>1, <2>1 DEF CountT
  <1> HIDE DEF h
  <1>5. \A i \in DOMAIN net[l] : i # 1 => \E j \in DOMAIN Tail(net[l]) : Tail(net[l])[j] = net[l][i]
    <2> SUFFICES ASSUME NEW i \in DOMAIN net[l], i # 1
                 PROVE  \E j \in DOMAIN Tail(net[l]) : Tail(net[l])[j] = net[l][i]
      OBVIOUS
    <2>1. i - 1 \in DOMAIN Tail(net[l]) /\ Tail(net[l])[i - 1] = net[l][i]
      BY <1>1
    <2> QED
      BY <2>1
  <1>6. \A k \in Link : Flies(k, d) /\ k # l => Flies(k, d)'
    BY <1>3 DEF Flies
  <1>7. ASSUME Flies(l, d), ~Flies(l, d)'
        PROVE  Handled(l, d)' /\ seen'[l[2]][d.origin] = d.seq
    <2>1. h = d
      BY <1>2, <1>3, <1>5, <1>7 DEF Flies
    <2> QED
      BY <1>3, <1>4, <2>1 DEF Handled
  <1>8. \A k \in Link : Handled(k, d) => Handled(k, d)'
    BY <1>1, <1>3 DEF Handled
  <1> QED
    BY <1>6, <1>7, <1>8

\* A clip emitted, newer than all that waits, waits on every link it is not skipped
\* on, and no other clip that waits is pushed out if it is newer than this one.
LEMMA EmitCarries ==
  ASSUME RxT, up = Link, NEW n \in Node, NEW c \in Clip, NEW skip \in Node \cup {Relay},
         rx' = Emitted(n, c, skip)
  PROVE  /\ \A l \in Link : l[1] = n /\ ~Skips(l, [clip |-> c, skip |-> skip]) => Waits(l, c)'
         /\ \A l \in Link : \A d : l[1] # n /\ Waits(l, d) => Waits(l, d)'
  <1>1. ASSUME NEW l \in Link, l[1] = n, ~Skips(l, [clip |-> c, skip |-> skip])
        PROVE  Waits(l, c)'
    <2>1. PICK i \in DOMAIN rx'[l] : rx'[l][i] = [clip |-> c, skip |-> skip]
      BY <1>1, EmittedIsQueued
    <2>2. [clip |-> c, skip |-> skip].clip = c
      OBVIOUS
    <2>3. i \in DOMAIN rx'[l] /\ rx'[l][i].clip = c /\ ~Skips(l, rx'[l][i])
      BY <1>1, <2>1, <2>2
    <2> QED
      BY <2>3 DEF Waits, Skips
  <1>2. ASSUME NEW l \in Link, NEW d, l[1] # n, Waits(l, d) PROVE Waits(l, d)'
    <2>1. rx'[l] = rx[l]
      BY <1>2 DEF Emitted
    <2> QED
      BY <1>2, <2>1 DEF Waits, Skips
  <1> QED
    BY <1>1, <1>2

\* An own clip is skipped nowhere; a clip that came in on j is not where it goes on.
LEMMA OnwardIsUnskipped ==
  ASSUME NEW B, Branches(B), NEW j \in Link, j[2] \in Node, NEW c \in Clip, c.origin \in B[j],
         NEW l \in Link, Onward(j, l)
  PROVE  l[1] = j[2] /\ ~Skips(l, [clip |-> c, skip |-> Ingress(j, c)])
  <1>1. l[1] = j[2] /\ l[2] # Relay /\ l[2] # j[1] /\ c.origin \in B[l] /\ l[2] \notin B[l]
    BY DEF Onward, Branches
  <1>2. Ingress(j, c) # l[2]
    BY <1>1 DEF Ingress
  <1> QED
    BY <1>1, <1>2 DEF Skips

\* A clip newer than the frames on a link finds room there.
LEMMA FrameFits ==
  ASSUME TypeInv, NetI, NEW w, OwnW(w), LatestW(w), Ranked, NEW l \in Link, NEW c \in issued,
         NetBelow(l, c.origin, c.seq)
  PROVE  /\ Len(net[l]) < c.seq
         /\ \A i \in DOMAIN Append(net[l], c) : i <= Append(net[l], c)[i].seq
  <1>1. net[l] \in Seq(Clip) /\ c \in Clip /\ c.seq >= 1
    BY DEF TypeInv, NetT, HistT, LatestW
  <1>2. \A i \in DOMAIN net[l] : net[l][i].origin = c.origin
    BY DEF NetI, OwnW
  <1>3. \A i \in DOMAIN net[l] : i <= net[l][i].seq /\ net[l][i].seq < c.seq
    BY <1>2 DEF Ranked, NetBelow
  <1> QED
    BY <1>1, <1>3, AppendRanked

\* In an undisturbed network nothing is pushed, refused, dropped or restarted.
LEMMA NoDisturbance ==
  ASSUME NEW w, Undisturbed(w), NoPush, up = Link
  PROVE  /\ \A n \in Node : /\ ~Push(n) /\ ~Restart(n) /\ ~WatchPackFails(n)
                            /\ \A h \in Hash : ~PushStart(n, h)
         /\ \A l \in Link : ~ApplySetFails(l) /\ ~Drop(l) /\ ~Reconnect(l)
  <1>1. {"push", "savefail", "setfail", "drop", "restart"} \cap Env = {}
    BY DEF Undisturbed
  <1>2. \A n \in Node : ppc[n] = "idle"
    BY DEF NoPush
  <1> QED
    BY <1>1, <1>2 DEF Push, PushSet, PushSetFails, PushStored, PushPack, PushPackFails, PushEmit, Restart,
                      WatchPackFails, NextSeqFails, PushStart, ApplySetFails, Drop, Reconnect

\* Every step keeps the frames of each link within their numbers.
LEMMA StepRanked ==
  ASSUME NEW B, Branches(B), NEW w, Undisturbed(w), TypeInv, SeqInv, OrderInv(B), OwnW(w),
         SourceInv(w), Ranked, [Next]_vars
  PROVE  Ranked'
  <1> USE DEF nodeVars, watchVars, pushVars, jobVars, wireVars, histVars
  <1>0. /\ NetT /\ RxT /\ NetI /\ RxI /\ NoPush /\ LatestW(w) /\ RxClear /\ NetClear /\ up = Link
    BY DEF TypeInv, SeqInv, OrderInv, SourceInv
  <1>k. \A k \in Link : net[k] \in Seq(Clip)
    BY <1>0 DEF NetT
  <1> DEFINE Moved(k) == \/ net'[k] = net[k]
                         \/ net[k] # << >> /\ net'[k] = Tail(net[k])
                         \/ \E c \in issued : /\ NetBelow(k, c.origin, c.seq)
                                              /\ net'[k] = Append(net[k], c)
  <1>1. ASSUME NEW k \in Link, Moved(k), NEW i \in DOMAIN net'[k] PROVE i <= net'[k][i].seq
    <2>1. CASE net'[k] = net[k]
      BY <2>1 DEF Ranked
    <2>2. CASE net[k] # << >> /\ net'[k] = Tail(net[k])
      <3>1. i + 1 \in DOMAIN net[k] /\ net'[k][i] = net[k][i + 1] /\ i \in Nat
        BY <1>1, <1>k, <2>2
      <3>2. i + 1 <= net[k][i + 1].seq /\ net[k][i + 1].seq \in Nat
        BY <1>0, <3>1, QueuedAreClips DEF Ranked
      <3> QED
        BY <3>1, <3>2
    <2>3. ASSUME NEW c \in issued, NetBelow(k, c.origin, c.seq), net'[k] = Append(net[k], c)
          PROVE  i <= net'[k][i].seq
      BY <1>0, <1>1, <2>3, FrameFits
    <2> QED
      BY <1>1, <2>1, <2>2, <2>3
  <1>2. ASSUME NEW l \in Link, Forward(l), NEW k \in Link PROVE Moved(k)
    <2>1. /\ l[1] \in Node /\ rx[l] \in Seq(Outbound) /\ rx[l] # << >>
          /\ net' = IF Skips(l, Head(rx[l])) THEN net
                    ELSE [net EXCEPT ![l] = Append(net[l], Head(rx[l]).clip)]
      BY <1>0, <1>2 DEF Forward, RxT
    <2>2. Head(rx[l]) = rx[l][1] /\ 1 \in DOMAIN rx[l]
      BY <2>1, HeadOfQueue
    <2>3. CASE k = l /\ ~Skips(l, Head(rx[l]))
      <3> DEFINE c == rx[l][1].clip
      <3>1. c \in issued
        BY <1>0, <2>2 DEF RxI
      <3>2. NetBelow(l, c.origin, c.seq)
        BY <1>0, <2>1, <2>2, <2>3 DEF RxClear, Clear, Reach
      <3>3. net'[k] = Append(net[k], c)
        BY <1>0, <2>1, <2>2, <2>3 DEF NetT
      <3> QED
        BY <2>3, <3>1, <3>2, <3>3
    <2>4. CASE ~(k = l /\ ~Skips(l, Head(rx[l])))
      BY <1>0, <2>1, <2>4 DEF NetT
    <2> QED
      BY <2>3, <2>4
  <1>3. ASSUME NEW l \in Link, RelayBroadcast(l), NEW k \in Link PROVE Moved(k)
    <2> DEFINE c == net[l][1]
    <2>1. /\ net[l] # << >> /\ l[2] = Relay /\ Head(net[l]) = c /\ 1 \in DOMAIN net[l] /\ c \in issued
      <3>1. net[l] # << >> /\ l[2] = Relay
        BY <1>3 DEF RelayBroadcast
      <3>2. Head(net[l]) = c /\ 1 \in DOMAIN net[l]
        BY <1>k, <3>1, HeadOfQueue
      <3> QED
        BY <1>0, <3>1, <3>2 DEF NetI
    <2>2. \/ k = l /\ net'[k] = Tail(net[k])
          \/ k # l /\ net'[k] = net[k]
          \/ k # l /\ ToOthers(l, k) /\ net'[k] = Append(net[k], c)
      BY <1>3, <2>1 DEF RelayBroadcast
    <2>3. k # l /\ ToOthers(l, k) => NetBelow(k, c.origin, c.seq)
      BY <1>0, <2>1 DEF NetClear, Reach
    <2> HIDE DEF c
    <2> QED
      BY <2>1, <2>2, <2>3
  <1>4. ASSUME NEW l \in Link, ApplyAccept(l) \/ ApplyKnown(l), NEW k \in Link PROVE Moved(k)
    BY <1>0, <1>4 DEF ApplyAccept, ApplyKnown, NetT
  <1>5. \/ UNCHANGED net
        \/ \E l \in Link : Forward(l) \/ RelayBroadcast(l) \/ ApplyAccept(l) \/ ApplyKnown(l)
    <2>1. ASSUME UNCHANGED vars PROVE UNCHANGED net
      BY <2>1 DEF vars
    <2>2. ASSUME NEW n \in Node, Watcher(n) \/ SavePeers(n) PROVE UNCHANGED net
      BY <2>2 DEF Watcher, WatchPoll, WatchSettle, WatchRead, WatchOversize, WatchDrop, WatchPass,
                  WatchAdd, WatchPack, WatchPackFails, WatchEmit, SavePeers
    <2>3. ASSUME NEW n \in Node, NEW h \in Hash, UserCopy(n, h) \/ Expire(n, h) PROVE UNCHANGED net
      BY <2>3 DEF UserCopy, Expire
    <2>4. ASSUME NEW l \in Link,
                 ApplyCompare(l) \/ ApplySuppress(l) \/ ApplySet(l) \/ ApplyStored(l) \/ ApplyEmit(l)
          PROVE  UNCHANGED net
      BY <2>4 DEF ApplyCompare, ApplySuppress, ApplySet, ApplyStored, ApplyEmit
    <2> QED
      BY <1>0, <2>1, <2>2, <2>3, <2>4, NoDisturbance DEF Next, User, Apply
  <1>6. \A k \in Link : Moved(k)
    <2>1. CASE UNCHANGED net
      BY <2>1
    <2> QED
      BY <1>2, <1>3, <1>4, <1>5, <2>1
  <1> HIDE DEF Moved
  <1> QED
    BY <1>1, <1>6 DEF Ranked

\* On a tree no session finds a frame its daemon knows.
LEMMA NothingKnown ==
  ASSUME NEW B \in [Link -> SUBSET Node], Branches(B), TreeInv(B), OrderInv(B), TypeInv,
         NEW l \in Link
  PROVE  ~ApplyKnown(l)
  <1> SUFFICES ASSUME ApplyKnown(l) PROVE FALSE
    OBVIOUS
  <1>1. FramesAreNew
    BY OrderedFramesAreNew
  <1>2. l[2] \in Node /\ net[l] \in Seq(Clip) /\ net[l] # << >> /\ ~Accepts(l[2], Head(net[l]))
    BY DEF ApplyKnown, TypeInv, NetT
  <1>3. Head(net[l]) = net[l][1] /\ 1 \in DOMAIN net[l]
    BY <1>2, HeadOfQueue
  <1> QED
    BY <1>1, <1>2, <1>3 DEF FramesAreNew

\* The clip that is about to be originated is the newest.
LEMMA PendingIsNewest ==
  ASSUME SeqInv, TypeInv, NEW w \in Node, WatchW(w), OwnW(w), wpc[w] = "emit", NEW d \in issued,
         d.seq = seq[w]
  PROVE  wclip[w] = d
  <1>1. wclip[w] \in issued /\ wclip[w].seq = seq[w]
    BY DEF SeqInv, WatchI, WatchW
  <1> QED
    BY <1>1 DEF OwnW, SeqInv, UniqueSeq

\* No clip is newer than the newest.
LEMMA NewestIsLast ==
  ASSUME SeqInv, TypeInv, NEW w \in Node, OwnW(w), NEW c \in issued
  PROVE  c.origin = w /\ c.seq \in Nat /\ seq[w] \in Nat /\ c.seq <= seq[w]
  <1>1. c.origin = w /\ c \in Clip /\ c.seq <= disk[w] /\ disk[w] <= seq[w]
    BY DEF OwnW, SeqInv, IssuedI, CountI, TypeInv, HistT
  <1>2. c.seq \in Nat /\ seq[w] \in Nat /\ disk[w] \in Nat
    BY <1>1 DEF TypeInv, CountT, Clip
  <1> QED
    BY <1>1, <1>2

\* Every step hands the newest clip on along the ways to each daemon.
LEMMA StepServed ==
  ASSUME NEW B \in [Link -> SUBSET Node], Branches(B), NEW w, Undisturbed(w),
         NEW Q \in [Node -> SUBSET Link], Paths(w, Q), TypeInv, SeqInv, TreeInv(B), OrderInv(B),
         RingInv(w), SourceInv(w), Ranked, Served(w, Q), [Next]_vars
  PROVE  Served(w, Q)'
  <1> USE DEF nodeVars, watchVars, pushVars, jobVars, wireVars, histVars
  <1>0. /\ w \in Node /\ CountT /\ WatchT /\ JobT /\ RxT /\ NetT /\ HistT /\ JobB(B) /\ NetB(B) /\ JobI /\ NetI /\ RxI /\ WatchI
        /\ UniqueSeq /\ NoPush /\ JobClear /\ NetClear /\ OwnW(w) /\ OthersW(w) /\ CheckedW(w)
        /\ up = Link /\ WatchW(w) /\ LatestW(w) /\ CountW(w)
    BY DEF TypeInv, SeqInv, TreeInv, OrderInv, RingInv, SourceInv, Undisturbed, OneWriter
  <1>1. ASSUME WatchPack(w) PROVE Served(w, Q)'
    <2>1. wpc'[w] = "emit"
      BY <1>0, <1>1 DEF WatchPack, WatchT
    <2> QED
      BY <2>1 DEF Served, Carried
  <1> SUFFICES ASSUME ~WatchPack(w) PROVE Served(w, Q)'
    BY <1>1
  <1>o. \A n \in Node \ {w} : ~WatchPack(n) /\ ~WatchPackFails(n) /\ ~WatchEmit(n)
    BY <1>0 DEF WatchPack, WatchPackFails, WatchEmit, OthersW
  <1>2. \/ /\ UNCHANGED <<rx, net, jpc, jclip, seen, issued, seq>>
           /\ wpc'[w] = "emit" <=> wpc[w] = "emit"
        \/ WatchEmit(w)
        \/ \E l \in Link : \/ Forward(l) \/ RelayBroadcast(l) \/ ApplyAccept(l) \/ ApplyCompare(l)
                           \/ ApplySuppress(l) \/ ApplySet(l) \/ ApplyStored(l) \/ ApplyEmit(l)
    <2> DEFINE Same == /\ UNCHANGED <<rx, net, jpc, jclip, seen, issued, seq>>
                       /\ wpc'[w] = "emit" <=> wpc[w] = "emit"
    <2>1. ASSUME UNCHANGED vars PROVE Same
      BY <2>1 DEF vars
    <2>2. ASSUME NEW n \in Node, Watcher(n), ~WatchEmit(w) PROVE Same
      <3>1. \/ WatchPoll(n) \/ WatchSettle(n) \/ WatchRead(n) \/ WatchOversize(n)
            \/ WatchDrop(n) \/ WatchPass(n) \/ WatchAdd(n)
        BY <1>0, <1>o, <2>2, NoDisturbance DEF Watcher
      <3> QED
        BY <1>0, <3>1 DEF WatchPoll, WatchSettle, WatchRead, WatchOversize, WatchDrop, WatchPass, WatchAdd, WatchT
    <2>3. ASSUME NEW n \in Node, SavePeers(n) PROVE Same
      BY <2>3 DEF SavePeers
    <2>4. ASSUME NEW n \in Node, NEW h \in Hash, UserCopy(n, h) \/ Expire(n, h) PROVE Same
      BY <2>4 DEF UserCopy, Expire
    <2> HIDE DEF Same
    <2>5. \A l \in Link : ~ApplyKnown(l)
      BY NothingKnown
    <2>6. ASSUME Next PROVE \/ Same
                            \/ WatchEmit(w)
                            \/ \E l \in Link : \/ Forward(l) \/ RelayBroadcast(l) \/ ApplyAccept(l)
                                               \/ ApplyCompare(l) \/ ApplySuppress(l) \/ ApplySet(l)
                                               \/ ApplyStored(l) \/ ApplyEmit(l)
      BY <1>0, <2>2, <2>3, <2>4, <2>5, <2>6, NoDisturbance DEF Next, User, Apply
    <2> QED
      BY <2>1, <2>6 DEF Same
  <1>3. UNCHANGED <<issued, seq>>
    BY <1>2 DEF WatchEmit, Forward, RelayBroadcast, ApplyAccept, ApplyCompare, ApplySuppress, ApplySet,
                ApplyStored, ApplyEmit
  <1> SUFFICES ASSUME NEW n \in Node \ {w}, NEW d \in issued, d.seq = seq[w]
               PROVE  seen'[n][w] = d.seq \/ Carried(w, Q[n], n, d)'
    BY <1>3 DEF Served, Carried, Waits, Flies, Handled, Skips
  <1>4. seen[n][w] = d.seq \/ Carried(w, Q[n], n, d)
    BY DEF Served
  <1>5. /\ Q[n] \subseteq Link /\ d.origin = w /\ d \in Clip
        /\ \E l \in Q[n] : l[1] = w
        /\ \A l \in Q[n] : l[2] = n \/ \E k \in Q[n] : Onward(l, k)
    BY <1>0 DEF Paths, HistT, OwnW
  <1>6. \A c \in issued : c.origin = w /\ c.seq \in Nat /\ c.seq <= d.seq /\ d.seq \in Nat
    BY <1>0, NewestIsLast
  <1>7. ASSUME wpc'[w] = "emit" <=> wpc[w] = "emit",
               seen[n][w] = d.seq => seen'[n][w] = d.seq,
               \A l \in Q[n] : Waits(l, d) => Waits(l, d)' \/ Flies(l, d)',
               \A l \in Q[n] : Flies(l, d) => Carried(w, Q[n], n, d)' \/ seen'[n][w] = d.seq,
               \A l \in Q[n] : l[2] # n /\ Handled(l, d) => Carried(w, Q[n], n, d)'
        PROVE  seen'[n][w] = d.seq \/ Carried(w, Q[n], n, d)'
    BY <1>4, <1>7 DEF Carried
  <1>8. ASSUME wpc'[w] = "emit" <=> wpc[w] = "emit", UNCHANGED <<rx, net, jclip, seen>>,
               \A l \in Link : jpc[l] # "idle" => jpc'[l] # "idle"
        PROVE  seen'[n][w] = d.seq \/ Carried(w, Q[n], n, d)'
    <2>1. \A l \in Q[n] : /\ Waits(l, d) => Waits(l, d)'
                          /\ Flies(l, d) => Flies(l, d)'
                          /\ Handled(l, d) => Handled(l, d)'
      BY <1>5, <1>8 DEF Waits, Flies, Handled, Skips
    <2> QED
      BY <1>4, <1>8, <2>1 DEF Carried
  <1>9. ASSUME WatchEmit(w) PROVE Carried(w, Q[n], n, d)'
    <2>1. /\ wpc[w] = "emit" /\ rx' = Emitted(w, wclip[w], NoSkip)
          /\ NoSkip \in Node \cup {Relay}
      BY <1>9 DEF WatchEmit, NoSkip
    <2>2. wclip[w] = d
      BY <1>0, <2>1, PendingIsNewest
    <2>3. PICK l \in Q[n] : l[1] = w
      BY <1>5
    <2>4. l \in Link /\ ~Skips(l, [clip |-> d, skip |-> NoSkip])
      BY <1>5 DEF Skips, NoSkip
    <2>5. rx' = Emitted(w, d, NoSkip) /\ l[1] = w
      BY <2>1, <2>2, <2>3
    <2>6. Waits(l, d)'
      BY <1>0, <1>5, <2>1, <2>4, <2>5, EmitCarries
    <2> QED
      BY <2>6 DEF Carried
  <1>10. ASSUME NEW l \in Link, Forward(l)
         PROVE  seen'[n][w] = d.seq \/ Carried(w, Q[n], n, d)'
    <2>1. UNCHANGED <<wpc, seen, jpc, jclip>>
      BY <1>10 DEF Forward
    <2>2. \A k \in Q[n] : /\ Waits(k, d) => Waits(k, d)' \/ Flies(k, d)'
                          /\ Flies(k, d) => Flies(k, d)'
      BY <1>0, <1>5, <1>10, ForwardCarries
    <2>3. \A k \in Q[n] : Handled(k, d) => Handled(k, d)'
      BY <2>1 DEF Handled
    <2> QED
      BY <1>4, <2>1, <2>2, <2>3 DEF Carried
  <1>11. ASSUME NEW l \in Link, RelayBroadcast(l)
         PROVE  seen'[n][w] = d.seq \/ Carried(w, Q[n], n, d)'
    <2>1. /\ UNCHANGED <<wpc, seen, jpc, jclip, rx>> /\ l[2] = Relay /\ net[l] # << >>
      BY <1>11 DEF RelayBroadcast
    <2>2. \A k \in Link : ToOthers(l, k) => Len(net[k]) < LeafCap
      <3> SUFFICES ASSUME NEW k \in Link, ToOthers(l, k) PROVE Len(net[k]) < LeafCap
        OBVIOUS
      <3>1. Head(net[l]) = net[l][1] /\ 1 \in DOMAIN net[l]
        BY <1>0, <2>1, HeadOfQueue DEF NetT
      <3>2. net[l][1] \in issued
        BY <1>0, <3>1 DEF NetI
      <3>3. k \in Reach(l) \ {l}
        BY <2>1 DEF Reach, ToOthers
      <3>4. NetBelow(k, net[l][1].origin, net[l][1].seq)
        BY <1>0, <3>1, <3>3 DEF NetClear
      <3>5. Len(net[k]) < net[l][1].seq
        BY <1>0, <3>2, <3>4, FrameFits
      <3>6. net[l][1].seq <= seq[w] /\ net[l][1].seq \in Nat /\ seq[w] \in Nat
        BY <1>0, <3>2, NewestIsLast
      <3>7. seq[w] <= spent.copies /\ spent.copies <= MaxCopies /\ spent.copies \in Nat
        BY <1>0, <3>6 DEF CountW, HistT
      <3>8. net[k] \in Seq(Clip) /\ MaxCopies <= LeafCap /\ MaxCopies \in Nat /\ LeafCap \in Nat
        BY <1>0, BoundAssumption DEF NetT, Undisturbed
      <3>9. Len(net[k]) \in Nat
        BY <3>8
      <3> QED
        BY <3>5, <3>6, <3>7, <3>8, <3>9
    <2>3. /\ \A k \in Link : Flies(k, d) /\ k # l => Flies(k, d)'
          /\ Flies(l, d) /\ ~Flies(l, d)' => \A k \in Link : ToOthers(l, k) => Flies(k, d)'
      BY <1>0, <1>11, <2>2, BroadcastCarries
    <2>4. ASSUME l \in Q[n] PROVE \E k \in Q[n] : ToOthers(l, k)
      <3>1. PICK k \in Q[n] : Onward(l, k)
        BY <1>5, <2>1, <2>4
      <3> QED
        BY <2>1, <3>1 DEF Onward, ToOthers
    <2>5. \A k \in Q[n] : /\ Waits(k, d) => Waits(k, d)'
                          /\ Handled(k, d) => Handled(k, d)'
      BY <2>1 DEF Waits, Handled, Skips
    <2>6. \A k \in Q[n] : Flies(k, d) => \E m \in Q[n] : Flies(m, d)'
      BY <1>5, <2>3, <2>4
    <2> QED
      BY <1>4, <2>1, <2>5, <2>6 DEF Carried
  <1>12. ASSUME NEW l \in Link, ApplyAccept(l)
         PROVE  seen'[n][w] = d.seq \/ Carried(w, Q[n], n, d)'
    <2> DEFINE h == Head(net[l])
    <2>1. /\ UNCHANGED <<wpc, rx>> /\ l[2] \in Node /\ net[l] # << >>
          /\ seen' = [seen EXCEPT ![l[2]][h.origin] = h.seq]
          /\ h.seq > seen[l[2]][h.origin]
      BY <1>12 DEF ApplyAccept, Accepts
    <2>2. h \in issued
      <3>1. h = net[l][1] /\ 1 \in DOMAIN net[l]
        BY <1>0, <2>1, HeadOfQueue DEF NetT
      <3> QED
        BY <1>0, <3>1 DEF NetI
    <2> HIDE DEF h
    <2>3. h.origin = w /\ h.seq <= d.seq /\ h.seq \in Nat /\ d.seq \in Nat
      BY <1>6, <2>2
    <2>4. seen[n][w] = d.seq => seen'[n][w] = d.seq
      <3>1. CASE l[2] = n
        BY <1>0, <2>1, <2>3, <3>1
      <3>2. CASE l[2] # n
        BY <1>0, <2>1, <3>2 DEF CountT
      <3> QED
        BY <3>1, <3>2
    <2>5. /\ \A k \in Link : Flies(k, d) /\ k # l => Flies(k, d)'
          /\ Flies(l, d) => Flies(l, d)' \/ (Handled(l, d)' /\ seen'[l[2]][d.origin] = d.seq)
          /\ \A k \in Link : Handled(k, d) => Handled(k, d)'
      BY <1>0, <1>12, AcceptCarries
    <2>6. \A k \in Q[n] : Waits(k, d) => Waits(k, d)'
      BY <2>1 DEF Waits, Skips
    <2>7. \A k \in Q[n] : Flies(k, d) =>
             \/ Flies(k, d)'
             \/ k[2] # n /\ Handled(k, d)'
             \/ seen'[n][w] = d.seq
      BY <1>5, <2>5
    <2>8. \A k \in Q[n] : Handled(k, d) => Handled(k, d)'
      BY <1>5, <2>5
    <2> QED
      BY <1>4, <2>1, <2>4, <2>6, <2>7, <2>8 DEF Carried
  <1>13. ASSUME NEW l \in Link, ApplyCompare(l) \/ ApplySuppress(l) \/ ApplySet(l) \/ ApplyStored(l)
         PROVE  seen'[n][w] = d.seq \/ Carried(w, Q[n], n, d)'
    <2>1. /\ UNCHANGED <<wpc, rx, net, jclip, seen>>
          /\ \A k \in Link : jpc[k] # "idle" => jpc'[k] # "idle"
      BY <1>0, <1>13 DEF ApplyCompare, ApplySuppress, ApplySet, ApplyStored, JobT
    <2> QED
      BY <1>8, <2>1
  <1>14. ASSUME NEW l \in Link, ApplyEmit(l), NEW c, c = jclip[l]
         PROVE  seen'[n][w] = d.seq \/ Carried(w, Q[n], n, d)'
    <2>1. /\ UNCHANGED <<wpc, seen, net>> /\ l[2] \in Node /\ c \in Clip /\ jpc[l] # "idle"
          /\ rx' = Emitted(l[2], c, Ingress(l, c)) /\ c \in issued /\ c.origin \in B[l]
          /\ \A k \in Link : k # l => jpc'[k] = jpc[k] /\ jclip'[k] = jclip[k]
      BY <1>0, <1>14 DEF ApplyEmit, JobT, JobI, JobB
    <2>2. Ingress(l, c) \in Node \cup {Relay}
      BY <2>1 DEF Ingress, Clip
    <2>3. /\ \A k \in Link : k[1] = l[2] /\ ~Skips(k, [clip |-> c, skip |-> Ingress(l, c)]) => Waits(k, c)'
          /\ \A k \in Link : k[1] # l[2] /\ Waits(k, d) => Waits(k, d)'
      BY <1>0, <2>1, <2>2, EmitCarries
    <2>4. \A k \in Link : k[1] = l[2] => RxBelow(k, c.origin, c.seq)
      BY <1>0, <1>14, <2>1 DEF JobClear
    <2>5. \A k \in Link : k[1] = l[2] => ~Waits(k, d)
      <3>1. c.origin = w /\ c.seq <= d.seq /\ c.seq \in Nat /\ d.seq \in Nat
        BY <1>6, <2>1
      <3> QED
        BY <1>5, <2>4, <3>1 DEF Waits, RxBelow
    <2>6. ASSUME l \in Q[n], l[2] # n, c = d PROVE \E k \in Q[n] : Waits(k, d)'
      <3>1. PICK k \in Q[n] : Onward(l, k)
        BY <1>5, <2>6
      <3>2. k \in Link
        BY <1>5
      <3>3. k[1] = l[2] /\ ~Skips(k, [clip |-> c, skip |-> Ingress(l, c)])
        BY <2>1, <3>1, <3>2, OnwardIsUnskipped
      <3> QED
        BY <2>3, <2>6, <3>2, <3>3
    <2>7. \A k \in Q[n] : Flies(k, d) => Flies(k, d)'
      BY <2>1 DEF Flies
    <2>8. \A k \in Q[n] : k # l /\ Handled(k, d) => Handled(k, d)'
      BY <1>5, <2>1 DEF Handled
    <2>9. \A k \in Q[n] : k[2] # n /\ Handled(k, d) =>
             Handled(k, d)' \/ \E m \in Q[n] : Waits(m, d)'
      BY <1>14, <2>6, <2>8 DEF Handled
    <2>10. \A k \in Q[n] : Waits(k, d) => Waits(k, d)'
      BY <1>5, <2>3, <2>5
    <2> QED
      BY <1>4, <2>1, <2>7, <2>9, <2>10 DEF Carried
  <1> QED
    <2>1. CASE /\ UNCHANGED <<rx, net, jpc, jclip, seen, issued, seq>>
               /\ wpc'[w] = "emit" <=> wpc[w] = "emit"
      BY <1>8, <2>1
    <2> QED
      BY <1>2, <1>9, <1>10, <1>11, <1>12, <1>13, <1>14, <2>1

\* Every step leaves the newest clip accepted by a daemon on its clipboard or with
\* the session that accepted it.
LEMMA StepShows ==
  ASSUME NEW B \in [Link -> SUBSET Node], Branches(B), NEW w, Undisturbed(w), TypeInv, SeqInv,
         TreeInv(B), NoPush, RingInv(w), SourceInv(w), Shows(w), Blank(w), [Next]_vars
  PROVE  Shows(w)' /\ Blank(w)'
  <1> USE DEF nodeVars, watchVars, pushVars, jobVars, wireVars, histVars
  <1>0. /\ w \in Node /\ CountT /\ WatchT /\ JobT /\ ClipT /\ NetT /\ HistT /\ JobB(B) /\ JobI /\ NetI
        /\ UniqueSeq /\ OrderB /\ OwnW(w) /\ OthersW(w) /\ CountI /\ NoPush /\ up = Link
        /\ Writer = {w} /\ \A n \in Node, h \in Hash : Shown[n][h] = h
    BY DEF TypeInv, SeqInv, TreeInv, RingInv, SourceInv, Undisturbed, OneWriter
  <1>1. ASSUME NEW n \in Node, WatchPack(n) PROVE Shows(w)' /\ Blank(w)'
    <2>1. n = w
      BY <1>0, <1>1 DEF WatchPack, OthersW
    <2>2. /\ UNCHANGED <<clip, seen, jpc, jclip>> /\ seq'[w] = seq[w] + 1 /\ issued' # {}
      BY <1>0, <1>1, <2>1 DEF WatchPack, NextSeq, CountT
    <2>3. \A m \in Node \ {w} : seen[m][w] < seq[w] + 1
      <3> SUFFICES ASSUME NEW m \in Node \ {w} PROVE seen[m][w] < seq[w] + 1
        OBVIOUS
      <3>1. seen[m][w] <= disk[w] /\ disk[w] <= seq[w]
        BY <1>0 DEF CountI
      <3>2. seen[m][w] \in Nat /\ disk[w] \in Nat /\ seq[w] \in Nat
        BY <1>0 DEF CountT
      <3> QED
        BY <3>1, <3>2
    <2>4. Shows(w)'
      <3> SUFFICES ASSUME NEW m \in Node \ {w}, NEW d \in issued', d.seq = seq'[w], seen'[m][w] = d.seq
                   PROVE  FALSE
        BY DEF Shows
      <3>1. seen[m][w] = seq[w] + 1 /\ seen[m][w] < seq[w] + 1
        BY <2>2, <2>3
      <3>2. seen[m][w] \in Nat /\ seq[w] \in Nat
        BY <1>0 DEF CountT
      <3> QED
        BY <3>1, <3>2
    <2> QED
      BY <2>2, <2>4 DEF Blank
  <1>2. ASSUME UNCHANGED <<issued, seq, seen, jclip>>, \A n \in Node \ {w} : clip'[n] = clip[n],
               \A l \in Link : jpc[l] \in {"compare", "absent", "set"} => jpc'[l] \in {"compare", "absent", "set"}
        PROVE  Shows(w)' /\ Blank(w)'
    BY <1>2 DEF Shows, Blank
  <1>3. ASSUME NEW n \in Node, Watcher(n), ~WatchPack(n) PROVE Shows(w)' /\ Blank(w)'
    <2>1. UNCHANGED <<issued, seq, seen, jclip, clip, jpc>>
      BY <1>0, <1>3, NoDisturbance DEF Watcher, WatchPoll, WatchSettle, WatchRead, WatchOversize, WatchDrop,
                                       WatchPass, WatchAdd, WatchEmit
    <2> QED
      BY <1>2, <2>1
  <1>4. ASSUME NEW n \in Node, SavePeers(n) PROVE Shows(w)' /\ Blank(w)'
    <2>1. UNCHANGED <<issued, seq, seen, jclip, clip, jpc>>
      BY <1>4 DEF SavePeers
    <2> QED
      BY <1>2, <2>1
  <1>5. ASSUME NEW n \in Node, NEW h \in Hash, UserCopy(n, h) \/ Expire(n, h)
        PROVE  Shows(w)' /\ Blank(w)'
    <2>1. /\ UNCHANGED <<issued, seq, seen, jclip, jpc>>
          /\ clip' = clip \/ (n = w /\ clip' = [clip EXCEPT ![n] = h])
      BY <1>0, <1>5 DEF UserCopy, MayCopy, Expire
    <2>2. \A m \in Node \ {w} : clip'[m] = clip[m]
      BY <1>0, <2>1 DEF ClipT
    <2> QED
      BY <1>2, <2>1, <2>2
  <1>6. ASSUME NEW l \in Link, Forward(l) \/ RelayBroadcast(l) PROVE Shows(w)' /\ Blank(w)'
    <2>1. UNCHANGED <<issued, seq, seen, jclip, clip, jpc>>
      BY <1>6 DEF Forward, RelayBroadcast
    <2> QED
      BY <1>2, <2>1
  <1>7. ASSUME NEW l \in Link, ApplyStored(l) \/ ApplySuppress(l) PROVE Shows(w)' /\ Blank(w)'
    <2>1. /\ UNCHANGED <<issued, seq, seen, jclip, clip>>
          /\ \A k \in Link : jpc[k] \in {"compare", "absent", "set"} => jpc'[k] \in {"compare", "absent", "set"}
      BY <1>0, <1>7 DEF ApplyStored, ApplySuppress, JobT
    <2> QED
      BY <1>2, <2>1
  <1>8. ASSUME NEW l \in Link, ApplyEmit(l) PROVE Shows(w)' /\ Blank(w)'
    <2>1. /\ UNCHANGED <<issued, seq, seen, clip>>
          /\ \A k \in Link : jpc[k] \in {"compare", "absent", "set"} => jpc'[k] = jpc[k] /\ jclip'[k] = jclip[k]
      BY <1>0, <1>8 DEF ApplyEmit, JobT
    <2> QED
      BY <2>1 DEF Shows, Blank
  <1>9. ASSUME NEW l \in Link, ApplyAccept(l) PROVE Shows(w)' /\ Blank(w)'
    <2> DEFINE h == Head(net[l])
    <2>1. /\ UNCHANGED <<issued, seq, clip>> /\ l[2] \in Node /\ net[l] # << >>
          /\ seen' = [seen EXCEPT ![l[2]][h.origin] = h.seq]
          /\ jpc[l] = "idle" /\ jpc'[l] = "compare" /\ jclip'[l] = h
          /\ \A k \in Link : k # l => jpc'[k] = jpc[k] /\ jclip'[k] = jclip[k]
      BY <1>0, <1>9 DEF ApplyAccept, JobT
    <2>2. h \in issued
      <3>1. h = net[l][1] /\ 1 \in DOMAIN net[l]
        BY <1>0, <2>1, HeadOfQueue DEF NetT
      <3> QED
        BY <1>0, <3>1 DEF NetI
    <2> HIDE DEF h
    <2>3. h.origin = w
      BY <1>0, <2>2 DEF OwnW
    <2>4. Shows(w)'
      <3> SUFFICES ASSUME NEW n \in Node \ {w}, NEW d \in issued, d.seq = seq[w], seen'[n][w] = d.seq
                   PROVE  \/ clip[n] = d.hash
                          \/ \E k \in Link : k[2] = n /\ jpc'[k] \in {"compare", "absent", "set"} /\ jclip'[k] = d
        BY <2>1 DEF Shows
      <3>1. CASE l[2] = n
        <4>1. seen'[n][w] = h.seq
          BY <1>0, <2>1, <2>3, <3>1 DEF CountT
        <4>2. h = d
          BY <1>0, <2>2, <4>1 DEF UniqueSeq, OwnW
        <4> QED
          BY <2>1, <3>1, <4>2
      <3>2. CASE l[2] # n
        <4>1. seen[n][w] = d.seq
          BY <1>0, <2>1, <3>2 DEF CountT
        <4>2. \/ clip[n] = d.hash
              \/ \E k \in Link : k[2] = n /\ jpc[k] \in {"compare", "absent", "set"} /\ jclip[k] = d
          BY <4>1 DEF Shows
        <4> QED
          BY <2>1, <3>2, <4>2
      <3> QED
        BY <3>1, <3>2
    <2> QED
      BY <2>1, <2>4 DEF Blank
  <1>10. ASSUME NEW l \in Link, ApplyCompare(l) PROVE Shows(w)' /\ Blank(w)'
    <2>1. /\ UNCHANGED <<issued, seq, seen, clip, jclip>> /\ jpc[l] = "compare" /\ l[2] \in Node
          /\ jpc'[l] = IF clip[l[2]] = jclip[l].hash THEN "present" ELSE "absent"
          /\ \A k \in Link : k # l => jpc'[k] = jpc[k]
      BY <1>0, <1>10 DEF ApplyCompare, JobT
    <2>2. Shows(w)'
      <3> SUFFICES ASSUME NEW n \in Node \ {w}, NEW d \in issued, d.seq = seq[w], seen[n][w] = d.seq
                   PROVE  \/ clip[n] = d.hash
                          \/ \E k \in Link : k[2] = n /\ jpc'[k] \in {"compare", "absent", "set"} /\ jclip[k] = d
        BY <2>1 DEF Shows
      <3>1. CASE clip[n] = d.hash
        BY <3>1
      <3>2. ASSUME NEW k \in Link, k[2] = n, jpc[k] \in {"compare", "absent", "set"}, jclip[k] = d, clip[n] # d.hash
            PROVE  jpc'[k] \in {"compare", "absent", "set"}
        BY <2>1, <3>2
      <3> QED
        BY <3>1, <3>2 DEF Shows
    <2> QED
      BY <2>1, <2>2 DEF Blank
  <1>11. ASSUME NEW l \in Link, ApplySet(l) PROVE Shows(w)' /\ Blank(w)'
    <2> DEFINE e == jclip[l]
    <2>1. /\ UNCHANGED <<issued, seq, seen, jclip>> /\ jpc[l] = "set" /\ l[2] \in Node
          /\ clip' = [clip EXCEPT ![l[2]] = Shown[l[2]][e.hash]]
          /\ \A k \in Link : k # l => jpc'[k] = jpc[k]
          /\ e \in issued /\ e \in Clip /\ e.origin = w
      BY <1>0, <1>11 DEF ApplySet, JobT, JobI, OwnW
    <2> HIDE DEF e
    <2>2. clip'[l[2]] = e.hash /\ \A n \in Node : n # l[2] => clip'[n] = clip[n]
      <3>1. e.hash \in Hash
        BY <2>1 DEF Clip
      <3> QED
        BY <1>0, <2>1, <3>1 DEF ClipT
    <2>3. e.seq = seen[l[2]][w]
      BY <1>0, <2>1 DEF OrderB, e
    <2>4. Shows(w)'
      <3> SUFFICES ASSUME NEW n \in Node \ {w}, NEW d \in issued, d.seq = seq[w], seen[n][w] = d.seq
                   PROVE  \/ clip'[n] = d.hash
                          \/ \E k \in Link : k[2] = n /\ jpc'[k] \in {"compare", "absent", "set"} /\ jclip[k] = d
        BY <2>1 DEF Shows
      <3>1. CASE l[2] = n
        <4>1. e = d
          BY <1>0, <2>1, <2>3, <3>1 DEF UniqueSeq, OwnW
        <4> QED
          BY <2>2, <3>1, <4>1
      <3>2. CASE l[2] # n
        <4>1. CASE clip[n] = d.hash
          BY <2>2, <3>2, <4>1
        <4>2. CASE clip[n] # d.hash
          <5>1. PICK k \in Link : k[2] = n /\ jpc[k] \in {"compare", "absent", "set"} /\ jclip[k] = d
            BY <4>2 DEF Shows
          <5>2. jpc'[k] = jpc[k]
            BY <2>1, <3>2, <5>1
          <5> QED
            BY <5>1, <5>2
        <4> QED
          BY <4>1, <4>2
      <3> QED
        BY <3>1, <3>2
    <2>5. issued # {}
      BY <2>1
    <2> QED
      BY <2>1, <2>4, <2>5 DEF Blank
  <1>12. ASSUME NEW l \in Link, ApplyKnown(l) PROVE Shows(w)' /\ Blank(w)'
    <2>1. /\ UNCHANGED <<issued, seq, seen, clip>>
          /\ \A k \in Link : jpc[k] \in {"compare", "absent", "set"} => jpc'[k] = jpc[k] /\ jclip'[k] = jclip[k]
      BY <1>0, <1>12 DEF ApplyKnown, JobT
    <2> QED
      BY <2>1 DEF Shows, Blank
  <1>13. ASSUME UNCHANGED vars PROVE Shows(w)' /\ Blank(w)'
    <2>1. UNCHANGED <<issued, seq, seen, jclip, clip, jpc>>
      BY <1>13 DEF vars
    <2> QED
      BY <1>2, <2>1
  <1>14. ASSUME Next PROVE Shows(w)' /\ Blank(w)'
    BY <1>0, <1>1, <1>3, <1>4, <1>5, <1>6, <1>7, <1>8, <1>9, <1>10, <1>11, <1>12, <1>14,
       NoDisturbance DEF Next, User, Apply
  <1> QED
    BY <1>13, <1>14

\* At rest, with nothing on its way, the clipboards the writer's clips come to show
\* the newest of them.
LEMMA RestIsAgreed ==
  ASSUME TypeInv, NEW w \in Node, RingInv(w), SourceInv(w), NEW Q \in [Node -> SUBSET Link],
         Paths(w, Q), FloodInv(w, Q)
  PROVE  Agreement
  <1> SUFFICES ASSUME Quiet PROVE \A n \in Node \ {w} : clip[n] = clip[w]
    <2> SUFFICES ASSUME Quiet, NEW v \in Node, copied[v] # {}, NEW n \in Node
                 PROVE  clip[n] = IF n = v \/ Reached(v, n) THEN clip[v] ELSE Empty
      BY DEF Agreement
    <2>1. v = w
      BY DEF RingInv, OthersW
    <2>2. n # w => Reached(w, n)
      BY DEF Paths, Reached
    <2> QED
      BY <2>1, <2>2
  <1>1. clip[w] = wlast[w] /\ wpc[w] = "idle" /\ \A l \in Link : jpc[l] = "idle" /\ rx[l] = << >> /\ net[l] = << >>
    BY DEF Quiet, SourceInv, WatchW
  <1>2. seq[w] \in Nat
    BY DEF TypeInv, CountT
  <1>3. CASE seq[w] = 0
    <2>1. issued = {} /\ wlast[w] = Empty
      BY <1>1, <1>3 DEF SourceInv, LatestW, Coming
    <2> QED
      BY <1>1, <2>1 DEF FloodInv, Blank
  <1>4. CASE seq[w] > 0
    <2>1. PICK d \in issued : d.seq = seq[w] /\ d.hash = wlast[w]
      BY <1>1, <1>4 DEF SourceInv, LatestW, Coming
    <2> SUFFICES ASSUME NEW n \in Node \ {w} PROVE clip[n] = d.hash
      BY <1>1, <2>1
    <2>2. ~Carried(w, Q[n], n, d)
      <3>1. Q[n] \subseteq Link
        OBVIOUS
      <3> QED
        BY <1>1, <3>1 DEF Carried, Waits, Flies, Handled
    <2>3. seen[n][w] = d.seq
      BY <2>1, <2>2 DEF FloodInv, Served
    <2> QED
      BY <1>1, <2>1, <2>3 DEF FloodInv, Shows
  <1> QED
    BY <1>2, <1>3, <1>4

\* One writer, on a tree that connects the others to it, while nothing fails: when
\* the network is at rest all clipboards hold the same content, unless the ring lost
\* an entry between a watcher's read and its lookup.
THEOREM WriterIsFollowed ==
  ASSUME Tree, NEW w, Undisturbed(w), Connected(w) PROVE Spec => []Agreement
  <1>1. PICK B \in [Link -> SUBSET Node] : Branches(B)
    BY DEF Tree
  <1>2. PICK Q \in [Node -> SUBSET Link] : Paths(w, Q)
    BY DEF Connected
  <1>3. w \in Node /\ OneWriter(w) /\ OneOriginator
    BY DEF Undisturbed, OneWriter, OneOriginator
  <1> DEFINE Flow == RingInv(w) /\ SourceInv(w) /\ FloodInv(w, Q)
             Inv == TypeInv /\ MarkT /\ SeqInv /\ TreeInv(B) /\ OrderInv(B) /\ (lapsed \/ Flow)
  <1>4. Inv => Agreement
    <2>1. TypeInv /\ Flow => Agreement
      BY <1>2, <1>3, RestIsAgreed
    <2>2. lapsed => Agreement
      BY DEF Agreement
    <2> QED
      BY <2>1, <2>2
  <1>5. Init => Inv
    BY <1>3, InitTypes, InitSeq, InitTree, InitOrder, InitRing, InitSource, InitFlood
  <1>6. Inv /\ [Next]_vars => Inv'
    <2> SUFFICES ASSUME Inv, [Next]_vars PROVE Inv'
      OBVIOUS
    <2>1. TypeInv' /\ MarkT' /\ (lapsed => lapsed') /\ SeqInv' /\ TreeInv(B)' /\ OrderInv(B)'
      BY <1>1, <1>3, StepTypes, StepMarks, StepSeq, StepTree, StepOrder
    <2>2. NoPush
      BY DEF OrderInv
    <2>3. ASSUME Flow, ~lapsed' PROVE Flow'
      <3>1. RingInv(w)'
        BY <1>1, <1>3, <2>1, <2>3, StepRing
      <3>2. SourceInv(w)'
        BY <1>1, <2>1, <2>2, <2>3, StepSource
      <3>3. FloodInv(w, Q)'
        <4>1. Ranked'
          BY <1>1, <2>3, StepRanked DEF FloodInv, RingInv
        <4>2. Served(w, Q)'
          BY <1>1, <1>2, <2>3, StepServed DEF FloodInv
        <4>3. Shows(w)' /\ Blank(w)'
          BY <1>1, <2>2, <2>3, StepShows DEF FloodInv
        <4> QED
          BY <4>1, <4>2, <4>3 DEF FloodInv
      <3> QED
        BY <3>1, <3>2, <3>3
    <2> QED
      BY <2>1, <2>3
  <1> HIDE DEF Inv
  <1> QED
    BY <1>4, <1>5, <1>6, PTL DEF Spec
=============================================================================
