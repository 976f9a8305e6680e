---------------------------- MODULE HubNetworks ----------------------------
(***************************************************************************)
(* The networks some theorems about Hub are about: what they ask of the    *)
(* links, of the users and of the environment.  MCHub shows that the       *)
(* networks of the runs are such networks.                                 *)
(***************************************************************************)
EXTENDS Hub

-----------------------------------------------------------------------------
(* Links *)

\* B[l] has the daemons whose clips can come along l: no way leads back to a
\* daemon, and no two ways to the same one.
Branches(B) ==
  /\ \A l \in Link : l[1] \in Node => l[1] \in B[l]
  /\ \A l, k \in Link : Onward(l, k) => B[l] \subseteq B[k]
  /\ \A l \in Link : l[2] \notin B[l]
  /\ \A l, k \in Link : l # k /\ l[2] = k[2] => B[l] \cap B[k] = {}

Tree == \E B \in [Link -> SUBSET Node] : Branches(B)

\* Q[n] has the links along which the clips of w come to n: one starts at w, and
\* each ends at n or goes on.
Paths(w, Q) ==
  \A n \in Node \ {w} : /\ \E l \in Q[n] : l[1] = w
                        /\ \A l \in Q[n] : l[2] = n \/ \E k \in Q[n] : Onward(l, k)

Connected(w) == \E Q \in [Node -> SUBSET Link] : Paths(w, Q)

-----------------------------------------------------------------------------
(* Users and environment *)

\* One task of each daemon originates clips, its watcher, and no daemon restarts.
OneOriginator == "push" \notin Env /\ "restart" \notin Env

\* Only the user of w copies, no daemon restarts, no set() fails, clipboards show
\* what they are given, and the suppress ring has room for two.
OneWriter(w) ==
  /\ w \in Node /\ Writer = {w}
  /\ "restart" \notin Env /\ "setfail" \notin Env
  /\ \A n \in Node, h \in Hash : Shown[n][h] = h
  /\ RingMax >= 2

\* One writer copies new contents that fit, as many as the relay's channels hold,
\* while no link drops, nothing fails and `zsync copy' is not used.
Undisturbed(w) ==
  /\ OneWriter(w)
  /\ Env \subseteq {"copy", "expire", "peers"} /\ Oversize = {}
  /\ MaxCopies <= LeafCap
=============================================================================
