------------------------------- MODULE MCHub -------------------------------
(* Small networks for Hub. *)
EXTENDS HubNetworks

CONSTANTS a, b, c, x, y, z

Both(S) == S \cup {<<l[2], l[1]>> : l \in S}

Pair     == Both({<<a, b>>})
Triangle == Both({<<a, b>>, <<b, c>>, <<a, c>>})
Mixed    == Both({<<a, b>>, <<b, Relay>>, <<c, Relay>>})

\* The system clipboard of b shows another content than the one it is given.
Rewritten == [n \in Node |-> [h \in Hash |-> IF n = b THEN y ELSE h]]

Verbatim == [n \in Node |-> [h \in Hash |-> h]]

\* The daemons whose clips come along each link of Pair and of Mixed, and the
\* links that clips of c take through Mixed.
PairBranches  == [l \in Pair |-> {l[1]}]
MixedBranches == [l \in Mixed |->
                    IF l[1] = Relay THEN {b, c} \ {l[2]}
                    ELSE IF l = <<b, a>> THEN {b, c}
                    ELSE {l[1]}]
MixedPaths    == [n \in {a, b, c} |->
                    CASE n = a -> {<<c, Relay>>, <<Relay, b>>, <<b, a>>}
                      [] n = b -> {<<c, Relay>>, <<Relay, b>>}
                      [] OTHER -> {}]

\* The theorems of HubProofs are about the networks of the runs, too.
ASSUME PairIsTree  == Link = Pair => Branches(PairBranches)
ASSUME MixedIsTree == Link = Mixed =>
  Branches(MixedBranches) /\ OneOriginator /\ Paths(c, MixedPaths)
=============================================================================
