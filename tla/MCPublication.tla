--------------------------- MODULE MCPublication ----------------------------
(* Small instances of Publication for TLC. *)
EXTENDS Publication, TLC

CONSTANTS c, s1, s2, p1, p2, p3, n1, n2

OneCollection == {c}
TwoSets == {s1, s2}
TwoProcesses == {p1, p2}
ThreeProcesses == {p1, p2, p3}
TwoNonces == {n1, n2}
NoNonce == {}

Ordinary == [set : ChunkSet, again : {FALSE}]
Mixed == {[set |-> s1, again |-> FALSE], [set |-> s2, again |-> FALSE],
          [set |-> s1, again |-> TRUE]}

PublicationSymmetry == Permutations(Process) \cup Permutations(Again)
=============================================================================
