----------------------------- MODULE MCArtifacts -----------------------------
(* Small instances of Artifacts for TLC. *)
EXTENDS Artifacts

CONSTANTS p1, p2, p3, d1, m1, m2

TwoProcesses == {p1, p2}
ThreeProcesses == {p1, p2, p3}
OneDigest == {d1}
OneMedia == {m1}
TwoMedia == {m1, m2}
AllFaults == {"crash", "io", "rot"}
OnlyCrash == {"crash"}
=============================================================================
