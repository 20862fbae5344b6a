---------------------------- MODULE MCForeground ----------------------------
(* Small instances of Foreground for TLC. *)
EXTENDS Foreground, FiniteSets, TLC

CONSTANTS j1, j2, j3, k1, k2, r1, none, c1, c2, c3, w1

TwoJobs == {j1, j2}
ThreeJobs == {j1, j2, j3}
TwoKeys == {k1, k2}
OneResource == {r1}
Origin == {0}

(* c1 and c2 are the same command twice, c3 one of other inputs that needs *)
(* the same resource.                                                      *)
ThreeCommands == {c1, c2, c3}
TwoCommands == {c1, c2}
OneWaiter == {w1}
Keys == [c \in Command |-> IF c = c3 THEN k2 ELSE k1]
Resources == [c \in Command |-> r1]
Nobody == {}
OneDies == {c1}

(* A command takes a job at most once, so the bounds of Jobs never bind.   *)
ASSUME BoundsNeverBind ==
    /\ MaxLease >= Cardinality(Command)
    /\ MaxEvents >= 1 + Cardinality(Command) * (1 + MaxSteps)
    /\ Cardinality(JobId) >= Cardinality(Command)

SafetySymmetry == Permutations(JobId) \cup Permutations({c1, c2})
=============================================================================
