------------------------------ MODULE LeasedLog ------------------------------
(***************************************************************************)
(* What a job promises whoever works on it, without keys, clocks or        *)
(* holders: a log that is opened once, whose right to write is granted     *)
(* anew under the next number as often as needed, that only the last grant *)
(* writes, and that nothing writes once it is closed.  Each entry is the   *)
(* number of the grant it was written under; 0 is before the first.        *)
(***************************************************************************)
EXTENDS Naturals, Sequences

CONSTANT Job

VARIABLES phase, grant, log

logVars == <<phase, grant, log>>

LogInit ==
    /\ phase = [j \in Job |-> "absent"]
    /\ grant = [j \in Job |-> 0]
    /\ log = [j \in Job |-> <<>>]

Write(j, g) == log' = [log EXCEPT ![j] = Append(@, g)]

Open(j) ==
    /\ phase[j] = "absent"
    /\ phase' = [phase EXCEPT ![j] = "open"]
    /\ Write(j, 0)
    /\ UNCHANGED grant

Grant(j) ==
    /\ phase[j] = "open"
    /\ grant' = [grant EXCEPT ![j] = @ + 1]
    /\ Write(j, grant[j] + 1)
    /\ UNCHANGED phase

Step(j) ==
    /\ phase[j] = "open"
    /\ Write(j, grant[j])
    /\ UNCHANGED <<phase, grant>>

Close(j) ==
    /\ phase[j] = "open"
    /\ phase' = [phase EXCEPT ![j] = "closed"]
    /\ Write(j, grant[j])
    /\ UNCHANGED grant

LogNext == \E j \in Job : Open(j) \/ Grant(j) \/ Step(j) \/ Close(j)

LogSpec == LogInit /\ [][LogNext]_logVars
=============================================================================
