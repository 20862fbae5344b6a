----------------------------- MODULE Foreground -----------------------------
(***************************************************************************)
(* Commands that run a job in the foreground (crates/maestro/src/cli:      *)
(* foreground.rs, lease.rs, wait.rs), each a process of its own, over the  *)
(* jobs of one kernel.  Each kernel call is one step of one process, so    *)
(* what a process read may be stale at its next step.                      *)
(*                                                                         *)
(* The processes of a host share a clock.  Only the time left of a lease   *)
(* and the time since a heartbeat matter, so every call is made at time 0  *)
(* and Tick moves the origin: a lease with `expires` 0 has expired.  Any   *)
(* process may be suspended for any time between two steps; `late` holds   *)
(* those that time passed by while a step of theirs was due.               *)
(***************************************************************************)
EXTENDS Jobs

CONSTANTS Command,     \* processes of `knowledge import`, `quality`...
          Waiter,      \* processes of `job wait`
          KeyOf,       \* the key of a command's frozen inputs
          ResourceOf,  \* the resource its job holds
          Mortal,      \* processes that may die, or whose kernel call may fail
          Beat,        \* TIMING.beat, in ticks; TIMING.term is Term
          MaxMissed,   \* bound: heartbeats in a row that fail
          MaxSteps     \* bound: steps the work of one command journals

Process == Command \cup Waiter

ASSUME ForegroundAssumption ==
    /\ Command \cap Waiter = {}
    /\ KeyOf \in [Command -> Key]
    /\ ResourceOf \in [Command -> Resource \cup {NoResource}]
    /\ Mortal \subseteq Process
    /\ {Beat, MaxMissed, MaxSteps} \subseteq Nat
    /\ 0 \in Time

(* TIMING: a lease of 60 s renewed every 20 s outlasts one missed heartbeat. *)
ASSUME RenewsInTime == (MaxMissed + 1) * Beat < Term

VARIABLES
    pc,
    at,       \* the job a process submitted, found, supersedes or waits for
    lease,    \* the number of the lease it holds or held on it; 0 for none
    beating,  \* whether its heartbeat thread runs
    since,    \* ticks since that thread began to wait
    missed,   \* its heartbeats in a row that failed
    late,     \* history: processes that stalled since they took or renewed a lease
    steps,    \* steps journaled
    after,    \* Follower::after
    seen,     \* the state a look read, or the state the work ended in
    result    \* how the command returned

procVars == <<pc, at, lease, beating, since, missed, late, steps, after, seen, result>>
vars == <<jobVars, procVars>>

NoJob == "no job"
Token(p) == [job |-> at[p], number |-> lease[p]]

ForegroundTypeOK ==
    /\ TypeOK
    /\ pc \in [Process -> {"start", "supersede", "cancel", "resubmit", "take", "work",
                           "complete", "look", "read", "done"}]
    /\ \A p \in Process : at[p] \in JobId \/ (at[p] = NoJob /\ pc[p] \in {"start", "done"})
    /\ lease \in [Process -> 0..MaxLease]
    /\ beating \in [Process -> BOOLEAN]
    /\ since \in [Process -> 0..Beat]
    /\ missed \in [Process -> 0..MaxMissed]
    /\ late \subseteq Process
    /\ steps \in [Process -> 0..MaxSteps]
    /\ after \in [Process -> 0..MaxEvents + 1]
    /\ seen \in [Process -> State]
    /\ result \in [Process -> {"none", "success", "failure", "refused", "error", "died"}]

Init ==
    /\ JobsInit
    /\ pc = [p \in Process |-> "start"]
    /\ at = [p \in Process |-> NoJob]
    /\ lease = [p \in Process |-> 0]
    /\ beating = [p \in Process |-> FALSE]
    /\ since = [p \in Process |-> 0]
    /\ missed = [p \in Process |-> 0]
    /\ late = {}
    /\ steps = [p \in Process |-> 0]
    /\ after = [p \in Process |-> 0]
    /\ seen = [p \in Process |-> "queued"]
    /\ result = [p \in Process |-> "none"]

Goto(p, label) == pc' = [pc EXCEPT ![p] = label]
Return(p, how) == Goto(p, "done") /\ result' = [result EXCEPT ![p] = how]

(* wait.rs report: the exit code of a job as it ended. *)
ExitOf(s) == IF s = "succeeded" THEN "success" ELSE "failure"

-----------------------------------------------------------------------------
(* submit.                                                                 *)

(* submit_job: the job of the key, else ResourceHeld by another, else a    *)
(* new job.                                                                *)
Finds(p) ==
    /\ \E j \in LiveOf(KeyOf[p]) : at' = [at EXCEPT ![p] = j]
    /\ Goto(p, "take")
    /\ UNCHANGED <<jobVars, result>>

Inserts(p) ==
    \E j \in JobId :
        /\ SubmitJob(j, KeyOf[p], ResourceOf[p])
        /\ at' = [at EXCEPT ![p] = j]
        /\ Goto(p, "take")
        /\ UNCHANGED result

ResourceHeld(p) == LiveOf(KeyOf[p]) = {} /\ ~Free(ResourceOf[p])

SubmitFirst(p) ==
    /\ pc[p] = "start"
    /\ \/ Finds(p)
       \/ Inserts(p)
       \/ /\ ResourceHeld(p)
          /\ \E j \in HoldersOf(ResourceOf[p]) : at' = [at EXCEPT ![p] = j]
          /\ Goto(p, "supersede")
          /\ UNCHANGED <<jobVars, result>>
    /\ UNCHANGED <<lease, beating, since, missed, late, steps, after, seen>>

SubmitAgain(p) ==
    /\ pc[p] = "resubmit"
    /\ \/ Finds(p)
       \/ Inserts(p)
       \/ ResourceHeld(p) /\ Return(p, "refused") /\ UNCHANGED <<jobVars, at>>
    /\ lease' = [lease EXCEPT ![p] = 0]
    /\ UNCHANGED <<beating, since, missed, late, steps, after, seen>>

(* supersede takes the other job's lease: a live one refuses the command,  *)
(* a job that ended meanwhile frees the resource, and otherwise the job is *)
(* cancelled next.                                                         *)
Supersede(p) ==
    /\ pc[p] = "supersede"
    /\ \/ /\ TakeJob(at[p], 0)
          /\ lease' = [lease EXCEPT ![p] = number'[at[p]]]
          /\ Goto(p, "cancel")
          /\ UNCHANGED result
       \/ /\ ~Takeable(at[p], 0)
          /\ IF expires[at[p]] # NoLease
             THEN Return(p, "refused")
             ELSE Goto(p, "resubmit") /\ UNCHANGED result
          /\ UNCHANGED <<jobVars, lease>>
    /\ UNCHANGED <<at, beating, since, missed, late, steps, after, seen>>

CancelSuperseded(p) ==
    /\ pc[p] = "cancel"
    /\ \/ CompleteJob(Token(p), "cancelled") /\ Goto(p, "resubmit") /\ UNCHANGED result
       \/ ~Held(Token(p)) /\ Return(p, "error") /\ UNCHANGED jobVars
    /\ UNCHANGED <<at, lease, beating, since, missed, late, steps, after, seen>>

-----------------------------------------------------------------------------
(* run_to_end and Holder::run.                                             *)

(* take, then Holder::run spawns the heartbeat thread beside the work.     *)
Take(p) ==
    /\ pc[p] = "take"
    /\ \/ /\ TakeJob(at[p], 0)
          /\ lease' = [lease EXCEPT ![p] = number'[at[p]]]
          /\ beating' = [beating EXCEPT ![p] = TRUE]
          /\ late' = late \ {p}
          /\ Goto(p, "work")
       \/ /\ ~Takeable(at[p], 0)
          /\ Goto(p, "look")
          /\ UNCHANGED <<jobVars, lease, beating, late>>
    /\ UNCHANGED <<at, since, missed, steps, after, seen, result>>

(* Mutant: the heartbeat thread stops at a renewal that fails. *)
MutBeats(p) ==
    /\ pc[p] = "work" /\ beating[p] /\ since[p] = Beat
    /\ since' = [since EXCEPT ![p] = 0]
    /\ IF Held(Token(p))
       THEN \/ /\ Heartbeat(Token(p), 0)
               /\ late' = late \ {p}
               /\ UNCHANGED <<beating, missed>>
            \/ /\ missed[p] < MaxMissed
               /\ missed' = [missed EXCEPT ![p] = @ + 1]
               /\ beating' = [beating EXCEPT ![p] = FALSE]
               /\ UNCHANGED <<jobVars, late>>
       ELSE beating' = [beating EXCEPT ![p] = FALSE] /\ UNCHANGED <<jobVars, missed, late>>
    /\ UNCHANGED <<pc, at, lease, steps, after, seen, result>>

(* beat_at: at each tick the lease is renewed; a renewal that fails is     *)
(* tried again at the next, and a lost lease ends the thread, not the work.*)
Beats(p) ==
    /\ pc[p] = "work" /\ beating[p] /\ since[p] = Beat
    /\ since' = [since EXCEPT ![p] = 0]
    /\ IF Held(Token(p))
       THEN /\ UNCHANGED beating
            /\ \/ /\ Heartbeat(Token(p), 0)
                  /\ missed' = [missed EXCEPT ![p] = 0]
                  /\ late' = late \ {p}
               \/ /\ missed[p] < MaxMissed
                  /\ missed' = [missed EXCEPT ![p] = @ + 1]
                  /\ UNCHANGED <<jobVars, late>>
       ELSE beating' = [beating EXCEPT ![p] = FALSE] /\ UNCHANGED <<jobVars, missed, late>>
    /\ UNCHANGED <<pc, at, lease, steps, after, seen, result>>

WorkReturns(p, to) ==
    /\ Goto(p, "complete")
    /\ seen' = [seen EXCEPT ![p] = to]
    /\ beating' = [beating EXCEPT ![p] = FALSE]
    /\ since' = [since EXCEPT ![p] = 0]
    /\ missed' = [missed EXCEPT ![p] = 0]

(* A step of the work: journaled under the lease, or, the lease lost, the  *)
(* end of the work as failed.                                              *)
WorkSteps(p) ==
    /\ pc[p] = "work" /\ steps[p] < MaxSteps
    /\ steps' = [steps EXCEPT ![p] = @ + 1]
    /\ \/ Progress(Token(p), 0) /\ UNCHANGED <<pc, seen, beating, since, missed>>
       \/ ~Held(Token(p)) /\ WorkReturns(p, "failed") /\ UNCHANGED jobVars
    /\ UNCHANGED <<at, lease, late, after, result>>

WorkEnds(p) ==
    /\ pc[p] = "work"
    /\ \E to \in {"succeeded", "failed"} : WorkReturns(p, to)
    /\ UNCHANGED <<jobVars, at, lease, late, steps, after, result>>

(* Mutant: the command's exit code is that of its work, whether or not the *)
(* job ended with it.                                                      *)
MutCompletes(p) ==
    /\ pc[p] = "complete"
    /\ \/ CompleteJob(Token(p), seen[p])
       \/ ~Held(Token(p)) /\ UNCHANGED jobVars
    /\ Return(p, ExitOf(seen[p]))
    /\ UNCHANGED <<at, lease, beating, since, missed, late, steps, after, seen>>

Completes(p) ==
    /\ pc[p] = "complete"
    /\ \/ CompleteJob(Token(p), seen[p]) /\ Return(p, ExitOf(seen[p]))
       \/ ~Held(Token(p)) /\ Return(p, "error") /\ UNCHANGED jobVars
    /\ late' = late \ {p}
    /\ UNCHANGED <<at, lease, beating, since, missed, steps, after, seen>>

-----------------------------------------------------------------------------
(* Follower::look, in its two reads, and `job wait`.                       *)

BeginsWait(p) ==
    /\ p \in Waiter /\ pc[p] = "start"
    /\ \E j \in Rows : at' = [at EXCEPT ![p] = j]
    /\ Goto(p, "look")
    /\ UNCHANGED <<jobVars, lease, beating, since, missed, late, steps, after, seen, result>>

(* Mutant: a job found ended is returned before its stream is read. *)
MutReads(p) ==
    /\ pc[p] = "read"
    /\ IF seen[p] \in Ended
       THEN Return(p, ExitOf(seen[p])) /\ UNCHANGED after
       ELSE /\ Goto(p, IF p \in Waiter THEN "look" ELSE "take") /\ UNCHANGED result
            /\ after' = [after EXCEPT ![p] = Len(stream[at[p]])]
    /\ UNCHANGED <<jobVars, at, lease, beating, since, missed, late, steps, seen>>

Looks(p) ==
    /\ pc[p] = "look"
    /\ seen' = [seen EXCEPT ![p] = state[at[p]]]
    /\ Goto(p, "read")
    /\ UNCHANGED <<jobVars, at, lease, beating, since, missed, late, steps, after, result>>

(* The stream after it, then the return of a job that ended; else a waiter *)
(* looks again, and a command tries the lease: LOOKS_PER_TRY looks are one.*)
Reads(p) ==
    /\ pc[p] = "read"
    /\ after' = [after EXCEPT ![p] = Len(stream[at[p]])]
    /\ IF seen[p] \in Ended
       THEN Return(p, ExitOf(seen[p]))
       ELSE Goto(p, IF p \in Waiter THEN "look" ELSE "take") /\ UNCHANGED result
    /\ UNCHANGED <<jobVars, at, lease, beating, since, missed, late, steps, seen>>

-----------------------------------------------------------------------------
(* The process is killed, or a kernel call of it fails: it holds what it   *)
(* held, and nothing renews it.                                            *)
Dies(p) ==
    /\ p \in Mortal /\ pc[p] # "done"
    /\ Return(p, "died")
    /\ beating' = [beating EXCEPT ![p] = FALSE]
    /\ UNCHANGED <<jobVars, at, lease, since, missed, late, steps, after, seen>>

(* Steps under a lease that are made at once, unless the process stalls. *)
Due(p) == pc[p] = "complete" \/ (pc[p] = "work" /\ beating[p] /\ since[p] = Beat)

Tick ==
    /\ late' = late \cup {p \in Process : Due(p)}
    /\ expires' = [j \in JobId |-> IF expires[j] > 0 THEN expires[j] - 1 ELSE expires[j]]
    /\ since' = [p \in Process |-> IF beating[p] /\ since[p] < Beat THEN since[p] + 1
                                                                    ELSE since[p]]
    /\ UNCHANGED <<state, given, number, stream, issued, pc, at, lease, beating, missed,
                   steps, after, seen, result>>

Runs(p) ==
    \/ p \in Command /\ SubmitFirst(p)
    \/ SubmitAgain(p) \/ Supersede(p) \/ CancelSuperseded(p)
    \/ Take(p) \/ WorkEnds(p) \/ Completes(p)
    \/ Looks(p) \/ Reads(p)

Next ==
    \/ \E p \in Process : Runs(p) \/ WorkSteps(p) \/ Beats(p) \/ BeginsWait(p) \/ Dies(p)
    \/ Tick

Spec == Init /\ [][Next]_vars

(* A process that is not suspended for ever makes its next step, its work  *)
(* ends, its heartbeat thread runs, and time passes.  Nothing says that a  *)
(* process dies, that work journals a step, or that somebody waits.        *)
Fairness == /\ \A p \in Process : WF_vars(Runs(p)) /\ WF_vars(Beats(p))
            /\ WF_vars(Tick)
FairSpec == Spec /\ Fairness

-----------------------------------------------------------------------------
(* Properties.                                                             *)

(* "The job before its stream ... so the stream read after a job that      *)
(* ended holds it" (Follower::look): a command that returns the job as     *)
(* somebody else ended it has printed the whole stream, its end included.  *)
FollowerSawTheEnd ==
    \A p \in Process : result[p] \in {"success", "failure"} /\ lease[p] = 0 =>
        after[p] = Len(stream[at[p]])

(* A command exits as its job ended, and one that worked reports success   *)
(* only of work done under the lease that ended the job: a process that    *)
(* lost its lease never passes its own work off as the job's.              *)
ExitTellsOutcome ==
    \A p \in Process : result[p] \in {"success", "failure"} =>
        /\ state[at[p]] \in Ended
        /\ result[p] = ExitOf(state[at[p]])
        /\ lease[p] # 0 => number[at[p]] = lease[p]

(* A process at work that keeps to its beat holds its job, however late    *)
(* the others are and whichever of its renewals fails: no command takes    *)
(* the job over, and none supersedes it.                                   *)
WorkerKeepsItsJob ==
    \A p \in Process \ late : pc[p] \in {"work", "complete"} => Held(Token(p))

(* So at most one of those processes works on a resource, whichever the    *)
(* inputs.                                                                 *)
OneWorkerPerResource ==
    \A p, q \in Command \ late :
        p # q /\ {pc[p], pc[q]} \subseteq {"work", "complete"} =>
            resource[at[p]] = NoResource \/ resource[at[p]] # resource[at[q]]

(* Every command returns, though the process that held its job died or     *)
(* stalled: the lease expires and the job is taken over or superseded, or  *)
(* the command is refused.                                                 *)
CommandsReturn == \A p \in Command : pc[p] # "start" ~> pc[p] = "done"

(* Whoever waits for a job that ended returns. *)
WaitersReturn ==
    \A p \in Waiter : pc[p] # "start" /\ state[at[p]] \in Ended ~> pc[p] = "done"

(* Nobody waits for ever, on the lease of a process that died or for a job *)
(* that is over.                                                           *)
EveryoneReturns == CommandsReturn /\ WaitersReturn
=============================================================================
