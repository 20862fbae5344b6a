-------------------------------- MODULE Jobs --------------------------------
(***************************************************************************)
(* The kernel's jobs: rows of the `jobs` table and their streams of the    *)
(* journal, under the calls of crates/maestro-kernel/src/job.  Each call   *)
(* is one write transaction and therefore one action.                      *)
(*                                                                         *)
(* A lease, once handed out, is a token somebody keeps: it may be used     *)
(* again at any later time, by a process that stalled, or never, by one    *)
(* that died.  `issued` holds them all, and every call under a lease is    *)
(* tried with every one of them.  `now` is the caller's clock: each call   *)
(* reads it as any Time, so nothing below relies on clocks that agree.     *)
(* A heartbeat's time and the holder's name are only reported, never       *)
(* compared, and are left out; so is the outcome's JSON.                   *)
(***************************************************************************)
EXTENDS Integers, Sequences

CONSTANTS JobId,      \* ULIDs a submission may draw
          Key,        \* idempotency keys: digests of kind, scope and inputs
          Resource,   \* names of resources
          NoResource, \* the resource of a job that holds none
          Time,       \* readings of the callers' clocks
          Term,       \* how long a lease lasts
          MaxLease,   \* bound: leases of one job
          MaxEvents   \* bound: events on one stream before its last

ASSUME JobsAssumption ==
    /\ Key # {}
    /\ NoResource \notin Resource
    /\ Time \subseteq Nat
    /\ Term \in Nat
    /\ MaxLease \in Nat
    /\ MaxEvents \in Nat

VARIABLES
    state,     \* "none" where there is no row
    key, resource, attempt,
    number,    \* lease_number
    expires,   \* lease_expires, or NoLease
    stream,    \* the events of job/<id>
    issued     \* history: every lease a take returned

jobVars == <<state, key, resource, attempt, number, expires, stream, issued>>
given == <<key, resource, attempt>>

Ended == {"succeeded", "failed", "cancelled"}
Holding == {"queued", "running"}
Live == {"queued", "running", "succeeded"}
State == Holding \cup Ended
NoLease == -1

(* job/state.rs MOVES, and JobState::may_move_to. *)
MOVES == {<<"queued", "running">>, <<"queued", "cancelled">>,
          <<"running", "succeeded">>, <<"running", "failed">>,
          <<"running", "cancelled">>}

MayMoveTo(from, to) == <<from, to>> \in MOVES

(* An event: its type, and the number of the lease its write was made      *)
(* under.  The data of a progress event is the caller's and left out.      *)
EventType == {"created", "taken", "taken_over", "progressed"} \cup Ended
Event == [type : EventType, lease : Nat]
Lease == [job : JobId, number : Nat]

TypeOK ==
    /\ state \in [JobId -> State \cup {"none"}]
    /\ key \in [JobId -> Key]
    /\ resource \in [JobId -> Resource \cup {NoResource}]
    /\ attempt \in [JobId -> Nat]
    /\ number \in [JobId -> Nat]
    /\ expires \in [JobId -> Nat \cup {NoLease}]
    /\ stream \in [JobId -> Seq(Event)]
    /\ issued \in SUBSET Lease

JobsInit ==
    /\ state = [j \in JobId |-> "none"]
    /\ key = [j \in JobId |-> CHOOSE k \in Key : TRUE]
    /\ resource = [j \in JobId |-> NoResource]
    /\ attempt = [j \in JobId |-> 0]
    /\ number = [j \in JobId |-> 0]
    /\ expires = [j \in JobId |-> NoLease]
    /\ stream = [j \in JobId |-> <<>>]
    /\ issued = {}

(* events.rs moved_into, and record_on_stream under lease number n. *)
MovedInto(to) == CASE to = "queued" -> "created"
                   [] to = "running" -> "taken"
                   [] OTHER -> to
RecordOnStream(j, type, n) ==
    stream' = [stream EXCEPT ![j] = Append(@, [type |-> type, lease |-> n])]

-----------------------------------------------------------------------------
(* submit_job.                                                             *)

Rows == {j \in JobId : state[j] # "none"}

LiveOf(k) == {j \in Rows : key[j] = k /\ state[j] \in Live}
HoldersOf(r) == {j \in Rows : resource[j] = r /\ state[j] \in Holding}

(* free: no job that is queued or running holds the resource. *)
Free(r) == r = NoResource \/ HoldersOf(r) = {}

(* The attempts recorded for key k. *)
AttemptsOf(k) == {attempt[j] : j \in {i \in Rows : key[i] = k}}

(* Mutant: the attempt is max(attempt), not one more. *)
MutNextAttempt(k) ==
    {a \in {1} \cup AttemptsOf(k) : \A b \in AttemptsOf(k) : b <= a}

(* coalesce(max(attempt), 0) + 1 over the jobs of the key, as a singleton. *)
NextAttempt(k) ==
    {a \in {1} \cup {b + 1 : b \in AttemptsOf(k)} : \A b \in AttemptsOf(k) : b < a}

(* The submission that inserts a row: no job of the key is queued, running *)
(* or succeeded, and the resource is free.  The two other answers, the job *)
(* of the key and ResourceHeld, write nothing.                             *)
SubmitJob(j, k, r) ==
    /\ state[j] = "none"
    /\ LiveOf(k) = {}
    /\ Free(r)
    /\ \E a \in NextAttempt(k) : attempt' = [attempt EXCEPT ![j] = a]
    /\ key' = [key EXCEPT ![j] = k]
    /\ resource' = [resource EXCEPT ![j] = r]
    /\ state' = [state EXCEPT ![j] = "queued"]
    /\ RecordOnStream(j, MovedInto("queued"), 0)
    /\ UNCHANGED <<number, expires, issued>>

-----------------------------------------------------------------------------
(* Leases.                                                                 *)

(* Mutant: a lease is never taken over. *)
MutTakeable(j, now) == expires[j] = NoLease /\ MayMoveTo(state[j], "running")

(* take_job refuses a lease that has not expired on the caller's clock,    *)
(* and a job without a lease that may not run.                             *)
Takeable(j, now) ==
    IF expires[j] # NoLease THEN ~(expires[j] > now)
                            ELSE MayMoveTo(state[j], "running")

TakeJob(j, now) ==
    /\ state[j] # "none"
    /\ Takeable(j, now)
    /\ number[j] < MaxLease
    /\ Len(stream[j]) < MaxEvents
    /\ state' = [state EXCEPT ![j] = "running"]
    /\ number' = [number EXCEPT ![j] = @ + 1]
    /\ expires' = [expires EXCEPT ![j] = now + Term]
    /\ issued' = issued \cup {[job |-> j, number |-> number[j] + 1]}
    /\ RecordOnStream(j, IF expires[j] # NoLease THEN "taken_over"
                                                 ELSE MovedInto("running"),
                      number[j] + 1)
    /\ UNCHANGED given

(* Mutant: any lease of a running job will do. *)
MutHeld(l) == expires[l.job] # NoLease

(* held: the job has a lease, and it is the one of this number. *)
Held(l) == expires[l.job] # NoLease /\ number[l.job] = l.number

(* renewal: the lease now expires a term from the caller's time. *)
Renew(l, now) == expires' = [expires EXCEPT ![l.job] = now + Term]

(* A heartbeat renews and records nothing. *)
Heartbeat(l, now) ==
    /\ Held(l)
    /\ Renew(l, now)
    /\ UNCHANGED <<state, given, number, stream, issued>>

(* A step renews and is recorded on the stream in the same write. *)
Progress(l, now) ==
    /\ Held(l)
    /\ Len(stream[l.job]) < MaxEvents
    /\ Renew(l, now)
    /\ RecordOnStream(l.job, "progressed", l.number)
    /\ UNCHANGED <<state, given, number, issued>>

-----------------------------------------------------------------------------
(* Outcomes.                                                               *)

(* Mutant: the outcome is not recorded on the stream. *)
MutEnd(j, to) ==
    /\ state' = [state EXCEPT ![j] = to]
    /\ expires' = [expires EXCEPT ![j] = NoLease]
    /\ UNCHANGED <<given, number, stream, issued>>

(* end: the row gets its outcome and loses its lease, not its number. *)
End(j, to) ==
    /\ state' = [state EXCEPT ![j] = to]
    /\ expires' = [expires EXCEPT ![j] = NoLease]
    /\ RecordOnStream(j, MovedInto(to), number[j])
    /\ UNCHANGED <<given, number, issued>>

CompleteJob(l, to) ==
    /\ Held(l)
    /\ MayMoveTo(state[l.job], to)
    /\ to \in Ended
    /\ End(l.job, to)

(* cancel_job withdraws a job nobody holds. *)
CancelJob(j) ==
    /\ state[j] # "none"
    /\ expires[j] = NoLease
    /\ MayMoveTo(state[j], "cancelled")
    /\ End(j, "cancelled")

JobsNext ==
    \/ \E j \in JobId, k \in Key, r \in Resource \cup {NoResource} :
           SubmitJob(j, k, r)
    \/ \E j \in JobId, now \in Time : TakeJob(j, now)
    \/ \E l \in issued, now \in Time : Heartbeat(l, now) \/ Progress(l, now)
    \/ \E l \in issued, to \in Ended : CompleteJob(l, to)
    \/ \E j \in JobId : CancelJob(j)

JobsSpec == JobsInit /\ [][JobsNext]_jobVars

-----------------------------------------------------------------------------
(* Properties.                                                             *)

(* "At most one job of a key is queued, running or succeeded: the one a    *)
(* retried command finds" (0005_jobs.sql).  The lookup of submit_job alone *)
(* ensures it: the unique index never has to refuse.                       *)
OneLivePerKey ==
    \A i, j \in Rows : i # j /\ key[i] = key[j] =>
        state[i] \notin Live \/ state[j] \notin Live

(* "At most one job queued or running holds each" resource. *)
OnePerResource ==
    \A i, j \in Rows : i # j /\ resource[i] = resource[j] /\ resource[i] \in Resource
        => state[i] \notin Holding \/ state[j] \notin Holding

(* The attempts of a key are numbered 1, 2, 3... as they were made, and    *)
(* each but the last failed or was cancelled: a retry never starts while   *)
(* an earlier attempt may still succeed.                                   *)
AttemptsInOrder ==
    \A i \in Rows :
        /\ attempt[i] = 1 \/ \E j \in Rows : key[j] = key[i] /\ attempt[j] = attempt[i] - 1
        /\ \A j \in Rows \ {i} : key[j] = key[i] =>
               /\ attempt[j] # attempt[i]
               /\ attempt[j] < attempt[i] => state[j] \in {"failed", "cancelled"}

(* "a stalled process that wakes up never writes over its successor": down *)
(* a stream the lease numbers never decrease, and each take is above every *)
(* one before it, so nothing written under a lease follows the takeover of *)
(* that lease.                                                             *)
FencedStream ==
    \A j \in JobId : \A m, n \in DOMAIN stream[j] : m < n =>
        /\ stream[j][m].lease <= stream[j][n].lease
        /\ stream[j][n].type \in {"taken", "taken_over"} =>
               stream[j][m].lease < stream[j][n].lease

(* Both commit or neither: the row's state and lease number are those the  *)
(* last event of the stream tells, so a reader of the journal alone and a  *)
(* reader of the table never disagree.                                     *)
Told(e) == CASE e.type = "created" -> "queued"
             [] e.type \in {"taken", "taken_over", "progressed"} -> "running"
             [] OTHER -> e.type
StreamTellsRow ==
    \A j \in JobId :
        IF stream[j] = <<>>
        THEN state[j] = "none"
        ELSE /\ state[j] = Told(stream[j][Len(stream[j])])
             /\ number[j] = stream[j][Len(stream[j])].lease

(* "The three outcomes are final": no call changes the row of a job that   *)
(* ended nor adds to its stream, with whatever lease it comes.             *)
EndedIsFinal ==
    [][\A j \in JobId : state[j] \in Ended =>
          /\ state'[j] = state[j] /\ number'[j] = number[j]
          /\ stream'[j] = stream[j] /\ expires'[j] = NoLease]_jobVars

(* The jobs implement a log with one writer at a time: LeasedLog, where a  *)
(* queued or running job is open and an entry is its event's lease number. *)
PhaseOf == [j \in JobId |-> IF state[j] = "none" THEN "absent"
                            ELSE IF state[j] \in Ended THEN "closed" ELSE "open"]
LogOf == [j \in JobId |-> [n \in 1..Len(stream[j]) |-> stream[j][n].lease]]
Log == INSTANCE LeasedLog WITH
    Job <- JobId, phase <- PhaseOf, grant <- number, log <- LogOf
LogSpec == Log!LogSpec
=============================================================================
