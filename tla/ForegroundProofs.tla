-------------------------- MODULE ForegroundProofs --------------------------
(***************************************************************************)
(* What TLAPS proves of the kernel's jobs, for any number of jobs, keys,   *)
(* resources and leases, any clocks and any use of leases long lost, and of *)
(* the commands that run them in the foreground, for any number of         *)
(* processes and any inputs, whichever die, stall or miss heartbeats.      *)
(***************************************************************************)
EXTENDS Foreground, SequenceTheorems, TLAPS

-----------------------------------------------------------------------------
(* The jobs themselves. *)

(* What one call may do to one job, whatever it does to the others. *)
Same(j) ==
    /\ state'[j] = state[j] /\ number'[j] = number[j] /\ stream'[j] = stream[j]
    /\ key'[j] = key[j] /\ resource'[j] = resource[j] /\ attempt'[j] = attempt[j]
    /\ expires'[j] = expires[j] \/ (expires[j] # NoLease /\ expires'[j] \in Nat)
Created(j) ==
    /\ state[j] = "none" /\ state'[j] = "queued"
    /\ number'[j] = number[j] /\ expires'[j] = expires[j]
    /\ stream'[j] = Append(stream[j], [type |-> "created", lease |-> 0])
Kept(j) == key'[j] = key[j] /\ resource'[j] = resource[j] /\ attempt'[j] = attempt[j]
Taken(j) ==
    /\ Kept(j) /\ state[j] \in Holding /\ state'[j] = "running"
    /\ number'[j] = number[j] + 1 /\ expires'[j] \in Nat
    /\ \E t \in {"taken", "taken_over"} :
           stream'[j] = Append(stream[j], [type |-> t, lease |-> number[j] + 1])
Stepped(j) ==
    /\ Kept(j) /\ state[j] = "running" /\ state'[j] = "running"
    /\ number'[j] = number[j] /\ expires'[j] \in Nat
    /\ stream'[j] = Append(stream[j], [type |-> "progressed", lease |-> number[j]])
Finished(j) ==
    /\ Kept(j) /\ state[j] \in Holding /\ state'[j] \in Ended
    /\ number'[j] = number[j] /\ expires'[j] = NoLease
    /\ stream'[j] = Append(stream[j], [type |-> state'[j], lease |-> number[j]])
JobStep(j) == Same(j) \/ Created(j) \/ Taken(j) \/ Stepped(j) \/ Finished(j)

(* A job has a lease exactly while it runs, as the table's CHECK demands. *)
LeaseWhileRunning == \A j \in JobId : state[j] = "running" <=> expires[j] # NoLease

(* Streams without a row are empty, rows without a lease yet have number 0. *)
IInv ==
    /\ TypeOK
    /\ LeaseWhileRunning
    /\ StreamTellsRow
    /\ FencedStream
    /\ OneLivePerKey
    /\ OnePerResource
    /\ AttemptsInOrder
    /\ \A j \in JobId : state[j] = "none" => number[j] = 0

-----------------------------------------------------------------------------
LEMMA InitIInv == JobsInit => IInv
<1> SUFFICES ASSUME JobsInit PROVE IInv
  OBVIOUS
<1> USE DEF JobsInit
<1>1. TypeOK
  BY JobsAssumption DEF TypeOK, NoLease, State
<1>2. Rows = {}
  BY DEF Rows
<1>. QED
  BY <1>1, <1>2 DEF IInv, LeaseWhileRunning, StreamTellsRow, FencedStream,
     OneLivePerKey, OnePerResource, AttemptsInOrder

(* An event recorded on a stream leaves every stream a sequence of events. *)
LEMMA StreamType ==
    ASSUME TypeOK, NEW j \in JobId, NEW type \in EventType, NEW n \in Nat,
           RecordOnStream(j, type, n)
    PROVE  stream' \in [JobId -> Seq(Event)]
<1> DEFINE e == [type |-> type, lease |-> n]
<1>1. e \in Event
  BY DEF Event
<1> HIDE DEF e
<1>2. Append(stream[j], e) \in Seq(Event)
  BY <1>1, AppendProperties DEF TypeOK
<1>3. stream' = [stream EXCEPT ![j] = Append(stream[j], e)]
  BY DEF RecordOnStream, e
<1>. QED BY <1>2, <1>3 DEF TypeOK

LEMMA SubmitType ==
    ASSUME TypeOK, NEW j \in JobId, NEW k \in Key,
           NEW r \in Resource \cup {NoResource}, SubmitJob(j, k, r)
    PROVE  TypeOK' /\ Created(j) /\ \A i \in JobId \ {j} : Same(i)
<1> USE DEF TypeOK, SubmitJob, RecordOnStream, MovedInto
<1>1. attempt' \in [JobId -> Nat]
  BY DEF NextAttempt, AttemptsOf, Rows
<1>2. stream' \in [JobId -> Seq(Event)]
  BY StreamType DEF EventType
<1>3. TypeOK'
  BY <1>1, <1>2 DEF State, Holding
<1>4. Created(j)
  BY DEF Created
<1>5. \A i \in JobId \ {j} : Same(i)
  BY DEF Same
<1>. QED BY <1>3, <1>4, <1>5

LEMMA TakeType ==
    ASSUME TypeOK, LeaseWhileRunning, NEW j \in JobId, NEW now \in Time,
           TakeJob(j, now)
    PROVE  TypeOK' /\ Taken(j) /\ \A i \in JobId \ {j} : Same(i)
<1>1. stream' \in [JobId -> Seq(Event)]
  <2> DEFINE t == IF expires[j] # NoLease THEN "taken_over" ELSE MovedInto("running")
  <2>1. t \in EventType
    BY DEF EventType, MovedInto
  <2>2. RecordOnStream(j, t, number[j] + 1)
    BY DEF TakeJob
  <2>3. number[j] + 1 \in Nat
    BY DEF TypeOK
  <2> HIDE DEF t
  <2>. QED BY <2>1, <2>2, <2>3, StreamType
<1> USE JobsAssumption DEF TypeOK, TakeJob, RecordOnStream, MovedInto, given
<1>2. TypeOK'
  BY SMTT(30), <1>1 DEF State, Holding, Lease, NoLease
<1>3. state[j] \in Holding
  BY DEF LeaseWhileRunning, Takeable, MayMoveTo, MOVES, Holding
<1>4. Taken(j)
  BY <1>3 DEF Taken, Kept
<1>5. \A i \in JobId \ {j} : Same(i)
  BY DEF Same
<1>. QED BY <1>2, <1>4, <1>5

LEMMA LeaseCallType ==
    ASSUME TypeOK, LeaseWhileRunning, NEW l \in issued, NEW now \in Time,
           Heartbeat(l, now) \/ Progress(l, now)
    PROVE  TypeOK' /\ \A i \in JobId : Same(i) \/ Stepped(i)
<1> USE JobsAssumption DEF TypeOK, RecordOnStream, given, Renew, Held, Lease
<1>1. CASE Heartbeat(l, now)
  BY <1>1 DEF Heartbeat, Same, NoLease
<1>2. CASE Progress(l, now)
  <2>1. stream' \in [JobId -> Seq(Event)]
    BY <1>2, StreamType DEF Progress, EventType
  <2>2. Stepped(l.job)
    BY <1>2 DEF Progress, Stepped, Kept, LeaseWhileRunning
  <2>3. \A i \in JobId \ {l.job} : Same(i)
    BY <1>2 DEF Progress, Same
  <2>. QED BY SMTT(30), <1>2, <2>1, <2>2, <2>3 DEF Progress
<1>. QED BY <1>1, <1>2

LEMMA EndType ==
    ASSUME TypeOK, NEW j \in JobId, NEW to \in Ended, state[j] \in Holding,
           End(j, to)
    PROVE  TypeOK' /\ Finished(j) /\ \A i \in JobId \ {j} : Same(i)
<1> USE DEF TypeOK, End, RecordOnStream, given, NoLease
<1>1. MovedInto(to) = to
  BY DEF MovedInto, Ended
<1>2. stream' \in [JobId -> Seq(Event)]
  BY <1>1, StreamType DEF EventType
<1>3. TypeOK'
  BY <1>2 DEF State
<1>4. Finished(j)
  BY <1>1 DEF Finished, Kept
<1>5. \A i \in JobId \ {j} : Same(i)
  BY DEF Same
<1>. QED BY <1>3, <1>4, <1>5

(* Every call is one of the five steps on each job, and keeps the types. *)
LEMMA StepOfEachJob ==
    ASSUME TypeOK, LeaseWhileRunning, [JobsNext]_jobVars
    PROVE  TypeOK' /\ \A j \in JobId : JobStep(j)
<1> USE DEF JobStep
<1>1. ASSUME NEW j \in JobId, NEW k \in Key,
             NEW r \in Resource \cup {NoResource}, SubmitJob(j, k, r)
      PROVE  TypeOK' /\ \A i \in JobId : JobStep(i)
  BY <1>1, SubmitType
<1>2. ASSUME NEW j \in JobId, NEW now \in Time, TakeJob(j, now)
      PROVE  TypeOK' /\ \A i \in JobId : JobStep(i)
  BY <1>2, TakeType
<1>3. ASSUME NEW l \in issued, NEW now \in Time, Heartbeat(l, now) \/ Progress(l, now)
      PROVE  TypeOK' /\ \A i \in JobId : JobStep(i)
  BY <1>3, LeaseCallType
<1>4. ASSUME NEW l \in issued, NEW to \in Ended, CompleteJob(l, to)
      PROVE  TypeOK' /\ \A i \in JobId : JobStep(i)
  <2>1. l.job \in JobId /\ state[l.job] \in Holding
    BY <1>4 DEF CompleteJob, MayMoveTo, MOVES, Holding, TypeOK, Lease, Ended
  <2>. QED BY <1>4, <2>1, EndType DEF CompleteJob
<1>5. ASSUME NEW j \in JobId, CancelJob(j)
      PROVE  TypeOK' /\ \A i \in JobId : JobStep(i)
  <2>1. state[j] \in Holding
    BY <1>5 DEF CancelJob, MayMoveTo, MOVES, Holding
  <2>. QED BY <1>5, <2>1, EndType DEF CancelJob, Ended
<1>6. CASE UNCHANGED jobVars
  BY <1>6 DEF jobVars, TypeOK, Same
<1>. QED BY <1>1, <1>2, <1>3, <1>4, <1>5, <1>6 DEF JobsNext

-----------------------------------------------------------------------------
LEMMA LeaseWhileRunningStep ==
    ASSUME TypeOK, LeaseWhileRunning, [JobsNext]_jobVars
    PROVE  LeaseWhileRunning'
<1> SUFFICES ASSUME NEW j \in JobId
             PROVE  state'[j] = "running" <=> expires'[j] # NoLease
  BY DEF LeaseWhileRunning
<1>1. JobStep(j)
  BY StepOfEachJob
<1>. QED
  BY <1>1 DEF JobStep, Same, Created, Taken, Stepped, Finished, Kept,
     LeaseWhileRunning, Holding, Ended, NoLease

(* The last event of a stream that grew by e is e, the others stay. *)
LEMMA Grown ==
    ASSUME TypeOK, NEW j \in JobId, NEW e \in Event,
           stream'[j] = Append(stream[j], e)
    PROVE  /\ stream'[j] # <<>>
           /\ Len(stream'[j]) = Len(stream[j]) + 1
           /\ stream'[j][Len(stream'[j])] = e
           /\ DOMAIN stream[j] = 1..Len(stream[j])
           /\ DOMAIN stream'[j] = 1..(Len(stream[j]) + 1)
           /\ \A n \in DOMAIN stream[j] : stream'[j][n] = stream[j][n]
<1>1. stream[j] \in Seq(Event)
  BY DEF TypeOK
<1>. QED BY <1>1, AppendProperties

LEMMA StreamTellsRowStep ==
    ASSUME IInv, [JobsNext]_jobVars
    PROVE  StreamTellsRow'
<1> USE DEF IInv
<1> SUFFICES ASSUME NEW j \in JobId
             PROVE  IF stream'[j] = <<>>
                    THEN state'[j] = "none"
                    ELSE /\ state'[j] = Told(stream'[j][Len(stream'[j])])
                         /\ number'[j] = stream'[j][Len(stream'[j])].lease
  BY DEF StreamTellsRow, Told
<1>1. JobStep(j) /\ number[j] \in Nat
  BY StepOfEachJob DEF TypeOK
<1>2. CASE Same(j)
  BY <1>2 DEF Same, StreamTellsRow
<1>3. CASE Created(j)
  <2> DEFINE e == [type |-> "created", lease |-> 0]
  <2>1. e \in Event /\ Told(e) = "queued" /\ e.lease = 0
    BY DEF Event, EventType, Told
  <2>2. stream'[j] = Append(stream[j], e) /\ state'[j] = "queued" /\ number'[j] = 0
    BY <1>3 DEF Created
  <2> HIDE DEF e
  <2>. QED BY <2>1, <2>2, Grown
<1>4. CASE Taken(j)
  <2> PICK t \in {"taken", "taken_over"} :
             stream'[j] = Append(stream[j], [type |-> t, lease |-> number[j] + 1])
    BY <1>4 DEF Taken
  <2> DEFINE e == [type |-> t, lease |-> number[j] + 1]
  <2>1. e \in Event /\ Told(e) = "running" /\ e.lease = number[j] + 1
    BY <1>1 DEF Event, EventType, Told
  <2>2. stream'[j] = Append(stream[j], e) /\ state'[j] = "running"
        /\ number'[j] = number[j] + 1
    BY <1>4 DEF Taken
  <2> HIDE DEF e
  <2>. QED BY <2>1, <2>2, Grown
<1>5. CASE Stepped(j)
  <2> DEFINE e == [type |-> "progressed", lease |-> number[j]]
  <2>1. e \in Event /\ Told(e) = "running" /\ e.lease = number[j]
    BY <1>1 DEF Event, EventType, Told
  <2>2. stream'[j] = Append(stream[j], e) /\ state'[j] = "running"
        /\ number'[j] = number[j]
    BY <1>5 DEF Stepped
  <2> HIDE DEF e
  <2>. QED BY <2>1, <2>2, Grown
<1>6. CASE Finished(j)
  <2> DEFINE e == [type |-> state'[j], lease |-> number[j]]
  <2>1. e \in Event /\ Told(e) = state'[j] /\ e.lease = number[j]
    BY <1>1, <1>6 DEF Event, EventType, Told, Finished, Ended
  <2>2. stream'[j] = Append(stream[j], e) /\ number'[j] = number[j]
    BY <1>6 DEF Finished
  <2> HIDE DEF e
  <2>. QED BY <2>1, <2>2, Grown
<1>. QED BY <1>1, <1>2, <1>3, <1>4, <1>5, <1>6 DEF JobStep

(* No event was written under a lease above the job's current number. *)
LEMMA LeasesBelowNumber ==
    ASSUME TypeOK, StreamTellsRow, FencedStream, NEW j \in JobId,
           NEW m \in DOMAIN stream[j]
    PROVE  stream[j][m].lease \in Nat /\ stream[j][m].lease <= number[j]
<1>1. stream[j] \in Seq(Event) /\ number[j] \in Nat
  BY DEF TypeOK
<1>2. m \in 1..Len(stream[j]) /\ Len(stream[j]) \in 1..Len(stream[j])
      /\ stream[j] # <<>>
  BY <1>1
<1>3. stream[j][m].lease \in Nat
  <2>1. stream[j][m] \in Event
    BY <1>1, <1>2
  <2>. QED BY <2>1 DEF Event
<1>4. number[j] = stream[j][Len(stream[j])].lease
  BY <1>2 DEF StreamTellsRow
<1>5. CASE m = Len(stream[j])
  BY <1>1, <1>3, <1>4, <1>5
<1>6. CASE m < Len(stream[j])
  BY <1>1, <1>2, <1>3, <1>4, <1>6 DEF FencedStream
<1>. QED BY <1>1, <1>2, <1>5, <1>6

(* The fence of one stream; FencedStream says it of every job. *)
Fenced(s) ==
    \A m, n \in DOMAIN s : m < n =>
        /\ s[m].lease <= s[n].lease
        /\ s[n].type \in {"taken", "taken_over"} => s[m].lease < s[n].lease

LEMMA FencedGrows ==
    ASSUME TypeOK, StreamTellsRow, FencedStream, NEW j \in JobId,
           NEW e \in Event, stream'[j] = Append(stream[j], e),
           number[j] <= e.lease,
           e.type \in {"taken", "taken_over"} => number[j] < e.lease
    PROVE  Fenced(stream'[j])
<1> DEFINE s == stream[j]
           t == stream'[j]
<1>1. /\ DOMAIN s = 1..Len(s) /\ DOMAIN t = 1..(Len(s) + 1) /\ Len(s) \in Nat
      /\ t[Len(s) + 1] = e /\ \A n \in DOMAIN s : t[n] = s[n]
  BY Grown DEF TypeOK
<1>2. number[j] \in Nat /\ e.lease \in Nat
  BY DEF TypeOK, Event
<1> SUFFICES ASSUME NEW m \in DOMAIN t, NEW n \in DOMAIN t, m < n
             PROVE  /\ t[m].lease <= t[n].lease
                    /\ t[n].type \in {"taken", "taken_over"} => t[m].lease < t[n].lease
  BY DEF Fenced
<1>3. m \in DOMAIN s
  BY <1>1
<1>4. CASE n \in DOMAIN s
  BY <1>1, <1>3, <1>4 DEF FencedStream
<1>5. CASE n = Len(s) + 1
  <2>1. s[m].lease \in Nat /\ s[m].lease <= number[j]
    BY <1>3, LeasesBelowNumber
  <2>2. t[m] = s[m] /\ t[n] = e
    BY <1>1, <1>3, <1>5
  <2>. QED BY SMTT(30), <1>2, <2>1, <2>2
<1>. QED BY <1>1, <1>4, <1>5

LEMMA FencedStreamStep ==
    ASSUME IInv, [JobsNext]_jobVars
    PROVE  FencedStream'
<1>0. TypeOK /\ StreamTellsRow /\ FencedStream /\ LeaseWhileRunning
  BY DEF IInv
<1> SUFFICES ASSUME NEW j \in JobId PROVE Fenced(stream'[j])
  BY DEF FencedStream, Fenced
<1>1. JobStep(j) /\ number[j] \in Nat
  BY <1>0, StepOfEachJob DEF TypeOK
<1>2. CASE Same(j)
  BY <1>0, <1>2 DEF Same, FencedStream, Fenced
<1>3. CASE Created(j)
  <2> DEFINE e == [type |-> "created", lease |-> 0]
  <2>1. e \in Event /\ number[j] = 0 /\ e.lease = 0 /\ e.type = "created"
    BY <1>3 DEF Event, EventType, Created, IInv
  <2>2. stream'[j] = Append(stream[j], e)
    BY <1>3 DEF Created
  <2> HIDE DEF e
  <2>3. number[j] <= e.lease /\ e.type \notin {"taken", "taken_over"}
    BY <2>1
  <2>. QED BY <1>0, <2>1, <2>2, <2>3, FencedGrows
<1>4. CASE Taken(j)
  <2> PICK t \in {"taken", "taken_over"} :
             stream'[j] = Append(stream[j], [type |-> t, lease |-> number[j] + 1])
    BY <1>4 DEF Taken
  <2> DEFINE e == [type |-> t, lease |-> number[j] + 1]
  <2>1. e \in Event /\ e.lease = number[j] + 1
    BY <1>1 DEF Event, EventType
  <2>2. stream'[j] = Append(stream[j], e)
    OBVIOUS
  <2> HIDE DEF e
  <2>3. number[j] <= e.lease /\ number[j] < e.lease
    BY <1>1, <2>1
  <2>. QED BY <1>0, <2>1, <2>2, <2>3, FencedGrows
<1>5. CASE Stepped(j) \/ Finished(j)
  <2> PICK t \in {"progressed"} \cup Ended :
             stream'[j] = Append(stream[j], [type |-> t, lease |-> number[j]])
    BY <1>5 DEF Stepped, Finished
  <2> DEFINE e == [type |-> t, lease |-> number[j]]
  <2>1. e \in Event /\ e.lease = number[j] /\ e.type \notin {"taken", "taken_over"}
    BY <1>1 DEF Event, EventType, Ended
  <2>2. stream'[j] = Append(stream[j], e)
    OBVIOUS
  <2> HIDE DEF e
  <2>3. number[j] <= e.lease
    BY <1>1, <2>1
  <2>. QED BY <1>0, <2>1, <2>2, <2>3, FencedGrows
<1>. QED BY <1>1, <1>2, <1>3, <1>4, <1>5 DEF JobStep

-----------------------------------------------------------------------------
(* Without a submission every job keeps its row and what it was given, and *)
(* states only move on: none comes to life, none ended wakes up.           *)
Onward(j) ==
    /\ Kept(j)
    /\ (state'[j] = "none") <=> (state[j] = "none")
    /\ state'[j] \in Live => state[j] \in Live
    /\ state'[j] \in Holding => state[j] \in Holding
    /\ state[j] \in {"failed", "cancelled"} => state'[j] = state[j]

LEMMA SubmittedOrOnward ==
    ASSUME TypeOK, LeaseWhileRunning, [JobsNext]_jobVars
    PROVE  \/ \E j \in JobId, k \in Key, r \in Resource \cup {NoResource} :
                 SubmitJob(j, k, r)
           \/ \A j \in JobId : Onward(j)
<1> SUFFICES ASSUME ~ \E j \in JobId, k \in Key, r \in Resource \cup {NoResource} :
                         SubmitJob(j, k, r)
             PROVE  \A j \in JobId : Onward(j)
  OBVIOUS
<1> USE DEF Onward, Kept, Live, Holding, Ended
<1>1. ASSUME NEW j \in JobId, NEW now \in Time, TakeJob(j, now)
      PROVE  \A i \in JobId : Onward(i)
  BY <1>1, TakeType DEF Taken, Same
<1>2. ASSUME NEW l \in issued, NEW now \in Time, Heartbeat(l, now) \/ Progress(l, now)
      PROVE  \A i \in JobId : Onward(i)
  BY <1>2, LeaseCallType DEF Stepped, Same
<1>3. ASSUME NEW l \in issued, NEW to \in Ended, CompleteJob(l, to)
      PROVE  \A i \in JobId : Onward(i)
  <2>1. l.job \in JobId /\ state[l.job] \in Holding
    BY <1>3 DEF CompleteJob, MayMoveTo, MOVES, TypeOK, Lease
  <2>2. Finished(l.job) /\ \A i \in JobId \ {l.job} : Same(i)
    BY <1>3, <2>1, EndType DEF CompleteJob
  <2>. QED BY <2>2 DEF Finished, Same
<1>4. ASSUME NEW j \in JobId, CancelJob(j)
      PROVE  \A i \in JobId : Onward(i)
  <2>1. state[j] \in Holding
    BY <1>4 DEF CancelJob, MayMoveTo, MOVES
  <2>2. Finished(j) /\ \A i \in JobId \ {j} : Same(i)
    BY <1>4, <2>1, EndType DEF CancelJob
  <2>. QED BY <2>2 DEF Finished, Same
<1>5. CASE UNCHANGED jobVars
  BY <1>5 DEF jobVars
<1>. QED BY <1>1, <1>2, <1>3, <1>4, <1>5 DEF JobsNext

(* What a submission finds: no live job of its key, no holder of its       *)
(* resource, and every earlier attempt of its key failed or cancelled.     *)
Placed(j, k, r) ==
    /\ Rows' = Rows \cup {j} /\ j \notin Rows
    /\ key'[j] = k /\ resource'[j] = r /\ state'[j] = "queued"
    /\ \A i \in Rows : i # j /\ state'[i] = state[i] /\ Kept(i)
    /\ \A i \in Rows : key[i] = k => state[i] \in {"failed", "cancelled"}
    /\ \A i \in Rows : r \in Resource /\ resource[i] = r => state[i] \notin Holding
    /\ attempt'[j] \in Nat
    /\ \A i \in Rows : key[i] = k => attempt[i] < attempt'[j]
    /\ attempt'[j] = 1 \/ \E i \in Rows : key[i] = k /\ attempt[i] = attempt'[j] - 1

LEMMA SubmitPlaces ==
    ASSUME TypeOK, NEW j \in JobId, NEW k \in Key,
           NEW r \in Resource \cup {NoResource}, SubmitJob(j, k, r)
    PROVE  Placed(j, k, r)
<1> USE DEF SubmitJob, TypeOK, Rows
<1>1. /\ Rows' = Rows \cup {j} /\ j \notin Rows
      /\ key'[j] = k /\ resource'[j] = r /\ state'[j] = "queued"
  OBVIOUS
<1>2. \A i \in Rows : i # j /\ state'[i] = state[i] /\ Kept(i)
  BY DEF Kept
<1>3. \A i \in Rows : key[i] = k => state[i] \in {"failed", "cancelled"}
  BY DEF LiveOf, Live, State, Holding, Ended
<1>4. \A i \in Rows : r \in Resource /\ resource[i] = r => state[i] \notin Holding
  BY JobsAssumption DEF Free, HoldersOf
<1>5. PICK a \in NextAttempt(k) : attempt'[j] = a
  OBVIOUS
<1>6. \A i \in Rows : key[i] = k => attempt[i] \in AttemptsOf(k) /\ attempt[i] \in Nat
  BY DEF AttemptsOf
<1>7. a \in Nat /\ \A i \in Rows : key[i] = k => attempt[i] < a
  BY <1>6 DEF NextAttempt, AttemptsOf
<1>8. a = 1 \/ \E i \in Rows : key[i] = k /\ attempt[i] = a - 1
  BY DEF NextAttempt, AttemptsOf
<1>. QED BY <1>1, <1>2, <1>3, <1>4, <1>5, <1>7, <1>8 DEF Placed

LEMMA UniqueStep ==
    ASSUME IInv, [JobsNext]_jobVars
    PROVE  OneLivePerKey' /\ OnePerResource' /\ AttemptsInOrder'
<1>0. TypeOK /\ LeaseWhileRunning /\ OneLivePerKey /\ OnePerResource /\ AttemptsInOrder
  BY DEF IInv
<1>1. ASSUME NEW j \in JobId, NEW k \in Key, NEW r \in Resource \cup {NoResource},
             SubmitJob(j, k, r)
      PROVE  OneLivePerKey' /\ OnePerResource' /\ AttemptsInOrder'
  <2>0. Placed(j, k, r)
    BY <1>0, <1>1, SubmitPlaces
  <2>1. OneLivePerKey'
    <3> SUFFICES ASSUME NEW h \in Rows', NEW i \in Rows', h # i, key'[h] = key'[i]
                 PROVE  state'[h] \notin Live \/ state'[i] \notin Live
      BY DEF OneLivePerKey
    <3>. QED BY <1>0, <2>0 DEF Placed, OneLivePerKey, Kept, Live
  <2>2. OnePerResource'
    <3> SUFFICES ASSUME NEW h \in Rows', NEW i \in Rows', h # i,
                        resource'[h] = resource'[i], resource'[h] \in Resource
                 PROVE  state'[h] \notin Holding \/ state'[i] \notin Holding
      BY DEF OnePerResource
    <3>. QED BY <1>0, <2>0 DEF Placed, OnePerResource, Kept
  <2>3. AttemptsInOrder'
    <3> SUFFICES ASSUME NEW i \in Rows'
                 PROVE  /\ attempt'[i] = 1 \/ \E h \in Rows' :
                              key'[h] = key'[i] /\ attempt'[h] = attempt'[i] - 1
                        /\ \A h \in Rows' \ {i} : key'[h] = key'[i] =>
                              /\ attempt'[h] # attempt'[i]
                              /\ attempt'[h] < attempt'[i] => state'[h] \in {"failed", "cancelled"}
      BY DEF AttemptsInOrder
    <3>0. \A h \in Rows : attempt[h] \in Nat
      BY <1>0 DEF TypeOK, Rows
    <3>1. attempt'[i] = 1 \/ \E h \in Rows' :
              key'[h] = key'[i] /\ attempt'[h] = attempt'[i] - 1
      BY <1>0, <2>0 DEF Placed, Kept, AttemptsInOrder
    <3>2. ASSUME NEW h \in Rows' \ {i}, key'[h] = key'[i]
          PROVE  /\ attempt'[h] # attempt'[i]
                 /\ attempt'[h] < attempt'[i] => state'[h] \in {"failed", "cancelled"}
      <4>1. CASE i = j
        BY <2>0, <3>0, <3>2, <4>1 DEF Placed, Kept
      <4>2. CASE h = j
        BY <2>0, <3>0, <3>2, <4>2 DEF Placed, Kept
      <4>3. CASE h # j /\ i # j
        BY <1>0, <2>0, <3>2, <4>3 DEF Placed, Kept, AttemptsInOrder
      <4>. QED BY <4>1, <4>2, <4>3
    <3>. QED BY <3>1, <3>2
  <2>. QED BY <2>1, <2>2, <2>3
<1>2. CASE \A j \in JobId : Onward(j)
  <2>1. Rows' = Rows
    BY <1>2 DEF Rows, Onward
  <2>. QED
    BY <1>0, <1>2, <2>1 DEF OneLivePerKey, OnePerResource, AttemptsInOrder,
       Onward, Kept, Rows
<1>. QED BY <1>0, <1>1, <1>2, SubmittedOrOnward

LEMMA NextIInv == IInv /\ [JobsNext]_jobVars => IInv'
<1> SUFFICES ASSUME IInv, [JobsNext]_jobVars PROVE IInv'
  OBVIOUS
<1>1. TypeOK' /\ \A j \in JobId : JobStep(j)
  BY StepOfEachJob DEF IInv
<1>2. \A j \in JobId : state'[j] = "none" => number'[j] = 0
  BY <1>1 DEF JobStep, Same, Created, Taken, Stepped, Finished, Ended, IInv
<1>. QED
  BY <1>1, <1>2, LeaseWhileRunningStep, StreamTellsRowStep, FencedStreamStep,
     UniqueStep DEF IInv

LEMMA IInvHolds == JobsSpec => []IInv
BY InitIInv, NextIInv, PTL DEF JobsSpec

(* The rows, leases and streams of jobs keep their types. *)
THEOREM JobsTypeCorrect == JobsSpec => []TypeOK
BY IInvHolds, PTL DEF IInv

(* submit_job alone keeps one live job per key: its index never refuses. *)
THEOREM OneLivePerKeyHolds == JobsSpec => []OneLivePerKey
BY IInvHolds, PTL DEF IInv

(* No two unfinished jobs hold one resource. *)
THEOREM OnePerResourceHolds == JobsSpec => []OnePerResource
BY IInvHolds, PTL DEF IInv

(* Attempts are consecutive, and only the last one of a key may be alive. *)
THEOREM AttemptsInOrderHolds == JobsSpec => []AttemptsInOrder
BY IInvHolds, PTL DEF IInv

(* Nothing written under a lease follows that lease's takeover, however    *)
(* long the stalled process sleeps and whatever the clocks read.           *)
THEOREM FencedStreamHolds == JobsSpec => []FencedStream
BY IInvHolds, PTL DEF IInv

(* The stream and the row never disagree. *)
THEOREM StreamTellsRowHolds == JobsSpec => []StreamTellsRow
BY IInvHolds, PTL DEF IInv

(* A job that ended never changes. *)
THEOREM EndedIsFinalHolds == JobsSpec => EndedIsFinal
<1>1. IInv /\ [JobsNext]_jobVars =>
        [\A j \in JobId : state[j] \in Ended =>
          /\ state'[j] = state[j] /\ number'[j] = number[j]
          /\ stream'[j] = stream[j] /\ expires'[j] = NoLease]_jobVars
  <2> SUFFICES ASSUME IInv, [JobsNext]_jobVars, NEW j \in JobId, state[j] \in Ended
               PROVE  /\ state'[j] = state[j] /\ number'[j] = number[j]
                      /\ stream'[j] = stream[j] /\ expires'[j] = NoLease
    OBVIOUS
  <2>1. JobStep(j) /\ expires[j] = NoLease
    BY StepOfEachJob DEF IInv, LeaseWhileRunning, Ended
  <2>. QED
    BY <2>1 DEF JobStep, Same, Created, Taken, Stepped, Finished, Holding, Ended
<1>. QED BY <1>1, IInvHolds, PTL DEF JobsSpec, EndedIsFinal

-----------------------------------------------------------------------------
(* The refinement of LeasedLog.                                            *)

(* The abstract log of a job is the sequence of its events' lease numbers. *)
LEMMA LogIsSeq ==
    ASSUME NEW s \in Seq(Event)
    PROVE  LET g == [n \in 1..Len(s) |-> s[n].lease] IN
           /\ g \in Seq(Nat) /\ Len(g) = Len(s)
           /\ \A n \in 1..Len(s) : g[n] = s[n].lease
<1>1. \A n \in 1..Len(s) : s[n].lease \in Nat
  <2> SUFFICES ASSUME NEW n \in 1..Len(s) PROVE s[n].lease \in Nat
    OBVIOUS
  <2>1. s[n] \in Event
    OBVIOUS
  <2>. QED BY <2>1 DEF Event
<1>. QED BY <1>1

(* The abstract log of a stream that grew by e grew by e's lease number. *)
LEMMA LogGrows ==
    ASSUME TypeOK, TypeOK', NEW j \in JobId, NEW e \in Event,
           stream'[j] = Append(stream[j], e),
           \A i \in JobId \ {j} : stream'[i] = stream[i]
    PROVE  LogOf' = [LogOf EXCEPT ![j] = Append(@, e.lease)]
<1> DEFINE s == stream[j]
           t == stream'[j]
<1>1. /\ Len(t) = Len(s) + 1 /\ Len(s) \in Nat /\ t[Len(s) + 1] = e
      /\ \A n \in 1..Len(s) : t[n] = s[n]
  BY Grown DEF TypeOK
<1>2. /\ LogOf[j] \in Seq(Nat) /\ Len(LogOf[j]) = Len(s)
      /\ \A n \in 1..Len(s) : LogOf[j][n] = s[n].lease
  BY LogIsSeq DEF LogOf, TypeOK
<1>3. /\ LogOf'[j] \in Seq(Nat) /\ Len(LogOf'[j]) = Len(t)
      /\ \A n \in 1..Len(t) : LogOf'[j][n] = t[n].lease
  BY LogIsSeq DEF LogOf, TypeOK
<1>6. LogOf'[j] = Append(LogOf[j], e.lease)
  <2> DEFINE a == LogOf'[j]
             b == Append(LogOf[j], e.lease)
  <2>1. e.lease \in Nat
    BY DEF Event
  <2>2. /\ b \in Seq(Nat) /\ Len(b) = Len(s) + 1 /\ b[Len(s) + 1] = e.lease
        /\ \A n \in 1..Len(s) : b[n] = s[n].lease
    BY SMTT(30), <1>2, <2>1, AppendProperties
  <2>3. \A n \in 1..Len(a) : a[n] = b[n]
    BY <1>1, <1>3, <2>2
  <2>4. a \in Seq(Nat) /\ b \in Seq(Nat) /\ Len(a) = Len(b)
    BY <1>1, <1>3, <2>2
  <2> HIDE DEF a, b
  <2>5. a = b
    BY <2>3, <2>4, SeqEqual, Zenon
  <2>. QED BY <2>5 DEF a, b
<1>4. \A i \in JobId \ {j} : LogOf'[i] = LogOf[i]
  BY DEF LogOf
<1>5. DOMAIN LogOf = JobId /\ DOMAIN LogOf' = JobId
  BY DEF LogOf
<1>. QED BY <1>4, <1>5, <1>6 DEF LogOf

LEMMA InitRefines == JobsInit => Log!LogInit
BY DEF JobsInit, Log!LogInit, PhaseOf, LogOf

(* A step on one job that leaves every other job alone is a step of that   *)
(* job's log; a renewal is a stuttering step.                              *)
LEMMA MoveRefines ==
    ASSUME TypeOK, TypeOK', NEW j \in JobId,
           Created(j) \/ Taken(j) \/ Stepped(j) \/ Finished(j),
           \A i \in JobId \ {j} : Same(i)
    PROVE  Log!LogNext
<1>1. \A i \in JobId \ {j} : stream'[i] = stream[i] /\ state'[i] = state[i]
                             /\ number'[i] = number[i]
  BY DEF Same
<1>2. number[j] \in Nat /\ number \in [JobId -> Nat] /\ number' \in [JobId -> Nat]
  BY DEF TypeOK
<1>3. \A i \in JobId \ {j} : PhaseOf'[i] = PhaseOf[i]
  BY <1>1 DEF PhaseOf
<1>4. CASE Created(j)
  <2> DEFINE e == [type |-> "created", lease |-> 0]
  <2>1. e \in Event /\ e.lease = 0 /\ stream'[j] = Append(stream[j], e)
    BY <1>4 DEF Event, EventType, Created
  <2> HIDE DEF e
  <2>2. LogOf' = [LogOf EXCEPT ![j] = Append(@, 0)]
    BY <1>1, <2>1, LogGrows
  <2>3. PhaseOf[j] = "absent" /\ PhaseOf' = [PhaseOf EXCEPT ![j] = "open"]
    BY <1>1, <1>4 DEF Created, PhaseOf, Ended
  <2>4. number' = number
    BY <1>1, <1>2, <1>4 DEF Created
  <2>. QED BY <2>2, <2>3, <2>4 DEF Log!LogNext, Log!Open, Log!Write
<1>5. CASE Taken(j)
  <2> PICK t \in {"taken", "taken_over"} :
             stream'[j] = Append(stream[j], [type |-> t, lease |-> number[j] + 1])
    BY <1>5 DEF Taken
  <2> DEFINE e == [type |-> t, lease |-> number[j] + 1]
  <2>1. e \in Event /\ e.lease = number[j] + 1 /\ stream'[j] = Append(stream[j], e)
    BY <1>2 DEF Event, EventType
  <2> HIDE DEF e
  <2>2. LogOf' = [LogOf EXCEPT ![j] = Append(@, number[j] + 1)]
    BY <1>1, <2>1, LogGrows
  <2>3. PhaseOf[j] = "open" /\ PhaseOf' = PhaseOf
    BY <1>1, <1>5 DEF Taken, PhaseOf, Ended, Holding
  <2>4. number' = [number EXCEPT ![j] = @ + 1]
    BY <1>1, <1>2, <1>5 DEF Taken
  <2>. QED BY <2>2, <2>3, <2>4 DEF Log!LogNext, Log!Grant, Log!Write
<1>6. CASE Stepped(j)
  <2> DEFINE e == [type |-> "progressed", lease |-> number[j]]
  <2>1. e \in Event /\ e.lease = number[j] /\ stream'[j] = Append(stream[j], e)
    BY <1>2, <1>6 DEF Event, EventType, Stepped
  <2> HIDE DEF e
  <2>2. LogOf' = [LogOf EXCEPT ![j] = Append(@, number[j])]
    BY <1>1, <2>1, LogGrows
  <2>3. PhaseOf[j] = "open" /\ PhaseOf' = PhaseOf
    BY <1>1, <1>6 DEF Stepped, PhaseOf, Ended
  <2>4. number' = number
    BY <1>1, <1>2, <1>6 DEF Stepped
  <2>. QED BY <2>2, <2>3, <2>4 DEF Log!LogNext, Log!Step, Log!Write
<1>7. CASE Finished(j)
  <2> DEFINE e == [type |-> state'[j], lease |-> number[j]]
  <2>1. e \in Event /\ e.lease = number[j] /\ stream'[j] = Append(stream[j], e)
    BY <1>2, <1>7 DEF Event, EventType, Finished
  <2> HIDE DEF e
  <2>2. LogOf' = [LogOf EXCEPT ![j] = Append(@, number[j])]
    BY <1>1, <2>1, LogGrows
  <2>3. PhaseOf[j] = "open" /\ PhaseOf' = [PhaseOf EXCEPT ![j] = "closed"]
    BY <1>1, <1>7 DEF Finished, PhaseOf, Ended, Holding
  <2>4. number' = number
    BY <1>1, <1>2, <1>7 DEF Finished
  <2>. QED BY <2>2, <2>3, <2>4 DEF Log!LogNext, Log!Close, Log!Write
<1>. QED BY <1>4, <1>5, <1>6, <1>7

LEMMA RenewalStutters ==
    ASSUME TypeOK, TypeOK', \A j \in JobId : Same(j)
    PROVE  UNCHANGED Log!logVars
BY DEF Same, TypeOK, PhaseOf, LogOf, Log!logVars

(* Each call is a step of the abstract log or stutters. *)
LEMMA StepRefines ==
    ASSUME IInv, [JobsNext]_jobVars
    PROVE  [Log!LogNext]_Log!logVars
<1>0. TypeOK /\ LeaseWhileRunning /\ TypeOK'
  BY StepOfEachJob DEF IInv
<1>1. ASSUME NEW j \in JobId, NEW k \in Key,
             NEW r \in Resource \cup {NoResource}, SubmitJob(j, k, r)
      PROVE  Log!LogNext
  BY <1>0, <1>1, SubmitType, MoveRefines
<1>2. ASSUME NEW j \in JobId, NEW now \in Time, TakeJob(j, now)
      PROVE  Log!LogNext
  BY <1>0, <1>2, TakeType, MoveRefines
<1>3. ASSUME NEW l \in issued, NEW now \in Time, Heartbeat(l, now)
      PROVE  UNCHANGED Log!logVars
  <2>1. \A j \in JobId : Same(j)
    BY <1>0, <1>3, JobsAssumption DEF Heartbeat, Held, Renew, Same, TypeOK, given
  <2>. QED BY <1>0, <2>1, RenewalStutters
<1>4. ASSUME NEW l \in issued, NEW now \in Time, Progress(l, now)
      PROVE  Log!LogNext
  <2>1. l.job \in JobId
    BY <1>0 DEF TypeOK, Lease
  <2>2. Stepped(l.job) /\ \A i \in JobId \ {l.job} : Same(i)
    BY <1>0, <1>4, <2>1, JobsAssumption DEF Progress, Held, Renew, RecordOnStream,
       Same, Stepped, Kept, LeaseWhileRunning, TypeOK, given
  <2>. QED BY <1>0, <2>1, <2>2, MoveRefines
<1>5. ASSUME NEW l \in issued, NEW to \in Ended, CompleteJob(l, to)
      PROVE  Log!LogNext
  <2>1. l.job \in JobId /\ state[l.job] \in Holding
    BY <1>0, <1>5 DEF CompleteJob, MayMoveTo, MOVES, Holding, TypeOK, Lease, Ended
  <2>2. Finished(l.job) /\ \A i \in JobId \ {l.job} : Same(i)
    BY <1>0, <1>5, <2>1, EndType DEF CompleteJob
  <2>. QED BY <1>0, <2>1, <2>2, MoveRefines
<1>6. ASSUME NEW j \in JobId, CancelJob(j)
      PROVE  Log!LogNext
  <2>1. state[j] \in Holding
    BY <1>6 DEF CancelJob, MayMoveTo, MOVES, Holding
  <2>2. Finished(j) /\ \A i \in JobId \ {j} : Same(i)
    BY <1>0, <1>6, <2>1, EndType DEF CancelJob, Ended
  <2>. QED BY <1>0, <2>2, MoveRefines
<1>7. CASE UNCHANGED jobVars
  BY <1>7 DEF jobVars, Log!logVars, PhaseOf, LogOf
<1>. QED BY <1>1, <1>2, <1>3, <1>4, <1>5, <1>6, <1>7 DEF JobsNext

(* Every behaviour of the jobs is one of logs with one writer at a time. *)
THEOREM JobsRefineLeasedLog == JobsSpec => LogSpec
<1>1. IInv /\ [JobsNext]_jobVars => [Log!LogNext]_Log!logVars
  BY StepRefines
<1>. QED
  BY <1>1, InitRefines, IInvHolds, PTL DEF JobsSpec, LogSpec, Log!LogSpec

-----------------------------------------------------------------------------
(* The commands over the jobs. *)

Label == {"start", "supersede", "cancel", "resubmit", "take", "work",
          "complete", "look", "read", "done"}
Outcome == {"none", "success", "failure", "refused", "error", "died"}

ProcTypes ==
    /\ pc \in [Process -> Label]
    /\ at \in [Process -> JobId \cup {NoJob}]
    /\ lease \in [Process -> Nat]
    /\ beating \in [Process -> BOOLEAN]
    /\ since \in [Process -> Nat]
    /\ missed \in [Process -> Nat]
    /\ late \subseteq Process
    /\ after \in [Process -> Nat]
    /\ seen \in [Process -> State]
    /\ result \in [Process -> Outcome]

(* Where a process may be, and what it has there. *)
Follows(p) ==
    /\ p \in Waiter => pc[p] \in {"start", "look", "read", "done"}
    /\ pc[p] = "start" => lease[p] = 0
    /\ pc[p] \notin {"start", "done"} => at[p] \in Rows
    /\ pc[p] \in {"take", "look", "read", "supersede"} => lease[p] = 0
    /\ pc[p] \in {"work", "complete", "cancel"} => lease[p] # 0
    /\ lease[p] # 0 => /\ at[p] \in Rows
                       /\ Token(p) \in issued
                       /\ lease[p] <= number[at[p]]

(* Its heartbeat thread runs only beside the work and starts afresh. *)
Keeps(p) ==
    /\ beating[p] => pc[p] = "work"
    /\ since[p] <= Beat /\ missed[p] <= MaxMissed
    /\ pc[p] \notin {"work", "done"} => since[p] = 0 /\ missed[p] = 0

(* What it read of a job that ended, and returned of it, stays true. *)
Knows(p) ==
    /\ pc[p] = "read" /\ seen[p] \in Ended => state[at[p]] = seen[p]
    /\ result[p] # "none" => pc[p] = "done"
    /\ result[p] \in {"success", "failure"} =>
           /\ at[p] \in Rows
           /\ state[at[p]] \in Ended
           /\ result[p] = ExitOf(state[at[p]])
           /\ lease[p] # 0 => number[at[p]] = lease[p]
           /\ lease[p] = 0 => after[p] = Len(stream[at[p]])

(* No two processes have one lease. *)
Apart(p, q) == lease[p] # 0 /\ lease[q] # 0 /\ at[p] = at[q] => lease[p] # lease[q]

(* Each tick since the lease was renewed is one since the last heartbeat,  *)
(* or one of a beat that was missed: what is left of the lease of a        *)
(* process at work that is not late.                                       *)
Secure(p) ==
    /\ pc[p] \in {"work", "complete"} => Held(Token(p)) /\ expires[at[p]] > 0
    /\ pc[p] = "work" => /\ beating[p]
                         /\ expires[at[p]] + missed[p] * Beat + since[p] >= Term

ForegroundInv ==
    /\ IInv
    /\ ProcTypes
    /\ \A p \in Process : Follows(p) /\ Keeps(p) /\ Knows(p)
    /\ \A p, q \in Process : p # q => Apart(p, q)
    /\ \A p \in Process \ late : Secure(p)

-----------------------------------------------------------------------------
(* What a step of one process leaves the others.                           *)

MovesOn(j) ==
    /\ state[j] # "none" => state'[j] # "none"
    /\ number[j] <= number'[j]
    /\ state[j] \in Ended =>
           state'[j] = state[j] /\ number'[j] = number[j] /\ stream'[j] = stream[j]

LEMMA JobsMoveOn ==
    ASSUME IInv, [JobsNext]_jobVars
    PROVE  IInv' /\ issued \subseteq issued' /\ \A j \in JobId : MovesOn(j)
<1>1. IInv'
  BY NextIInv
<1>2. \A j \in JobId : JobStep(j) /\ number[j] \in Nat
  BY StepOfEachJob DEF IInv, TypeOK
<1>3. ASSUME NEW j \in JobId
      PROVE  MovesOn(j)
  <2>1. JobStep(j) /\ number[j] \in Nat
    BY <1>2
  <2>. QED
    BY <2>1 DEF MovesOn, JobStep, Same, Created, Taken, Stepped, Finished, Holding, Ended
<1>4. issued \subseteq issued'
  BY DEF JobsNext, jobVars, SubmitJob, TakeJob, Heartbeat, Progress, CompleteJob,
     CancelJob, End
<1>. QED BY <1>1, <1>3, <1>4

Others(p) ==
    /\ \A q \in Process \ {p} :
           /\ pc'[q] = pc[q] /\ at'[q] = at[q] /\ lease'[q] = lease[q]
           /\ beating'[q] = beating[q] /\ since'[q] = since[q]
           /\ missed'[q] = missed[q] /\ after'[q] = after[q]
           /\ seen'[q] = seen[q] /\ result'[q] = result[q]
    /\ late' \subseteq late /\ late \subseteq late' \cup {p}

(* Whose lease is secure keeps it as it is. *)
Spares(p) ==
    \A q \in Process \ ({p} \cup late) : pc[q] \in {"work", "complete"} =>
        number'[at[q]] = number[at[q]] /\ expires'[at[q]] = expires[at[q]]

(* A lease is kept, or is the next of its job. *)
NewLease(p) ==
    lease'[p] # 0 => \/ lease'[p] = lease[p] /\ at'[p] = at[p]
                     \/ at'[p] \in JobId /\ lease'[p] = number[at'[p]] + 1

Own(p) == Follows(p) /\ Keeps(p) /\ Knows(p) /\ (p \notin late => Secure(p))

LEMMA StepKeeps ==
    ASSUME ForegroundInv, [JobsNext]_jobVars, NEW p \in Process, ProcTypes',
           Others(p), Spares(p), NewLease(p), Own(p)'
    PROVE  ForegroundInv'
<1>1. IInv' /\ issued \subseteq issued' /\ \A j \in JobId : MovesOn(j)
  BY JobsMoveOn DEF ForegroundInv
<1>2. /\ ProcTypes /\ Rows \subseteq JobId /\ Rows \subseteq Rows'
      /\ number \in [JobId -> Nat] /\ number' \in [JobId -> Nat]
  BY <1>1 DEF ForegroundInv, IInv, TypeOK, Rows, MovesOn
<1>3. ASSUME NEW q \in Process \ {p}
      PROVE  Follows(q)' /\ Keeps(q)' /\ Knows(q)'
  <2>1. Follows(q) /\ Keeps(q) /\ Knows(q)
    BY DEF ForegroundInv
  <2>2. Follows(q)'
    BY <1>1, <1>2, <2>1 DEF Others, Follows, Token, MovesOn, ProcTypes
  <2>3. Keeps(q)'
    BY <2>1 DEF Others, Keeps
  <2>4. at[q] \in Rows => at[q] \in JobId /\ MovesOn(at[q])
    BY <1>1, <1>2
  <2>5. pc[q] = "read" => at[q] \in Rows
    BY <2>1 DEF Follows
  <2>6. Knows(q)'
    BY <1>2, <2>1, <2>4, <2>5 DEF Others, Knows, MovesOn
  <2>. QED BY <2>2, <2>3, <2>6
<1>4. ASSUME NEW q \in Process, NEW r \in Process, q # r
      PROVE  Apart(q, r)'
  <2>1. /\ lease[q] # 0 => at[q] \in JobId /\ lease[q] <= number[at[q]]
        /\ lease[r] # 0 => at[r] \in JobId /\ lease[r] <= number[at[r]]
        /\ lease[q] \in Nat /\ lease[r] \in Nat
    BY <1>2 DEF ForegroundInv, Follows, ProcTypes
  <2>2. Apart(q, r)
    BY <1>4 DEF ForegroundInv
  <2>. QED BY <1>2, <1>4, <2>1, <2>2 DEF Apart, Others, NewLease
<1>5. ASSUME NEW q \in Process \ late', q # p
      PROVE  Secure(q)'
  <2>1. q \notin late /\ Secure(q)
    BY <1>5 DEF Others, ForegroundInv
  <2>. QED BY <1>5, <2>1 DEF Others, Spares, Secure, Held, Token
<1>. QED BY <1>1, <1>3, <1>4, <1>5 DEF ForegroundInv, Own

LEMMA TakeSpares ==
    ASSUME ForegroundInv, NEW p \in Process, NEW j \in JobId, TakeJob(j, 0)
    PROVE  Spares(p)
<1> SUFFICES ASSUME NEW q \in Process \ late, pc[q] \in {"work", "complete"}
             PROVE  number'[at[q]] = number[at[q]] /\ expires'[at[q]] = expires[at[q]]
  BY DEF Spares
<1>1. Held(Token(q)) /\ expires[at[q]] > 0
  BY DEF ForegroundInv, Secure
<1>2. at[q] # j
  BY <1>1 DEF TakeJob, Takeable, Held, Token
<1>. QED BY <1>2 DEF TakeJob, ForegroundInv, IInv, TypeOK

LEMMA LeaseSpares ==
    ASSUME ForegroundInv, NEW p \in Process, lease[p] # 0, Held(Token(p)),
           NEW e, expires' = [expires EXCEPT ![at[p]] = e], number' = number
    PROVE  Spares(p)
<1> SUFFICES ASSUME NEW q \in Process \ ({p} \cup late), pc[q] \in {"work", "complete"}
             PROVE  number'[at[q]] = number[at[q]] /\ expires'[at[q]] = expires[at[q]]
  BY DEF Spares
<1>1. Held(Token(q)) /\ lease[q] # 0 /\ Apart(p, q)
  BY DEF ForegroundInv, Secure, Follows
<1>2. at[q] # at[p]
  BY <1>1 DEF Held, Token, Apart
<1>. QED BY <1>2 DEF ForegroundInv, IInv, TypeOK

LEMMA QuietSpares ==
    ASSUME UNCHANGED <<number, expires>>, NEW p
    PROVE  Spares(p)
BY DEF Spares

-----------------------------------------------------------------------------
(* Each step of a process.                                                 *)

Good(p) == [JobsNext]_jobVars /\ ProcTypes' /\ Others(p) /\ Spares(p) /\ NewLease(p)
           /\ Own(p)'

(* Inserting a row renews and numbers no lease. *)
LEMMA Inserted ==
    ASSUME ForegroundInv, NEW p \in Command, NEW j \in JobId,
           SubmitJob(j, KeyOf[p], ResourceOf[p])
    PROVE  JobsNext /\ j \in Rows' /\ UNCHANGED <<number, expires>>
<1>1. KeyOf[p] \in Key /\ ResourceOf[p] \in Resource \cup {NoResource}
  BY ForegroundAssumption
<1>2. JobsNext
  BY <1>1 DEF JobsNext
<1>3. state' = [state EXCEPT ![j] = "queued"] /\ state \in [JobId -> State \cup {"none"}]
  BY DEF SubmitJob, ForegroundInv, IInv, TypeOK
<1>4. j \in Rows'
  BY <1>3 DEF Rows
<1>. QED BY <1>2, <1>4 DEF SubmitJob

(* What the three answers of a submission share. *)
Submits(p) ==
    /\ [JobsNext]_jobVars /\ UNCHANGED <<number, expires>>
    /\ \E j \in JobId : at' = [at EXCEPT ![p] = j] /\ j \in Rows'

LEMMA SubmitsJob ==
    ASSUME ForegroundInv, NEW p \in Command, Finds(p) \/ Inserts(p)
    PROVE  Submits(p) /\ pc' = [pc EXCEPT ![p] = "take"] /\ UNCHANGED result
<1>1. CASE Finds(p)
  <2>1. UNCHANGED jobVars
    BY <1>1 DEF Finds
  <2>2. UNCHANGED <<number, expires>> /\ Rows' = Rows
    BY <2>1 DEF jobVars, Rows
  <2>3. PICK j \in LiveOf(KeyOf[p]) : at' = [at EXCEPT ![p] = j]
    BY <1>1 DEF Finds
  <2>4. j \in JobId /\ j \in Rows'
    BY <2>2 DEF LiveOf, Rows
  <2>. QED BY <1>1, <2>1, <2>2, <2>3, <2>4 DEF Submits, Finds, Goto
<1>2. CASE Inserts(p)
  <2>1. PICK j \in JobId : /\ SubmitJob(j, KeyOf[p], ResourceOf[p])
                           /\ at' = [at EXCEPT ![p] = j]
    BY <1>2 DEF Inserts
  <2>2. JobsNext /\ j \in Rows' /\ UNCHANGED <<number, expires>>
    BY <2>1, Inserted
  <2>. QED BY <1>2, <2>1, <2>2 DEF Submits, Inserts, Goto
<1>. QED BY <1>1, <1>2

LEMMA SubmitFirstIsGood ==
    ASSUME ForegroundInv, NEW p \in Command, SubmitFirst(p)
    PROVE  Good(p)
<1>0. p \in Process /\ ProcTypes /\ Own(p) /\ p \notin Waiter
  BY ForegroundAssumption DEF ForegroundInv, Own, Process
<1>1. /\ pc[p] = "start" /\ lease[p] = 0 /\ ~beating[p] /\ result[p] = "none"
      /\ since[p] = 0 /\ missed[p] = 0
  BY <1>0 DEF SubmitFirst, Own, Follows, Keeps, Knows
<1>2. Submits(p) /\ UNCHANGED result /\ \E l \in {"take", "supersede"} : pc' = [pc EXCEPT ![p] = l]
  <2>1. CASE Finds(p) \/ Inserts(p)
    BY <2>1, SubmitsJob
  <2>2. CASE ~(Finds(p) \/ Inserts(p))
    <3>1. /\ UNCHANGED <<jobVars, result>> /\ pc' = [pc EXCEPT ![p] = "supersede"]
          /\ \E j \in HoldersOf(ResourceOf[p]) : at' = [at EXCEPT ![p] = j]
      BY <2>2 DEF SubmitFirst, Goto
    <3>. QED BY <3>1 DEF Submits, HoldersOf, Rows, jobVars
  <2>. QED BY <2>1, <2>2
<1>3. PICK j \in JobId : at' = [at EXCEPT ![p] = j] /\ j \in Rows'
  BY <1>2 DEF Submits
<1>4. PICK l \in {"take", "supersede"} : pc' = [pc EXCEPT ![p] = l]
  BY <1>2
<1>5. UNCHANGED <<lease, beating, since, missed, late, steps, after, seen, result>>
  BY <1>2 DEF SubmitFirst
<1>6. pc'[p] = l /\ at'[p] = j
  BY <1>0, <1>3, <1>4 DEF ProcTypes
<1>7. ProcTypes'
  BY <1>0, <1>3, <1>4, <1>5 DEF ProcTypes, Label
<1>8. Others(p)
  BY <1>0, <1>3, <1>4, <1>5 DEF ProcTypes, Others
<1>9. Spares(p) /\ NewLease(p)
  BY <1>1, <1>2, <1>5, QuietSpares DEF Submits, NewLease
<1>10. Own(p)'
  BY <1>0, <1>1, <1>3, <1>5, <1>6 DEF Own, Follows, Keeps, Knows, Secure
<1>. QED BY <1>2, <1>7, <1>8, <1>9, <1>10 DEF Good, Submits

LEMMA SubmitAgainIsGood ==
    ASSUME ForegroundInv, NEW p \in Process, SubmitAgain(p)
    PROVE  Good(p)
<1>0. ProcTypes /\ Own(p)
  BY DEF ForegroundInv, Own
<1>1. /\ pc[p] = "resubmit" /\ p \notin Waiter /\ ~beating[p] /\ result[p] = "none"
      /\ since[p] = 0 /\ missed[p] = 0 /\ at[p] \in Rows
  BY <1>0 DEF SubmitAgain, Own, Follows, Keeps, Knows
<1>2. p \in Command
  BY <1>1 DEF Process
<1>3. /\ lease' = [lease EXCEPT ![p] = 0]
      /\ UNCHANGED <<beating, since, missed, late, steps, after, seen>>
  BY DEF SubmitAgain
<1>4. CASE Finds(p) \/ Inserts(p)
  <2>1. Submits(p) /\ pc' = [pc EXCEPT ![p] = "take"] /\ UNCHANGED result
    BY <1>2, <1>4, SubmitsJob
  <2>2. PICK j \in JobId : at' = [at EXCEPT ![p] = j] /\ j \in Rows'
    BY <2>1 DEF Submits
  <2>3. pc'[p] = "take" /\ at'[p] = j /\ lease'[p] = 0
    BY <1>0, <1>3, <2>1, <2>2 DEF ProcTypes
  <2>4. ProcTypes'
    BY <1>0, <1>3, <2>1, <2>2 DEF ProcTypes, Label
  <2>5. Others(p)
    BY <1>0, <1>3, <2>1, <2>2 DEF ProcTypes, Others
  <2>6. Spares(p) /\ NewLease(p)
    BY <2>1, <2>3, QuietSpares DEF Submits, NewLease
  <2>7. Own(p)'
    BY <1>0, <1>1, <1>3, <2>1, <2>2, <2>3 DEF Own, Follows, Keeps, Knows, Secure
  <2>. QED BY <2>1, <2>4, <2>5, <2>6, <2>7 DEF Good, Submits
<1>5. CASE ~(Finds(p) \/ Inserts(p))
  <2>1. /\ UNCHANGED <<jobVars, at>> /\ pc' = [pc EXCEPT ![p] = "done"]
        /\ result' = [result EXCEPT ![p] = "refused"]
    BY <1>5 DEF SubmitAgain, Return, Goto
  <2>2. pc'[p] = "done" /\ result'[p] = "refused" /\ lease'[p] = 0
    BY <1>0, <1>3, <2>1 DEF ProcTypes
  <2>3. ProcTypes'
    BY <1>0, <1>3, <2>1 DEF ProcTypes, Label, Outcome
  <2>4. Others(p)
    BY <1>0, <1>3, <2>1 DEF ProcTypes, Others
  <2>5. Spares(p) /\ NewLease(p) /\ UNCHANGED Rows
    BY <2>1, <2>2, QuietSpares DEF NewLease, jobVars, Rows
  <2>6. Own(p)'
    BY <1>0, <1>1, <1>3, <2>1, <2>2, <2>5 DEF Own, Follows, Keeps, Knows, Secure
  <2>. QED BY <2>1, <2>3, <2>4, <2>5, <2>6 DEF Good
<1>. QED BY <1>4, <1>5

(* A lease taken is the next of its job, ends a term later, and spares     *)
(* every process whose own is secure.                                      *)
LEMMA Takes ==
    ASSUME ForegroundInv, NEW p \in Process, NEW j \in JobId, TakeJob(j, 0)
    PROVE  /\ JobsNext /\ Spares(p) /\ j \in Rows'
           /\ number[j] \in Nat /\ number'[j] = number[j] + 1 /\ expires'[j] = Term
           /\ [job |-> j, number |-> number[j] + 1] \in issued'
<1>1. JobsNext
  BY ForegroundAssumption DEF JobsNext
<1>2. Spares(p)
  BY TakeSpares
<1>3. number \in [JobId -> Nat] /\ state \in [JobId -> State \cup {"none"}]
      /\ expires \in [JobId -> Nat \cup {NoLease}]
  BY DEF ForegroundInv, IInv, TypeOK
<1>4. j \in Rows'
  BY <1>3 DEF TakeJob, Rows
<1>5. expires'[j] = 0 + Term
  BY <1>3 DEF TakeJob
<1>. QED BY <1>1, <1>2, <1>3, <1>4, <1>5, JobsAssumption DEF TakeJob

LEMMA SupersedeIsGood ==
    ASSUME ForegroundInv, NEW p \in Process, Supersede(p)
    PROVE  Good(p)
<1>0. ProcTypes /\ Own(p)
  BY DEF ForegroundInv, Own
<1>1. /\ pc[p] = "supersede" /\ p \notin Waiter /\ ~beating[p] /\ result[p] = "none"
      /\ since[p] = 0 /\ missed[p] = 0 /\ at[p] \in Rows /\ at[p] \in JobId /\ lease[p] = 0
  BY <1>0 DEF Supersede, Own, Follows, Keeps, Knows, Rows
<1>2. UNCHANGED <<at, beating, since, missed, late, steps, after, seen>>
  BY DEF Supersede
<1>3. CASE TakeJob(at[p], 0)
  <2>1. /\ lease' = [lease EXCEPT ![p] = number'[at[p]]]
        /\ pc' = [pc EXCEPT ![p] = "cancel"] /\ UNCHANGED result
    BY <1>3 DEF Supersede, Goto, TakeJob
  <2>2. /\ JobsNext /\ Spares(p) /\ at[p] \in Rows' /\ number[at[p]] \in Nat
        /\ number'[at[p]] = number[at[p]] + 1
        /\ [job |-> at[p], number |-> number[at[p]] + 1] \in issued'
    BY <1>1, <1>3, Takes
  <2>3. pc'[p] = "cancel" /\ lease'[p] = number[at[p]] + 1 /\ Token(p)' \in issued'
    BY <1>0, <1>2, <2>1, <2>2 DEF ProcTypes, Token
  <2>4. ProcTypes'
    BY <1>0, <1>2, <2>1, <2>2 DEF ProcTypes, Label
  <2>5. Others(p)
    BY <1>0, <1>2, <2>1 DEF ProcTypes, Others
  <2>6. NewLease(p)
    BY <1>1, <1>2, <2>3 DEF NewLease
  <2>7. Own(p)'
    BY <1>0, <1>1, <1>2, <2>1, <2>2, <2>3 DEF Own, Follows, Keeps, Knows, Secure
  <2>. QED BY <2>2, <2>4, <2>5, <2>6, <2>7 DEF Good
<1>4. CASE ~TakeJob(at[p], 0)
  <2>1. /\ UNCHANGED <<jobVars, lease>>
        /\ \/ pc' = [pc EXCEPT ![p] = "done"] /\ result' = [result EXCEPT ![p] = "refused"]
           \/ pc' = [pc EXCEPT ![p] = "resubmit"] /\ UNCHANGED result
    BY <1>4 DEF Supersede, Goto, Return
  <2>2. \/ pc'[p] = "done" /\ result'[p] = "refused"
        \/ pc'[p] = "resubmit" /\ result'[p] = "none"
    BY <1>0, <1>1, <2>1 DEF ProcTypes
  <2>3. ProcTypes'
    BY <1>0, <1>2, <2>1 DEF ProcTypes, Label, Outcome
  <2>4. Others(p)
    BY <1>0, <1>2, <2>1 DEF ProcTypes, Others
  <2>5. Spares(p) /\ NewLease(p) /\ UNCHANGED Rows
    BY <1>1, <2>1, QuietSpares DEF NewLease, jobVars, Rows
  <2>6. Own(p)'
    BY <1>0, <1>1, <1>2, <2>1, <2>2, <2>5 DEF Own, Follows, Keeps, Knows, Secure
  <2>. QED BY <2>1, <2>3, <2>4, <2>5, <2>6 DEF Good
<1>. QED BY <1>3, <1>4

(* A renewal spares the others, whose leases are other ones. *)
LEMMA Renews ==
    ASSUME ForegroundInv, NEW p \in Process, lease[p] # 0,
           Heartbeat(Token(p), 0) \/ Progress(Token(p), 0)
    PROVE  /\ JobsNext /\ Spares(p) /\ UNCHANGED <<state, number, issued>>
           /\ expires'[at[p]] = Term /\ Term \in Nat /\ Held(Token(p))
<1>1. Token(p) \in issued /\ at[p] \in JobId
  BY DEF ForegroundInv, Follows, Rows
<1>2. JobsNext
  BY <1>1, ForegroundAssumption DEF JobsNext
<1>3. /\ Held(Token(p)) /\ UNCHANGED <<state, number, issued>>
      /\ expires' = [expires EXCEPT ![at[p]] = 0 + Term]
  BY DEF Heartbeat, Progress, Renew, Token, given
<1>4. Spares(p)
  BY <1>3, LeaseSpares
<1>5. expires'[at[p]] = 0 + Term
  BY <1>1, <1>3 DEF ForegroundInv, IInv, TypeOK
<1>. QED BY <1>2, <1>3, <1>4, <1>5, JobsAssumption

(* So does the end of a job under its lease. *)
LEMMA EndsJob ==
    ASSUME ForegroundInv, NEW p \in Process, lease[p] # 0, NEW to,
           CompleteJob(Token(p), to)
    PROVE  /\ JobsNext /\ Spares(p) /\ UNCHANGED <<number, issued>>
           /\ to \in Ended /\ state'[at[p]] = to /\ Rows \subseteq Rows'
           /\ number[at[p]] = lease[p]
<1>1. Token(p) \in issued /\ at[p] \in JobId
  BY DEF ForegroundInv, Follows, Rows
<1>2. JobsNext
  BY <1>1 DEF JobsNext, CompleteJob
<1>3. /\ Held(Token(p)) /\ UNCHANGED <<number, issued>> /\ to \in Ended
      /\ expires' = [expires EXCEPT ![at[p]] = NoLease]
      /\ state' = [state EXCEPT ![at[p]] = to]
  BY DEF CompleteJob, End, Token
<1>4. Spares(p)
  BY <1>3, LeaseSpares
<1>5. state'[at[p]] = to /\ Rows \subseteq Rows'
  BY <1>1, <1>3 DEF ForegroundInv, IInv, TypeOK, Rows, Ended
<1>. QED BY <1>2, <1>3, <1>4, <1>5 DEF Held, Token

LEMMA CancelIsGood ==
    ASSUME ForegroundInv, NEW p \in Process, CancelSuperseded(p)
    PROVE  Good(p)
<1>0. ProcTypes /\ Own(p)
  BY DEF ForegroundInv, Own
<1>1. /\ pc[p] = "cancel" /\ p \notin Waiter /\ ~beating[p] /\ result[p] = "none"
      /\ since[p] = 0 /\ missed[p] = 0 /\ at[p] \in Rows /\ lease[p] # 0
      /\ Token(p) \in issued /\ lease[p] <= number[at[p]]
  BY <1>0 DEF CancelSuperseded, Own, Follows, Keeps, Knows
<1>2. UNCHANGED <<at, lease, beating, since, missed, late, steps, after, seen>>
  BY DEF CancelSuperseded
<1>3. /\ [JobsNext]_jobVars /\ Spares(p) /\ UNCHANGED <<number, issued>> /\ Rows \subseteq Rows'
      /\ \/ pc' = [pc EXCEPT ![p] = "resubmit"] /\ UNCHANGED result
         \/ pc' = [pc EXCEPT ![p] = "done"] /\ result' = [result EXCEPT ![p] = "error"]
  <2>1. CASE CompleteJob(Token(p), "cancelled") /\ Goto(p, "resubmit") /\ UNCHANGED result
    BY <1>1, <2>1, EndsJob DEF Goto
  <2>2. CASE Return(p, "error") /\ UNCHANGED jobVars
    BY <2>2, QuietSpares DEF Return, Goto, jobVars, Rows
  <2>. QED BY <2>1, <2>2 DEF CancelSuperseded
<1>4. \/ pc'[p] = "resubmit" /\ result'[p] = "none"
      \/ pc'[p] = "done" /\ result'[p] = "error"
  BY <1>0, <1>1, <1>3 DEF ProcTypes
<1>5. ProcTypes'
  BY <1>0, <1>2, <1>3 DEF ProcTypes, Label, Outcome
<1>6. Others(p)
  BY <1>0, <1>2, <1>3 DEF ProcTypes, Others
<1>7. NewLease(p)
  BY <1>2 DEF NewLease
<1>8. Token(p)' \in issued'
  BY <1>1, <1>2, <1>3 DEF Token
<1>9. Own(p)'
  BY <1>0, <1>1, <1>2, <1>3, <1>4, <1>8 DEF Own, Follows, Keeps, Knows, Secure
<1>. QED BY <1>3, <1>5, <1>6, <1>7, <1>9 DEF Good

LEMMA TakeIsGood ==
    ASSUME ForegroundInv, NEW p \in Process, Take(p)
    PROVE  Good(p)
<1>0. ProcTypes /\ Own(p)
  BY DEF ForegroundInv, Own
<1>1. /\ pc[p] = "take" /\ p \notin Waiter /\ ~beating[p] /\ result[p] = "none"
      /\ since[p] = 0 /\ missed[p] = 0 /\ at[p] \in Rows /\ at[p] \in JobId /\ lease[p] = 0
  BY <1>0 DEF Take, Own, Follows, Keeps, Knows, Rows
<1>2. UNCHANGED <<at, since, missed, steps, after, seen, result>>
  BY DEF Take
<1>3. CASE TakeJob(at[p], 0)
  <2>1. /\ lease' = [lease EXCEPT ![p] = number'[at[p]]]
        /\ beating' = [beating EXCEPT ![p] = TRUE] /\ late' = late \ {p}
        /\ pc' = [pc EXCEPT ![p] = "work"]
    BY <1>3 DEF Take, Goto, TakeJob
  <2>2. /\ JobsNext /\ Spares(p) /\ at[p] \in Rows' /\ number[at[p]] \in Nat
        /\ number'[at[p]] = number[at[p]] + 1 /\ expires'[at[p]] = Term
        /\ [job |-> at[p], number |-> number[at[p]] + 1] \in issued'
    BY <1>1, <1>3, Takes
  <2>3. /\ pc'[p] = "work" /\ beating'[p] /\ lease'[p] = number[at[p]] + 1
        /\ Token(p)' \in issued'
    BY <1>0, <1>2, <2>1, <2>2 DEF ProcTypes, Token
  <2>4. ProcTypes'
    BY <1>0, <1>2, <2>1, <2>2 DEF ProcTypes, Label
  <2>5. Others(p)
    BY <1>0, <1>2, <2>1 DEF ProcTypes, Others
  <2>6. NewLease(p)
    BY <1>1, <1>2, <2>3 DEF NewLease
  <2>7. Follows(p)' /\ Keeps(p)' /\ Knows(p)'
    BY <1>0, <1>1, <1>2, <2>2, <2>3 DEF Own, Follows, Keeps, Knows
  <2>8. {Term, Beat, MaxMissed} \subseteq Nat /\ Term > 0
    BY JobsAssumption, ForegroundAssumption, RenewsInTime
  <2>9. Secure(p)'
    BY <1>1, <1>2, <2>2, <2>3, <2>8 DEF Secure, Held, Token, NoLease
  <2>. QED BY <2>2, <2>4, <2>5, <2>6, <2>7, <2>9 DEF Good, Own
<1>4. CASE ~TakeJob(at[p], 0)
  <2>1. UNCHANGED <<jobVars, lease, beating, late>> /\ pc' = [pc EXCEPT ![p] = "look"]
    BY <1>4 DEF Take, Goto
  <2>2. pc'[p] = "look"
    BY <1>0, <2>1 DEF ProcTypes
  <2>3. ProcTypes'
    BY <1>0, <1>2, <2>1 DEF ProcTypes, Label
  <2>4. Others(p)
    BY <1>0, <1>2, <2>1 DEF ProcTypes, Others
  <2>5. Spares(p) /\ NewLease(p) /\ UNCHANGED Rows
    BY <1>1, <2>1, QuietSpares DEF NewLease, jobVars, Rows
  <2>6. Own(p)'
    BY <1>0, <1>1, <1>2, <2>1, <2>2, <2>5 DEF Own, Follows, Keeps, Knows, Secure
  <2>. QED BY <2>1, <2>3, <2>4, <2>5, <2>6 DEF Good
<1>. QED BY <1>3, <1>4

(* A beat that is missed trades the ticks since the last for one beat.     *)
LEMMA BeatMissed ==
    ASSUME NEW m \in Nat, Beat \in Nat
    PROVE  (m + 1) * Beat + 0 = m * Beat + Beat
OBVIOUS

LEMMA BeatsIsGood ==
    ASSUME ForegroundInv, NEW p \in Process, Beats(p)
    PROVE  Good(p)
<1>0. ProcTypes /\ Own(p) /\ {Term, Beat, MaxMissed} \subseteq Nat
  BY JobsAssumption, ForegroundAssumption DEF ForegroundInv, Own
<1>1. /\ pc[p] = "work" /\ p \notin Waiter /\ beating[p] /\ result[p] = "none"
      /\ since[p] = Beat /\ missed[p] <= MaxMissed /\ missed[p] \in Nat
      /\ at[p] \in Rows /\ at[p] \in JobId /\ lease[p] # 0
      /\ Token(p) \in issued /\ lease[p] <= number[at[p]]
  BY <1>0 DEF Beats, Own, Follows, Keeps, Knows, Rows, ProcTypes
<1>2. /\ UNCHANGED <<pc, at, lease, steps, after, seen, result>>
      /\ since' = [since EXCEPT ![p] = 0]
  BY DEF Beats
<1>3. since'[p] = 0 /\ NewLease(p)
  BY <1>0, <1>2 DEF ProcTypes, NewLease
<1>4. CASE Heartbeat(Token(p), 0)
  <2>1. /\ JobsNext /\ Spares(p) /\ UNCHANGED <<state, number, issued>>
        /\ expires'[at[p]] = Term /\ Held(Token(p))
    BY <1>1, <1>4, Renews
  <2>2. /\ UNCHANGED beating /\ late' \subseteq late /\ late \subseteq late' \cup {p}
        /\ \E m \in Nat : missed' = [missed EXCEPT ![p] = m] /\ m <= MaxMissed
    BY <1>0, <1>1, <2>1 DEF Beats
  <2>3. missed'[p] \in Nat /\ missed'[p] <= MaxMissed
    BY <1>0, <2>2 DEF ProcTypes
  <2>4. ProcTypes'
    BY <1>0, <1>2, <2>2 DEF ProcTypes
  <2>5. Others(p)
    BY <1>0, <1>2, <2>2 DEF ProcTypes, Others
  <2>6. UNCHANGED Rows /\ Token(p)' = Token(p)
    BY <1>2, <2>1 DEF Rows, Token
  <2>7. Follows(p)' /\ Keeps(p)' /\ Knows(p)'
    BY <1>0, <1>1, <1>2, <1>3, <2>1, <2>2, <2>3, <2>6 DEF Own, Follows, Keeps, Knows
  <2>8. missed'[p] * Beat \in Nat /\ Term > 0
    BY <1>0, <2>3, RenewsInTime
  <2>9. Secure(p)'
    BY <1>0, <1>1, <1>2, <1>3, <2>1, <2>2, <2>8 DEF Secure, Held, Token, NoLease
  <2>. QED BY <2>1, <2>4, <2>5, <2>7, <2>9, <1>3 DEF Good, Own
<1>5. CASE Held(Token(p)) /\ ~Heartbeat(Token(p), 0)
  <2>1. /\ UNCHANGED <<beating, late, jobVars>> /\ missed[p] < MaxMissed
        /\ missed' = [missed EXCEPT ![p] = @ + 1]
    BY <1>5 DEF Beats
  <2>2. missed'[p] = missed[p] + 1
    BY <1>0, <2>1 DEF ProcTypes
  <2>3. ProcTypes'
    BY <1>0, <1>2, <2>1 DEF ProcTypes
  <2>4. Others(p)
    BY <1>0, <1>2, <2>1 DEF ProcTypes, Others
  <2>5. Spares(p) /\ UNCHANGED Rows /\ UNCHANGED <<state, number, issued, expires, stream>>
    BY <2>1, QuietSpares DEF jobVars, Rows
  <2>6. Follows(p)' /\ Keeps(p)' /\ Knows(p)'
    BY <1>0, <1>1, <1>2, <1>3, <2>1, <2>2, <2>5 DEF Own, Follows, Keeps, Knows, Token
  <2>7. ASSUME p \notin late' PROVE Secure(p)'
    <3>1. Secure(p)
      BY <2>1, <2>7, <1>0 DEF Own
    <3>2. missed'[p] * Beat + since'[p] = missed[p] * Beat + since[p]
      BY <1>0, <1>1, <1>3, <2>2, BeatMissed
    <3>3. expires[at[p]] + (missed[p] * Beat + since[p]) >= Term
      <4>1. missed[p] * Beat \in Nat /\ expires[at[p]] \in Int
        BY SMTT(30), <1>0, <1>1 DEF ForegroundInv, IInv, TypeOK, NoLease
      <4>. QED BY <1>0, <1>1, <3>1, <4>1 DEF Secure
    <3>4. expires'[at'[p]] + missed'[p] * Beat + since'[p] >= Term
      <4>1. missed'[p] * Beat \in Nat /\ expires'[at'[p]] = expires[at[p]] /\ expires[at[p]] \in Int
        BY SMTT(30), <1>0, <1>1, <1>2, <2>2, <2>5 DEF ForegroundInv, IInv, TypeOK, NoLease
      <4>. QED BY <1>3, <3>2, <3>3, <4>1
    <3>. QED BY <1>1, <1>2, <2>1, <2>5, <3>1, <3>4 DEF Secure, Held, Token
  <2>. QED BY <2>1, <2>3, <2>4, <2>5, <2>6, <2>7, <1>3 DEF Good, Own
<1>6. CASE ~Held(Token(p))
  <2>1. UNCHANGED <<missed, late, jobVars>> /\ beating' = [beating EXCEPT ![p] = FALSE]
    BY <1>6 DEF Beats
  <2>2. ~beating'[p]
    BY <1>0, <2>1 DEF ProcTypes
  <2>3. ProcTypes'
    BY <1>0, <1>2, <2>1 DEF ProcTypes
  <2>4. Others(p)
    BY <1>0, <1>2, <2>1 DEF ProcTypes, Others
  <2>5. Spares(p) /\ UNCHANGED Rows /\ UNCHANGED <<state, number, issued, expires, stream>>
    BY <2>1, QuietSpares DEF jobVars, Rows
  <2>6. Follows(p)' /\ Keeps(p)' /\ Knows(p)'
    BY <1>0, <1>1, <1>2, <1>3, <2>1, <2>2, <2>5 DEF Own, Follows, Keeps, Knows, Token
  <2>7. p \in late'
    BY <1>0, <1>1, <1>6, <2>1 DEF Own, Secure
  <2>. QED BY <2>1, <2>3, <2>4, <2>5, <2>6, <2>7, <1>3 DEF Good, Own
<1>. QED BY <1>4, <1>5, <1>6

(* A step that leaves the jobs alone leaves every row, lease and stream.   *)
LEMMA QuietJobs ==
    ASSUME UNCHANGED jobVars, NEW p
    PROVE  /\ [JobsNext]_jobVars /\ Spares(p) /\ UNCHANGED Rows
           /\ UNCHANGED <<state, number, issued, expires, stream>>
BY QuietSpares DEF jobVars, Rows

LEMMA WorkReturnsIsGood ==
    ASSUME ForegroundInv, NEW p \in Process, pc[p] = "work", NEW to \in State,
           WorkReturns(p, to), p \notin late' => Held(Token(p)),
           UNCHANGED <<jobVars, at, lease, late, after, result>>
    PROVE  Good(p)
<1>0. ProcTypes /\ Own(p)
  BY DEF ForegroundInv, Own
<1>1. /\ p \notin Waiter /\ result[p] = "none" /\ at[p] \in Rows /\ lease[p] # 0
      /\ Token(p) \in issued /\ lease[p] <= number[at[p]]
  BY <1>0 DEF Own, Follows, Keeps, Knows
<1>2. /\ pc' = [pc EXCEPT ![p] = "complete"] /\ seen' = [seen EXCEPT ![p] = to]
      /\ beating' = [beating EXCEPT ![p] = FALSE] /\ since' = [since EXCEPT ![p] = 0]
      /\ missed' = [missed EXCEPT ![p] = 0]
  BY DEF WorkReturns, Goto
<1>3. pc'[p] = "complete" /\ ~beating'[p] /\ since'[p] = 0 /\ missed'[p] = 0
  BY <1>0, <1>2 DEF ProcTypes
<1>4. ProcTypes'
  BY <1>0, <1>2 DEF ProcTypes, Label
<1>5. Others(p)
  BY <1>0, <1>2 DEF ProcTypes, Others
<1>6. /\ [JobsNext]_jobVars /\ Spares(p) /\ UNCHANGED Rows
      /\ UNCHANGED <<state, number, issued, expires, stream>>
  BY QuietJobs
<1>7. NewLease(p)
  BY DEF NewLease
<1>8. Follows(p)' /\ Keeps(p)' /\ Knows(p)'
  BY <1>0, <1>1, <1>3, <1>6, ForegroundAssumption DEF Own, Follows, Keeps, Knows, Token
<1>9. p \notin late' => Secure(p)'
  BY <1>0, <1>3, <1>6 DEF Own, Secure, Held, Token
<1>. QED BY <1>4, <1>5, <1>6, <1>7, <1>8, <1>9 DEF Good, Own

LEMMA WorkEndsIsGood ==
    ASSUME ForegroundInv, NEW p \in Process, WorkEnds(p)
    PROVE  Good(p)
<1>1. PICK to \in {"succeeded", "failed"} : WorkReturns(p, to)
  BY DEF WorkEnds
<1>2. to \in State
  BY DEF State, Ended
<1>3. p \notin late' => Held(Token(p))
  BY DEF WorkEnds, ForegroundInv, Secure
<1>. QED BY <1>1, <1>2, <1>3, WorkReturnsIsGood DEF WorkEnds

LEMMA WorkStepsIsGood ==
    ASSUME ForegroundInv, NEW p \in Process, WorkSteps(p)
    PROVE  Good(p)
<1>0. ProcTypes /\ Own(p) /\ {Term, Beat, MaxMissed} \subseteq Nat
  BY JobsAssumption, ForegroundAssumption DEF ForegroundInv, Own
<1>1. /\ pc[p] = "work" /\ p \notin Waiter /\ result[p] = "none"
      /\ since[p] \in Nat /\ missed[p] \in Nat
      /\ at[p] \in Rows /\ at[p] \in JobId /\ lease[p] # 0
      /\ Token(p) \in issued /\ lease[p] <= number[at[p]]
  BY <1>0 DEF WorkSteps, Own, Follows, Keeps, Knows, Rows, ProcTypes
<1>2. UNCHANGED <<at, lease, late, after, result>>
  BY DEF WorkSteps
<1>3. CASE Progress(Token(p), 0) /\ UNCHANGED <<pc, seen, beating, since, missed>>
  <2>1. /\ JobsNext /\ Spares(p) /\ UNCHANGED <<state, number, issued>>
        /\ expires'[at[p]] = Term /\ Held(Token(p))
    BY <1>1, <1>3, Renews
  <2>2. ProcTypes'
    BY <1>0, <1>2, <1>3 DEF ProcTypes
  <2>3. Others(p)
    BY <1>0, <1>2, <1>3 DEF ProcTypes, Others
  <2>4. NewLease(p)
    BY <1>2 DEF NewLease
  <2>5. UNCHANGED Rows /\ Token(p)' = Token(p)
    BY <1>2, <2>1 DEF Rows, Token
  <2>6. Follows(p)' /\ Keeps(p)' /\ Knows(p)'
    BY <1>0, <1>1, <1>2, <1>3, <2>1, <2>5 DEF Own, Follows, Keeps, Knows
  <2>7. missed[p] * Beat \in Nat /\ Term > 0
    BY <1>0, <1>1, RenewsInTime
  <2>8. p \notin late' => Secure(p)'
    BY <1>0, <1>1, <1>2, <1>3, <2>1, <2>7 DEF Own, Secure, Held, Token, NoLease
  <2>. QED BY <2>1, <2>2, <2>3, <2>4, <2>6, <2>8 DEF Good, Own
<1>4. CASE ~Held(Token(p)) /\ WorkReturns(p, "failed") /\ UNCHANGED jobVars
  <2>1. p \in late'
    BY <1>1, <1>2, <1>4, <1>0 DEF Own, Secure
  <2>. QED BY <1>1, <1>2, <1>4, <2>1, WorkReturnsIsGood DEF State, Ended
<1>. QED BY <1>3, <1>4 DEF WorkSteps

LEMMA CompletesIsGood ==
    ASSUME ForegroundInv, NEW p \in Process, Completes(p)
    PROVE  Good(p)
<1>0. ProcTypes /\ Own(p)
  BY DEF ForegroundInv, Own
<1>1. /\ pc[p] = "complete" /\ p \notin Waiter /\ ~beating[p] /\ result[p] = "none"
      /\ since[p] = 0 /\ missed[p] = 0 /\ at[p] \in Rows /\ lease[p] # 0
      /\ Token(p) \in issued /\ lease[p] <= number[at[p]]
  BY <1>0 DEF Completes, Own, Follows, Keeps, Knows
<1>2. /\ UNCHANGED <<at, lease, beating, since, missed, steps, after, seen>>
      /\ late' = late \ {p} /\ pc' = [pc EXCEPT ![p] = "done"]
  BY DEF Completes, Return, Goto
<1>3. pc'[p] = "done"
  BY <1>0, <1>2 DEF ProcTypes
<1>4. CASE CompleteJob(Token(p), seen[p]) /\ Return(p, ExitOf(seen[p]))
  <2>1. /\ JobsNext /\ Spares(p) /\ UNCHANGED <<number, issued>> /\ seen[p] \in Ended
        /\ state'[at[p]] = seen[p] /\ Rows \subseteq Rows' /\ number[at[p]] = lease[p]
    BY <1>1, <1>4, EndsJob
  <2>2. result' = [result EXCEPT ![p] = ExitOf(seen[p])]
    BY <1>4 DEF Return
  <2>3. ExitOf(seen[p]) \in Outcome /\ result'[p] = ExitOf(seen[p])
    BY <1>0, <2>2 DEF ProcTypes, ExitOf, Outcome
  <2>4. ProcTypes'
    BY <1>0, <1>2, <2>2, <2>3 DEF ProcTypes, Label
  <2>5. Others(p)
    BY <1>0, <1>2, <2>2 DEF ProcTypes, Others
  <2>6. NewLease(p) /\ Token(p)' = Token(p)
    BY <1>2 DEF NewLease, Token
  <2>7. Own(p)'
    BY <1>0, <1>1, <1>2, <1>3, <2>1, <2>3, <2>6 DEF Own, Follows, Keeps, Knows, Secure
  <2>. QED BY <2>1, <2>4, <2>5, <2>6, <2>7 DEF Good
<1>5. CASE Return(p, "error") /\ UNCHANGED jobVars
  <2>1. /\ [JobsNext]_jobVars /\ Spares(p) /\ UNCHANGED Rows
        /\ UNCHANGED <<state, number, issued, expires, stream>>
    BY <1>5, QuietJobs
  <2>2. result' = [result EXCEPT ![p] = "error"]
    BY <1>5 DEF Return
  <2>3. result'[p] = "error"
    BY <1>0, <2>2 DEF ProcTypes
  <2>4. ProcTypes'
    BY <1>0, <1>2, <2>2 DEF ProcTypes, Label, Outcome
  <2>5. Others(p)
    BY <1>0, <1>2, <2>2 DEF ProcTypes, Others
  <2>6. NewLease(p) /\ Token(p)' = Token(p)
    BY <1>2 DEF NewLease, Token
  <2>7. Own(p)'
    BY <1>0, <1>1, <1>2, <1>3, <2>1, <2>3, <2>6 DEF Own, Follows, Keeps, Knows, Secure
  <2>. QED BY <2>1, <2>4, <2>5, <2>6, <2>7 DEF Good
<1>. QED BY <1>4, <1>5 DEF Completes

LEMMA BeginsWaitIsGood ==
    ASSUME ForegroundInv, NEW p \in Process, BeginsWait(p)
    PROVE  Good(p)
<1>0. ProcTypes /\ Own(p)
  BY DEF ForegroundInv, Own
<1>1. /\ pc[p] = "start" /\ ~beating[p] /\ result[p] = "none"
      /\ since[p] = 0 /\ missed[p] = 0 /\ lease[p] = 0
  BY <1>0 DEF BeginsWait, Own, Follows, Keeps, Knows
<1>2. PICK j \in Rows : at' = [at EXCEPT ![p] = j]
  BY DEF BeginsWait
<1>3. /\ UNCHANGED <<jobVars, lease, beating, since, missed, late, after, seen, result>>
      /\ pc' = [pc EXCEPT ![p] = "look"]
  BY DEF BeginsWait, Goto
<1>4. j \in JobId /\ pc'[p] = "look" /\ at'[p] = j
  BY <1>0, <1>2, <1>3 DEF ProcTypes, Rows
<1>5. ProcTypes'
  BY <1>0, <1>2, <1>3, <1>4 DEF ProcTypes, Label
<1>6. Others(p)
  BY <1>0, <1>2, <1>3 DEF ProcTypes, Others
<1>7. /\ [JobsNext]_jobVars /\ Spares(p) /\ UNCHANGED Rows
      /\ UNCHANGED <<state, number, issued, expires, stream>>
  BY <1>3, QuietJobs
<1>8. NewLease(p)
  BY <1>1, <1>3 DEF NewLease
<1>9. Own(p)'
  BY <1>0, <1>1, <1>3, <1>4, <1>7 DEF Own, Follows, Keeps, Knows, Secure
<1>. QED BY <1>5, <1>6, <1>7, <1>8, <1>9 DEF Good

LEMMA LooksIsGood ==
    ASSUME ForegroundInv, NEW p \in Process, Looks(p)
    PROVE  Good(p)
<1>0. ProcTypes /\ Own(p)
  BY DEF ForegroundInv, Own
<1>1. /\ pc[p] = "look" /\ ~beating[p] /\ result[p] = "none"
      /\ since[p] = 0 /\ missed[p] = 0 /\ at[p] \in Rows /\ lease[p] = 0
  BY <1>0 DEF Looks, Own, Follows, Keeps, Knows
<1>2. /\ UNCHANGED <<jobVars, at, lease, beating, since, missed, late, after, result>>
      /\ pc' = [pc EXCEPT ![p] = "read"] /\ seen' = [seen EXCEPT ![p] = state[at[p]]]
  BY DEF Looks, Goto
<1>3. state[at[p]] \in State
  BY <1>1 DEF ForegroundInv, IInv, TypeOK, Rows
<1>4. pc'[p] = "read" /\ seen'[p] = state[at[p]]
  BY <1>0, <1>2 DEF ProcTypes
<1>5. ProcTypes'
  BY <1>0, <1>2, <1>3 DEF ProcTypes, Label
<1>6. Others(p)
  BY <1>0, <1>2 DEF ProcTypes, Others
<1>7. /\ [JobsNext]_jobVars /\ Spares(p) /\ UNCHANGED Rows
      /\ UNCHANGED <<state, number, issued, expires, stream>>
  BY <1>2, QuietJobs
<1>8. NewLease(p)
  BY <1>1, <1>2 DEF NewLease
<1>9. Own(p)'
  BY <1>0, <1>1, <1>2, <1>4, <1>7 DEF Own, Follows, Keeps, Knows, Secure
<1>. QED BY <1>5, <1>6, <1>7, <1>8, <1>9 DEF Good

LEMMA ReadsIsGood ==
    ASSUME ForegroundInv, NEW p \in Process, Reads(p)
    PROVE  Good(p)
<1>0. ProcTypes /\ Own(p)
  BY DEF ForegroundInv, Own
<1>1. /\ pc[p] = "read" /\ ~beating[p] /\ result[p] = "none"
      /\ since[p] = 0 /\ missed[p] = 0 /\ at[p] \in Rows /\ at[p] \in JobId /\ lease[p] = 0
      /\ seen[p] \in Ended => state[at[p]] = seen[p]
  BY <1>0 DEF Reads, Own, Follows, Keeps, Knows, Rows
<1>2. /\ UNCHANGED <<jobVars, at, lease, beating, since, missed, late, seen>>
      /\ after' = [after EXCEPT ![p] = Len(stream[at[p]])]
  BY DEF Reads
<1>3. Len(stream[at[p]]) \in Nat
  BY <1>1 DEF ForegroundInv, IInv, TypeOK
<1>4. after'[p] = Len(stream[at[p]])
  BY <1>0, <1>2 DEF ProcTypes
<1>5. PICK l \in {"done", "look", "take"}, r \in Outcome :
          /\ pc' = [pc EXCEPT ![p] = l] /\ result' = [result EXCEPT ![p] = r]
          /\ l = "done" => seen[p] \in Ended /\ r = ExitOf(seen[p])
          /\ l # "done" => r = "none"
          /\ p \in Waiter => l # "take"
  <2>1. CASE seen[p] \in Ended
    <3>1. ExitOf(seen[p]) \in Outcome
      BY DEF ExitOf, Outcome
    <3>. QED BY <2>1, <3>1 DEF Reads, Return, Goto
  <2>2. CASE seen[p] \notin Ended
    <3>1. result' = [result EXCEPT ![p] = "none"] /\ "none" \in Outcome
      BY <1>0, <1>1, <2>2 DEF Reads, ProcTypes, Outcome
    <3>. QED BY <2>2, <3>1 DEF Reads, Goto
  <2>. QED BY <2>1, <2>2
<1>6. pc'[p] = l /\ result'[p] = r
  BY <1>0, <1>5 DEF ProcTypes
<1>7. ProcTypes'
  BY <1>0, <1>2, <1>3, <1>5 DEF ProcTypes, Label
<1>8. Others(p)
  BY <1>0, <1>2, <1>5 DEF ProcTypes, Others
<1>9. /\ [JobsNext]_jobVars /\ Spares(p) /\ UNCHANGED Rows
      /\ UNCHANGED <<state, number, issued, expires, stream>>
  BY <1>2, QuietJobs
<1>10. NewLease(p)
  BY <1>1, <1>2 DEF NewLease
<1>11. Follows(p)' /\ Keeps(p)'
  BY <1>0, <1>1, <1>2, <1>5, <1>6, <1>9 DEF Own, Follows, Keeps
<1>12. Secure(p)'
  BY <1>5, <1>6 DEF Secure
<1>13. Knows(p)'
  BY <1>0, <1>1, <1>2, <1>4, <1>5, <1>6, <1>9 DEF Own, Knows
<1>. QED BY <1>7, <1>8, <1>9, <1>10, <1>11, <1>12, <1>13 DEF Good, Own

LEMMA DiesIsGood ==
    ASSUME ForegroundInv, NEW p \in Process, Dies(p)
    PROVE  Good(p)
<1>0. ProcTypes /\ Own(p)
  BY DEF ForegroundInv, Own
<1>1. /\ UNCHANGED <<jobVars, at, lease, since, missed, late, after, seen>>
      /\ pc' = [pc EXCEPT ![p] = "done"] /\ result' = [result EXCEPT ![p] = "died"]
      /\ beating' = [beating EXCEPT ![p] = FALSE]
  BY DEF Dies, Return, Goto
<1>2. pc'[p] = "done" /\ result'[p] = "died" /\ ~beating'[p]
  BY <1>0, <1>1 DEF ProcTypes
<1>3. ProcTypes'
  BY <1>0, <1>1 DEF ProcTypes, Label, Outcome
<1>4. Others(p)
  BY <1>0, <1>1 DEF ProcTypes, Others
<1>5. /\ [JobsNext]_jobVars /\ Spares(p) /\ UNCHANGED Rows
      /\ UNCHANGED <<state, number, issued, expires, stream>>
  BY <1>1, QuietJobs
<1>6. NewLease(p) /\ Token(p)' = Token(p)
  BY <1>1 DEF NewLease, Token
<1>7. Own(p)'
  BY <1>0, <1>1, <1>2, <1>5, <1>6 DEF Own, Follows, Keeps, Knows, Secure
<1>. QED BY <1>3, <1>4, <1>5, <1>6, <1>7 DEF Good

-----------------------------------------------------------------------------
(* Time.                                                                   *)

(* The beats missed take less than the term, and so leave time to renew.   *)
LEMMA BeatsFit ==
    ASSUME NEW m \in Nat, m <= MaxMissed
    PROVE  m * Beat \in Nat /\ m * Beat + Beat < Term
<1>1. {Term, Beat, MaxMissed} \subseteq Nat
  BY JobsAssumption, ForegroundAssumption
<1>2. (m + 1) * Beat <= (MaxMissed + 1) * Beat
  BY <1>1
<1>3. (m + 1) * Beat = m * Beat + Beat /\ m * Beat \in Nat
  BY <1>1
<1>. QED BY <1>1, <1>2, <1>3, RenewsInTime

LEMMA TickKeeps ==
    ASSUME ForegroundInv, Tick
    PROVE  ForegroundInv'
<1>1. /\ UNCHANGED <<state, key, resource, attempt, number, stream, issued>>
      /\ UNCHANGED <<pc, at, lease, beating, missed, after, seen, result>>
      /\ UNCHANGED Rows
  BY DEF Tick, given, Rows
<1>2. IInv /\ ProcTypes /\ {Term, Beat, MaxMissed} \subseteq Nat
  BY JobsAssumption, ForegroundAssumption DEF ForegroundInv
<1>3. /\ \A j \in JobId : /\ expires'[j] \in Nat \cup {NoLease}
                          /\ expires'[j] = NoLease <=> expires[j] = NoLease
                          /\ expires[j] > 0 => expires'[j] = expires[j] - 1
      /\ expires' \in [JobId -> Nat \cup {NoLease}]
  BY SMTT(30), <1>2 DEF Tick, IInv, TypeOK, NoLease
<1>4. IInv'
  <2>1. TypeOK'
    BY <1>1, <1>2, <1>3 DEF IInv, TypeOK
  <2>2. LeaseWhileRunning'
    BY <1>1, <1>2, <1>3 DEF IInv, LeaseWhileRunning
  <2>3. StreamTellsRow' /\ FencedStream'
    BY <1>1, <1>2 DEF IInv, StreamTellsRow, Told, FencedStream
  <2>4. OneLivePerKey' /\ OnePerResource' /\ AttemptsInOrder'
    BY <1>1, <1>2 DEF IInv, OneLivePerKey, OnePerResource, AttemptsInOrder
  <2>. QED BY <1>1, <1>2, <2>1, <2>2, <2>3, <2>4 DEF IInv
<1>5. /\ \A p \in Process : /\ since'[p] \in Nat
                            /\ since'[p] = IF beating[p] /\ since[p] < Beat
                                           THEN since[p] + 1 ELSE since[p]
      /\ since' \in [Process -> Nat]
  BY <1>2 DEF Tick, ProcTypes
<1>6. ProcTypes'
  BY <1>1, <1>2, <1>5 DEF Tick, ProcTypes
<1>7. ASSUME NEW p \in Process
      PROVE  Follows(p)' /\ Keeps(p)' /\ Knows(p)'
  <2>1. Follows(p) /\ Keeps(p) /\ Knows(p) /\ since[p] \in Nat
    BY <1>2 DEF ForegroundInv, ProcTypes
  <2>2. Token(p)' = Token(p)
    BY <1>1 DEF Token
  <2>3. Follows(p)' /\ Knows(p)'
    BY <1>1, <2>1, <2>2 DEF Follows, Knows
  <2>4. Keeps(p)'
    BY <1>1, <1>2, <1>5, <2>1 DEF Keeps
  <2>. QED BY <2>3, <2>4
<1>8. ASSUME NEW p \in Process, NEW q \in Process, p # q
      PROVE  Apart(p, q)'
  BY <1>1, <1>8 DEF ForegroundInv, Apart
<1>9. ASSUME NEW p \in Process \ late', pc[p] \in {"work", "complete"}
      PROVE  Secure(p)'
  <2>1. p \notin late /\ ~Due(p) /\ Secure(p) /\ Keeps(p) /\ Follows(p)
    BY DEF Tick, ForegroundInv
  <2>2. /\ pc[p] = "work" /\ beating[p] /\ at[p] \in JobId
        /\ since[p] \in Nat /\ since[p] < Beat
        /\ missed[p] \in Nat /\ missed[p] <= MaxMissed
    BY <1>2, <1>9, <2>1 DEF Due, Secure, Keeps, Follows, Rows, ProcTypes
  <2>3. since'[p] = since[p] + 1 /\ expires'[at[p]] = expires[at[p]] - 1
    BY <1>3, <1>5, <2>1, <2>2 DEF Secure
  <2>4. missed[p] * Beat \in Nat /\ missed[p] * Beat + Beat < Term
    BY <2>2, BeatsFit
  <2>5. expires[at[p]] \in Int /\ expires[at[p]] + missed[p] * Beat + since[p] >= Term
    BY <1>2, <2>1, <2>2 DEF Secure, IInv, TypeOK, NoLease
  <2> DEFINE mb == missed[p] * Beat
  <2> HIDE DEF mb
  <2>6. /\ expires'[at[p]] + mb + since'[p] >= Term
        /\ expires'[at[p]] > 0
    BY <1>2, <2>2, <2>3, <2>4, <2>5 DEF mb
  <2>. QED BY <1>1, <2>1, <2>2, <2>6 DEF Secure, Held, Token, NoLease, mb
<1>10. \A p \in Process \ late' : Secure(p)'
  BY <1>1, <1>9 DEF Secure
<1>. QED BY <1>4, <1>6, <1>7, <1>8, <1>10 DEF ForegroundInv

-----------------------------------------------------------------------------
LEMMA InitForeground == Init => ForegroundInv
<1> SUFFICES ASSUME Init PROVE ForegroundInv
  OBVIOUS
<1>1. IInv
  BY InitIInv DEF Init
<1>. QED
  BY <1>1, JobsAssumption, ForegroundAssumption DEF Init, ForegroundInv, ProcTypes, Label,
     Outcome, State, Holding, Follows, Keeps, Knows, Apart, Secure

LEMMA StepForeground ==
    ASSUME ForegroundInv, [Next]_vars
    PROVE  ForegroundInv' /\ ([JobsNext]_jobVars \/ Tick)
<1>1. ASSUME NEW p \in Process,
             Runs(p) \/ WorkSteps(p) \/ Beats(p) \/ BeginsWait(p) \/ Dies(p)
      PROVE  Good(p)
  BY <1>1, SubmitFirstIsGood, SubmitAgainIsGood, SupersedeIsGood, CancelIsGood, TakeIsGood,
     WorkEndsIsGood, CompletesIsGood, LooksIsGood, ReadsIsGood, WorkStepsIsGood,
     BeatsIsGood, BeginsWaitIsGood, DiesIsGood DEF Runs
<1>2. ASSUME NEW p \in Process, Good(p)
      PROVE  ForegroundInv' /\ [JobsNext]_jobVars
  BY <1>2, StepKeeps DEF Good
<1>3. CASE UNCHANGED vars
  <2>1. UNCHANGED <<jobVars, procVars>>
    BY <1>3 DEF vars
  <2>2. UNCHANGED Rows /\ IInv'
    BY <2>1, NextIInv DEF jobVars, Rows, ForegroundInv
  <2>. QED
    BY <2>1, <2>2 DEF jobVars, procVars, ForegroundInv, ProcTypes, Follows, Keeps, Knows,
       Apart, Secure, Held, Token
<1>. QED BY <1>1, <1>2, <1>3, TickKeeps DEF Next

LEMMA ForegroundInvHolds == Spec => []ForegroundInv
<1>1. ForegroundInv /\ [Next]_vars => ForegroundInv'
  BY StepForeground
<1>. QED BY <1>1, InitForeground, PTL DEF Spec

(* A process at work that keeps to its beat holds its job, for any number  *)
(* of competitors, however late they are and whichever renewals fail.      *)
THEOREM WorkerKeepsItsJobHolds == Spec => []WorkerKeepsItsJob
<1>1. ForegroundInv => WorkerKeepsItsJob
  BY DEF ForegroundInv, Secure, WorkerKeepsItsJob
<1>. QED BY <1>1, ForegroundInvHolds, PTL

(* So at most one of them works on a resource.                             *)
THEOREM OneWorkerPerResourceHolds == Spec => []OneWorkerPerResource
<1>1. ASSUME ForegroundInv PROVE OneWorkerPerResource
  <2> SUFFICES ASSUME NEW p \in Command \ late, NEW q \in Command \ late, p # q,
                      pc[p] \in {"work", "complete"}, pc[q] \in {"work", "complete"},
                      resource[at[p]] = resource[at[q]]
               PROVE  resource[at[p]] = NoResource
    BY DEF OneWorkerPerResource
  <2>1. p \in Process /\ q \in Process
    BY DEF Process
  <2>2. /\ Held(Token(p)) /\ Held(Token(q)) /\ at[p] \in Rows /\ at[q] \in Rows
        /\ lease[p] # 0 /\ lease[q] # 0 /\ Apart(p, q)
    BY <1>1, <2>1 DEF ForegroundInv, Secure, Follows
  <2>3. at[p] # at[q]
    BY <2>2 DEF Held, Token, Apart
  <2>4. state[at[p]] = "running" /\ state[at[q]] = "running"
    BY <1>1, <2>2 DEF ForegroundInv, IInv, LeaseWhileRunning, Held, Token, Rows
  <2>5. resource[at[p]] \notin Resource
    BY <1>1, <2>2, <2>3, <2>4 DEF ForegroundInv, IInv, OnePerResource, Holding
  <2>. QED BY <1>1, <2>2, <2>5 DEF ForegroundInv, IInv, TypeOK, Rows
<1>. QED BY <1>1, ForegroundInvHolds, PTL

(* Whatever was lost, taken over or superseded meanwhile, a command exits  *)
(* as its job ended, and with success of its own only under the lease that *)
(* ended the job.                                                          *)
THEOREM ExitTellsOutcomeHolds == Spec => []ExitTellsOutcome
<1>1. ForegroundInv => ExitTellsOutcome
  BY DEF ForegroundInv, Knows, ExitTellsOutcome
<1>. QED BY <1>1, ForegroundInvHolds, PTL

(* Whoever follows a job to its end has printed the whole stream.          *)
THEOREM FollowerSawTheEndHolds == Spec => []FollowerSawTheEnd
<1>1. ForegroundInv => FollowerSawTheEnd
  BY DEF ForegroundInv, Knows, FollowerSawTheEnd
<1>. QED BY <1>1, ForegroundInvHolds, PTL

(* The passing of time is a stuttering step of the jobs' logs.             *)
LEMMA TickStutters ==
    ASSUME Tick
    PROVE  UNCHANGED Log!logVars
BY DEF Tick, given, PhaseOf, LogOf, Log!logVars

(* The jobs under the commands that run, follow and supersede them are     *)
(* still logs with one writer at a time.                                   *)
THEOREM ForegroundRefinesLeasedLog == Spec => LogSpec
<1>1. ForegroundInv /\ [Next]_vars => [Log!LogNext]_Log!logVars
  BY StepForeground, StepRefines, TickStutters DEF ForegroundInv
<1>2. Init => Log!LogInit
  BY InitRefines DEF Init
<1>. QED
  BY <1>1, <1>2, ForegroundInvHolds, PTL DEF Spec, LogSpec, Log!LogSpec

=============================================================================
