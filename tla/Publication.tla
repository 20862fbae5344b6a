----------------------------- MODULE Publication ----------------------------
(***************************************************************************)
(* `knowledge publish`, ordinary and `--again`: processes that build a     *)
(* generation in Qdrant from a chunk set, check it, move the collection's  *)
(* alias to it and publish it in the kernel                                *)
(* (crates/maestro-knowledge/src/index/{publish,batches,verify,rebuild}.rs *)
(* under crates/maestro/src/cli/publish).  Each call of the kernel or of   *)
(* Qdrant is one step, so processes, crashes and losses come between any   *)
(* two.                                                                    *)
(*                                                                         *)
(* The job layer is what Jobs and Foreground establish of it: the lease of *)
(* the collection's publish resource has one owner at a time; a step       *)
(* journaled without it is refused; it passes on when its owner ended its  *)
(* job, died, or was suspended past its term and may still go on.  A job   *)
(* is known by its key, the frozen inputs, and its state is that of the    *)
(* last attempt; `progress` is what last_progress finds, through earlier   *)
(* attempts.                                                               *)
(*                                                                         *)
(* One collection, batches of one chunk.  Representing a chunk, its        *)
(* payload and the search inputs are functions of the chunk set and are    *)
(* left out; a service that answers an error instead is Breaks.            *)
(***************************************************************************)
EXTENDS Generations, FiniteSets, FiniteSetsExt

CONSTANTS Process,      \* commands, each run once
          Chunks,       \* chunks of every set
          Again,        \* keys of `--again` jobs: their nonces
          Requests,     \* what the commands may be asked for: see Request
          MaxFaults,    \* bound: deaths, suspensions, failures and losses
          MaxStalls     \* bound: suspensions of a live owner past its term

Key == ChunkSet \cup Again
Request == [set : ChunkSet, again : BOOLEAN]

ASSUME PublicationAssumption ==
    /\ {Chunks, MaxFaults, MaxStalls} \subseteq Nat
    /\ Again \cap ChunkSet = {} /\ Requests \subseteq Request

VARIABLES
    held,      \* generations with a Qdrant collection
    points,    \* the chunks each collection has a point of
    alias,     \* the generation whose collection the alias names, or 0
    owner,     \* the process that holds the resource's lease, or Nobody
    job,       \* state of the last attempt of each key
    progress,  \* [generation, indexed] last journaled for each key
    guard,     \* RebuildGuard frozen in an `--again` key's inputs
    lost,      \* history: generations whose collection Qdrant lost
    stalls,    \* history: times a live owner's lease was taken over
    faults,    \* deaths, suspensions, failures and losses so far
    pc,
    req, key,  \* the command's request and its job's key
    work       \* what its work has read: see Work

storeVars == <<held, points, alias>>
jobVars == <<owner, job, progress, guard>>
histVars == <<lost, stalls, faults>>
procVars == <<pc, req, key, work>>
vars == <<genVars, storeVars, jobVars, histVars, procVars>>

Nobody == "nobody"
NoKey == "no key"
ASSUME NamesAreNew == Nobody \notin Process /\ NoKey \notin Key

None == [generation |-> 0, indexed |-> 0]

(* What a command at work knows: last_progress, as read when it began; the *)
(* generation and what was left to do for it when it was selected; the     *)
(* chunks of it written; the published generation it read, or 0.           *)
Progress == [generation : Generation \cup {0}, indexed : 0..Chunks]
Work == [resume : Progress, gen : Generation \cup {0}, indexed : 0..Chunks,
         step : {"Build", "Check", "Done", "Over"}, was : Generation \cup {0}]
Fresh == [resume |-> None, gen |-> 0, step |-> "Build", indexed |-> 0, was |-> 0]

C == CHOOSE c \in Collection : TRUE
Published == IF PublishedIn(C) = {} THEN 0 ELSE CHOOSE g \in PublishedIn(C) : TRUE
Recorded == {g \in Generation : gstate[g] # "none"}
Rebuilds(p) == req[p].again
IsOwner(p) == owner = p

PubTypeOK ==
    /\ GenTypeOK
    /\ held \subseteq Generation
    /\ points \in [Generation -> SUBSET (1..Chunks)]
    /\ alias \in Generation \cup {0}
    /\ owner \in Process \cup {Nobody}
    /\ job \in [Key -> {"none", "running", "succeeded", "failed", "cancelled"}]
    /\ progress \in [Key -> Progress]
    /\ work \in [Process -> Work]
    /\ \A p \in Process : pc[p] \notin {"start", "freeze", "done", "died"} => key[p] \in Key

Init ==
    /\ GenInit
    /\ held = {} /\ alias = 0
    /\ points = [g \in Generation |-> {}]
    /\ owner = Nobody
    /\ job = [k \in Key |-> "none"]
    /\ progress = [k \in Key |-> None]
    /\ guard = [k \in Again |-> [set |-> NoKey, expected |-> 0, watermark |-> 0]]
    /\ lost = {} /\ stalls = 0 /\ faults = 0
    /\ req \in [Process -> Requests]
    /\ pc = [p \in Process |-> IF Rebuilds(p) THEN "start" ELSE "acquire"]
    /\ key = [p \in Process |-> IF Rebuilds(p) THEN NoKey ELSE req[p].set]
    /\ work = [p \in Process |-> Fresh]

(* To the next step, knowing w; when the work returned, it is forgotten. *)
Moves(p, label, w) ==
    /\ pc' = [pc EXCEPT ![p] = label]
    /\ work' = [work EXCEPT ![p] = IF label \in {"succeeded", "failed"} THEN Fresh ELSE w]
Goto(p, label) == Moves(p, label, work[p])
Fail(p) == Goto(p, "failed")

SawPublished(p) == [work[p] EXCEPT !.was = Published]

(* The process is gone. *)
Exits(p, label) == Moves(p, label, Fresh) /\ key' = [key EXCEPT ![p] = NoKey]

-----------------------------------------------------------------------------
(* The inputs a command freezes.                                           *)

(* selected_inputs: an ordinary command's key is its chunk set, and it     *)
(* begins with it; `--again` first reads the published generation.         *)
Plan(p) ==
    /\ pc[p] = "start"
    /\ Moves(p, "freeze", SawPublished(p))
    /\ UNCHANGED <<genVars, storeVars, jobVars, histVars, req, key>>

(* can_resume of the last attempt of key k, generation e published. *)
CanResume(k, e) ==
    LET t == progress[k].generation
        open == t = 0 \/ gstate[t] \in {"building", "verified"}
    IN \/ open /\ guard[k].expected = e
       \/ /\ job[k] = "running" /\ t # 0
          /\ gstate[t] = "published" /\ e = t /\ guard[k].expected # t

(* resumable_inputs: the `--again` jobs of the same inputs, active or      *)
(* failed.  One that may go on is joined; otherwise it, or several, refuse *)
(* the command; with none, a new key is frozen over the last generation.   *)
Freeze(p) ==
    /\ pc[p] = "freeze"
    /\ LET same == {k \in Again : guard[k].set = req[p].set /\ job[k] \in {"running", "failed"}}
       IN \/ /\ same = {}
             /\ \E k \in Again :
                   /\ guard[k].set = NoKey
                   /\ key' = [key EXCEPT ![p] = k]
                   /\ guard' = [guard EXCEPT ![k] = [set |-> req[p].set, expected |-> work[p].was,
                                                     watermark |-> Cardinality(Recorded)]]
             /\ Goto(p, "acquire")
          \/ /\ Cardinality(same) = 1
             /\ \E k \in same :
                   IF CanResume(k, work[p].was)
                   THEN Goto(p, "acquire") /\ key' = [key EXCEPT ![p] = k]
                   ELSE Exits(p, "done")
             /\ UNCHANGED guard
          \/ Cardinality(same) > 1 /\ Exits(p, "done") /\ UNCHANGED guard
    /\ UNCHANGED <<genVars, storeVars, owner, job, progress, histVars, req>>

-----------------------------------------------------------------------------
(* The job: run_to_end, in what Foreground shows of it.                    *)

LeaseFree == owner # Nobody => pc[owner] = "died"

(* A job of the key that succeeded is returned as it is.  Otherwise the    *)
(* lease is taken, when it is free or its owner was suspended past its     *)
(* term, and a job of another key that still holds the resource is         *)
(* superseded; Publication::run then reads the last progress.              *)
Acquire(p) ==
    /\ pc[p] = "acquire"
    /\ \/ /\ job[key[p]] = "succeeded"
          /\ Exits(p, "done")
          /\ UNCHANGED <<owner, job, stalls, faults>>
       \/ /\ job[key[p]] # "succeeded"
          /\ ~LeaseFree => faults < MaxFaults /\ stalls < MaxStalls
          /\ faults' = IF LeaseFree THEN faults ELSE faults + 1
          /\ stalls' = IF LeaseFree THEN stalls ELSE stalls + 1
          /\ owner' = p
          /\ job' = [k \in Key |-> IF k = key[p] THEN "running"
                                   ELSE IF job[k] = "running" THEN "cancelled" ELSE job[k]]
          /\ Moves(p, IF Rebuilds(p) THEN "load" ELSE "select",
                   [work[p] EXCEPT !.resume = progress[key[p]]])
          /\ UNCHANGED key
    /\ UNCHANGED <<genVars, storeVars, progress, guard, lost, req>>

(* A live lease on a job of other inputs refuses the command. *)
Refused(p) ==
    /\ pc[p] = "acquire"
    /\ owner # Nobody /\ pc[owner] # "died" /\ key[owner] # key[p]
    /\ Exits(p, "done")
    /\ UNCHANGED <<genVars, storeVars, jobVars, histVars, req>>

(* complete_job, with the state the work returned: refused once the lease  *)
(* was taken over.                                                         *)
Complete(p) ==
    /\ pc[p] \in {"succeeded", "failed"}
    /\ IF IsOwner(p)
       THEN owner' = Nobody /\ job' = [job EXCEPT ![key[p]] = pc[p]]
       ELSE UNCHANGED <<owner, job>>
    /\ Exits(p, "done")
    /\ UNCHANGED <<genVars, storeVars, progress, guard, histVars, req>>

-----------------------------------------------------------------------------
(* Which generation, and what is left to do for it.                        *)

StepOf(s) == CASE s = "building" -> "Build"
               [] s = "verified" -> "Check"
               [] s = "published" -> "Done"
               [] OTHER -> "Over"

(* Mutant: a generation that is over is taken up again. *)
MutReusable(s) == {g \in Recorded : chunkSet[g] = s}

(* generation(): those of the set that are not over, and whose search      *)
(* inputs are ready once they were checked.                                *)
Reusable(s) == {g \in Recorded : /\ chunkSet[g] = s
                                 /\ StepOf(gstate[g]) # "Over"
                                 /\ gstate[g] # "building" => search[g] = "ready"}

Chosen(p, g, st) == [work[p] EXCEPT !.gen = g, !.step = st]

(* The last of them, or a new one. *)
Select(p) ==
    /\ pc[p] = "select"
    /\ LET found == Reusable(req[p].set) IN
       IF found = {} THEN Goto(p, "create")
       ELSE LET g == Max(found) IN
            Moves(p, CASE StepOf(gstate[g]) = "Build" -> "begin"
                       [] StepOf(gstate[g]) = "Check" -> "rollback"
                       [] OTHER -> "exists",
                  Chosen(p, g, StepOf(gstate[g])))
    /\ UNCHANGED <<genVars, storeVars, jobVars, histVars, req, key>>

Create(p) ==
    /\ pc[p] = "create"
    /\ \E g \in Generation :
          /\ CreateGeneration(g, C, req[p].set)
          /\ Moves(p, IF Rebuilds(p) THEN "initial" ELSE "begin", Chosen(p, g, "Build"))
    /\ UNCHANGED <<storeVars, jobVars, histVars, req, key>>

(* A published generation is reported while its collection exists. *)
Exists(p) ==
    /\ pc[p] = "exists"
    /\ Goto(p, IF work[p].gen \in held THEN "succeeded" ELSE "failed")
    /\ UNCHANGED <<genVars, storeVars, jobVars, histVars, req, key>>

-----------------------------------------------------------------------------
(* The build.                                                              *)

(* Mutant: progress of any generation of the key is resumed. *)
MutStartAfter(p, fresh) == IF fresh THEN 0 ELSE work[p].resume.indexed

(* start: the chunks the collection holds by the progress of this very     *)
(* generation, unless its collection or its search marker is new.          *)
StartAfter(p, fresh) ==
    IF fresh \/ work[p].resume.generation # work[p].gen THEN 0 ELSE work[p].resume.indexed

(* search_inputs::begin *)
Begin(p) ==
    LET w == work[p]
        fresh == w.step = "Build" /\ search[w.gen] = "none"
    IN /\ pc[p] = "begin"
       /\ IF w.step = "Build" /\ gstate[w.gen] # "building"
          THEN Fail(p) /\ UNCHANGED genVars
          ELSE /\ IF fresh THEN BeginSearch(w.gen) ELSE UNCHANGED genVars
               /\ Moves(p, "ensure", [w EXCEPT !.indexed = StartAfter(p, fresh)])
       /\ UNCHANGED <<storeVars, jobVars, histVars, req, key>>

(* ensure: the collection is created unless it exists; one just created is *)
(* written from its first chunk.  Only `--again` comes here for a verified *)
(* generation, and writes it only if its collection was gone.              *)
Ensure(p) ==
    LET w == work[p] IN
    /\ pc[p] = "ensure"
    /\ held' = held \cup {w.gen}
    /\ points' = IF w.gen \in held THEN points ELSE [points EXCEPT ![w.gen] = {}]
    /\ Moves(p, IF w.step = "Build" \/ w.gen \notin held THEN "upsert" ELSE "check",
                IF w.gen \in held THEN w ELSE [w EXCEPT !.indexed = 0])
    /\ UNCHANGED <<genVars, alias, jobVars, histVars, req, key>>

(* index: the next batch written, if one is left, in a collection that is  *)
(* still there.                                                            *)
Upsert(p) ==
    LET w == work[p] IN
    /\ pc[p] = "upsert"
    /\ \/ w.indexed = Chunks /\ Goto(p, "check") /\ UNCHANGED points
       \/ /\ w.indexed < Chunks
          /\ IF w.gen \in held
             THEN /\ points' = [points EXCEPT ![w.gen] = @ \cup {w.indexed + 1}]
                  /\ Moves(p, "journal", [w EXCEPT !.indexed = @ + 1])
             ELSE Fail(p) /\ UNCHANGED points
    /\ UNCHANGED <<genVars, held, alias, jobVars, histVars, req, key>>

Journaled(p) == [generation |-> work[p].gen, indexed |-> work[p].indexed]

(* observer: the batch journaled under the lease, or the build stopped. *)
Journal(p) ==
    /\ pc[p] = "journal"
    /\ IF IsOwner(p)
       THEN Goto(p, "upsert") /\ progress' = [progress EXCEPT ![key[p]] = Journaled(p)]
       ELSE Fail(p) /\ UNCHANGED progress
    /\ UNCHANGED <<genVars, storeVars, owner, job, guard, histVars, req, key>>

-----------------------------------------------------------------------------
(* The check.                                                              *)

(* verify_steps reads the collection a failed re-check falls back on. *)
Rollback(p) ==
    /\ pc[p] = "rollback"
    /\ Moves(p, "check", SawPublished(p))
    /\ UNCHANGED <<genVars, storeVars, jobVars, histVars, req, key>>

(* Mutant: the check only looks for the collection. *)
MutPasses(g) == g \in held

(* verify and verify_search: the collection has a point for each chunk. *)
Passes(g) == g \in held /\ points[g] = 1..Chunks

Check(p) ==
    /\ pc[p] = "check"
    /\ Goto(p, IF ~Passes(work[p].gen) THEN "fail"
               ELSE IF work[p].step = "Build" THEN "ready"
               ELSE IF Rebuilds(p) THEN "recheck" ELSE "switch")
    /\ UNCHANGED <<genVars, storeVars, jobVars, histVars, req, key>>

(* complete_generation_search, then verify_generation; either refuses a    *)
(* generation another process moved on.                                    *)
Ready(p) ==
    /\ pc[p] = "ready"
    /\ \/ CompleteSearch(work[p].gen) /\ Goto(p, "verify")
       \/ gstate[work[p].gen] # "building" /\ Fail(p) /\ UNCHANGED genVars
    /\ UNCHANGED <<storeVars, jobVars, histVars, req, key>>

(* Mutant: a generation just verified is published with no switch. *)
MutVerify(p) ==
    /\ pc[p] = "verify"
    /\ \/ VerifyGeneration(work[p].gen) /\ Goto(p, "publish")
       \/ ~LegalMove(work[p].gen, "verified") /\ Fail(p) /\ UNCHANGED genVars
    /\ UNCHANGED <<storeVars, jobVars, histVars, req, key>>

Verify(p) ==
    /\ pc[p] = "verify"
    /\ \/ VerifyGeneration(work[p].gen) /\ Goto(p, IF Rebuilds(p) THEN "recheck" ELSE "switch")
       \/ ~LegalMove(work[p].gen, "verified") /\ Fail(p) /\ UNCHANGED genVars
    /\ UNCHANGED <<storeVars, jobVars, histVars, req, key>>

(* fail: the generation fails, then the alias goes back to the collection  *)
(* that was published, while it exists.  An ordinary build has none to go  *)
(* back to; a rebuild's is the one its guard expects.                      *)
FallsBackOn(p) ==
    IF Rebuilds(p) THEN (IF work[p].was = guard[key[p]].expected THEN work[p].was ELSE 0)
    ELSE IF work[p].step = "Check" THEN work[p].was ELSE 0

FailCheck(p) ==
    /\ pc[p] = "fail"
    /\ IF LegalMove(work[p].gen, "failed")
       THEN FailGeneration(work[p].gen) /\ Goto(p, IF FallsBackOn(p) = 0 THEN "failed" ELSE "restore")
       ELSE Fail(p) /\ UNCHANGED genVars
    /\ UNCHANGED <<storeVars, jobVars, histVars, req, key>>

Restore(p) ==
    /\ pc[p] = "restore"
    /\ alias' = IF work[p].was \in held THEN work[p].was ELSE alias
    /\ Fail(p)
    /\ UNCHANGED <<genVars, held, points, jobVars, histVars, req, key>>

-----------------------------------------------------------------------------
(* The switch, in two stores: the alias first, then the kernel.            *)

Switch(p) ==
    /\ pc[p] = "switch"
    /\ IF work[p].gen \in held
       THEN alias' = work[p].gen /\ Goto(p, IF Rebuilds(p) THEN "confirm" ELSE "publish")
       ELSE Fail(p) /\ UNCHANGED alias
    /\ UNCHANGED <<genVars, held, points, jobVars, histVars, req, key>>

Publish(p) ==
    /\ pc[p] = "publish"
    /\ \/ ~Rebuilds(p) /\ PublishGeneration(work[p].gen) /\ Goto(p, "succeeded")
       \/ /\ Rebuilds(p)
          /\ PublishGenerationIfCurrent(work[p].gen, {guard[key[p]].expected} \ {0})
          /\ Goto(p, "succeeded")
       \/ /\ ~LegalMove(work[p].gen, "published")
          /\ Fail(p)
          /\ UNCHANGED genVars
       \/ /\ Rebuilds(p) /\ LegalMove(work[p].gen, "published")
          /\ Published # guard[key[p]].expected
          /\ Moves(p, IF Published = 0 THEN "failed" ELSE "restore", SawPublished(p))
          /\ UNCHANGED genVars
    /\ UNCHANGED <<storeVars, jobVars, histVars, req, key>>

-----------------------------------------------------------------------------
(* `--again`: republish_observed.                                          *)

(* load_rebuild_state: the pointer is the one the guard expects, or the    *)
(* target's own.                                                           *)
Load(p) ==
    /\ pc[p] = "load"
    /\ Moves(p, IF \/ Published = guard[key[p]].expected
                   \/ Published # 0 /\ Published = work[p].resume.generation
                THEN "alias" ELSE "failed", SawPublished(p))
    /\ UNCHANGED <<genVars, storeVars, jobVars, histVars, req, key>>

AllowedAliases(p) == {work[p].was, work[p].resume.generation, guard[key[p]].expected} \ {0}

(* The alias names one of the generations the job is about, or nothing. *)
CheckAlias(p) ==
    /\ pc[p] = "alias"
    /\ Goto(p, IF alias # 0 /\ alias \notin AllowedAliases(p) THEN "failed" ELSE "target")
    /\ UNCHANGED <<genVars, storeVars, jobVars, histVars, req, key>>

(* select_rebuild_target: the target journaled, else the one generation    *)
(* begun after the guard's watermark, else a new one.                      *)
Unfinished(p) == {g \in Recorded : /\ g > guard[key[p]].watermark
                                   /\ chunkSet[g] = req[p].set
                                   /\ StepOf(gstate[g]) # "Over"}

Target(p) ==
    /\ pc[p] = "target"
    /\ IF work[p].resume.generation # 0
       THEN LET g == work[p].resume.generation IN
            Moves(p, IF StepOf(gstate[g]) = "Over" THEN "failed" ELSE "profile",
                  Chosen(p, g, StepOf(gstate[g])))
       ELSE \/ Unfinished(p) = {} /\ Goto(p, "create")
            \/ /\ Cardinality(Unfinished(p)) = 1
               /\ \E g \in Unfinished(p) :
                     Moves(p, "initial", Chosen(p, g, StepOf(gstate[g])))
            \/ Cardinality(Unfinished(p)) > 1 /\ Fail(p)
    /\ UNCHANGED <<genVars, storeVars, jobVars, histVars, req, key>>

(* The target's first progress, of no chunk, journaled before any work. *)
Initial(p) ==
    /\ pc[p] = "initial"
    /\ IF IsOwner(p)
       THEN /\ progress' = [progress EXCEPT ![key[p]] = [generation |-> work[p].gen, indexed |-> 0]]
            /\ Goto(p, "profile")
       ELSE Fail(p) /\ UNCHANGED progress
    /\ UNCHANGED <<genVars, storeVars, owner, job, guard, histVars, req, key>>

(* validate_search_profile, then reconcile_completed's or finish_rebuild's *)
(* first condition on the pointer read at the start.                       *)
Profile(p) ==
    /\ pc[p] = "profile"
    /\ Goto(p, IF work[p].step # "Build" /\ search[work[p].gen] # "ready" THEN "failed"
               ELSE IF work[p].step = "Done"
                    THEN (IF work[p].was = work[p].gen THEN "reconcile" ELSE "failed")
               ELSE IF work[p].was # guard[key[p]].expected THEN "failed" ELSE "begin")
    /\ UNCHANGED <<genVars, storeVars, jobVars, histVars, req, key>>

(* reconcile_completed: the collection checked, then the alias put right. *)
Reconcile(p) ==
    /\ pc[p] = "reconcile"
    /\ Goto(p, IF Passes(work[p].gen) THEN "realign" ELSE "failed")
    /\ UNCHANGED <<genVars, storeVars, jobVars, histVars, req, key>>

Realign(p) ==
    /\ pc[p] = "realign"
    /\ IF alias = work[p].gen \/ work[p].gen \in held
       THEN Goto(p, "succeeded") /\ alias' = work[p].gen
       ELSE Fail(p) /\ UNCHANGED alias
    /\ UNCHANGED <<genVars, held, points, jobVars, histVars, req, key>>

(* commit_rebuild reads the pointer again before it moves the alias. *)
Recheck(p) ==
    /\ pc[p] = "recheck"
    /\ Goto(p, IF Published = guard[key[p]].expected THEN "switch" ELSE "failed")
    /\ UNCHANGED <<genVars, storeVars, jobVars, histVars, req, key>>

(* ... and the alias, once it is moved, before it publishes. *)
Confirm(p) ==
    /\ pc[p] = "confirm"
    /\ Goto(p, IF alias \in AllowedAliases(p) \cup {work[p].gen, 0} THEN "publish" ELSE "failed")
    /\ UNCHANGED <<genVars, storeVars, jobVars, histVars, req, key>>

-----------------------------------------------------------------------------
(* What goes wrong.                                                        *)

Works(p) == pc[p] \notin {"start", "freeze", "acquire", "succeeded", "failed", "done", "died"}

(* A call of Qdrant, the router or the kernel fails: the work stops there. *)
Breaks(p) ==
    /\ Works(p) /\ faults < MaxFaults
    /\ faults' = faults + 1
    /\ Fail(p)
    /\ UNCHANGED <<genVars, storeVars, jobVars, lost, stalls, req, key>>

(* The process dies, and its lease lasts out its term. *)
Dies(p) ==
    /\ Works(p) \/ pc[p] \in {"succeeded", "failed"}
    /\ faults < MaxFaults
    /\ faults' = faults + 1
    /\ Exits(p, "died")
    /\ UNCHANGED <<genVars, storeVars, jobVars, lost, stalls, req>>

(* Qdrant loses a collection, and the alias that names it. *)
Loses(g) ==
    /\ g \in held /\ faults < MaxFaults
    /\ faults' = faults + 1
    /\ held' = held \ {g}
    /\ points' = [points EXCEPT ![g] = {}]
    /\ alias' = IF alias = g THEN 0 ELSE alias
    /\ lost' = lost \cup {g}
    /\ UNCHANGED <<genVars, jobVars, stalls, procVars>>

Proceeds(p) ==
    \/ Plan(p) \/ Freeze(p) \/ Acquire(p) \/ Refused(p) \/ Complete(p)
    \/ Select(p) \/ Create(p) \/ Exists(p)
    \/ Begin(p) \/ Ensure(p) \/ Upsert(p) \/ Journal(p)
    \/ Rollback(p) \/ Check(p) \/ Ready(p) \/ Verify(p) \/ FailCheck(p) \/ Restore(p)
    \/ Switch(p) \/ Publish(p)
    \/ Load(p) \/ CheckAlias(p) \/ Target(p) \/ Initial(p) \/ Profile(p) \/ Reconcile(p)
    \/ Realign(p) \/ Recheck(p) \/ Confirm(p)

Next ==
    \/ \E p \in Process : Proceeds(p) \/ Breaks(p) \/ Dies(p)
    \/ \E g \in Generation : Loses(g)

Spec == Init /\ [][Next]_vars

-----------------------------------------------------------------------------
(* Properties.                                                             *)

(* "Only a complete, verified generation becomes searchable": the          *)
(* published generation, which every search pins, has ready search inputs  *)
(* and, while Qdrant has its collection, a point for each chunk, however   *)
(* its build was cut, resumed, begun again after a loss or run twice.  The *)
(* one case left out is both at once: a collection lost, and begun again,  *)
(* while a process that lost its lease is about to publish it.             *)
PublishedIsComplete ==
    \A g \in Generation : gstate[g] = "published" /\ ~(stalls > 0 /\ g \in lost) =>
        search[g] = "ready" /\ (g \in held => points[g] = 1..Chunks)

(* A resumed build never skips a chunk: whatever progress is journaled of  *)
(* a generation, its collection has those points, unless Qdrant lost it.   *)
ProgressIsWritten ==
    \A k \in Key : LET r == progress[k] IN
        r.generation # 0 /\ r.generation \notin lost => 1..r.indexed \subseteq points[r.generation]

(* So no crash, retry or takeover fails a generation: a check fails only   *)
(* what Qdrant lost.                                                       *)
FailsOnlyWhatWasLost == \A g \in Generation : gstate[g] = "failed" => g \in lost

(* A job succeeds only once its chunk set is the published one, unless a   *)
(* process went on without its lease.                                      *)
SuccessIsPublished ==
    [][\A k \in Key : stalls = 0 /\ job'[k] = "succeeded" /\ job[k] # "succeeded" =>
          \E g \in Generation :
              /\ gstate[g] = "published"
              /\ chunkSet[g] = IF k \in Again THEN guard[k].set ELSE k]_vars

(* "alias `maestro-<collection>` points at the published generation"       *)
(* (docs/architecture/01-knowledge-pipeline.md): between the two steps of  *)
(* a switch, or after a crash there, it names the next one, but never one  *)
(* that publication left behind.                                           *)
AliasNeverBehind == alias # 0 => gstate[alias] # "retired"

(* It holds through crashes, failures and losses, for as long as no        *)
(* process goes on without its lease.                                      *)
AliasFollows == stalls = 0 => AliasNeverBehind
=============================================================================
