------------------------------ MODULE Attempts ------------------------------
(***************************************************************************)
(* Repeated evaluation attempts (maestro-knowledge eval, reports v2): one  *)
(* run of every question is an attempt report; the reports of a candidate  *)
(* are merged under the plan they froze, and the merges of two candidates  *)
(* are compared question by question.                                      *)
(*                                                                         *)
(* A report is [attempt, repetition, retry, warm, seed, rows]: retry is    *)
(* the attempt it repeats, if any, and rows tells of each question         *)
(* "ranked", "failed" or "mismatch" (a passage of another generation or    *)
(* collection, which is also a failure).                                   *)
(***************************************************************************)
EXTENDS Integers, Sequences, FiniteSets, FiniteSetsExt, SequencesExt, Functions

None == {}

-----------------------------------------------------------------------------
(* run_attempt: how a question ends, by what its retrieval gave. *)
ItemStatus(retrieved, header) ==
    IF retrieved = None THEN "failed"
    ELSE IF retrieved # {header} THEN "mismatch"
    ELSE "ranked"

(* run_v2: every question has a row, failed or not, unless the recording of a
   receipt fails, which ends the run before the next retrieval. *)
Attempt(meta, retrievals, header) ==
    [attempt |-> meta.attempt, repetition |-> meta.repetition, retry |-> meta.retry,
     warm |-> meta.warm, seed |-> meta.seed,
     rows |-> [q \in DOMAIN retrievals |-> ItemStatus(retrievals[q], header)]]

Failed(report) == \E q \in DOMAIN report.rows : report.rows[q] # "ranked"

(* is_integrity_violation *)
Violates(reports) == \E r \in ToSet(reports) : "mismatch" \in Range(r.rows)

(* valid_attempt_metadata *)
ValidMetadata(r) ==
    /\ r.attempt > 0
    /\ IF r.warm THEN r.repetition = 0 ELSE r.repetition > 0
    /\ r.retry # None => ~ r.warm /\ r.retry # {r.attempt} /\ r.retry # {0}

(* v2_questions_are_consistent, same_v2_header: the rows of every report are
   the questions of the suite, and no attempt is given twice. *)
Consistent(reports) ==
    /\ \A i, j \in DOMAIN reports : DOMAIN reports[i].rows = DOMAIN reports[j].rows
    /\ \A i, j \in DOMAIN reports : reports[i].attempt = reports[j].attempt => i = j

-----------------------------------------------------------------------------
(* Merging. *)

Originals(reports) == {r \in ToSet(reports) : r.retry = None /\ ~ r.warm}
Warm(reports) == {r \in ToSet(reports) : r.retry = None /\ r.warm}

(* Mutant: only the number of the original attempts is compared. *)
MutCoversPlan(reports, plan) == Cardinality(Originals(reports)) = plan.repetitions

(* validate_merged_schedule: the original scored attempts are the planned
   repetitions, each once. *)
CoversPlan(reports, plan) ==
    /\ {r.repetition : r \in Originals(reports)} = 1 .. plan.repetitions
    /\ Cardinality(Originals(reports)) = plan.repetitions

(* A retry follows a failed original of the same repetition. *)
ValidRetry(reports, r) ==
    \A original \in r.retry :
        \E o \in ToSet(reports) :
            /\ o.attempt = original /\ o.attempt < r.attempt
            /\ o.retry = None /\ ~ o.warm /\ o.repetition = r.repetition /\ Failed(o)

ValidSchedule(reports, plan) ==
    /\ plan.repetitions > 0
    /\ {r.attempt : r \in ToSet(reports)} = 1 .. Len(reports)
    /\ \A r \in ToSet(reports) : ValidRetry(reports, r)
    /\ CoversPlan(reports, plan)
    /\ Cardinality(Warm(reports)) = plan.warmUps

(* merge_v2_attempts *)
Merges(reports, plan) ==
    /\ reports # << >>
    /\ \A r \in ToSet(reports) : ValidMetadata(r)
    /\ Consistent(reports) /\ ValidSchedule(reports, plan)

(* measure_attempts, Metric::value: the rows a metric is the mean of, retries
   included and warm-ups not. *)
Measured(reports) ==
    {<<r.attempt, q>> : r \in {x \in ToSet(reports) : ~ x.warm}, q \in DOMAIN reports[1].rows}

(* abstained, hit, reciprocal_rank: a failed row counts as a miss. *)
Hits(reports) == {m \in Measured(reports) :
                    \E r \in ToSet(reports) : r.attempt = m[1] /\ r.rows[m[2]] = "ranked"}

-----------------------------------------------------------------------------
(* Comparing. *)

(* scheduled_attempts: what the plan asked of a question. *)
Scheduled(reports) ==
    LET all == SelectSeq(reports, LAMBDA r : r.retry = None)
        Key(r) == <<r.repetition, r.seed, r.warm>>
    IN  [k \in {Key(r) : r \in ToSet(all)} |-> Cardinality({i \in DOMAIN all : Key(all[i]) = k})]

(* compare, validate_v2_metadata, pair_v2 *)
Compares(baseline, candidate) ==
    /\ DOMAIN baseline[1].rows = DOMAIN candidate[1].rows
    /\ Scheduled(baseline) = Scheduled(candidate)

-----------------------------------------------------------------------------
(* PROPERTIES *)

(* Nothing that was scheduled can be left out of a merge, and no repetition is
   counted by the better of two attempts: of the reports of an accepted merge
   only a retry could be missing and the rest still be accepted, whatever the
   order they are given in; each planned repetition has one original row per
   question, and a comparison pairs only candidates that ran the same plan. *)
MergeDropsNothing(reports, plan) ==
    Merges(reports, plan) =>
        /\ \A i \in DOMAIN reports :
             Merges(RemoveAt(reports, i), plan) => reports[i].retry # None
        /\ Merges(Reverse(reports), plan)
        /\ \A k \in 1 .. plan.repetitions :
             Cardinality({r \in Originals(reports) : r.repetition = k}) = 1
        /\ Violates(reports) => Hits(reports) # Measured(reports)
                                  \/ \E r \in Warm(reports) : "mismatch" \in Range(r.rows)
        /\ Compares(reports, reports)

=============================================================================
