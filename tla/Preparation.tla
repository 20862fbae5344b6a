----------------------------- MODULE Preparation -----------------------------
(***************************************************************************)
(* The commands that bring a collection to a complete chunk set, over the  *)
(* kernel's records (Documents): `knowledge import`, `knowledge quality`   *)
(* and `knowledge prepare` (crates/maestro-knowledge/src: import/,         *)
(* quality/gate.rs, prepare/; crates/maestro/src/cli: import.rs,           *)
(* quality.rs, prepare.rs).                                                *)
(*                                                                         *)
(* Their jobs hold different resources of the collection, so the three run *)
(* beside one another, and each kernel call is a step of its own.  The     *)
(* lease that keeps two commands of one kind apart (Foreground) is left    *)
(* out: a suspended command may resume beside its successor, so two of a   *)
(* kind interleave freely.  A command may stop anywhere: it dies, a call   *)
(* fails, or its observer breaks; all leave what it recorded.  Each        *)
(* process runs one command once; a rerun is another process.              *)
(*                                                                         *)
(* A chunk set's id is a digest of its collection, profile, counter and    *)
(* eligible revisions, so it is the set of those revisions.  Of a manifest *)
(* the model keeps what its chunk set's id does not give.                  *)
(*                                                                         *)
(* A loop over a list of revisions keeps the set of those still to do, and *)
(* takes the first of them in the order of the list.                       *)
(***************************************************************************)
EXTENDS Documents, Sequences

CONSTANTS Importer, Gate, Preparer,  \* processes, each of one command
          Release,     \* corpus releases: sequences of manifest lines
          Verdicts,    \* what a ledger and the checks may say of a revision
          Damaged,     \* revisions whose file may not be what its line declares
          BytesOf,     \* the digest of a revision's original
          ContentOf,   \* its two fingerprints: original and canonical content
          Near,        \* pairs whose confirmed Jaccard is at least 0.85
          Unreadable,  \* revisions the fingerprinting refuses
          Uncuttable,  \* revisions the chunker refuses
          Cut          \* how many chunks the chunker cuts of the others

(* The rows of n[r] chunks of each revision r: its id and an ordinal. *)
Rows(n) == {row \in Revision \X (1..MaxChunks) : row[2] <= n[row[1]]}

ASSUME PreparationAssumption ==
    /\ ChunkSet = SUBSET Revision
    /\ Group = SUBSET Revision
    /\ [leftOut : SUBSET Revision, refused : SUBSET Revision, chunks : 0..MaxChunks]
          \subseteq Manifest
    /\ Release \subseteq Seq([source : Source, revision : Revision])
    /\ Verdicts \in [Revision -> SUBSET Outcome]
    /\ Damaged \cup Unreadable \cup Uncuttable \subseteq Revision
    /\ Cut \in [Revision -> 0..MaxChunks]
    /\ IsFiniteSet(Revision) /\ Cardinality(Rows(Cut)) <= MaxChunks
    /\ \A r, q \in Revision : ContentOf[r] = ContentOf[q] => BytesOf[r] = BytesOf[q]
    /\ Near \subseteq Revision \X Revision
    /\ \A r, q \in Revision : <<r, q>> \in Near => <<q, r>> \in Near

VARIABLES
    imp,          \* importers: the step, the release, the line, lines imported
    completions,  \* import.completed.v1 events in the journal
    gate,         \* gates: the step, the frozen revisions, those to decide
    gated,        \* the frozen revisions of each quality job that succeeded
    prep,         \* preparers: the step and what each has read so far
    prepared      \* the frozen chunk set of each prepare job that succeeded

workVars == <<imp, completions, gate, gated, prep, prepared>>
vars == <<docVars, workVars>>

NoRelease == << >>

IdleImport == [at |-> "idle", release |-> NoRelease, line |-> 1, imported |-> {}]
IdleGate == [at |-> "idle", frozen |-> {}, todo |-> {}, undecided |-> {}]
DoneGate == [IdleGate EXCEPT !.at = "done"]
IdlePrep == [at |-> "idle", frozen |-> {}, todo |-> {}, eligible |-> {}, leftOut |-> {},
             pending |-> {}, refused |-> {}, chunks |-> 0]
DonePrep == [IdlePrep EXCEPT !.at = "done"]

(* The next of the revisions `todo`, in record order and in id order. *)
NextRecorded(todo) == {r \in todo : \A q \in todo : rowid[r] <= rowid[q]}
NextById(todo) == {r \in todo : \A q \in todo : r <= q}

ImportState ==
    [at : {"idle", "declare", "line", "store", "record", "done"},
     release : Release \cup {NoRelease}, line : Nat, imported : SUBSET Nat]

GateState ==
    [at : {"idle", "submitted", "reading", "deciding", "done"},
     frozen : SUBSET Revision, todo : SUBSET Revision, undecided : SUBSET Revision]

PrepState ==
    [at : {"idle", "submitted", "reading", "left_out", "deduplicate", "group", "resume",
           "chunk", "succeed", "done"},
     frozen : SUBSET Revision, todo : SUBSET Revision, eligible : SUBSET Revision,
     leftOut : SUBSET Revision, pending : SUBSET Revision, refused : SUBSET Revision,
     chunks : Nat]

(* The lines of an import, the line it is at among them, and the lines it  *)
(* imported before.                                                        *)
LinesOK ==
    \A i \in Importer :
        /\ imp[i].line \in 1..(Len(imp[i].release) + 1)
        /\ imp[i].at \in {"store", "record"} => imp[i].line <= Len(imp[i].release)
        /\ imp[i].imported \subseteq 1..(imp[i].line - 1)

TypeOK ==
    /\ DocTypeOK
    /\ imp \in [Importer -> ImportState]
    /\ LinesOK
    /\ completions \in Nat
    /\ gate \in [Gate -> GateState]
    /\ gated \subseteq SUBSET Revision
    /\ prep \in [Preparer -> PrepState]
    /\ prepared \subseteq SUBSET Revision

Init ==
    /\ DocInit
    /\ imp = [i \in Importer |-> IdleImport]
    /\ completions = 0
    /\ gate = [g \in Gate |-> IdleGate]
    /\ gated = {}
    /\ prep = [p \in Preparer |-> IdlePrep]
    /\ prepared = {}

-----------------------------------------------------------------------------
(* import.                                                                 *)

ImportStep(i, record) ==
    /\ imp' = [imp EXCEPT ![i] = record]
    /\ UNCHANGED <<gate, gated, prep, prepared>>

LineOf(i) == imp[i].release[imp[i].line]
RevisionOf(i) == LineOf(i).revision

(* shared_source_refs: another line of the same manifest gives the         *)
(* source_ref, hence the document, other bytes.                            *)
Shared(release, n) ==
    \E m \in DOMAIN release :
        /\ release[m].source = release[n].source
        /\ DocOf[release[m].revision] = DocOf[release[n].revision]
        /\ BytesOf[release[m].revision] # BytesOf[release[n].revision]

(* The line is settled: counted as imported, unchanged, held or refused. *)
NextLine(i, imported) ==
    ImportStep(i, [imp[i] EXCEPT !.at = "line", !.line = @ + 1,
                                 !.imported = IF imported THEN @ \cup {imp[i].line} ELSE @])

BeginImport(i) ==
    /\ imp[i].at = "idle"
    /\ \E release \in Release :
          ImportStep(i, [IdleImport EXCEPT !.at = "declare", !.release = release])
    /\ UNCHANGED <<docVars, completions>>

ImportDeclares(i) ==
    /\ imp[i].at = "declare"
    /\ Declare
    /\ ImportStep(i, [imp[i] EXCEPT !.at = "line"])
    /\ UNCHANGED completions

AtLine(i) == imp[i].at = "line" /\ imp[i].line <= Len(imp[i].release)

(* Malformed, unreadable, not what its line declares: verified, canonical. *)
RefuseLine(i) ==
    /\ AtLine(i)
    /\ RevisionOf(i) \in Damaged
    /\ NextLine(i, FALSE)
    /\ UNCHANGED <<docVars, completions>>

HeldElsewhere(i) == sourceOf[DocOf[RevisionOf(i)]] # LineOf(i).source

(* Mutant: a revision found recorded is left as it is, shared or not. *)
MutImportFinds(i) ==
    /\ AtLine(i)
    /\ RevisionOf(i) \in Recorded
    /\ NextLine(i, ~HeldElsewhere(i))
    /\ UNCHANGED <<docVars, completions>>

(* The revision is recorded already: refused under another source, else    *)
(* nothing is written but the hold of a shared source_ref.                 *)
ImportFinds(i) ==
    /\ AtLine(i)
    /\ RevisionOf(i) \in Recorded
    /\ \/ /\ HeldElsewhere(i)
          /\ NextLine(i, FALSE)
          /\ UNCHANGED docVars
       \/ /\ ~HeldElsewhere(i)
          /\ IF Shared(imp[i].release, imp[i].line)
                THEN RecordDisposition(RevisionOf(i), "held")
                ELSE UNCHANGED docVars
          /\ NextLine(i, TRUE)
    /\ UNCHANGED completions

(* The revision was not found: store, whose artifacts Artifacts models,    *)
(* ends with record_document, which refuses a document of another source.  *)
ImportMisses(i) ==
    /\ AtLine(i)
    /\ RevisionOf(i) \notin Recorded
    /\ ImportStep(i, [imp[i] EXCEPT !.at = "store"])
    /\ UNCHANGED <<docVars, completions>>

ImportStores(i) ==
    /\ imp[i].at = "store"
    /\ \/ /\ RecordDocument(DocOf[RevisionOf(i)], LineOf(i).source)
          /\ ImportStep(i, [imp[i] EXCEPT !.at = "record"])
       \/ /\ sourceOf[DocOf[RevisionOf(i)]] \notin {NoSource, LineOf(i).source}
          /\ NextLine(i, FALSE)
          /\ UNCHANGED docVars
    /\ UNCHANGED completions

(* A shared revision is recorded with its hold, in one write. *)
ImportRecords(i) ==
    /\ imp[i].at = "record"
    /\ IF Shared(imp[i].release, imp[i].line)
          THEN RecordRevisionWithDisposition(RevisionOf(i), "held")
          ELSE RecordRevision(RevisionOf(i))
    /\ NextLine(i, TRUE)
    /\ UNCHANGED completions

(* journal_completion, once every line is settled. *)
ImportCompletes(i) ==
    /\ imp[i].at = "line" /\ imp[i].line > Len(imp[i].release)
    /\ completions' = completions + 1
    /\ ImportStep(i, [imp[i] EXCEPT !.at = "done"])
    /\ UNCHANGED docVars

ImportStops(i) ==
    /\ imp[i].at \notin {"idle", "done"}
    /\ ImportStep(i, [imp[i] EXCEPT !.at = "done"])
    /\ UNCHANGED <<docVars, completions>>

-----------------------------------------------------------------------------
(* quality.                                                                *)

GateStep(g, record) ==
    /\ gate' = [gate EXCEPT ![g] = record]
    /\ UNCHANGED <<imp, completions, prep, prepared>>

(* The command freezes the revisions recorded; a job of theirs that        *)
(* succeeded is found, and decides nothing twice.                          *)
GateFreezes(g) ==
    /\ gate[g].at = "idle"
    /\ declared
    /\ Recorded \notin gated
    /\ GateStep(g, [IdleGate EXCEPT !.at = "submitted", !.frozen = Recorded])
    /\ UNCHANGED <<docVars, gated>>

(* gate lists the revisions again, as they are when the job runs. *)
GateReads(g) ==
    /\ gate[g].at = "submitted"
    /\ GateStep(g, [gate[g] EXCEPT !.at = "reading", !.todo = Recorded])
    /\ UNCHANGED <<docVars, gated>>

(* A disposition kept, or none, after which record decides. *)
GateLooks(g) ==
    /\ gate[g].at = "reading"
    /\ \E r \in NextRecorded(gate[g].todo) :
          GateStep(g, IF disposition[r] # Undecided
                         THEN [gate[g] EXCEPT !.todo = @ \ {r}]
                         ELSE [gate[g] EXCEPT !.at = "deciding", !.undecided = {r}])
    /\ UNCHANGED <<docVars, gated>>

(* decide: a rule of the ledger or the checks, which accept no revision    *)
(* whose canonicalization failed; a decision made in between is kept.      *)
Decisions(r) == IF r \in Failed THEN {"held"} ELSE Verdicts[r]

GateDecides(g) ==
    /\ gate[g].at = "deciding"
    /\ \E r \in gate[g].undecided :
          /\ \E o \in Decisions(r) : RecordDisposition(r, o)
          /\ GateStep(g, [gate[g] EXCEPT !.at = "reading", !.todo = @ \ {r}, !.undecided = {}])
    /\ UNCHANGED gated

GateSucceeds(g) ==
    /\ gate[g].at = "reading"
    /\ gate[g].todo = {}
    /\ gated' = gated \cup {gate[g].frozen}
    /\ GateStep(g, DoneGate)
    /\ UNCHANGED docVars

GateStops(g) ==
    /\ gate[g].at \notin {"idle", "done"}
    /\ GateStep(g, DoneGate)
    /\ UNCHANGED <<docVars, gated>>

-----------------------------------------------------------------------------
(* prepare.                                                                *)

PrepStep(p, record) ==
    /\ prep' = [prep EXCEPT ![p] = record]
    /\ UNCHANGED <<imp, completions, gate, gated>>

(* The latest revision of each document, in record order. *)
Latest == {r \in Recorded : \A q \in Recorded : DocOf[q] = DocOf[r] => rowid[q] <= rowid[r]}

(* chunk_set_id, before the job: the eligible revisions are read, and the  *)
(* id of their chunk set is what the job freezes; a job of theirs that     *)
(* succeeded is found.  Nothing but the job's key rests on these reads, so *)
(* they are one step.                                                      *)
PrepFreezes(p) ==
    /\ prep[p].at = "idle"
    /\ declared
    /\ LET ids == {r \in Latest \ Failed : disposition[r] = "accepted"}
       IN  PrepStep(p, IF ids \in prepared
                          THEN DonePrep
                          ELSE [IdlePrep EXCEPT !.at = "submitted", !.frozen = ids])
    /\ UNCHANGED <<docVars, prepared>>

(* eligible, when the job runs: it lists the revisions, then reads the     *)
(* disposition of each latest one that is not failed.                      *)
PrepReads(p) ==
    /\ prep[p].at = "submitted"
    /\ PrepStep(p, [prep[p] EXCEPT !.at = "reading", !.todo = Latest \ Failed])
    /\ UNCHANGED <<docVars, prepared>>

(* Mutant: a revision not decided yet is let through. *)
MutPrepLooks(p) ==
    /\ prep[p].at = "reading"
    /\ \E r \in NextRecorded(prep[p].todo) :
          PrepStep(p, [prep[p] EXCEPT !.todo = @ \ {r},
                          !.eligible = IF disposition[r] # "held" THEN @ \cup {r} ELSE @])
    /\ UNCHANGED <<docVars, prepared>>

PrepLooks(p) ==
    /\ prep[p].at = "reading"
    /\ \E r \in NextRecorded(prep[p].todo) :
          PrepStep(p, [prep[p] EXCEPT !.todo = @ \ {r},
                          !.eligible = IF disposition[r] = "accepted" THEN @ \cup {r} ELSE @])
    /\ UNCHANGED <<docVars, prepared>>

(* begin_chunk_set: a failed set ends the job, a complete one is reported  *)
(* as it is, one that is building is resumed.                              *)
PrepBegins(p) ==
    /\ prep[p].at = "reading" /\ prep[p].todo = {}
    /\ BeginChunkSet(prep[p].eligible)
    /\ PrepStep(p, CASE setState[prep[p].eligible] = "failed" -> DonePrep
                     [] setState[prep[p].eligible] = "complete" ->
                           [prep[p] EXCEPT !.at = "succeed"]
                     [] OTHER -> [prep[p] EXCEPT !.at = "left_out"])
    /\ UNCHANGED prepared

(* left_out: the latest revision, as it is now, of each document whose     *)
(* latest revision is not one of the eligible ones.                        *)
PrepLeavesOut(p) ==
    /\ prep[p].at = "left_out"
    /\ PrepStep(p, [prep[p] EXCEPT !.at = "deduplicate", !.leftOut = Latest \ prep[p].eligible])
    /\ UNCHANGED <<docVars, prepared>>

(* The revision prepared for r among those of chunk set s: the smallest of *)
(* its exact duplicates that can be read.                                  *)
Twins(s, r) == {q \in s \ Unreadable : ContentOf[q] = ContentOf[r]}
Prepares(s, r) == NextById(Twins(s, r))
Chunked(s) == UNION {Prepares(s, r) : r \in s \ Unreadable}

(* Mutant: only the place of the revision prepared is recorded. *)
MutPlaces(s) == {<<q, DocOf[q]>> : q \in Chunked(s)}

(* occurrences: every member's place is one of the revision prepared. *)
Places(s) == UNION {{<<q, DocOf[r]>> : q \in Prepares(s, r)} : r \in s \ Unreadable}

PrepDeduplicates(p) ==
    /\ prep[p].at = "deduplicate"
    /\ RecordOccurrences(Places(prep[p].eligible))
    /\ PrepStep(p, [prep[p] EXCEPT !.at = "group", !.refused = prep[p].eligible \cap Unreadable])
    /\ UNCHANGED prepared

(* linked, from each member: the groups are the revisions to chunk that    *)
(* Near links, however indirectly; a group's id is a digest of its members. *)
Linked(s, g) == \A r \in g, q \in Chunked(s) : <<r, q>> \in Near => q \in g
NearGroups(s) ==
    {g \in SUBSET Chunked(s) :
        /\ Cardinality(g) > 1 /\ Linked(s, g)
        /\ \A part \in (SUBSET g) \ {{}, g} : ~Linked(s, part)}

PrepGroups(p) ==
    /\ prep[p].at = "group"
    /\ RecordNearDuplicates(
          [g \in Group |-> IF g \in NearGroups(prep[p].eligible) THEN g ELSE {}])
    /\ PrepStep(p, [prep[p] EXCEPT !.at = "resume"])
    /\ UNCHANGED prepared

(* chunk_all counts the chunks a set holds by their rows. *)
Total(s) == Cardinality(Rows(chunks[s]))
Done(s) == {r \in Revision : chunks[s][r] > 0}

(* Mutant: a resumed preparation counts its own chunks alone. *)
MutPrepResumes(p) ==
    /\ prep[p].at = "resume"
    /\ PrepStep(p, [prep[p] EXCEPT !.at = "chunk",
                       !.pending = Chunked(prep[p].eligible) \ Done(prep[p].eligible)])
    /\ UNCHANGED <<docVars, prepared>>

(* chunk_all reads what the set holds: counted now, and not chunked again. *)
PrepResumes(p) ==
    /\ prep[p].at = "resume"
    /\ PrepStep(p, [prep[p] EXCEPT !.at = "chunk",
                       !.chunks = Total(prep[p].eligible),
                       !.pending = Chunked(prep[p].eligible) \ Done(prep[p].eligible)])
    /\ UNCHANGED <<docVars, prepared>>

(* One pending revision of a batch: refused, or its chunks recorded. *)
PrepChunks(p) ==
    /\ prep[p].at = "chunk"
    /\ \E r \in NextById(prep[p].pending) :
          \/ /\ r \in Uncuttable
             /\ PrepStep(p, [prep[p] EXCEPT !.pending = @ \ {r}, !.refused = @ \cup {r}])
             /\ UNCHANGED docVars
          \/ /\ r \notin Uncuttable
             /\ RecordChunks(prep[p].eligible, r, Cut[r])
             /\ PrepStep(p, [prep[p] EXCEPT !.pending = @ \ {r}, !.chunks = @ + Cut[r]])
    /\ UNCHANGED prepared

(* fail_on_disagreement: the counter's canaries changed under its card. *)
PrepDisagrees(p) ==
    /\ prep[p].at = "chunk" /\ prep[p].pending # {}
    /\ FailChunkSet(prep[p].eligible)
    /\ PrepStep(p, DonePrep)
    /\ UNCHANGED prepared

(* The manifest stored, which Artifacts models, and the set completed. *)
PrepCompletes(p) ==
    /\ prep[p].at = "chunk" /\ prep[p].pending = {}
    /\ CompleteChunkSet(prep[p].eligible,
                        [leftOut |-> prep[p].leftOut, refused |-> prep[p].refused,
                         chunks |-> prep[p].chunks])
    /\ PrepStep(p, [prep[p] EXCEPT !.at = "succeed"])
    /\ UNCHANGED prepared

PrepSucceeds(p) ==
    /\ prep[p].at = "succeed"
    /\ prepared' = prepared \cup {prep[p].frozen}
    /\ PrepStep(p, DonePrep)
    /\ UNCHANGED docVars

(* A failed set, NotBuilding, IllegalMove, a counter that refuses, a lost  *)
(* lease, a crash.                                                         *)
PrepStops(p) ==
    /\ prep[p].at \notin {"idle", "done"}
    /\ PrepStep(p, DonePrep)
    /\ UNCHANGED <<docVars, prepared>>

-----------------------------------------------------------------------------
Import(i) ==
    \/ BeginImport(i) \/ ImportDeclares(i) \/ RefuseLine(i) \/ ImportFinds(i) \/ ImportMisses(i)
    \/ ImportStores(i) \/ ImportRecords(i) \/ ImportCompletes(i) \/ ImportStops(i)

Quality(g) ==
    \/ GateFreezes(g) \/ GateReads(g) \/ GateLooks(g) \/ GateDecides(g) \/ GateSucceeds(g)
    \/ GateStops(g)

Prepare(p) ==
    \/ PrepFreezes(p) \/ PrepReads(p) \/ PrepLooks(p) \/ PrepBegins(p)
    \/ PrepLeavesOut(p) \/ PrepDeduplicates(p) \/ PrepGroups(p) \/ PrepResumes(p)
    \/ PrepChunks(p) \/ PrepDisagrees(p) \/ PrepCompletes(p) \/ PrepSucceeds(p) \/ PrepStops(p)

Next ==
    \/ \E i \in Importer : Import(i)
    \/ \E g \in Gate : Quality(g)
    \/ \E p \in Preparer : Prepare(p)

Spec == Init /\ [][Next]_vars

-----------------------------------------------------------------------------
(* Properties.                                                             *)

(* A chunk set is cut only from revisions the gate accepted, none failed   *)
(* and no two of one document, though the dispositions were read one by    *)
(* one while an import and a gate went on.                                 *)
CutFromEligible ==
    \A s \in ChunkSet : setState[s] # "absent" =>
        /\ \A r \in s : r \in Recorded /\ disposition[r] = "accepted" /\ r \notin Failed
        /\ \A r, q \in s : DocOf[r] = DocOf[q] => r = q

(* "It completes, with its manifest, only once every eligible revision is  *)
(* settled": each revision of a complete set is refused, or the revision   *)
(* prepared for it is refused or has its chunks; and the manifest counts   *)
(* the chunks the set holds, whoever recorded them, resumed or not.        *)
CompleteIsSettled ==
    \A s \in ChunkSet : setState[s] = "complete" =>
        /\ \A r \in s :
              \/ r \in manifest[s].refused
              \/ \E q \in Prepares(s, r) :
                    q \in manifest[s].refused \/ chunks[s][q] = Cut[q]
        /\ Done(s) \subseteq Chunked(s) \ manifest[s].refused
        /\ manifest[s].chunks = Total(s)

(* Every place the content of a complete set's revisions occurs is         *)
(* recorded as an occurrence of the revision prepared for it: exact        *)
(* duplicates "keep every one".  And near duplicates are "grouped, never   *)
(* deleted": two of its revisions that Near links are in one group, each   *)
(* as the revision prepared for it.                                        *)
PlacesAreKept ==
    \A s \in ChunkSet : setState[s] = "complete" =>
        /\ \A r \in s \ Unreadable : \E q \in Prepares(s, r) : <<q, DocOf[r]>> \in occurrence
        /\ \A r, q \in Chunked(s) : r # q /\ <<r, q>> \in Near =>
              \E g \in Group : {r, q} \subseteq near[g] /\ near[g] \subseteq Chunked(s)

(* "No crash leaves one of them undecided": a line of a shared source_ref, *)
(* once imported, is decided, whether its revision was recorded with its   *)
(* hold or found.                                                          *)
SharedIsDecided ==
    \A i \in Importer : \A n \in imp[i].imported :
        Shared(imp[i].release, n) => disposition[imp[i].release[n].revision] # Undecided

(* A quality job that succeeded decided every revision it froze, though it *)
(* lists them again when it runs: a command that finds the job may rely on *)
(* it.                                                                     *)
GatedIsDecided ==
    \A frozen \in gated : \A r \in frozen : disposition[r] # Undecided

(* What an import or a gate leaves behind when it ends well is decided,    *)
(* whatever else was imported and decided meanwhile.                       *)
CommandsDecide == SharedIsDecided /\ GatedIsDecided

(* import/mod.rs: lines of one manifest that share a source_ref are "each  *)
(* held back", also "one an earlier import recorded".                      *)
SharedIsHeld ==
    \A i \in Importer : \A n \in imp[i].imported :
        Shared(imp[i].release, n) => disposition[imp[i].release[n].revision] = "held"
=============================================================================
