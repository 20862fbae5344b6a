------------------------------ MODULE Documents ------------------------------
(***************************************************************************)
(* What the kernel records of one collection's documents                   *)
(* (crates/maestro-kernel/src: document/ and chunk_set/, migrations 0004,  *)
(* 0007 and 0008): its documents and their revisions, the one quality      *)
(* disposition of each revision, the places its content occurs, and the    *)
(* chunk sets cut from its revisions.                                      *)
(*                                                                         *)
(* Every action is one call of the kernel, one SQLite write.  A call that  *)
(* is refused writes nothing, so a refusal is an action that is not        *)
(* enabled.  A revision's id is a digest of its document, its bytes and    *)
(* its metadata, so its content and its document are functions of the id,  *)
(* and RevisionConflict, a digest collision, is left out.  The ids of      *)
(* chunk sets and the manifests they pin are their callers'; a revision's  *)
(* chunks are their number.                                                *)
(***************************************************************************)
EXTENDS Naturals, FiniteSets

CONSTANTS Revision,   \* revision ids; numbers, since preparation orders them
          Document, Source,
          DocOf,      \* the document of a revision
          Failed,     \* the revisions whose canonicalization failed
          Group,      \* ids of groups of near duplicates
          ChunkSet,   \* chunk set ids, of one profile and one counter
          Manifest,   \* the manifests of chunk sets
          NoManifest, \* the manifest_digest of a set that pins none
          MaxChunks   \* bound: chunks of one chunk set

ASSUME DocumentsAssumption ==
    /\ Revision \subseteq Nat
    /\ DocOf \in [Revision -> Document]
    /\ Failed \subseteq Revision
    /\ MaxChunks \in Nat
    /\ NoManifest \notin Manifest

VARIABLES
    declared,     \* whether the collection and its sources are recorded
    sourceOf,     \* the source a document is recorded from
    rowid, rows,  \* the rowid of each revision, 0 for none, and the greatest
    disposition,  \* the quality disposition of each revision
    told,         \* revision.held.v1 events of each revision in the journal
    occurrence,   \* places recorded: the revision prepared, and a document
    near,         \* the members of each group, none of one not recorded
    setState,     \* the state of each chunk set
    chunks,       \* the chunks each holds of each revision
    manifest      \* the manifest each pins

docVars == <<declared, sourceOf, rowid, rows, disposition, told, occurrence,
             near, setState, chunks, manifest>>
recordVars == <<declared, sourceOf, rowid, rows>>
qualityVars == <<disposition, told>>
duplicateVars == <<occurrence, near>>
setVars == <<setState, chunks, manifest>>

NoSource == "no source"

(* Outcome, by what it does: the first two let a revision be indexed, the  *)
(* other three hold it back.                                               *)
Outcome == {"accepted", "held"}
Undecided == "undecided"

Recorded == {r \in Revision : rowid[r] > 0}

DocTypeOK ==
    /\ declared \in BOOLEAN
    /\ sourceOf \in [Document -> Source \cup {NoSource}]
    /\ rowid \in [Revision -> Nat]
    /\ rows \in Nat
    /\ disposition \in [Revision -> Outcome \cup {Undecided}]
    /\ told \in [Revision -> Nat]
    /\ occurrence \subseteq Revision \X Document
    /\ near \in [Group -> SUBSET Revision]
    /\ setState \in [ChunkSet -> {"absent", "building", "complete", "failed"}]
    /\ chunks \in [ChunkSet -> [Revision -> 0..MaxChunks]]
    /\ manifest \in [ChunkSet -> Manifest \cup {NoManifest}]

DocInit ==
    /\ declared = FALSE
    /\ sourceOf = [d \in Document |-> NoSource]
    /\ rowid = [r \in Revision |-> 0]
    /\ rows = 0
    /\ disposition = [r \in Revision |-> Undecided]
    /\ told = [r \in Revision |-> 0]
    /\ occurrence = {}
    /\ near = [g \in Group |-> {}]
    /\ setState = [s \in ChunkSet |-> "absent"]
    /\ chunks = [s \in ChunkSet |-> [r \in Revision |-> 0]]
    /\ manifest = [s \in ChunkSet |-> NoManifest]

-----------------------------------------------------------------------------
(* Documents and revisions.                                                *)

(* record_collection and record_source; the same ones again change nothing. *)
Declare ==
    /\ declared' = TRUE
    /\ UNCHANGED <<sourceOf, rowid, rows, qualityVars, duplicateVars, setVars>>

(* DocumentConflict: the document is recorded from another source. *)
RecordDocument(d, s) ==
    /\ declared
    /\ sourceOf[d] \in {NoSource, s}
    /\ sourceOf' = [sourceOf EXCEPT ![d] = s]
    /\ UNCHANGED <<declared, rowid, rows, qualityVars, duplicateVars, setVars>>

(* revision.rs record: a revision recorded before is left as it is. *)
InsertOnce(r) ==
    /\ sourceOf[DocOf[r]] # NoSource
    /\ IF r \in Recorded
          THEN UNCHANGED <<rowid, rows>>
          ELSE /\ rowid' = [rowid EXCEPT ![r] = rows + 1]
               /\ rows' = rows + 1
    /\ UNCHANGED <<declared, sourceOf>>

RecordRevision(r) == InsertOnce(r) /\ UNCHANGED <<qualityVars, duplicateVars, setVars>>

(* Mutant: the hold is journaled also when a decision stands. *)
MutDecideTells(r, o) ==
    /\ disposition' = [disposition EXCEPT ![r] = IF @ = Undecided THEN o ELSE @]
    /\ told' = [told EXCEPT ![r] = @ + (IF o = "held" THEN 1 ELSE 0)]

(* disposition.rs record: ON CONFLICT DO NOTHING, then journal_hold for a  *)
(* row inserted that holds its revision back.                              *)
DecideOnce(r, o) ==
    IF disposition[r] # Undecided
       THEN UNCHANGED qualityVars
       ELSE /\ disposition' = [disposition EXCEPT ![r] = o]
            /\ told' = [told EXCEPT ![r] = @ + (IF o = "held" THEN 1 ELSE 0)]

RecordDisposition(r, o) ==
    /\ r \in Recorded
    /\ DecideOnce(r, o)
    /\ UNCHANGED <<recordVars, duplicateVars, setVars>>

RecordRevisionWithDisposition(r, o) ==
    /\ InsertOnce(r)
    /\ DecideOnce(r, o)
    /\ UNCHANGED <<duplicateVars, setVars>>

(* record_occurrences: one recorded before is left as it is. *)
RecordOccurrences(places) ==
    /\ \A place \in places : place[1] \in Recorded
    /\ occurrence' = occurrence \cup places
    /\ UNCHANGED <<recordVars, qualityVars, near, setVars>>

(* record_near_duplicates: whole groups; NearDuplicateConflict when one is *)
(* recorded with other members.  A member stands for its row, Jaccard and  *)
(* all.                                                                    *)
RecordNearDuplicates(members) ==
    /\ UNION {members[g] : g \in Group} \subseteq Recorded
    /\ \A g \in Group : members[g] # {} => near[g] \in {{}, members[g]}
    /\ near' = [g \in Group |-> IF members[g] = {} THEN near[g] ELSE members[g]]
    /\ UNCHANGED <<recordVars, qualityVars, occurrence, setVars>>

-----------------------------------------------------------------------------
(* Chunk sets.                                                             *)

(* A set recorded before is returned as it is, whatever its state. *)
BeginChunkSet(s) ==
    /\ declared
    /\ setState' = [setState EXCEPT ![s] = IF @ = "absent" THEN "building" ELSE @]
    /\ UNCHANGED <<recordVars, qualityVars, duplicateVars, chunks, manifest>>

(* Every chunk of a revision at once: NotBuilding, and ChunksConflict when *)
(* the set holds other chunks of the revision.                             *)
RecordChunks(s, r, n) ==
    /\ setState[s] = "building"
    /\ r \in Recorded
    /\ chunks[s][r] \in {0, n}
    /\ chunks' = [chunks EXCEPT ![s][r] = n]
    /\ UNCHANGED <<recordVars, qualityVars, duplicateVars, setState, manifest>>

(* legal_move: from building alone, to complete or to failed. *)
MayMove(s) == setState[s] = "building"

CompleteChunkSet(s, m) ==
    /\ MayMove(s)
    /\ setState' = [setState EXCEPT ![s] = "complete"]
    /\ manifest' = [manifest EXCEPT ![s] = m]
    /\ UNCHANGED <<recordVars, qualityVars, duplicateVars, chunks>>

FailChunkSet(s) ==
    /\ MayMove(s)
    /\ setState' = [setState EXCEPT ![s] = "failed"]
    /\ UNCHANGED <<recordVars, qualityVars, duplicateVars, chunks, manifest>>

-----------------------------------------------------------------------------
(* Any caller makes any call, in any order.                                *)
DocNext ==
    \/ Declare
    \/ \E d \in Document, s \in Source : RecordDocument(d, s)
    \/ \E r \in Revision : RecordRevision(r)
    \/ \E r \in Revision, o \in Outcome : RecordDisposition(r, o)
    \/ \E r \in Revision, o \in Outcome : RecordRevisionWithDisposition(r, o)
    \/ \E places \in SUBSET (Revision \X Document) : RecordOccurrences(places)
    \/ \E members \in [Group -> SUBSET Revision] : RecordNearDuplicates(members)
    \/ \E s \in ChunkSet : BeginChunkSet(s)
    \/ \E s \in ChunkSet, r \in Revision, n \in 0..MaxChunks : RecordChunks(s, r, n)
    \/ \E s \in ChunkSet, m \in Manifest : CompleteChunkSet(s, m)
    \/ \E s \in ChunkSet : FailChunkSet(s)

DocSpec == DocInit /\ [][DocNext]_docVars

-----------------------------------------------------------------------------
(* Properties.                                                             *)

(* disposition.rs: a revision held back is told exactly once, in the write *)
(* that holds it, and no other revision is told held; whoever decides, and *)
(* however often.                                                          *)
HeldIsToldOnce ==
    \A r \in Revision : told[r] = (IF disposition[r] = "held" THEN 1 ELSE 0)

(* The record order is that of the first records: rowids are distinct and  *)
(* none is above `rows`, so each document has one latest revision, and a   *)
(* revision is recorded only under a recorded document.                    *)
RecordOrder ==
    /\ \A r \in Recorded : rowid[r] <= rows /\ sourceOf[DocOf[r]] # NoSource
    /\ \A r, q \in Recorded : rowid[r] = rowid[q] => r = q

(* A chunk set pins a manifest exactly once it is complete, and one that   *)
(* was never begun holds no chunk.                                         *)
ManifestOfComplete ==
    \A s \in ChunkSet :
        /\ (manifest[s] # NoManifest) <=> (setState[s] = "complete")
        /\ setState[s] = "absent" => \A r \in Revision : chunks[s][r] = 0

(* "A revision is decided once": a disposition, a record's place, a        *)
(* document's source and a group of near duplicates are never changed,     *)
(* whatever call follows.                                                  *)
DecisionsStand ==
    [][ /\ \A r \in Revision :
              /\ disposition[r] # Undecided => disposition'[r] = disposition[r]
              /\ rowid[r] > 0 => rowid'[r] = rowid[r]
        /\ \A d \in Document : sourceOf[d] # NoSource => sourceOf'[d] = sourceOf[d]
        /\ \A g \in Group : near[g] # {} => near'[g] = near[g]
      ]_docVars

(* state.rs: a complete set "never changes", and a failed one is "never    *)
(* completed nor resumed"; the chunks of a revision are recorded at once,  *)
(* and no call takes them back or replaces them.                           *)
EndedSetsStand ==
    [][ \A s \in ChunkSet :
          /\ setState[s] \in {"complete", "failed"} =>
                /\ setState'[s] = setState[s]
                /\ chunks'[s] = chunks[s]
                /\ manifest'[s] = manifest[s]
          /\ \A r \in Revision : chunks[s][r] > 0 => chunks'[s][r] = chunks[s][r]
      ]_docVars
=============================================================================
