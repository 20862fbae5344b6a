-------------------------- MODULE PreparationProofs --------------------------
(***************************************************************************)
(* Proofs about the kernel's records of documents and chunk sets, for any  *)
(* revisions, documents, sources and chunk sets, whoever calls it; and     *)
(* about import, the quality gate and preparation running beside one       *)
(* another over those records, for any number of each.                     *)
(***************************************************************************)
EXTENDS Preparation, TLAPS, FiniteSetTheorems, WellFoundedInduction

-----------------------------------------------------------------------------
(* The kernel's records.                                                   *)

(* The inductive invariant: each part is inductive given the types. *)
DocInv == DocTypeOK /\ HeldIsToldOnce /\ RecordOrder /\ ManifestOfComplete

-----------------------------------------------------------------------------
(* Each call, one lemma: it preserves the invariant and takes nothing back. *)

(* What no call takes back, as one step of DecisionsStand and of           *)
(* EndedSetsStand.                                                         *)
Stand ==
    /\ \A r \in Revision :
          /\ disposition[r] # Undecided => disposition'[r] = disposition[r]
          /\ rowid[r] > 0 => rowid'[r] = rowid[r]
    /\ \A d \in Document : sourceOf[d] # NoSource => sourceOf'[d] = sourceOf[d]
    /\ \A g \in Group : near[g] # {} => near'[g] = near[g]

Final ==
    \A s \in ChunkSet :
        /\ setState[s] \in {"complete", "failed"} =>
              /\ setState'[s] = setState[s]
              /\ chunks'[s] = chunks[s]
              /\ manifest'[s] = manifest[s]
        /\ \A r \in Revision : chunks[s][r] > 0 => chunks'[s][r] = chunks[s][r]

(* revision.rs record keeps the record order, and every rowid. *)
LEMMA InsertKeeps ==
    ASSUME DocInv, NEW r \in Revision, InsertOnce(r)
    PROVE  /\ declared' \in BOOLEAN
           /\ sourceOf' \in [Document -> Source \cup {NoSource}]
           /\ rowid' \in [Revision -> Nat] /\ rows' \in Nat
           /\ RecordOrder'
           /\ \A q \in Revision : rowid[q] > 0 => rowid'[q] = rowid[q]
           /\ sourceOf' = sourceOf
  <1>1. CASE r \in Recorded
    BY <1>1 DEF DocInv, DocTypeOK, InsertOnce, RecordOrder, Recorded
  <1>2. CASE r \notin Recorded
    <2>1. rowid' = [rowid EXCEPT ![r] = rows + 1] /\ rows' = rows + 1 /\ sourceOf' = sourceOf
          /\ declared' = declared /\ sourceOf[DocOf[r]] # NoSource
      BY <1>2 DEF InsertOnce
    <2>2. rowid[r] = 0
      BY <1>2 DEF Recorded, DocInv, DocTypeOK
    <2> QED
      BY <2>1, <2>2 DEF DocInv, DocTypeOK, RecordOrder, Recorded
  <1> QED
    BY <1>1, <1>2

(* disposition.rs record decides a revision once, and tells a hold once. *)
LEMMA DecideKeeps ==
    ASSUME DocInv, NEW r \in Revision, NEW o \in Outcome, DecideOnce(r, o)
    PROVE  /\ disposition' \in [Revision -> Outcome \cup {Undecided}]
           /\ told' \in [Revision -> Nat]
           /\ HeldIsToldOnce'
           /\ \A q \in Revision :
                 disposition[q] # Undecided => disposition'[q] = disposition[q]
  <1>1. CASE disposition[r] # Undecided
    BY <1>1 DEF DocInv, DocTypeOK, DecideOnce, HeldIsToldOnce, qualityVars
  <1>2. CASE disposition[r] = Undecided
    <2>1. disposition' = [disposition EXCEPT ![r] = o]
      BY <1>2 DEF DecideOnce
    <2>2. told' = [told EXCEPT ![r] = @ + (IF o = "held" THEN 1 ELSE 0)]
      BY <1>2 DEF DecideOnce
    <2>3. told[r] = 0
      BY <1>2 DEF DocInv, HeldIsToldOnce, Undecided
    <2>4. o \in {"accepted", "held"}
      BY DEF Outcome
    <2> QED
      BY <1>2, <2>1, <2>2, <2>3, <2>4 DEF DocInv, DocTypeOK, HeldIsToldOnce, Undecided, Outcome
  <1> QED
    BY <1>1, <1>2

(* Every call of the kernel preserves the invariant, and takes back no     *)
(* decision, no record, no group and no chunk of an ended set.             *)
LEMMA DocStep ==
    ASSUME DocInv, [DocNext]_docVars
    PROVE  DocInv' /\ Stand /\ Final
  <1> USE DocumentsAssumption
  <1>1. CASE Declare
    BY <1>1 DEF Declare, DocInv, DocTypeOK, HeldIsToldOnce, RecordOrder, Recorded,
                ManifestOfComplete, Stand, Final, qualityVars, duplicateVars, setVars
  <1>2. ASSUME NEW d \in Document, NEW s \in Source, RecordDocument(d, s)
        PROVE  DocInv' /\ Stand /\ Final
    BY ZenonT(60), <1>2 DEF RecordDocument, DocInv, DocTypeOK, HeldIsToldOnce, RecordOrder, Recorded,
                ManifestOfComplete, Stand, Final, qualityVars, duplicateVars, setVars, NoSource
  <1>3. ASSUME NEW r \in Revision, RecordRevision(r)
        PROVE  DocInv' /\ Stand /\ Final
    <2>1. InsertOnce(r) /\ UNCHANGED <<qualityVars, duplicateVars, setVars>>
      BY <1>3 DEF RecordRevision
    <2> QED
      BY <2>1, InsertKeeps DEF DocInv, DocTypeOK, HeldIsToldOnce, ManifestOfComplete,
                Stand, Final, qualityVars, duplicateVars, setVars
  <1>4. ASSUME NEW r \in Revision, NEW o \in Outcome, RecordDisposition(r, o)
        PROVE  DocInv' /\ Stand /\ Final
    <2>1. DecideOnce(r, o) /\ UNCHANGED <<recordVars, duplicateVars, setVars>>
      BY <1>4 DEF RecordDisposition
    <2> QED
      BY <2>1, DecideKeeps DEF DocInv, DocTypeOK, RecordOrder, Recorded, ManifestOfComplete,
                Stand, Final, recordVars, duplicateVars, setVars
  <1>5. ASSUME NEW r \in Revision, NEW o \in Outcome, RecordRevisionWithDisposition(r, o)
        PROVE  DocInv' /\ Stand /\ Final
    <2>1. InsertOnce(r) /\ DecideOnce(r, o) /\ UNCHANGED <<duplicateVars, setVars>>
      BY <1>5 DEF RecordRevisionWithDisposition
    <2> QED
      BY <2>1, InsertKeeps, DecideKeeps DEF DocInv, DocTypeOK, ManifestOfComplete,
                Stand, Final, duplicateVars, setVars
  <1>6. ASSUME NEW places \in SUBSET (Revision \X Document), RecordOccurrences(places)
        PROVE  DocInv' /\ Stand /\ Final
    BY <1>6 DEF RecordOccurrences, DocInv, DocTypeOK, HeldIsToldOnce, RecordOrder, Recorded,
                ManifestOfComplete, Stand, Final, recordVars, qualityVars, duplicateVars, setVars
  <1>7. ASSUME NEW members \in [Group -> SUBSET Revision], RecordNearDuplicates(members)
        PROVE  DocInv' /\ Stand /\ Final
    BY <1>7 DEF RecordNearDuplicates, DocInv, DocTypeOK, HeldIsToldOnce, RecordOrder, Recorded,
                ManifestOfComplete, Stand, Final, recordVars, qualityVars, setVars
  <1>8. ASSUME NEW s \in ChunkSet, BeginChunkSet(s)
        PROVE  DocInv' /\ Stand /\ Final
    BY <1>8 DEF BeginChunkSet, DocInv, DocTypeOK, HeldIsToldOnce, RecordOrder, Recorded,
                ManifestOfComplete, Stand, Final, recordVars, qualityVars, duplicateVars
  <1>9. ASSUME NEW s \in ChunkSet, NEW r \in Revision, NEW n \in 0..MaxChunks,
               RecordChunks(s, r, n)
        PROVE  DocInv' /\ Stand /\ Final
    BY <1>9 DEF RecordChunks, DocInv, DocTypeOK, HeldIsToldOnce, RecordOrder, Recorded,
                ManifestOfComplete, Stand, Final, recordVars, qualityVars, duplicateVars
  <1>10. ASSUME NEW s \in ChunkSet, NEW m \in Manifest, CompleteChunkSet(s, m)
        PROVE  DocInv' /\ Stand /\ Final
    BY <1>10 DEF CompleteChunkSet, MayMove, DocInv, DocTypeOK, HeldIsToldOnce, RecordOrder,
                Recorded, ManifestOfComplete, Stand, Final, recordVars, qualityVars, duplicateVars
  <1>11. ASSUME NEW s \in ChunkSet, FailChunkSet(s)
         PROVE  DocInv' /\ Stand /\ Final
    BY <1>11 DEF FailChunkSet, MayMove, DocInv, DocTypeOK, HeldIsToldOnce, RecordOrder,
                Recorded, ManifestOfComplete, Stand, Final, recordVars, qualityVars, duplicateVars
  <1>12. CASE UNCHANGED docVars
    BY <1>12 DEF docVars, DocInv, DocTypeOK, HeldIsToldOnce, RecordOrder, Recorded,
                ManifestOfComplete, Stand, Final
  <1>13. CASE DocNext
    BY ZenonT(30), <1>1, <1>2, <1>3, <1>4, <1>5, <1>6, <1>7, <1>8, <1>9, <1>10,
       <1>11, <1>13
    DEF DocNext
  <1> QED
    BY <1>12, <1>13

-----------------------------------------------------------------------------
(* The kernel's records begin so. *)
LEMMA DocInitial ==
    ASSUME DocInit
    PROVE  DocInv
  <1>1. DocTypeOK
    <2>1. declared \in BOOLEAN
      BY DEF DocInit
    <2>2. chunks \in [ChunkSet -> [Revision -> 0..MaxChunks]]
      BY DocumentsAssumption DEF DocInit
    <2> QED
      BY <2>1, <2>2 DEF DocInit, DocTypeOK
  <1>2. HeldIsToldOnce
    BY DEF DocInit, HeldIsToldOnce, Undecided
  <1>3. RecordOrder
    BY DEF DocInit, RecordOrder, Recorded
  <1>4. ManifestOfComplete
    BY DEF DocInit, ManifestOfComplete
  <1> QED
    BY <1>1, <1>2, <1>3, <1>4 DEF DocInv

(* The invariant holds in every state. *)
THEOREM DocInvariant == DocSpec => []DocInv
  <1>1. DocInit => DocInv
    BY DocInitial
  <1>2. DocInv /\ [DocNext]_docVars => DocInv'
    BY DocStep
  <1> QED
    BY <1>1, <1>2, PTL DEF DocSpec

(* The records keep their types. *)
THEOREM DocTypeCorrect == DocSpec => []DocTypeOK
  <1>1. DocInv => DocTypeOK
    BY DEF DocInv
  <1> QED
    BY <1>1, DocInvariant, PTL

(* A revision held back is told held exactly once, and no other is. *)
THEOREM HoldsAreToldOnce == DocSpec => []HeldIsToldOnce
  <1>1. DocInv => HeldIsToldOnce
    BY DEF DocInv
  <1> QED
    BY <1>1, DocInvariant, PTL

(* Records keep one order, in which each document has one latest revision. *)
THEOREM RecordsAreOrdered == DocSpec => []RecordOrder
  <1>1. DocInv => RecordOrder
    BY DEF DocInv
  <1> QED
    BY <1>1, DocInvariant, PTL

(* A chunk set pins a manifest exactly when it is complete. *)
THEOREM CompleteSetsPinTheirManifest == DocSpec => []ManifestOfComplete
  <1>1. DocInv => ManifestOfComplete
    BY DEF DocInv
  <1> QED
    BY <1>1, DocInvariant, PTL

(* No call changes a decision, a record's place or a document's source. *)
THEOREM NoDecisionIsTakenBack == DocSpec => DecisionsStand
  <1>1. DocInv /\ [DocNext]_docVars => [Stand]_docVars
    BY DocStep
  <1> QED
    BY <1>1, DocInvariant, PTL DEF DocSpec, DecisionsStand, Stand

(* No call changes a chunk set that ended, nor chunks once recorded. *)
THEOREM NoEndedSetChanges == DocSpec => EndedSetsStand
  <1>1. DocInv /\ [DocNext]_docVars => [Final]_docVars
    BY DocStep
  <1> QED
    BY <1>1, DocInvariant, PTL DEF DocSpec, EndedSetsStand, Final

-----------------------------------------------------------------------------
(* Import, the gate and preparation: the inductive invariant.              *)

(* The types of what the commands know; what a preparation counts of its   *)
(* chunks is Counted, below.                                               *)
ImportTypes == imp \in [Importer -> ImportState]
GateTypes == gate \in [Gate -> GateState]
PrepTypes == prep \in [Preparer -> PrepState]

(* What an import did: its lines, and the shared ones among those that it  *)
(* imported decided.                                                       *)
ImportKept(w) ==
    /\ w.line \in 1..(Len(w.release) + 1)
    /\ w.at \in {"store", "record"} => w.line <= Len(w.release)
    /\ \A n \in w.imported :
          /\ n \in 1..(w.line - 1)
          /\ Shared(w.release, n) => disposition[w.release[n].revision] # Undecided

(* What a gate froze is recorded, and decided or still to do. *)
GateKept(w) ==
    /\ w.frozen \subseteq Recorded
    /\ w.at \in {"reading", "deciding"} =>
          \A r \in w.frozen : r \in w.todo \/ disposition[r] # Undecided

(* The revisions a preparation reads: recorded, not failed, of different   *)
(* documents; those it takes are accepted.                                 *)
Separate(s) == \A r, q \in s : DocOf[r] = DocOf[q] => r = q
Readable(w) ==
    /\ w.eligible \cup w.todo \subseteq Recorded \ Failed
    /\ Separate(w.eligible \cup w.todo)
    /\ \A r \in w.eligible : disposition[r] = "accepted"

Grouped(s) == \A g \in NearGroups(s) : near[g] = g
Listed(s) == Places(s) \subseteq occurrence
Settled(s, q, refused) == q \in refused \/ chunks[s][q] = Cut[q]

(* The rows a set holds of the revisions that are not pending. *)
RowsBut(s, pending) == {row \in Rows(chunks[s]) : row[1] \notin pending}
Counted(s, pending, n) == n = Cardinality(RowsBut(s, pending))

Begun == {"left_out", "deduplicate", "group", "resume", "chunk"}
PrepKept(w) ==
    /\ Readable(w)
    /\ w.at \in {"idle", "submitted"} => w.eligible = {}
    /\ w.at \in Begun => setState[w.eligible] # "absent"
    /\ w.at \in {"group", "resume", "chunk"} => Listed(w.eligible)
    /\ w.at \in {"group", "resume", "chunk"} =>
          /\ w.eligible \cap Unreadable \subseteq w.refused
          /\ w.refused \subseteq Unreadable \cup Uncuttable
    /\ w.at \in {"resume", "chunk"} => Grouped(w.eligible)
    /\ w.at = "chunk" =>
          /\ w.pending \subseteq Chunked(w.eligible)
          /\ \A q \in Chunked(w.eligible) \ w.pending : Settled(w.eligible, q, w.refused)
          /\ Counted(w.eligible, w.pending, w.chunks)

(* The chunks a set holds of a revision are the ones the chunker cuts of a *)
(* revision that is to be chunked. *)
ChunksKept ==
    \A s \in ChunkSet, r \in Revision :
        chunks[s][r] > 0 => r \in Chunked(s) \ Uncuttable /\ chunks[s][r] = Cut[r]

NearKept == \A g \in Group : near[g] \in {{}, g}

CompleteKept ==
    \A s \in ChunkSet : setState[s] = "complete" =>
        /\ Listed(s) /\ Grouped(s)
        /\ s \cap Unreadable \subseteq manifest[s].refused
        /\ manifest[s].refused \subseteq Unreadable \cup Uncuttable
        /\ \A q \in Chunked(s) : Settled(s, q, manifest[s].refused)
        /\ Counted(s, {}, manifest[s].chunks)

PreparationInv ==
    /\ DocInv
    /\ ImportTypes /\ GateTypes /\ PrepTypes /\ completions \in Nat
    /\ gated \subseteq SUBSET Revision /\ prepared \subseteq SUBSET Revision
    /\ CutFromEligible /\ ChunksKept /\ NearKept /\ CompleteKept /\ GatedIsDecided
    /\ \A i \in Importer : ImportKept(imp[i])
    /\ \A g \in Gate : GateKept(gate[g])
    /\ \A p \in Preparer : PrepKept(prep[p])

-----------------------------------------------------------------------------
(* Facts about the operators preparation is built from.                    *)

(* The first of some revisions, in the order of their ids. *)
LEMMA FirstIsThere ==
    ASSUME NEW S \in SUBSET Revision, S # {}
    PROVE  NextById(S) # {}
<1>1. S \subseteq Nat
  BY DocumentsAssumption
<1>2. PICK r \in S : \A q \in S : ~ (<<q, r>> \in OpToRel(<, Nat))
  BY <1>1, NatLessThanWellFounded, WFMin
<1>3. \A q \in S : ~ (q < r)
  BY <1>1, <1>2 DEF OpToRel
<1>4. \A q \in S : r <= q
  BY <1>1, <1>3
<1>. QED BY <1>4 DEF NextById

(* Each revision that can be read is prepared as one of its duplicates. *)
LEMMA EachIsPrepared ==
    ASSUME NEW s \in SUBSET Revision
    PROVE  /\ \A r \in s \ Unreadable : Prepares(s, r) # {}
           /\ \A r \in s \ Unreadable : Prepares(s, r) \subseteq Chunked(s)
           /\ Chunked(s) \subseteq s \ Unreadable
<1>1. ASSUME NEW r \in s \ Unreadable PROVE Prepares(s, r) # {}
  <2>1. Twins(s, r) \in SUBSET Revision /\ r \in Twins(s, r)
    BY DEF Twins
  <2>. QED BY <2>1, FirstIsThere DEF Prepares
<1>2. \A r : Prepares(s, r) \subseteq s \ Unreadable
  BY DEF Prepares, NextById, Twins
<1>. QED BY <1>1, <1>2 DEF Chunked

(* Of two revisions that Near links, the group that holds both: the least  *)
(* linked set that one of them is in.                                      *)
LEMMA LinkedAreGrouped ==
    ASSUME NEW s \in SUBSET Revision, NEW r \in Chunked(s), NEW q \in Chunked(s),
           r # q, <<r, q>> \in Near
    PROVE  \E g \in NearGroups(s) : {r, q} \subseteq g
<1> DEFINE g == {x \in Chunked(s) : \A L \in SUBSET Chunked(s) :
                                       Linked(s, L) /\ r \in L => x \in L}
<1>0. Chunked(s) \subseteq Revision
  BY EachIsPrepared
<1>1. Linked(s, g)
  <2> SUFFICES ASSUME NEW x \in g, NEW y \in Chunked(s), <<x, y>> \in Near PROVE y \in g
    BY DEF Linked
  <2> SUFFICES ASSUME NEW L \in SUBSET Chunked(s), Linked(s, L), r \in L PROVE y \in L
    OBVIOUS
  <2>1. x \in L
    OBVIOUS
  <2>. QED BY <2>1 DEF Linked
<1>2. r \in g /\ g \in SUBSET Chunked(s)
  OBVIOUS
<1>3. q \in g
  BY <1>1, <1>2 DEF Linked
<1>4. ASSUME NEW part \in (SUBSET g) \ {{}, g}, Linked(s, part) PROVE FALSE
  <2>1. r \notin part
    <3>1. ASSUME r \in part PROVE FALSE
      <4>1. part \in SUBSET Chunked(s)
        BY <1>2
      <4>2. \A x \in g : x \in part
        BY <1>4, <3>1, <4>1
      <4>. QED BY <4>2
    <3>. QED BY <3>1
  <2> DEFINE rest == g \ part
  <2>2. Linked(s, rest)
    <3> SUFFICES ASSUME NEW x \in rest, NEW y \in Chunked(s), <<x, y>> \in Near PROVE y \in rest
      BY DEF Linked
    <3>1. y \in g
      BY <1>1 DEF Linked
    <3>2. x \in Revision /\ y \in Revision /\ x \in Chunked(s)
      BY <1>0, <1>2
    <3>3. <<y, x>> \in Near
      BY <3>2, PreparationAssumption
    <3>4. y \notin part
      BY <1>4, <3>2, <3>3 DEF Linked
    <3>. QED BY <3>1, <3>4
  <2>3. rest \in SUBSET Chunked(s) /\ r \in rest
    BY <1>2, <2>1
  <2>4. g \subseteq rest
    BY <2>2, <2>3
  <2>. QED BY <2>4
<1>5. Cardinality(g) > 1
  <2>1. IsFiniteSet(g)
    BY <1>0, <1>2, PreparationAssumption, FS_Subset
  <2>2. {r, q} \in SUBSET g
    BY <1>2, <1>3
  <2>3. Cardinality({r, q}) = 2
    <3>1. IsFiniteSet({r}) /\ Cardinality({r}) = 1
      BY FS_Singleton
    <3>2. Cardinality({r} \cup {q}) = Cardinality({r}) + 1
      BY <3>1, FS_AddElement
    <3>3. {r, q} = {r} \cup {q}
      OBVIOUS
    <3>. QED BY <3>1, <3>2, <3>3
  <2>4. Cardinality({r, q}) <= Cardinality(g) /\ Cardinality(g) \in Nat
    BY <2>1, <2>2, FS_Subset, FS_CardinalityType
  <2>. QED BY <2>3, <2>4
<1>6. g \in NearGroups(s)
  BY <1>1, <1>2, <1>4, <1>5 DEF NearGroups
<1>. QED BY <1>2, <1>3, <1>6

LEMMA GroupsAreGroups ==
    ASSUME NEW s \in SUBSET Revision, NEW g \in NearGroups(s)
    PROVE  g \in Group /\ g # {} /\ g \subseteq Chunked(s)
<1>1. g \in SUBSET Chunked(s) /\ Cardinality(g) > 1
  BY DEF NearGroups
<1>2. g # {}
  BY <1>1, FS_EmptySet
<1>. QED BY <1>1, <1>2, EachIsPrepared, PreparationAssumption

-----------------------------------------------------------------------------
(* Rows of chunks, counted.                                                *)

LEMMA RowsAreFinite ==
    ASSUME NEW n
    PROVE  IsFiniteSet(Rows(n)) /\ \A T \in SUBSET Rows(n) : IsFiniteSet(T) /\ Cardinality(T) \in Nat
<1>1. MaxChunks \in Nat /\ IsFiniteSet(Revision)
  BY DocumentsAssumption, PreparationAssumption
<1>2. IsFiniteSet(1..MaxChunks)
  BY <1>1, FS_Interval
<1>3. IsFiniteSet(Revision \X (1..MaxChunks))
  BY <1>1, <1>2, FS_Product
<1>4. Rows(n) \in SUBSET (Revision \X (1..MaxChunks))
  BY DEF Rows
<1>5. IsFiniteSet(Rows(n))
  BY <1>3, <1>4, FS_Subset
<1>. QED BY <1>5, FS_Subset, FS_CardinalityType

(* The rows of one revision are as many as its chunks. *)
LEMMA RowsOfOne ==
    ASSUME NEW r \in Revision, NEW n \in 0..MaxChunks
    PROVE  IsFiniteSet({r} \X (1..n)) /\ Cardinality({r} \X (1..n)) = n
<1>1. n \in Nat
  BY DocumentsAssumption
<1>2. IsFiniteSet(1..n) /\ Cardinality(1..n) = n
  BY <1>1, FS_Interval
<1>3. IsFiniteSet({r}) /\ Cardinality({r}) = 1
  BY FS_Singleton
<1>. QED BY SMTT(30), <1>1, <1>2, <1>3, FS_Product

(* Counting a pending revision whose chunks are recorded. *)
LEMMA CountsOneMore ==
    ASSUME NEW f \in [Revision -> 0..MaxChunks], NEW h \in [Revision -> 0..MaxChunks],
           NEW T \in SUBSET Revision, NEW r \in T,
           \A q \in Revision \ T : h[q] = f[q]
    PROVE  Cardinality({row \in Rows(h) : row[1] \notin T \ {r}}) =
           Cardinality({row \in Rows(f) : row[1] \notin T}) + h[r]
<1> DEFINE A == {row \in Rows(f) : row[1] \notin T}
           B == {r} \X (1..h[r])
           D == {row \in Rows(h) : row[1] \notin T \ {r}}
<1>1. D = A \cup B
  <2>1. \A row \in D : row \in A \cup B
    BY DEF Rows
  <2>2. \A row \in A : row \in D
    BY DEF Rows
  <2>3. \A row \in B : row \in D
    BY DocumentsAssumption DEF Rows
  <2>. QED BY <2>1, <2>2, <2>3
<1>2. A \cap B = {}
  OBVIOUS
<1>3. IsFiniteSet(A) /\ Cardinality(A) \in Nat
  BY RowsAreFinite
<1>4. IsFiniteSet(B) /\ Cardinality(B) = h[r]
  BY RowsOfOne
<1>5. Cardinality(A \cap B) = 0
  BY <1>2, FS_EmptySet
<1> HIDE DEF A, B, D
<1>6. Cardinality(D) = Cardinality(A) + Cardinality(B) - Cardinality(A \cap B)
  BY <1>1, <1>3, <1>4, FS_Union
<1>7. h[r] \in Nat
  BY DocumentsAssumption
<1>8. Cardinality(D) = Cardinality(A) + h[r]
  BY <1>3, <1>4, <1>5, <1>6, <1>7
<1>. QED BY <1>8 DEF A, D

-----------------------------------------------------------------------------
(* What no step takes back, and what it leaves to the commands that did    *)
(* not make it.                                                            *)

Onward ==
    /\ DocInv /\ DocInv' /\ Stand /\ Final
    /\ occurrence \subseteq occurrence'
    /\ \A s \in ChunkSet : setState[s] # "absent" => setState'[s] # "absent"
    /\ \A s \in ChunkSet, r \in Revision :
          \/ chunks'[s][r] = chunks[s][r]
          \/ r \in Chunked(s) \ Uncuttable /\ chunks'[s][r] = Cut[r]

LEMMA RecordedStay ==
    ASSUME Onward
    PROVE  Recorded \subseteq Recorded'
BY DEF Onward, Stand, DocInv, DocTypeOK, Recorded

LEMMA ReadableLasts ==
    ASSUME Onward, NEW w, w.eligible \cup w.todo \subseteq Revision, Readable(w)
    PROVE  Readable(w)'
<1>1. Recorded \subseteq Recorded'
  BY RecordedStay
<1>2. \A r \in Revision : disposition[r] = "accepted" => disposition'[r] = "accepted"
  BY DEF Onward, Stand, Undecided
<1>. QED BY <1>1, <1>2 DEF Readable

LEMMA GroupedLasts ==
    ASSUME Onward, NEW s \in SUBSET Revision, Grouped(s)
    PROVE  Grouped(s)'
<1>1. ASSUME NEW g \in NearGroups(s) PROVE near'[g] = g
  BY GroupsAreGroups DEF Grouped, Onward, Stand
<1>. QED BY <1>1 DEF Grouped

LEMMA SettledLasts ==
    ASSUME Onward, NEW s \in SUBSET Revision, NEW q \in Chunked(s), NEW refused,
           Settled(s, q, refused)
    PROVE  Settled(s, q, refused)'
<1>1. q \in Revision /\ s \in ChunkSet
  BY EachIsPrepared, PreparationAssumption
<1>. QED BY <1>1 DEF Onward, Settled

(* Nobody records other chunks of a revision that is settled. *)
LEMMA CountLasts ==
    ASSUME Onward, ChunksKept, NEW s \in SUBSET Revision, NEW T \in SUBSET Revision, NEW refused,
           refused \subseteq Unreadable \cup Uncuttable,
           \A q \in Chunked(s) \ T : Settled(s, q, refused),
           NEW n, Counted(s, T, n)
    PROVE  Counted(s, T, n)'
<1>0. s \in ChunkSet /\ Chunked(s) \subseteq s \ Unreadable
  BY EachIsPrepared, PreparationAssumption
<1>1. ASSUME NEW r \in Revision \ T PROVE chunks'[s][r] = chunks[s][r]
  <2>1. CASE r \in Chunked(s) \ Uncuttable
    <3>1. chunks[s][r] = Cut[r]
      BY <1>0, <2>1 DEF Settled
    <3>. QED BY <1>0, <3>1 DEF Onward
  <2>2. CASE r \notin Chunked(s) \ Uncuttable
    BY <1>0, <2>2 DEF Onward
  <2>. QED BY <2>1, <2>2
<1>2. {row \in Rows(chunks'[s]) : row[1] \notin T} = {row \in Rows(chunks[s]) : row[1] \notin T}
  BY <1>1 DEF Rows
<1>. QED BY <1>2 DEF Counted, RowsBut, Rows

LEMMA PrepKeptLasts ==
    ASSUME Onward, ChunksKept, NEW v \in PrepState, PrepKept(v)
    PROVE  PrepKept(v)'
<1>1. v.eligible \in SUBSET Revision /\ v.todo \in SUBSET Revision /\ v.pending \in SUBSET Revision
  BY DEF PrepState
<1>2. v.eligible \in ChunkSet
  BY <1>1, PreparationAssumption
<1>3. Readable(v)'
  BY <1>1, ReadableLasts DEF PrepKept
<1>4. v.at \in Begun => setState'[v.eligible] # "absent"
  BY <1>2 DEF PrepKept, Onward
<1>5. v.at \in {"group", "resume", "chunk"} => Listed(v.eligible)'
  BY DEF PrepKept, Onward, Listed
<1>6. v.at \in {"group", "resume", "chunk"} =>
         /\ v.eligible \cap Unreadable \subseteq v.refused
         /\ v.refused \subseteq Unreadable \cup Uncuttable
  BY DEF PrepKept
<1>7. v.at \in {"resume", "chunk"} => Grouped(v.eligible)'
  BY <1>1, GroupedLasts DEF PrepKept
<1>8. ASSUME v.at = "chunk"
       PROVE  /\ v.pending \subseteq Chunked(v.eligible)
              /\ \A q \in Chunked(v.eligible) \ v.pending : Settled(v.eligible, q, v.refused)'
              /\ Counted(v.eligible, v.pending, v.chunks)'
  <2>1. /\ v.pending \subseteq Chunked(v.eligible)
        /\ \A q \in Chunked(v.eligible) \ v.pending : Settled(v.eligible, q, v.refused)
        /\ Counted(v.eligible, v.pending, v.chunks)
    BY <1>8 DEF PrepKept
  <2>2. \A q \in Chunked(v.eligible) \ v.pending : Settled(v.eligible, q, v.refused)'
    BY <1>1, <2>1, SettledLasts
  <2>3. Counted(v.eligible, v.pending, v.chunks)'
    BY <1>1, <1>6, <1>8, <2>1, CountLasts
  <2>. QED BY <2>1, <2>2, <2>3
<1>. QED BY <1>3, <1>4, <1>5, <1>6, <1>7, <1>8 DEF PrepKept

LEMMA ElementsOf ==
    ASSUME NEW S, NEW q \in Seq(S)
    PROVE  \A n \in 1..Len(q) : q[n] \in S
OBVIOUS

(* The lines of a release, as an import reads them. *)
LEMMA LinesOfImport ==
    ASSUME PreparationInv, NEW i \in Importer
    PROVE  /\ Len(imp[i].release) \in Nat /\ imp[i].line \in Nat
           /\ DOMAIN imp[i].release = 1..Len(imp[i].release)
           /\ \A n \in 1..Len(imp[i].release) :
                 /\ imp[i].release[n].revision \in Revision
                 /\ imp[i].release[n].source \in Source
           /\ \A n \in imp[i].imported : n \in 1..Len(imp[i].release)
<1>1. ImportKept(imp[i]) /\ imp[i].release \in Release \cup {NoRelease} /\ imp[i].line \in Nat
  BY DEF PreparationInv, ImportTypes, ImportState
<1>2. NoRelease \in Seq([source : Source, revision : Revision])
  BY DEF NoRelease
<1>3. Release \subseteq Seq([source : Source, revision : Revision])
  BY PreparationAssumption
<1>4. PICK release \in Seq([source : Source, revision : Revision]) : release = imp[i].release
  BY <1>1, <1>2, <1>3
<1>5. Len(release) \in Nat /\ DOMAIN release = 1..Len(release)
  OBVIOUS
<1>6. \A n \in 1..Len(release) : release[n] \in [source : Source, revision : Revision]
  BY ElementsOf
<1>7. \A n \in 1..Len(release) : release[n].revision \in Revision /\ release[n].source \in Source
  BY <1>6
<1>8. imp[i].line \in 1..(Len(release) + 1) /\ \A n \in imp[i].imported : n \in 1..(imp[i].line - 1)
  BY <1>1, <1>4 DEF ImportKept
<1>9. \A n \in imp[i].imported : n \in 1..Len(release)
  BY <1>1, <1>5, <1>8
<1>. QED BY <1>1, <1>4, <1>5, <1>7, <1>9

LEMMA ImportKeptLasts ==
    ASSUME PreparationInv, Onward, NEW i \in Importer, imp'[i] = imp[i]
    PROVE  ImportKept(imp[i])'
<1>1. ImportKept(imp[i])
  BY DEF PreparationInv
<1>2. \A n \in imp[i].imported : imp[i].release[n].revision \in Revision
  BY LinesOfImport
<1>3. \A n : Shared(imp'[i].release, n) <=> Shared(imp[i].release, n)
  BY DEF Shared
<1>. QED BY <1>1, <1>2, <1>3 DEF ImportKept, Onward, Stand

LEMMA GateKeptLasts ==
    ASSUME PreparationInv, Onward, NEW g \in Gate, gate'[g] = gate[g]
    PROVE  GateKept(gate[g])'
<1>1. GateKept(gate[g]) /\ gate[g] \in GateState
  BY DEF PreparationInv, GateTypes
<1>2. gate[g].frozen \in SUBSET Revision
  BY <1>1 DEF GateState
<1>. QED BY <1>1, <1>2, RecordedStay DEF GateKept, Onward, Stand

(* A complete set is what it was. *)
Completed(s) ==
    /\ Listed(s) /\ Grouped(s)
    /\ s \cap Unreadable \subseteq manifest[s].refused
    /\ manifest[s].refused \subseteq Unreadable \cup Uncuttable
    /\ \A q \in Chunked(s) : Settled(s, q, manifest[s].refused)
    /\ Counted(s, {}, manifest[s].chunks)

LEMMA CompletedLasts ==
    ASSUME Onward, NEW s \in ChunkSet, setState[s] = "complete", Completed(s)
    PROVE  Completed(s)'
<1>1. chunks'[s] = chunks[s] /\ manifest'[s] = manifest[s]
  BY DEF Onward, Final
<1>2. Grouped(s)'
  BY GroupedLasts, PreparationAssumption DEF Completed
<1>3. Listed(s)'
  BY DEF Completed, Listed, Onward
<1>. QED BY <1>1, <1>2, <1>3 DEF Completed, Settled, Counted, RowsBut

(* The step of a command: what it must show of itself. *)
LEMMA CommandStep ==
    ASSUME PreparationInv, Onward,
           ImportTypes', GateTypes', PrepTypes', completions' \in Nat,
           gated' \subseteq SUBSET Revision, prepared' \subseteq SUBSET Revision,
           ChunksKept', NearKept',
           \A s \in ChunkSet : setState'[s] # "absent" /\ setState[s] = "absent" =>
              /\ s \subseteq Recorded \ Failed /\ Separate(s)
              /\ \A r \in s : disposition[r] = "accepted",
           \A s \in ChunkSet : setState'[s] = "complete" /\ setState[s] # "complete" => Completed(s)',
           \A frozen \in gated' \ gated : \A r \in frozen : disposition'[r] # Undecided,
           \A i \in Importer : imp'[i] = imp[i] \/ ImportKept(imp[i])',
           \A g \in Gate : gate'[g] = gate[g] \/ GateKept(gate[g])',
           \A p \in Preparer : prep'[p] = prep[p] \/ PrepKept(prep[p])'
    PROVE  PreparationInv'
<1>1. Recorded \subseteq Recorded' /\ Recorded \subseteq Revision
  BY RecordedStay DEF Recorded
<1>2. CutFromEligible'
  <2> SUFFICES ASSUME NEW s \in ChunkSet, setState'[s] # "absent"
               PROVE  /\ \A r \in s : r \in Recorded' /\ disposition'[r] = "accepted" /\ r \notin Failed
                      /\ \A r, q \in s : DocOf[r] = DocOf[q] => r = q
    BY DEF CutFromEligible
  <2>1. /\ \A r \in s : r \in Recorded /\ disposition[r] = "accepted" /\ r \notin Failed
        /\ \A r, q \in s : DocOf[r] = DocOf[q] => r = q
    BY DEF PreparationInv, CutFromEligible, Separate
  <2>. QED BY <1>1, <2>1 DEF Onward, Stand, Undecided
<1>3. CompleteKept'
  <2> SUFFICES ASSUME NEW s \in ChunkSet, setState'[s] = "complete" PROVE Completed(s)'
    BY DEF CompleteKept, Completed
  <2>1. CASE setState[s] = "complete"
    BY <2>1, CompletedLasts DEF PreparationInv, CompleteKept, Completed
  <2>. QED BY <2>1
<1>4. GatedIsDecided'
  <2> SUFFICES ASSUME NEW frozen \in gated', NEW r \in frozen PROVE disposition'[r] # Undecided
    BY DEF GatedIsDecided
  <2>1. CASE frozen \in gated
    BY <2>1 DEF PreparationInv, GatedIsDecided, Onward, Stand
  <2>. QED BY <2>1
<1>5. ASSUME NEW p \in Preparer, prep'[p] = prep[p] PROVE PrepKept(prep[p])'
  <2>1. PICK v \in PrepState : v = prep[p]
    BY DEF PreparationInv, PrepTypes
  <2>2. PrepKept(v)'
    BY <2>1, PrepKeptLasts DEF PreparationInv
  <2>. QED BY <1>5, <2>1, <2>2 DEF PrepKept
<1>. QED BY <1>2, <1>3, <1>4, <1>5, ImportKeptLasts, GateKeptLasts
         DEF PreparationInv, Onward

-----------------------------------------------------------------------------
(* Import and the gate: they write no chunk set, and no duplicate.         *)

LEMMA QuietStep ==
    ASSUME PreparationInv, [DocNext]_docVars, UNCHANGED <<duplicateVars, setVars>>
    PROVE  /\ Onward /\ ChunksKept' /\ NearKept'
           /\ setState' = setState
<1>1. DocInv /\ DocInv' /\ Stand /\ Final
  BY DocStep DEF PreparationInv
<1>2. occurrence' = occurrence /\ near' = near /\ setState' = setState /\ chunks' = chunks
      /\ manifest' = manifest
  BY DEF duplicateVars, setVars
<1>3. Onward
  BY <1>1, <1>2 DEF Onward
<1>4. ChunksKept' /\ NearKept'
  BY <1>2 DEF PreparationInv, ChunksKept, NearKept
<1>. QED BY <1>2, <1>3, <1>4

LEMMA ImportMoves ==
    ASSUME PreparationInv, NEW i \in Importer, [DocNext]_docVars, UNCHANGED <<duplicateVars, setVars>>,
           NEW w \in ImportState, ImportStep(i, w), completions' \in Nat, ImportKept(w)'
    PROVE  PreparationInv'
<1>1. /\ Onward /\ ChunksKept' /\ NearKept' /\ setState' = setState
  BY QuietStep
<1>2. /\ imp' = [imp EXCEPT ![i] = w] /\ imp \in [Importer -> ImportState]
      /\ gate' = gate /\ gated' = gated /\ prep' = prep /\ prepared' = prepared
  BY DEF ImportStep, PreparationInv, ImportTypes
<1>3. ImportTypes' /\ GateTypes' /\ PrepTypes'
  BY <1>2 DEF PreparationInv, ImportTypes, GateTypes, PrepTypes
<1>4. \A j \in Importer : imp'[j] = imp[j] \/ ImportKept(imp[j])'
  BY <1>2 DEF ImportKept
<1>5. gated' \subseteq SUBSET Revision /\ prepared' \subseteq SUBSET Revision
  BY <1>2 DEF PreparationInv
<1>. QED BY <1>1, <1>2, <1>3, <1>4, <1>5, CommandStep

(* An import that stays at its line, and one that goes on to the next. *)
LEMMA ImportRests ==
    ASSUME PreparationInv, Onward, NEW i \in Importer, NEW w \in ImportState,
           w.release = imp[i].release, w.line = imp[i].line, w.imported = imp[i].imported,
           w.at \in {"store", "record"} => w.line <= Len(w.release)
    PROVE  ImportKept(w)'
<1>1. ImportKept(imp[i])
  BY DEF PreparationInv
<1>2. \A n \in imp[i].imported : imp[i].release[n].revision \in Revision
  BY LinesOfImport
<1>. QED BY <1>1, <1>2 DEF ImportKept, Onward, Stand

LEMMA ImportGoesOn ==
    ASSUME PreparationInv, Onward, NEW i \in Importer, NEW w \in ImportState,
           imp[i].line <= Len(imp[i].release),
           w.at = "line", w.release = imp[i].release, w.line = imp[i].line + 1,
           \/ w.imported = imp[i].imported
           \/ /\ w.imported = imp[i].imported \cup {imp[i].line}
              /\ Shared(imp[i].release, imp[i].line) => disposition'[RevisionOf(i)] # Undecided
    PROVE  ImportKept(w)'
<1>1. ImportKept(imp[i])
  BY DEF PreparationInv
<1>2. Len(imp[i].release) \in Nat /\ imp[i].line \in Nat
  BY LinesOfImport
<1>3. \A n \in imp[i].imported : imp[i].release[n].revision \in Revision
  BY LinesOfImport
<1>4. w.line \in 1..(Len(w.release) + 1) /\ imp[i].line \in 1..(w.line - 1)
  BY <1>1, <1>2 DEF ImportKept
<1>5. \A n \in imp[i].imported : n \in 1..(w.line - 1)
  BY <1>1, <1>2 DEF ImportKept
<1>6. \A n \in w.imported : n \in 1..(w.line - 1)
  BY <1>4, <1>5
<1>7. \A n \in imp[i].imported :
         Shared(w.release, n) => disposition'[w.release[n].revision] # Undecided
  BY <1>1, <1>3 DEF ImportKept, Onward, Stand
<1>8. \A n \in w.imported :
         Shared(w.release, n) => disposition'[w.release[n].revision] # Undecided
  BY <1>7 DEF RevisionOf, LineOf
<1>. QED BY <1>4, <1>6, <1>8 DEF ImportKept

(* Every step of an import. *)
LEMMA ImportKeeps ==
    ASSUME PreparationInv, NEW i \in Importer, Import(i)
    PROVE  PreparationInv' /\ [DocNext]_docVars
<1>0. imp \in [Importer -> ImportState] /\ imp[i] \in ImportState /\ completions \in Nat
  BY DEF PreparationInv, ImportTypes
<1>1. PICK v \in ImportState : v = imp[i]
  BY <1>0
<1>2. /\ Len(v.release) \in Nat /\ v.line \in Nat /\ v.imported \in SUBSET Nat
      /\ v.release \in Release \cup {NoRelease}
      /\ v.line <= Len(v.release) => RevisionOf(i) \in Revision /\ LineOf(i).source \in Source
      /\ v.at \in {"store", "record"} => v.line <= Len(v.release)
  <2>1. Len(v.release) \in Nat /\ v.line \in Nat
    BY <1>1, LinesOfImport
  <2>2. v.line \in 1..(Len(v.release) + 1) /\ (v.at \in {"store", "record"} => v.line <= Len(v.release))
    BY <1>1 DEF PreparationInv, ImportKept
  <2>3. v.line <= Len(v.release) => v.line \in 1..Len(v.release)
    BY <2>1, <2>2
  <2>4. v.line <= Len(v.release) => RevisionOf(i) \in Revision /\ LineOf(i).source \in Source
    BY <1>1, <2>3, LinesOfImport DEF RevisionOf, LineOf
  <2>. QED BY <2>1, <2>2, <2>4 DEF ImportState
<1> DEFINE Stays(w) == /\ w.release = v.release /\ w.line = v.line /\ w.imported = v.imported
                       /\ w.at \in {"store", "record"} => v.line <= Len(v.release)
           Goes(w, n) == /\ w.at = "line" /\ w.release = v.release /\ w.line = v.line + 1
                         /\ w.imported = v.imported \cup n
<1>3. ASSUME [DocNext]_docVars, UNCHANGED <<duplicateVars, setVars>>, completions' \in Nat,
             NEW w \in ImportState, ImportStep(i, w), Stays(w)
      PROVE  PreparationInv'
  <2>1. ImportKept(w)'
    BY <1>1, <1>3, QuietStep, ImportRests
  <2>. QED BY <1>3, <2>1, ImportMoves
<1>4. ASSUME [DocNext]_docVars, UNCHANGED <<duplicateVars, setVars>>, completions' \in Nat,
             v.line <= Len(v.release), NEW n \in SUBSET {v.line}, 
             NextLine(i, n # {}),
             n # {} => (Shared(v.release, v.line) => disposition'[RevisionOf(i)] # Undecided)
      PROVE  PreparationInv'
  <2>0. /\ v.imported \cup n \in SUBSET Nat /\ v.line + 1 \in Nat
        /\ v.imported \cup n = IF n # {} THEN v.imported \cup {v.line} ELSE v.imported
    BY <1>2
  <2>1. PICK w \in ImportState : w = [v EXCEPT !.at = "line", !.line = @ + 1, !.imported = v.imported \cup n]
    BY <2>0 DEF ImportState
  <2>2. Goes(w, n)
    BY <2>1 DEF ImportState
  <2>3. w = [imp[i] EXCEPT !.at = "line", !.line = @ + 1,
                           !.imported = IF n # {} THEN @ \cup {imp[i].line} ELSE @]
    BY <1>1, <2>0, <2>1
  <2>4. ImportStep(i, w)
    BY <1>4, <2>3 DEF NextLine
  <2>5. \/ w.imported = v.imported
        \/ w.imported = v.imported \cup {v.line} /\ n # {}
    BY <2>2
  <2>6. ImportKept(w)'
    BY <1>1, <1>4, <2>2, <2>5, QuietStep, ImportGoesOn
  <2>. QED BY <1>4, <2>4, <2>6, ImportMoves
<1>5. ASSUME UNCHANGED docVars PROVE [DocNext]_docVars /\ UNCHANGED <<duplicateVars, setVars>>
  BY <1>5 DEF docVars, duplicateVars, setVars
<1>6. ASSUME v.line <= Len(v.release), RecordDisposition(RevisionOf(i), "held")
      PROVE  /\ [DocNext]_docVars /\ UNCHANGED <<duplicateVars, setVars>>
             /\ disposition'[RevisionOf(i)] # Undecided
  <2>1. RevisionOf(i) \in Revision /\ "held" \in Outcome
    BY <1>2, <1>6 DEF Outcome
  <2>2. DocNext
    BY <1>6, <2>1 DEF DocNext
  <2>3. disposition'[RevisionOf(i)] # Undecided
    BY <1>6, <2>1 DEF RecordDisposition, DecideOnce, Undecided, qualityVars, PreparationInv, DocInv, DocTypeOK
  <2>. QED BY <1>6, <2>2, <2>3 DEF RecordDisposition
<1>7. CASE BeginImport(i)
  <2>1. PICK release \in Release :
           ImportStep(i, [IdleImport EXCEPT !.at = "declare", !.release = release])
    BY <1>7 DEF BeginImport
  <2>2. PICK w \in ImportState : w = [IdleImport EXCEPT !.at = "declare", !.release = release]
    BY DEF ImportState, IdleImport
  <2>3. w.at = "declare" /\ w.line = 1 /\ w.imported = {} /\ w.release = release
    BY <2>2 DEF IdleImport
  <2>4. Len(release) \in Nat
    BY PreparationAssumption
  <2>5. ImportKept(w)'
    BY <2>3, <2>4 DEF ImportKept
  <2>6. UNCHANGED docVars /\ completions' = completions
    BY <1>7 DEF BeginImport
  <2>. QED BY <1>0, <1>5, <2>1, <2>2, <2>5, <2>6, ImportMoves
<1>8. CASE ImportDeclares(i)
  <2>1. PICK w \in ImportState : w = [v EXCEPT !.at = "line"]
    BY <1>2 DEF ImportState
  <2>2. Stays(w) /\ ImportStep(i, w)
    BY <1>1, <1>8, <2>1 DEF ImportState, ImportDeclares
  <2>3. Declare /\ completions' = completions
    BY <1>8 DEF ImportDeclares
  <2>4. DocNext /\ UNCHANGED <<duplicateVars, setVars>>
    BY <2>3 DEF DocNext, Declare
  <2>. QED BY <1>0, <1>3, <2>2, <2>3, <2>4
<1>9. CASE RefuseLine(i)
  <2>1. v.line <= Len(v.release) /\ NextLine(i, {} # {}) /\ UNCHANGED docVars /\ completions' = completions
    BY <1>1, <1>9 DEF RefuseLine, AtLine
  <2>. QED BY <1>0, <1>4, <1>5, <2>1
<1>10. CASE ImportFinds(i)
  <2>0. v.line <= Len(v.release) /\ completions' = completions
    BY <1>1, <1>10 DEF ImportFinds, AtLine
  <2>1. CASE NextLine(i, FALSE) /\ UNCHANGED docVars
    <3>1. NextLine(i, {} # {})
      BY <2>1
    <3>. QED BY <1>0, <1>4, <1>5, <2>0, <2>1, <3>1
  <2>2. CASE ~Shared(v.release, v.line) /\ UNCHANGED docVars /\ NextLine(i, TRUE)
    <3>1. NextLine(i, {v.line} # {})
      BY <2>2
    <3>. QED BY <1>0, <1>4, <1>5, <2>0, <2>2, <3>1
  <2>3. CASE RecordDisposition(RevisionOf(i), "held") /\ NextLine(i, TRUE)
    <3>1. NextLine(i, {v.line} # {})
      BY <2>3
    <3>. QED BY <1>0, <1>4, <1>6, <2>0, <2>3, <3>1
  <2>. QED BY <1>1, <1>10, <2>1, <2>2, <2>3 DEF ImportFinds
<1>11. CASE ImportMisses(i)
  <2>1. PICK w \in ImportState : w = [v EXCEPT !.at = "store"]
    BY <1>2 DEF ImportState
  <2>2. Stays(w) /\ ImportStep(i, w)
    BY <1>1, <1>11, <2>1 DEF ImportState, ImportMisses, AtLine
  <2>3. UNCHANGED docVars /\ completions' = completions
    BY <1>11 DEF ImportMisses
  <2>. QED BY <1>0, <1>3, <1>5, <2>2, <2>3
<1>12. CASE ImportStores(i)
  <2>0. v.line <= Len(v.release) /\ completions' = completions
    BY <1>1, <1>2, <1>12 DEF ImportStores
  <2>1. CASE /\ RecordDocument(DocOf[RevisionOf(i)], LineOf(i).source)
             /\ ImportStep(i, [imp[i] EXCEPT !.at = "record"])
    <3>1. PICK w \in ImportState : w = [v EXCEPT !.at = "record"]
      BY <1>2 DEF ImportState
    <3>2. Stays(w) /\ ImportStep(i, w)
      BY <1>1, <2>0, <2>1, <3>1 DEF ImportState
    <3>3. DocOf[RevisionOf(i)] \in Document /\ LineOf(i).source \in Source
      BY <1>2, <2>0, DocumentsAssumption
    <3>4. DocNext /\ UNCHANGED <<duplicateVars, setVars>>
      BY <2>1, <3>3 DEF DocNext, RecordDocument
    <3>. QED BY <1>0, <1>3, <2>0, <3>2, <3>4
  <2>2. CASE NextLine(i, FALSE) /\ UNCHANGED docVars
    <3>1. NextLine(i, {} # {})
      BY <2>2
    <3>. QED BY <1>0, <1>4, <1>5, <2>0, <2>2, <3>1
  <2>. QED BY <1>12, <2>1, <2>2 DEF ImportStores
<1>13. CASE ImportRecords(i)
  <2>0. v.line <= Len(v.release) /\ completions' = completions /\ NextLine(i, {v.line} # {})
    BY <1>1, <1>2, <1>13 DEF ImportRecords
  <2>1. RevisionOf(i) \in Revision /\ "held" \in Outcome
    BY <1>2, <2>0 DEF Outcome
  <2>2. CASE Shared(v.release, v.line)
    <3>1. RecordRevisionWithDisposition(RevisionOf(i), "held")
      BY <1>1, <1>13, <2>2 DEF ImportRecords
    <3>2. DocNext /\ UNCHANGED <<duplicateVars, setVars>>
      BY <2>1, <3>1 DEF DocNext, RecordRevisionWithDisposition
    <3>3. disposition'[RevisionOf(i)] # Undecided
      BY <2>1, <3>1 DEF RecordRevisionWithDisposition, DecideOnce, Undecided, qualityVars,
                        PreparationInv, DocInv, DocTypeOK
    <3>. QED BY <1>0, <1>4, <2>0, <3>2, <3>3
  <2>3. CASE ~Shared(v.release, v.line)
    <3>1. RecordRevision(RevisionOf(i))
      BY <1>1, <1>13, <2>3 DEF ImportRecords
    <3>2. DocNext /\ UNCHANGED <<duplicateVars, setVars>>
      BY <2>1, <3>1 DEF DocNext, RecordRevision
    <3>. QED BY <1>0, <1>4, <2>0, <2>3, <3>2
  <2>. QED BY <2>2, <2>3
<1>14. CASE ImportCompletes(i) \/ ImportStops(i)
  <2>1. PICK w \in ImportState : w = [v EXCEPT !.at = "done"]
    BY <1>2 DEF ImportState
  <2>2. Stays(w) /\ ImportStep(i, w)
    BY <1>1, <1>14, <2>1 DEF ImportState, ImportCompletes, ImportStops
  <2>3. UNCHANGED docVars /\ completions' \in Nat
    BY <1>0, <1>14 DEF ImportCompletes, ImportStops
  <2>. QED BY <1>0, <1>3, <1>5, <2>2, <2>3
<1>. QED BY <1>7, <1>8, <1>9, <1>10, <1>11, <1>12, <1>13, <1>14 DEF Import

LEMMA GateMoves ==
    ASSUME PreparationInv, NEW g \in Gate, [DocNext]_docVars, UNCHANGED <<duplicateVars, setVars>>,
           NEW w \in GateState, GateStep(g, w), GateKept(w)',
           gated' \subseteq SUBSET Revision,
           \A frozen \in gated' \ gated : \A r \in frozen : disposition'[r] # Undecided
    PROVE  PreparationInv'
<1>1. /\ Onward /\ ChunksKept' /\ NearKept' /\ setState' = setState
  BY QuietStep
<1>2. /\ gate' = [gate EXCEPT ![g] = w] /\ gate \in [Gate -> GateState]
      /\ imp' = imp /\ completions' = completions /\ prep' = prep /\ prepared' = prepared
  BY DEF GateStep, PreparationInv, GateTypes
<1>3. ImportTypes' /\ GateTypes' /\ PrepTypes' /\ completions' \in Nat
  BY <1>2 DEF PreparationInv, ImportTypes, GateTypes, PrepTypes
<1>4. \A h \in Gate : gate'[h] = gate[h] \/ GateKept(gate[h])'
  BY <1>2 DEF GateKept
<1>5. prepared' \subseteq SUBSET Revision
  BY <1>2 DEF PreparationInv
<1>. QED BY <1>1, <1>2, <1>3, <1>4, <1>5, CommandStep

(* Every step of a gate. *)
LEMMA QualityKeeps ==
    ASSUME PreparationInv, NEW g \in Gate, Quality(g)
    PROVE  PreparationInv' /\ [DocNext]_docVars
<1>0. /\ gate \in [Gate -> GateState] /\ gate[g] \in GateState /\ GateKept(gate[g])
      /\ gated \subseteq SUBSET Revision
  BY DEF PreparationInv, GateTypes
<1>1. PICK v \in GateState : v = gate[g]
  BY <1>0
<1>2. v.frozen \in SUBSET Revision /\ v.todo \in SUBSET Revision /\ v.undecided \in SUBSET Revision
  BY DEF GateState
<1>3. ASSUME UNCHANGED docVars
      PROVE  /\ [DocNext]_docVars /\ UNCHANGED <<duplicateVars, setVars>>
             /\ rowid' = rowid /\ disposition' = disposition
  BY <1>3 DEF docVars, duplicateVars, setVars
<1>4. Recorded \in SUBSET Revision
  BY DEF Recorded
<1>5. CASE GateFreezes(g)
  <2>1. PICK w \in GateState : w = [IdleGate EXCEPT !.at = "submitted", !.frozen = Recorded]
    BY <1>4 DEF GateState, IdleGate
  <2>2. w.at = "submitted" /\ w.frozen = Recorded
    BY <2>1 DEF IdleGate
  <2>3. GateStep(g, w) /\ UNCHANGED docVars /\ gated' = gated
    BY <1>5, <2>1 DEF GateFreezes
  <2>4. GateKept(w)'
    BY <1>3, <2>2, <2>3 DEF GateKept, Recorded
  <2>. QED BY <1>0, <1>3, <2>3, <2>4, GateMoves
<1>6. CASE GateReads(g)
  <2>1. PICK w \in GateState : w = [v EXCEPT !.at = "reading", !.todo = Recorded]
    BY <1>2, <1>4 DEF GateState
  <2>2. w.todo = Recorded /\ w.frozen = v.frozen
    BY <2>1 DEF GateState
  <2>3. GateStep(g, w) /\ UNCHANGED docVars /\ gated' = gated
    BY <1>1, <1>6, <2>1 DEF GateReads
  <2>4. GateKept(w)'
    BY <1>0, <1>1, <1>3, <2>2, <2>3 DEF GateKept, Recorded
  <2>. QED BY <1>0, <1>3, <2>3, <2>4, GateMoves
<1>7. CASE GateLooks(g)
  <2>1. PICK r \in NextRecorded(gate[g].todo) :
           GateStep(g, IF disposition[r] # Undecided
                          THEN [gate[g] EXCEPT !.todo = @ \ {r}]
                          ELSE [gate[g] EXCEPT !.at = "deciding", !.undecided = {r}])
    BY <1>7 DEF GateLooks
  <2>2. r \in v.todo /\ r \in Revision /\ v.at = "reading"
    BY <1>1, <1>2, <1>7 DEF NextRecorded, GateLooks
  <2>3. UNCHANGED docVars /\ gated' = gated
    BY <1>7 DEF GateLooks
  <2>4. CASE disposition[r] # Undecided
    <3>1. v.todo \ {r} \in SUBSET Revision
      BY <1>2
    <3>2. PICK w \in GateState : w = [v EXCEPT !.todo = v.todo \ {r}]
      BY <3>1 DEF GateState
    <3>3. w.todo = v.todo \ {r} /\ w.frozen = v.frozen
      BY <3>2 DEF GateState
    <3>4. GateStep(g, w)
      BY <1>1, <2>1, <2>4, <3>2
    <3>5. GateKept(w)'
      BY <1>0, <1>1, <1>3, <2>2, <2>3, <2>4, <3>3 DEF GateKept, Recorded
    <3>. QED BY <1>0, <1>3, <2>3, <3>4, <3>5, GateMoves
  <2>5. CASE disposition[r] = Undecided
    <3>2. PICK w \in GateState : w = [v EXCEPT !.at = "deciding", !.undecided = {r}]
      BY <1>2, <2>2 DEF GateState
    <3>3. w.todo = v.todo /\ w.frozen = v.frozen
      BY <3>2 DEF GateState
    <3>4. GateStep(g, w)
      BY <1>1, <2>1, <2>5, <3>2
    <3>5. GateKept(w)'
      BY <1>0, <1>1, <1>3, <2>2, <2>3, <3>3 DEF GateKept, Recorded
    <3>. QED BY <1>0, <1>3, <2>3, <3>4, <3>5, GateMoves
  <2>. QED BY <2>4, <2>5
<1>8. CASE GateDecides(g)
  <2>0. PICK r \in v.undecided :
           /\ \E o \in Decisions(r) : RecordDisposition(r, o)
           /\ GateStep(g, [gate[g] EXCEPT !.at = "reading", !.todo = @ \ {r}, !.undecided = {}])
    BY <1>1, <1>8 DEF GateDecides
  <2>1. PICK o \in Decisions(r) : RecordDisposition(r, o)
    BY <2>0
  <2>2. r \in Revision /\ v.at = "deciding" /\ gated' = gated
    BY <1>1, <1>2, <1>8 DEF GateDecides
  <2>3. o \in Outcome
    <3>1. Verdicts[r] \subseteq Outcome
      BY <2>2, PreparationAssumption
    <3>. QED BY <3>1 DEF Decisions, Outcome
  <2>4. DocNext /\ UNCHANGED <<duplicateVars, setVars>>
    BY <2>1, <2>2, <2>3 DEF DocNext, RecordDisposition
  <2>5. disposition'[r] # Undecided
    BY <2>1, <2>2, <2>3 DEF RecordDisposition, DecideOnce, Undecided, Outcome, qualityVars,
                            PreparationInv, DocInv, DocTypeOK
  <2>6. Onward
    BY <2>4, QuietStep
  <2>7. v.todo \ {r} \in SUBSET Revision
    BY <1>2
  <2>8. PICK w \in GateState : w = [v EXCEPT !.at = "reading", !.todo = v.todo \ {r}, !.undecided = {}]
    BY <1>2, <2>7 DEF GateState
  <2>9. w.todo = v.todo \ {r} /\ w.frozen = v.frozen
    BY <2>8 DEF GateState
  <2>10. GateStep(g, w)
    BY <1>1, <2>0, <2>8
  <2>11. \A q \in v.frozen : q \in v.todo \/ disposition'[q] # Undecided
    BY <1>0, <1>1, <1>2, <2>2, <2>6 DEF GateKept, Onward, Stand
  <2>12. v.frozen \subseteq Recorded'
    BY <1>0, <1>1, <2>6, RecordedStay DEF GateKept
  <2>13. GateKept(w)'
    BY <2>5, <2>9, <2>11, <2>12 DEF GateKept
  <2>. QED BY <1>0, <2>2, <2>4, <2>10, <2>13, GateMoves
<1>9. CASE GateSucceeds(g) \/ GateStops(g)
  <2>1. PICK w \in GateState : w = DoneGate
    BY DEF GateState, DoneGate, IdleGate
  <2>2. w.at = "done" /\ w.frozen = {}
    BY <2>1 DEF DoneGate, IdleGate
  <2>3. GateStep(g, w) /\ UNCHANGED docVars
    BY <1>9, <2>1 DEF GateSucceeds, GateStops
  <2>4. GateKept(w)'
    BY <2>2 DEF GateKept
  <2>5. gated' \subseteq SUBSET Revision
    BY <1>0, <1>1, <1>2, <1>9 DEF GateSucceeds, GateStops
  <2>6. \A frozen \in gated' \ gated : \A r \in frozen : disposition'[r] # Undecided
    <3>1. CASE GateSucceeds(g)
      <4>1. v.at = "reading" /\ v.todo = {} /\ gated' = gated \cup {v.frozen}
        BY <1>1, <3>1 DEF GateSucceeds
      <4>2. \A r \in v.frozen : disposition[r] # Undecided
        BY <1>0, <1>1, <4>1 DEF GateKept
      <4>. QED BY <1>3, <2>3, <4>1, <4>2
    <3>2. CASE GateStops(g)
      BY <3>2 DEF GateStops
    <3>. QED BY <1>9, <3>1, <3>2
  <2>. QED BY <1>3, <2>3, <2>4, <2>5, <2>6, GateMoves
<1>. QED BY <1>5, <1>6, <1>7, <1>8, <1>9 DEF Quality

-----------------------------------------------------------------------------
(* Preparation.                                                            *)

LEMMA PrepMoves ==
    ASSUME PreparationInv, NEW p \in Preparer, Onward, NEW w \in PrepState, PrepStep(p, w),
           PrepKept(w)', prepared' \subseteq SUBSET Revision, ChunksKept', NearKept',
           \A s \in ChunkSet : setState'[s] # "absent" /\ setState[s] = "absent" =>
              /\ s \subseteq Recorded \ Failed /\ Separate(s)
              /\ \A r \in s : disposition[r] = "accepted",
           \A s \in ChunkSet : setState'[s] = "complete" /\ setState[s] # "complete" => Completed(s)'
    PROVE  PreparationInv'
<1>1. /\ prep' = [prep EXCEPT ![p] = w] /\ prep \in [Preparer -> PrepState]
      /\ imp' = imp /\ completions' = completions /\ gate' = gate /\ gated' = gated
  BY DEF PrepStep, PreparationInv, PrepTypes
<1>2. ImportTypes' /\ GateTypes' /\ PrepTypes' /\ completions' \in Nat
  BY <1>1 DEF PreparationInv, ImportTypes, GateTypes, PrepTypes
<1>3. \A o \in Preparer : prep'[o] = prep[o] \/ PrepKept(prep[o])'
  BY <1>1 DEF PrepKept
<1>4. gated' \subseteq SUBSET Revision
  BY <1>1 DEF PreparationInv
<1>. QED BY <1>1, <1>2, <1>3, <1>4, CommandStep

(* A step that reads. *)
LEMMA PrepRests ==
    ASSUME PreparationInv, NEW p \in Preparer, UNCHANGED docVars, NEW w \in PrepState,
           PrepStep(p, w), PrepKept(w), prepared' \subseteq SUBSET Revision
    PROVE  PreparationInv'
<1>1. [DocNext]_docVars /\ UNCHANGED <<duplicateVars, setVars>>
  BY DEF docVars, duplicateVars, setVars
<1>2. Onward /\ ChunksKept' /\ NearKept' /\ setState' = setState
  BY <1>1, QuietStep
<1>3. PrepKept(w)'
  BY <1>2, PrepKeptLasts DEF PreparationInv
<1>. QED BY <1>2, <1>3, PrepMoves

(* The latest revisions are of different documents. *)
LEMMA LatestAreSeparate ==
    ASSUME DocInv
    PROVE  Latest \in SUBSET Recorded /\ Separate(Latest)
<1>1. \A r \in Recorded : r \in Revision /\ rowid[r] \in Nat
  BY DEF DocInv, DocTypeOK, Recorded
<1>2. ASSUME NEW r \in Latest, NEW q \in Latest, DocOf[r] = DocOf[q] PROVE r = q
  <2>1. r \in Recorded /\ q \in Recorded /\ rowid[r] <= rowid[q] /\ rowid[q] <= rowid[r]
    BY <1>2 DEF Latest
  <2>2. rowid[r] = rowid[q]
    BY <1>1, <2>1
  <2>. QED BY <2>1, <2>2 DEF DocInv, RecordOrder
<1>. QED BY <1>2 DEF Latest, Separate

(* The steps that read and decide what to prepare, and those that end. *)
LEMMA PrepReadsKeep ==
    ASSUME PreparationInv, NEW p \in Preparer,
           PrepFreezes(p) \/ PrepReads(p) \/ PrepLooks(p) \/ PrepLeavesOut(p) \/ PrepSucceeds(p)
              \/ PrepStops(p)
    PROVE  PreparationInv' /\ [DocNext]_docVars
<1>0. /\ prep \in [Preparer -> PrepState] /\ prep[p] \in PrepState /\ PrepKept(prep[p])
      /\ prepared \subseteq SUBSET Revision /\ DocInv
  BY DEF PreparationInv, PrepTypes
<1>1. PICK v \in PrepState : v = prep[p]
  BY <1>0
<1>2. /\ v.eligible \in SUBSET Revision /\ v.todo \in SUBSET Revision
      /\ v.frozen \in SUBSET Revision
  BY DEF PrepState
<1>3. Latest \in SUBSET Revision /\ Latest \subseteq Recorded /\ Separate(Latest)
  BY <1>0, LatestAreSeparate DEF Recorded
<1>4. UNCHANGED docVars
  BY DEF PrepFreezes, PrepReads, PrepLooks, PrepLeavesOut, PrepSucceeds, PrepStops
<1>5. ASSUME NEW w \in PrepState, w.eligible = {}, w.todo = {},
             w.at \in {"submitted", "done"}
      PROVE  PrepKept(w)
  BY <1>5 DEF PrepKept, Readable, Separate, Begun
<1>6. CASE PrepFreezes(p)
  <2>1. PICK ids \in SUBSET Revision : ids = {r \in Latest \ Failed : disposition[r] = "accepted"}
    BY <1>3
  <2>2. prepared' = prepared
    BY <1>6 DEF PrepFreezes
  <2>3. CASE ids \in prepared
    <3>1. PICK w \in PrepState : w = DonePrep
      BY DEF PrepState, DonePrep, IdlePrep
    <3>2. w.at = "done" /\ w.eligible = {} /\ w.todo = {}
      BY <3>1 DEF DonePrep, IdlePrep
    <3>3. PrepStep(p, w)
      BY <1>6, <2>1, <2>3, <3>1 DEF PrepFreezes
    <3>. QED BY <1>0, <1>4, <1>5, <2>2, <3>2, <3>3, PrepRests
  <2>4. CASE ids \notin prepared
    <3>1. PICK w \in PrepState : w = [IdlePrep EXCEPT !.at = "submitted", !.frozen = ids]
      BY DEF PrepState, IdlePrep
    <3>2. w.at = "submitted" /\ w.eligible = {} /\ w.todo = {}
      BY <3>1 DEF IdlePrep
    <3>3. PrepStep(p, w)
      BY <1>6, <2>1, <2>4, <3>1 DEF PrepFreezes
    <3>. QED BY <1>0, <1>4, <1>5, <2>2, <3>2, <3>3, PrepRests
  <2>. QED BY <2>3, <2>4
<1>7. CASE PrepReads(p)
  <2>0. Latest \ Failed \in SUBSET Revision
    BY <1>3
  <2>1. PICK w \in PrepState : w = [v EXCEPT !.at = "reading", !.todo = Latest \ Failed]
    BY <2>0 DEF PrepState
  <2>2. w.at = "reading" /\ w.todo = Latest \ Failed /\ w.eligible = v.eligible
    BY <2>1 DEF PrepState
  <2>3. PrepStep(p, w) /\ prepared' = prepared /\ v.at = "submitted"
    BY <1>1, <1>7, <2>1 DEF PrepReads
  <2>4. v.eligible = {}
    BY <1>0, <1>1, <2>3 DEF PrepKept
  <2>5. PrepKept(w)
    BY <1>3, <2>2, <2>4 DEF PrepKept, Readable, Separate, Begun
  <2>. QED BY <1>0, <1>4, <2>3, <2>5, PrepRests
<1>8. CASE PrepLooks(p)
  <2>1. PICK r \in NextRecorded(v.todo) :
           PrepStep(p, [v EXCEPT !.todo = @ \ {r},
                           !.eligible = IF disposition[r] = "accepted" THEN @ \cup {r} ELSE @])
    BY <1>1, <1>8 DEF PrepLooks
  <2>2. r \in v.todo /\ v.at = "reading" /\ prepared' = prepared
    BY <1>1, <1>8 DEF PrepLooks, NextRecorded
  <2>3. PICK e \in SUBSET Revision : e = IF disposition[r] = "accepted" THEN v.eligible \cup {r} ELSE v.eligible
    BY <1>2, <2>2
  <2>4. v.todo \ {r} \in SUBSET Revision
    BY <1>2
  <2>5. PICK w \in PrepState : w = [v EXCEPT !.todo = v.todo \ {r}, !.eligible = e]
    BY <2>4 DEF PrepState
  <2>6. w.todo = v.todo \ {r} /\ w.eligible = e /\ w.at = "reading"
    BY <2>2, <2>5 DEF PrepState
  <2>7. PrepStep(p, w)
    BY <2>1, <2>3, <2>5
  <2>8. Readable(v)
    BY <1>0, <1>1 DEF PrepKept
  <2>9. w.eligible \cup w.todo \subseteq v.eligible \cup v.todo
    BY <2>2, <2>3, <2>6
  <2>10. \A q \in w.eligible : disposition[q] = "accepted"
    BY <2>3, <2>6, <2>8 DEF Readable
  <2>11. PrepKept(w)
    BY <2>6, <2>8, <2>9, <2>10 DEF PrepKept, Readable, Separate, Begun
  <2>. QED BY <1>0, <1>4, <2>2, <2>7, <2>11, PrepRests
<1>9. CASE PrepLeavesOut(p)
  <2>0. Latest \ v.eligible \in SUBSET Revision
    BY <1>3
  <2>1. PICK w \in PrepState : w = [v EXCEPT !.at = "deduplicate", !.leftOut = Latest \ v.eligible]
    BY <2>0 DEF PrepState
  <2>2. w.at = "deduplicate" /\ w.todo = v.todo /\ w.eligible = v.eligible
    BY <2>1 DEF PrepState
  <2>3. PrepStep(p, w) /\ prepared' = prepared /\ v.at = "left_out"
    BY <1>1, <1>9, <2>1 DEF PrepLeavesOut
  <2>4. PrepKept(w)
    BY <1>0, <1>1, <2>2, <2>3 DEF PrepKept, Readable, Begun
  <2>. QED BY <1>0, <1>4, <2>3, <2>4, PrepRests
<1>10. CASE PrepSucceeds(p) \/ PrepStops(p)
  <2>1. PICK w \in PrepState : w = DonePrep
    BY DEF PrepState, DonePrep, IdlePrep
  <2>2. w.at = "done" /\ w.eligible = {} /\ w.todo = {}
    BY <2>1 DEF DonePrep, IdlePrep
  <2>3. PrepStep(p, w)
    BY <1>10, <2>1 DEF PrepSucceeds, PrepStops
  <2>4. prepared' \subseteq SUBSET Revision
    BY <1>0, <1>1, <1>2, <1>10 DEF PrepSucceeds, PrepStops
  <2>. QED BY <1>4, <1>5, <2>2, <2>3, <2>4, PrepRests
<1>. QED BY <1>4, <1>6, <1>7, <1>8, <1>9, <1>10

(* begin_chunk_set, of the revisions found eligible. *)
LEMMA PrepBeginsKeeps ==
    ASSUME PreparationInv, NEW p \in Preparer, PrepBegins(p)
    PROVE  PreparationInv' /\ [DocNext]_docVars
<1>0. /\ prep \in [Preparer -> PrepState] /\ prep[p] \in PrepState /\ PrepKept(prep[p])
      /\ prepared \subseteq SUBSET Revision /\ DocInv /\ ChunksKept /\ NearKept
  BY DEF PreparationInv, PrepTypes
<1>1. PICK v \in PrepState : v = prep[p]
  BY <1>0
<1>2. PICK s \in SUBSET Revision : s = v.eligible
  BY DEF PrepState
<1>3. s \in ChunkSet
  BY PreparationAssumption
<1>4. v.at = "reading" /\ v.todo = {} /\ BeginChunkSet(s) /\ prepared' = prepared
  BY <1>1, <1>2 DEF PrepBegins
<1>5. DocNext
  BY <1>3, <1>4 DEF DocNext
<1>6. DocInv' /\ Stand /\ Final
  BY <1>0, <1>5, DocStep
<1>7. /\ setState' = [setState EXCEPT ![s] = IF @ = "absent" THEN "building" ELSE @]
      /\ occurrence' = occurrence /\ near' = near /\ chunks' = chunks
      /\ setState \in [ChunkSet -> {"absent", "building", "complete", "failed"}]
  BY <1>0, <1>4 DEF BeginChunkSet, duplicateVars, DocInv, DocTypeOK
<1>8. /\ setState'[s] # "absent"
      /\ \A t \in ChunkSet : setState'[t] = setState[t] \/ (t = s /\ setState'[t] = "building")
  BY <1>3, <1>7
<1>9. Onward
  BY <1>0, <1>6, <1>7, <1>8 DEF Onward
<1>10. ChunksKept' /\ NearKept'
  BY <1>0, <1>7 DEF ChunksKept, NearKept
<1>11. Readable(v)
  BY <1>0, <1>1 DEF PrepKept
<1>12. s \subseteq Recorded \ Failed /\ Separate(s) /\ \A r \in s : disposition[r] = "accepted"
  BY <1>2, <1>4, <1>11 DEF Readable, Separate
<1>13. Readable(v)'
  BY <1>1, <1>2, <1>4, <1>9, <1>11, ReadableLasts
<1>14. ASSUME NEW w \in PrepState, PrepStep(p, w), PrepKept(w)'
       PROVE  PreparationInv'
  BY <1>0, <1>4, <1>8, <1>9, <1>10, <1>12, <1>14, PrepMoves
<1>15. ASSUME NEW w \in PrepState, w.eligible = v.eligible, w.todo = v.todo,
              w.at \in {"succeed", "left_out"}
       PROVE  PrepKept(w)'
  BY <1>2, <1>8, <1>13, <1>15 DEF PrepKept, Readable, Begun
<1>16. CASE setState[s] = "failed"
  <2>1. PICK w \in PrepState : w = DonePrep
    BY DEF PrepState, DonePrep, IdlePrep
  <2>2. w.at = "done" /\ w.eligible = {} /\ w.todo = {}
    BY <2>1 DEF DonePrep, IdlePrep
  <2>3. PrepStep(p, w)
    BY <1>1, <1>2, <1>16, <2>1 DEF PrepBegins
  <2>4. PrepKept(w)'
    BY <2>2 DEF PrepKept, Readable, Separate, Begun
  <2>. QED BY <1>5, <1>14, <2>3, <2>4
<1>17. CASE setState[s] = "complete"
  <2>1. PICK w \in PrepState : w = [v EXCEPT !.at = "succeed"]
    BY DEF PrepState
  <2>2. w.at = "succeed" /\ w.eligible = v.eligible /\ w.todo = v.todo
    BY <2>1 DEF PrepState
  <2>3. PrepStep(p, w)
    BY <1>1, <1>2, <1>17, <2>1 DEF PrepBegins
  <2>. QED BY <1>5, <1>14, <1>15, <2>2, <2>3
<1>18. CASE setState[s] \notin {"failed", "complete"}
  <2>1. PICK w \in PrepState : w = [v EXCEPT !.at = "left_out"]
    BY DEF PrepState
  <2>2. w.at = "left_out" /\ w.eligible = v.eligible /\ w.todo = v.todo
    BY <2>1 DEF PrepState
  <2>3. PrepStep(p, w)
    BY <1>1, <1>2, <1>18, <2>1 DEF PrepBegins
  <2>. QED BY <1>5, <1>14, <1>15, <2>2, <2>3
<1>. QED BY <1>16, <1>17, <1>18

(* record_occurrences. *)
LEMMA PrepDeduplicatesKeeps ==
    ASSUME PreparationInv, NEW p \in Preparer, PrepDeduplicates(p)
    PROVE  PreparationInv' /\ [DocNext]_docVars
<1>0. /\ prep \in [Preparer -> PrepState] /\ prep[p] \in PrepState /\ PrepKept(prep[p])
      /\ prepared \subseteq SUBSET Revision /\ DocInv /\ ChunksKept /\ NearKept
  BY DEF PreparationInv, PrepTypes
<1>1. PICK v \in PrepState : v = prep[p]
  BY <1>0
<1>2. PICK s \in SUBSET Revision : s = v.eligible
  BY DEF PrepState
<1>3. v.at = "deduplicate" /\ RecordOccurrences(Places(s)) /\ prepared' = prepared
  BY <1>1, <1>2 DEF PrepDeduplicates
<1>4. Places(s) \in SUBSET (Revision \X Document)
  <2>1. ASSUME NEW r \in s \ Unreadable, NEW q \in Prepares(s, r)
        PROVE  <<q, DocOf[r]>> \in Revision \X Document
    BY EachIsPrepared, DocumentsAssumption
  <2>. QED BY <2>1 DEF Places
<1>5. DocNext
  BY <1>3, <1>4 DEF DocNext
<1>6. DocInv' /\ Stand /\ Final
  BY <1>0, <1>5, DocStep
<1>7. /\ occurrence' = occurrence \cup Places(s)
      /\ near' = near /\ chunks' = chunks /\ setState' = setState
  BY <1>3 DEF RecordOccurrences, setVars
<1>8. Onward
  BY <1>0, <1>6, <1>7 DEF Onward
<1>9. ChunksKept' /\ NearKept'
  BY <1>0, <1>7 DEF ChunksKept, NearKept
<1>10. s \cap Unreadable \in SUBSET Revision
  OBVIOUS
<1>11. PICK w \in PrepState : w = [v EXCEPT !.at = "group", !.refused = s \cap Unreadable]
  BY <1>10 DEF PrepState
<1>12. w.at = "group" /\ w.eligible = s /\ w.todo = v.todo /\ w.refused = s \cap Unreadable
  BY <1>2, <1>11 DEF PrepState
<1>13. PrepStep(p, w)
  BY <1>1, <1>2, <1>11 DEF PrepDeduplicates
<1>14. PrepKept(v)'
  BY <1>0, <1>1, <1>8, PrepKeptLasts
<1>15. Listed(s)'
  BY <1>7 DEF Listed
<1>16. PrepKept(w)'
  BY <1>2, <1>3, <1>12, <1>14, <1>15 DEF PrepKept, Readable, Begun
<1>. QED BY <1>0, <1>3, <1>5, <1>7, <1>8, <1>9, <1>13, <1>16, PrepMoves

(* record_near_duplicates. *)
LEMMA PrepGroupsKeeps ==
    ASSUME PreparationInv, NEW p \in Preparer, PrepGroups(p)
    PROVE  PreparationInv' /\ [DocNext]_docVars
<1>0. /\ prep \in [Preparer -> PrepState] /\ prep[p] \in PrepState /\ PrepKept(prep[p])
      /\ prepared \subseteq SUBSET Revision /\ DocInv /\ ChunksKept /\ NearKept
  BY DEF PreparationInv, PrepTypes
<1>1. PICK v \in PrepState : v = prep[p]
  BY <1>0
<1>2. PICK s \in SUBSET Revision : s = v.eligible
  BY DEF PrepState
<1>3. PICK members : members = [g \in Group |-> IF g \in NearGroups(s) THEN g ELSE {}]
  OBVIOUS
<1>4. v.at = "group" /\ RecordNearDuplicates(members) /\ prepared' = prepared
  BY <1>1, <1>2, <1>3 DEF PrepGroups
<1>5. members \in [Group -> SUBSET Revision]
  BY <1>3, PreparationAssumption
<1>6. DocNext
  BY <1>4, <1>5 DEF DocNext
<1>7. DocInv' /\ Stand /\ Final
  BY <1>0, <1>6, DocStep
<1>8. /\ near' = [g \in Group |-> IF members[g] = {} THEN near[g] ELSE members[g]]
      /\ occurrence' = occurrence /\ chunks' = chunks /\ setState' = setState
  BY <1>4 DEF RecordNearDuplicates, setVars
<1>9. Onward
  BY <1>0, <1>7, <1>8 DEF Onward
<1>10. ChunksKept'
  BY <1>0, <1>8 DEF ChunksKept
<1>11. NearKept'
  BY <1>0, <1>3, <1>8 DEF NearKept
<1>12. Grouped(s)'
  <2>1. ASSUME NEW g \in NearGroups(s) PROVE near'[g] = g
    BY <1>3, <1>8, GroupsAreGroups
  <2>. QED BY <2>1 DEF Grouped
<1>13. PICK w \in PrepState : w = [v EXCEPT !.at = "resume"]
  BY DEF PrepState
<1>14. w.at = "resume" /\ w.eligible = s /\ w.todo = v.todo /\ w.refused = v.refused
  BY <1>2, <1>13 DEF PrepState
<1>15. PrepStep(p, w)
  BY <1>1, <1>2, <1>13 DEF PrepGroups
<1>16. PrepKept(v)'
  BY <1>0, <1>1, <1>9, PrepKeptLasts
<1>17. PrepKept(w)'
  BY <1>2, <1>4, <1>12, <1>14, <1>16 DEF PrepKept, Readable, Begun
<1>. QED BY <1>0, <1>4, <1>6, <1>8, <1>9, <1>10, <1>11, <1>15, <1>17, PrepMoves

(* chunk_all, once it has read what the set holds. *)
LEMMA PrepResumesKeeps ==
    ASSUME PreparationInv, NEW p \in Preparer, PrepResumes(p)
    PROVE  PreparationInv' /\ [DocNext]_docVars
<1>0. /\ prep \in [Preparer -> PrepState] /\ prep[p] \in PrepState /\ PrepKept(prep[p])
      /\ prepared \subseteq SUBSET Revision /\ DocInv /\ ChunksKept
  BY DEF PreparationInv, PrepTypes
<1>1. PICK v \in PrepState : v = prep[p]
  BY <1>0
<1>2. PICK s \in SUBSET Revision : s = v.eligible
  BY DEF PrepState
<1>3. s \in ChunkSet /\ Chunked(s) \subseteq Revision
  BY PreparationAssumption, EachIsPrepared
<1>4. chunks[s] \in [Revision -> 0..MaxChunks] /\ \A r \in Revision : chunks[s][r] \in Nat
  BY <1>0, <1>3, DocumentsAssumption DEF DocInv, DocTypeOK
<1>5. PICK pending \in SUBSET Revision : pending = Chunked(s) \ Done(s)
  BY <1>3
<1>6. PICK n \in Nat : n = Total(s)
  BY RowsAreFinite DEF Total
<1>7. v.at = "resume" /\ UNCHANGED docVars /\ prepared' = prepared
  BY <1>1 DEF PrepResumes
<1>8. PICK w \in PrepState : w = [v EXCEPT !.at = "chunk", !.chunks = n, !.pending = pending]
  BY DEF PrepState
<1>9. /\ w.at = "chunk" /\ w.eligible = s /\ w.todo = v.todo /\ w.refused = v.refused
      /\ w.chunks = n /\ w.pending = pending
  BY <1>2, <1>8 DEF PrepState
<1>10. PrepStep(p, w)
  BY <1>1, <1>2, <1>5, <1>6, <1>8 DEF PrepResumes
<1>11. \A q \in Chunked(s) \ pending : Settled(s, q, v.refused)
  <2>1. ASSUME NEW q \in Chunked(s) \ pending PROVE chunks[s][q] = Cut[q]
    BY <1>0, <1>3, <1>5 DEF Done, ChunksKept
  <2>. QED BY <2>1 DEF Settled
<1>12. Counted(s, pending, n)
  <2>1. ASSUME NEW row \in Rows(chunks[s]) PROVE row[1] \notin pending
    <3>1. row[1] \in Revision /\ row[2] \in 1..MaxChunks /\ row[2] <= chunks[s][row[1]]
      BY DEF Rows
    <3>2. row[2] > 0 /\ row[2] \in Nat
      BY <3>1, DocumentsAssumption
    <3>3. chunks[s][row[1]] > 0
      BY <1>4, <3>1, <3>2
    <3>. QED BY <1>5, <3>1, <3>3 DEF Done
  <2>2. RowsBut(s, pending) = Rows(chunks[s])
    BY <2>1 DEF RowsBut
  <2>. QED BY <1>6, <2>2 DEF Counted, Total
<1>13. PrepKept(w)
  BY <1>0, <1>1, <1>2, <1>5, <1>7, <1>9, <1>11, <1>12 DEF PrepKept, Readable, Begun
<1>. QED BY <1>0, <1>7, <1>10, <1>13, PrepRests

(* One revision, refused or its chunks recorded. *)
LEMMA PrepChunksKeeps ==
    ASSUME PreparationInv, NEW p \in Preparer, PrepChunks(p)
    PROVE  PreparationInv' /\ [DocNext]_docVars
<1>0. /\ prep \in [Preparer -> PrepState] /\ prep[p] \in PrepState /\ PrepKept(prep[p])
      /\ prepared \subseteq SUBSET Revision /\ DocInv /\ ChunksKept /\ NearKept
  BY DEF PreparationInv, PrepTypes
<1>1. PICK v \in PrepState : v = prep[p]
  BY <1>0
<1>2. PICK s \in SUBSET Revision : s = v.eligible
  BY DEF PrepState
<1>3. s \in ChunkSet /\ Chunked(s) \subseteq Revision
  BY PreparationAssumption, EachIsPrepared
<1>4. chunks[s] \in [Revision -> 0..MaxChunks]
  BY SMTT(30), <1>0, <1>3 DEF DocInv, DocTypeOK
<1>5. PICK r \in NextById(v.pending) :
         \/ /\ r \in Uncuttable
            /\ PrepStep(p, [v EXCEPT !.pending = @ \ {r}, !.refused = @ \cup {r}])
            /\ UNCHANGED docVars
         \/ /\ r \notin Uncuttable
            /\ RecordChunks(s, r, Cut[r])
            /\ PrepStep(p, [v EXCEPT !.pending = @ \ {r}, !.chunks = @ + Cut[r]])
  BY <1>1, <1>2 DEF PrepChunks
<1>6. v.at = "chunk" /\ prepared' = prepared
  BY <1>1 DEF PrepChunks
<1>7. PICK T \in SUBSET Revision : T = v.pending
  BY DEF PrepState
<1>8. r \in T /\ r \in Revision /\ T \subseteq Chunked(s) /\ r \in Chunked(s)
  BY <1>0, <1>1, <1>2, <1>5, <1>6, <1>7 DEF NextById, PrepKept
<1>9. /\ \A q \in Chunked(s) \ T : Settled(s, q, v.refused)
      /\ Counted(s, T, v.chunks)
      /\ v.refused \subseteq Unreadable \cup Uncuttable
  BY <1>0, <1>1, <1>2, <1>6, <1>7 DEF PrepKept
<1>10. T \ {r} \in SUBSET Revision /\ v.chunks \in Nat /\ v.refused \in SUBSET Revision
  BY DEF PrepState
<1>11. Cut[r] \in 0..MaxChunks /\ Cut[r] \in Nat
  BY <1>8, PreparationAssumption, DocumentsAssumption
<1>12. CASE /\ r \in Uncuttable
            /\ PrepStep(p, [v EXCEPT !.pending = @ \ {r}, !.refused = @ \cup {r}])
            /\ UNCHANGED docVars
  <2>1. v.refused \cup {r} \in SUBSET Revision
    BY <1>8, <1>10
  <2>2. PICK w \in PrepState : w = [v EXCEPT !.pending = T \ {r}, !.refused = v.refused \cup {r}]
    BY <1>10, <2>1 DEF PrepState
  <2>3. /\ w.at = "chunk" /\ w.eligible = s /\ w.todo = v.todo /\ w.chunks = v.chunks
        /\ w.refused = v.refused \cup {r} /\ w.pending = T \ {r}
    BY <1>2, <1>6, <2>2 DEF PrepState
  <2>4. PrepStep(p, w)
    BY <1>7, <1>12, <2>2
  <2>5. chunks[s][r] = 0
    <3>1. ~(chunks[s][r] > 0)
      BY <1>0, <1>3, <1>8, <1>12 DEF ChunksKept
    <3>2. chunks[s][r] \in Nat
      BY <1>4, <1>8, DocumentsAssumption
    <3>. QED BY <3>1, <3>2
  <2>6. Counted(s, T \ {r}, v.chunks)
    <3>1. Cardinality(RowsBut(s, T \ {r})) = Cardinality(RowsBut(s, T)) + chunks[s][r]
      BY <1>4, <1>8, CountsOneMore DEF RowsBut
    <3>. QED BY <1>9, <1>10, <2>5, <3>1 DEF Counted
  <2>7. \A q \in Chunked(s) \ (T \ {r}) : Settled(s, q, v.refused \cup {r})
    BY <1>9 DEF Settled
  <2>8. PrepKept(w)
    BY <1>0, <1>1, <1>2, <1>6, <1>8, <1>12, <2>3, <2>6, <2>7 DEF PrepKept, Readable, Begun
  <2>. QED BY <1>0, <1>6, <1>12, <2>4, <2>8, PrepRests
<1>13. CASE /\ r \notin Uncuttable
            /\ RecordChunks(s, r, Cut[r])
            /\ PrepStep(p, [v EXCEPT !.pending = @ \ {r}, !.chunks = @ + Cut[r]])
  <2>1. DocNext
    BY <1>3, <1>8, <1>11, <1>13 DEF DocNext
  <2>2. DocInv' /\ Stand /\ Final
    BY <1>0, <2>1, DocStep
  <2>3. /\ chunks' = [chunks EXCEPT ![s][r] = Cut[r]]
        /\ near' = near /\ occurrence' = occurrence /\ setState' = setState
        /\ chunks \in [ChunkSet -> [Revision -> 0..MaxChunks]]
    BY <1>0, <1>13 DEF RecordChunks, duplicateVars, DocInv, DocTypeOK
  <2>4. /\ chunks'[s][r] = Cut[r]
        /\ \A t \in ChunkSet, q \in Revision :
              chunks'[t][q] = chunks[t][q] \/ (t = s /\ q = r)
    BY <1>3, <1>8, <2>3
  <2>5. Onward
    BY <1>0, <1>8, <1>13, <2>2, <2>3, <2>4 DEF Onward
  <2>6. ChunksKept'
    <3>1. ASSUME NEW t \in ChunkSet, NEW q \in Revision, chunks'[t][q] > 0
          PROVE  q \in Chunked(t) \ Uncuttable /\ chunks'[t][q] = Cut[q]
      <4>1. CASE t = s /\ q = r
        BY <1>8, <1>13, <2>4, <4>1
      <4>2. CASE ~(t = s /\ q = r)
        BY <1>0, <2>4, <3>1, <4>2 DEF ChunksKept
      <4>. QED BY <4>1, <4>2
    <3>. QED BY <3>1 DEF ChunksKept
  <2>7. NearKept'
    BY <1>0, <2>3 DEF NearKept
  <2>8. PICK n \in Nat : n = v.chunks + Cut[r]
    BY <1>10, <1>11
  <2>9. PICK w \in PrepState : w = [v EXCEPT !.pending = T \ {r}, !.chunks = n]
    BY <1>10 DEF PrepState
  <2>10. /\ w.at = "chunk" /\ w.eligible = s /\ w.todo = v.todo /\ w.chunks = n
         /\ w.refused = v.refused /\ w.pending = T \ {r}
    BY <1>2, <1>6, <2>9 DEF PrepState
  <2>11. PrepStep(p, w)
    BY <1>7, <1>13, <2>8, <2>9
  <2>12. PICK h \in [Revision -> 0..MaxChunks] : h = chunks'[s]
    BY <1>3, <2>2 DEF DocInv, DocTypeOK
  <2>13. \A q \in Revision \ T : h[q] = chunks[s][q]
    BY <1>3, <1>8, <2>4, <2>12
  <2>14. Cardinality({row \in Rows(h) : row[1] \notin T \ {r}}) =
            Cardinality({row \in Rows(chunks[s]) : row[1] \notin T}) + h[r]
    BY <1>4, <1>8, <2>13, CountsOneMore
  <2>15. Cardinality({row \in Rows(h) : row[1] \notin T \ {r}}) = n
    BY <1>9, <2>4, <2>8, <2>12, <2>14 DEF Counted, RowsBut
  <2>16. Counted(s, T \ {r}, n)'
    BY <2>12, <2>15 DEF Counted, RowsBut, Rows
  <2>17. \A q \in Chunked(s) \ (T \ {r}) : Settled(s, q, v.refused)'
    <3>1. ASSUME NEW q \in Chunked(s) \ T PROVE Settled(s, q, v.refused)'
      BY <1>9, <2>5, <3>1, SettledLasts
    <3>2. Settled(s, r, v.refused)'
      BY <2>4 DEF Settled
    <3>. QED BY <3>1, <3>2
  <2>18. PrepKept(v)'
    BY <1>0, <1>1, <2>5, PrepKeptLasts
  <2>19. PrepKept(w)'
    BY <1>2, <1>6, <1>8, <2>10, <2>16, <2>17, <2>18 DEF PrepKept, Readable, Begun
  <2>. QED BY <1>0, <1>6, <2>1, <2>3, <2>5, <2>6, <2>7, <2>11, <2>19, PrepMoves
<1>. QED BY <1>5, <1>12, <1>13

(* What a set holds fits a manifest. *)
LEMMA CountsFit ==
    ASSUME DocInv, ChunksKept, NEW s \in SUBSET Revision, NEW n, Counted(s, {}, n)
    PROVE  n \in 0..MaxChunks /\ n = Total(s)
<1>1. s \in ChunkSet
  BY PreparationAssumption
<1>2. RowsBut(s, {}) = Rows(chunks[s])
  BY DEF RowsBut
<1>3. \A r \in Revision : chunks[s][r] \in Nat
  BY <1>1, DocumentsAssumption DEF DocInv, DocTypeOK
<1>4. ASSUME NEW row \in Rows(chunks[s]) PROVE row \in Rows(Cut)
  <2>1. row \in Revision \X (1..MaxChunks) /\ row[2] <= chunks[s][row[1]]
    BY DEF Rows
  <2>2. row[1] \in Revision /\ row[2] \in Nat /\ row[2] > 0
    BY <2>1, DocumentsAssumption
  <2>3. chunks[s][row[1]] > 0
    BY <1>3, <2>1, <2>2
  <2>4. chunks[s][row[1]] = Cut[row[1]]
    BY <1>1, <2>2, <2>3 DEF ChunksKept
  <2>. QED BY <2>1, <2>4 DEF Rows
<1>5. Rows(chunks[s]) \in SUBSET Rows(Cut)
  BY <1>4
<1>6. IsFiniteSet(Rows(Cut)) /\ Cardinality(Rows(Cut)) \in Nat /\ Cardinality(Rows(chunks[s])) \in Nat
  BY RowsAreFinite
<1>7. Cardinality(Rows(chunks[s])) <= Cardinality(Rows(Cut))
  BY <1>5, <1>6, FS_Subset
<1>8. Cardinality(Rows(Cut)) <= MaxChunks /\ MaxChunks \in Nat
  BY PreparationAssumption, DocumentsAssumption
<1>9. n = Cardinality(Rows(chunks[s]))
  BY <1>2 DEF Counted
<1>10. n \in 0..MaxChunks
  BY <1>6, <1>7, <1>8, <1>9
<1>. QED BY <1>9, <1>10 DEF Total

(* fail_chunk_set and complete_chunk_set. *)
LEMMA PrepEndsKeep ==
    ASSUME PreparationInv, NEW p \in Preparer, PrepDisagrees(p) \/ PrepCompletes(p)
    PROVE  PreparationInv' /\ [DocNext]_docVars
<1>0. /\ prep \in [Preparer -> PrepState] /\ prep[p] \in PrepState /\ PrepKept(prep[p])
      /\ prepared \subseteq SUBSET Revision /\ DocInv /\ ChunksKept /\ NearKept
  BY DEF PreparationInv, PrepTypes
<1>1. PICK v \in PrepState : v = prep[p]
  BY <1>0
<1>2. PICK s \in SUBSET Revision : s = v.eligible
  BY DEF PrepState
<1>3. s \in ChunkSet /\ setState \in [ChunkSet -> {"absent", "building", "complete", "failed"}]
      /\ manifest \in [ChunkSet -> Manifest \cup {NoManifest}]
  BY <1>0, PreparationAssumption DEF DocInv, DocTypeOK
<1>4. v.at = "chunk" /\ prepared' = prepared
  BY <1>1 DEF PrepDisagrees, PrepCompletes
<1>5. CASE PrepDisagrees(p)
  <2>1. FailChunkSet(s)
    BY <1>1, <1>2, <1>5 DEF PrepDisagrees
  <2>2. DocNext
    BY <1>3, <2>1 DEF DocNext
  <2>3. DocInv' /\ Stand /\ Final
    BY <1>0, <2>2, DocStep
  <2>4. /\ setState' = [setState EXCEPT ![s] = "failed"] /\ setState[s] = "building"
        /\ chunks' = chunks /\ near' = near /\ occurrence' = occurrence
    BY <2>1 DEF FailChunkSet, MayMove, duplicateVars
  <2>5. \A t \in ChunkSet : setState'[t] = setState[t] \/ (t = s /\ setState'[t] = "failed")
    BY <1>3, <2>4
  <2>6. Onward
    BY <1>0, <2>3, <2>4, <2>5 DEF Onward
  <2>7. ChunksKept' /\ NearKept'
    BY <1>0, <2>4 DEF ChunksKept, NearKept
  <2>8. PICK w \in PrepState : w = DonePrep
    BY DEF PrepState, DonePrep, IdlePrep
  <2>9. w.at = "done" /\ w.eligible = {} /\ w.todo = {}
    BY <2>8 DEF DonePrep, IdlePrep
  <2>10. PrepStep(p, w)
    BY <1>5, <2>8 DEF PrepDisagrees
  <2>11. PrepKept(w)'
    BY <2>9 DEF PrepKept, Readable, Separate, Begun
  <2>12. \A t \in ChunkSet : setState'[t] # "absent" => setState[t] # "absent"
    BY <2>4, <2>5
  <2>. QED BY <1>0, <1>4, <2>2, <2>5, <2>6, <2>7, <2>10, <2>11, <2>12, PrepMoves
<1>6. CASE PrepCompletes(p)
  <2>1. PICK m : m = [leftOut |-> v.leftOut, refused |-> v.refused, chunks |-> v.chunks]
    OBVIOUS
  <2>2. CompleteChunkSet(s, m) /\ v.pending = {}
    BY <1>1, <1>2, <1>6, <2>1 DEF PrepCompletes
  <2>3. /\ Listed(s) /\ Grouped(s) /\ s \cap Unreadable \subseteq v.refused
        /\ v.refused \subseteq Unreadable \cup Uncuttable
        /\ \A q \in Chunked(s) : Settled(s, q, v.refused)
        /\ Counted(s, {}, v.chunks)
    BY <1>0, <1>1, <1>2, <1>4, <2>2 DEF PrepKept
  <2>4. v.chunks \in 0..MaxChunks
    BY <1>0, <2>3, CountsFit
  <2>5. m \in Manifest
    <3>1. v.leftOut \in SUBSET Revision /\ v.refused \in SUBSET Revision
      BY DEF PrepState
    <3>2. m \in [leftOut : SUBSET Revision, refused : SUBSET Revision, chunks : 0..MaxChunks]
      BY <2>1, <2>4, <3>1
    <3>. QED BY <3>2, PreparationAssumption
  <2>6. DocNext
    BY <1>3, <2>2, <2>5 DEF DocNext
  <2>7. DocInv' /\ Stand /\ Final
    BY <1>0, <2>6, DocStep
  <2>8. /\ setState' = [setState EXCEPT ![s] = "complete"] /\ setState[s] = "building"
        /\ manifest' = [manifest EXCEPT ![s] = m]
        /\ chunks' = chunks /\ near' = near /\ occurrence' = occurrence
    BY <2>2 DEF CompleteChunkSet, MayMove, duplicateVars
  <2>9. \A t \in ChunkSet : setState'[t] = setState[t] \/ (t = s /\ setState'[t] = "complete")
    BY <1>3, <2>8
  <2>10. Onward
    BY <1>0, <2>7, <2>8, <2>9 DEF Onward
  <2>11. ChunksKept' /\ NearKept'
    BY <1>0, <2>8 DEF ChunksKept, NearKept
  <2>12. Completed(s)'
    <3>1. manifest'[s].refused = v.refused /\ manifest'[s].chunks = v.chunks
      BY <1>3, <2>1, <2>8
    <3>2. Listed(s)' /\ Grouped(s)'
      BY <2>3, <2>8 DEF Listed, Grouped
    <3>3. \A q \in Chunked(s) : Settled(s, q, v.refused)'
      BY <2>3, <2>8 DEF Settled
    <3>4. Counted(s, {}, v.chunks)'
      BY <2>3, <2>8 DEF Counted, RowsBut
    <3>. QED BY <2>3, <3>1, <3>2, <3>3, <3>4 DEF Completed, Settled, Counted, RowsBut
  <2>13. PICK w \in PrepState : w = [v EXCEPT !.at = "succeed"]
    BY DEF PrepState
  <2>14. w.at = "succeed" /\ w.eligible = v.eligible /\ w.todo = v.todo
    BY <2>13 DEF PrepState
  <2>15. PrepStep(p, w)
    BY <1>1, <1>6, <2>13 DEF PrepCompletes
  <2>16. PrepKept(v)'
    BY <1>0, <1>1, <2>10, PrepKeptLasts
  <2>17. PrepKept(w)'
    BY <2>14, <2>16 DEF PrepKept, Readable, Begun
  <2>18. \A t \in ChunkSet : setState'[t] # "absent" => setState[t] # "absent"
    BY <2>8, <2>9
  <2>19. \A t \in ChunkSet : setState'[t] = "complete" /\ setState[t] # "complete" => Completed(t)'
    <3>1. ASSUME NEW t \in ChunkSet, setState'[t] = "complete", setState[t] # "complete"
          PROVE  Completed(t)'
      <4>1. t = s
        BY <2>9, <3>1
      <4>. QED BY <2>12, <4>1
    <3>. QED BY <3>1
  <2>. QED BY <1>0, <1>4, <2>6, <2>10, <2>11, <2>15, <2>17, <2>18, <2>19, PrepMoves
<1>. QED BY <1>5, <1>6

-----------------------------------------------------------------------------
(* The theorems.                                                           *)

LEMMA PreparationBegins ==
    ASSUME Init
    PROVE  PreparationInv
<1>0. DocInit
  BY DEF Init
<1>1. DocInv
  BY <1>0, DocInitial
<1>2. imp \in [Importer -> ImportState] /\ \A i \in Importer : imp[i] = IdleImport
  BY DEF Init, ImportState, IdleImport
<1>3. gate \in [Gate -> GateState] /\ \A g \in Gate : gate[g] = IdleGate
  BY DEF Init, GateState, IdleGate
<1>4. prep \in [Preparer -> PrepState] /\ \A p \in Preparer : prep[p] = IdlePrep
  BY DEF Init, PrepState, IdlePrep
<1>5. Len(NoRelease) = 0
  BY DEF NoRelease
<1>6. ImportKept(IdleImport)
  BY <1>5 DEF ImportKept, IdleImport
<1>7. GateKept(IdleGate)
  BY DEF GateKept, IdleGate
<1>8. PrepKept(IdlePrep)
  BY DEF PrepKept, IdlePrep, Readable, Separate, Begun
<1>9. \A s \in ChunkSet : setState[s] = "absent" /\ \A r \in Revision : chunks[s][r] = 0
  BY <1>0 DEF DocInit
<1>10. CutFromEligible /\ ChunksKept /\ CompleteKept
  BY <1>9 DEF CutFromEligible, ChunksKept, CompleteKept
<1>11. NearKept
  BY <1>0 DEF NearKept, DocInit
<1>12. completions \in Nat /\ gated = {} /\ prepared = {}
  BY DEF Init
<1>13. GatedIsDecided
  BY <1>12 DEF GatedIsDecided
<1>. QED BY <1>1, <1>2, <1>3, <1>4, <1>6, <1>7, <1>8, <1>10, <1>11, <1>12, <1>13
         DEF PreparationInv, ImportTypes, GateTypes, PrepTypes

LEMMA PreparationStep ==
    ASSUME PreparationInv, [Next]_vars
    PROVE  PreparationInv' /\ [DocNext]_docVars
<1>1. ASSUME NEW i \in Importer, Import(i) PROVE PreparationInv' /\ [DocNext]_docVars
  BY <1>1, ImportKeeps
<1>2. ASSUME NEW g \in Gate, Quality(g) PROVE PreparationInv' /\ [DocNext]_docVars
  BY <1>2, QualityKeeps
<1>3. ASSUME NEW p \in Preparer, Prepare(p) PROVE PreparationInv' /\ [DocNext]_docVars
  BY <1>3, PrepReadsKeep, PrepBeginsKeeps, PrepDeduplicatesKeeps, PrepGroupsKeeps,
     PrepResumesKeeps, PrepChunksKeeps, PrepEndsKeep
     DEF Prepare
<1>4. CASE UNCHANGED vars
  <2>1. UNCHANGED docVars /\ UNCHANGED workVars
    BY <1>4 DEF vars
  <2>2. [DocNext]_docVars /\ UNCHANGED <<duplicateVars, setVars>>
    BY <2>1 DEF docVars, duplicateVars, setVars
  <2>3. Onward /\ ChunksKept' /\ NearKept' /\ setState' = setState
    BY <2>2, QuietStep
  <2>4. /\ imp' = imp /\ completions' = completions /\ gate' = gate /\ gated' = gated
        /\ prep' = prep /\ prepared' = prepared
    BY <2>1 DEF workVars
  <2>5. /\ ImportTypes' /\ GateTypes' /\ PrepTypes' /\ completions' \in Nat
        /\ gated' \subseteq SUBSET Revision /\ prepared' \subseteq SUBSET Revision
    BY <2>4 DEF PreparationInv, ImportTypes, GateTypes, PrepTypes
  <2>. QED BY <2>2, <2>3, <2>4, <2>5, CommandStep
<1>. QED BY <1>1, <1>2, <1>3, <1>4 DEF Next

THEOREM PreparationInvariant == Spec => []PreparationInv
<1>1. Init => PreparationInv
  BY PreparationBegins
<1>2. PreparationInv /\ [Next]_vars => PreparationInv'
  BY PreparationStep
<1>. QED BY <1>1, <1>2, PTL DEF Spec

(* What the commands know keeps its type: the state of every import, gate  *)
(* and preparation, and the kernel's records under them.                   *)
THEOREM PreparationTypeCorrect == Spec => []TypeOK
<1>1. ASSUME PreparationInv PROVE LinesOK
  <2> SUFFICES ASSUME NEW i \in Importer
               PROVE  /\ imp[i].line \in 1..(Len(imp[i].release) + 1)
                      /\ imp[i].at \in {"store", "record"} => imp[i].line <= Len(imp[i].release)
                      /\ imp[i].imported \subseteq 1..(imp[i].line - 1)
    BY DEF LinesOK
  <2>. QED BY <1>1 DEF PreparationInv, ImportKept
<1>2. PreparationInv => TypeOK
  BY <1>1 DEF PreparationInv, DocInv, TypeOK, ImportTypes, GateTypes, PrepTypes
<1>. QED BY <1>2, PreparationInvariant, PTL

(* Chunk sets are cut only from revisions that were accepted, though their *)
(* dispositions are read one by one beside imports and gates.              *)
THEOREM CutFromEligibleHolds == Spec => []CutFromEligible
<1>1. PreparationInv => CutFromEligible
  BY DEF PreparationInv
<1>. QED BY <1>1, PreparationInvariant, PTL

(* What an import or a quality job leaves behind when it ends well is      *)
(* decided.                                                                *)
THEOREM CommandsDecideHolds == Spec => []CommandsDecide
<1>1. PreparationInv => CommandsDecide
  BY DEF PreparationInv, CommandsDecide, SharedIsDecided, ImportKept
<1>. QED BY <1>1, PreparationInvariant, PTL

(* A complete chunk set holds the chunks of every revision that was not    *)
(* refused, and its manifest counts them, however many preparations shared *)
(* the work.                                                               *)
THEOREM CompleteIsSettledHolds == Spec => []CompleteIsSettled
<1>1. ASSUME PreparationInv, NEW s \in ChunkSet, setState[s] = "complete"
      PROVE  /\ \A r \in s :
                   \/ r \in manifest[s].refused
                   \/ \E q \in Prepares(s, r) :
                         q \in manifest[s].refused \/ chunks[s][q] = Cut[q]
             /\ Done(s) \subseteq Chunked(s) \ manifest[s].refused
             /\ manifest[s].chunks = Total(s)
  <2>1. s \in SUBSET Revision
    BY PreparationAssumption
  <2>2. Completed(s) /\ ChunksKept /\ DocInv
    BY <1>1 DEF PreparationInv, CompleteKept, Completed
  <2>3. ASSUME NEW r \in s, r \notin manifest[s].refused
        PROVE  \E q \in Prepares(s, r) : q \in manifest[s].refused \/ chunks[s][q] = Cut[q]
    <3>1. r \in s \ Unreadable
      BY <2>2, <2>3 DEF Completed
    <3>2. PICK q \in Prepares(s, r) : q \in Chunked(s)
      BY <2>1, <3>1, EachIsPrepared
    <3>. QED BY <2>2, <3>2 DEF Completed, Settled
  <2>4. Done(s) \subseteq Chunked(s) \ manifest[s].refused
    BY <2>1, <2>2, EachIsPrepared DEF Done, ChunksKept, Completed
  <2>5. manifest[s].chunks = Total(s)
    BY <2>1, <2>2, CountsFit DEF Completed
  <2>. QED BY <2>3, <2>4, <2>5
<1>2. PreparationInv => CompleteIsSettled
  BY <1>1 DEF CompleteIsSettled
<1>. QED BY <1>2, PreparationInvariant, PTL

(* Every place of the content of a complete set is recorded, and its near  *)
(* duplicates are in one group.                                            *)
THEOREM PlacesAreKeptHolds == Spec => []PlacesAreKept
<1>1. ASSUME PreparationInv, NEW s \in ChunkSet, setState[s] = "complete"
      PROVE  /\ \A r \in s \ Unreadable : \E q \in Prepares(s, r) : <<q, DocOf[r]>> \in occurrence
             /\ \A r, q \in Chunked(s) : r # q /\ <<r, q>> \in Near =>
                   \E g \in Group : {r, q} \subseteq near[g] /\ near[g] \subseteq Chunked(s)
  <2>1. s \in SUBSET Revision
    BY PreparationAssumption
  <2>2. Listed(s) /\ Grouped(s)
    BY <1>1 DEF PreparationInv, CompleteKept
  <2>3. ASSUME NEW r \in s \ Unreadable
        PROVE  \E q \in Prepares(s, r) : <<q, DocOf[r]>> \in occurrence
    <3>0. Prepares(s, r) # {}
      BY <2>1, <2>3, EachIsPrepared
    <3>1. PICK q : q \in Prepares(s, r)
      BY <3>0
    <3>2. <<q, DocOf[r]>> \in Places(s)
      BY <3>1 DEF Places
    <3>. QED BY <2>2, <3>1, <3>2 DEF Listed
  <2>4. ASSUME NEW r \in Chunked(s), NEW q \in Chunked(s), r # q, <<r, q>> \in Near
        PROVE  \E g \in Group : {r, q} \subseteq near[g] /\ near[g] \subseteq Chunked(s)
    <3>1. PICK g \in NearGroups(s) : {r, q} \subseteq g
      BY <2>1, <2>4, LinkedAreGrouped
    <3>2. g \in Group /\ g \subseteq Chunked(s)
      BY <2>1, GroupsAreGroups
    <3>3. near[g] = g
      BY <2>2 DEF Grouped
    <3>. QED BY <3>1, <3>2, <3>3
  <2>. QED BY <2>3, <2>4
<1>2. PreparationInv => PlacesAreKept
  BY <1>1 DEF PlacesAreKept
<1>. QED BY <1>2, PreparationInvariant, PTL

(* The three commands make only the calls the kernel offers: they          *)
(* implement the records of documents, so what is proved of those holds    *)
(* under them.                                                             *)
THEOREM PreparationRefinesDocuments == Spec => DocSpec
<1>1. Init => DocInit
  BY DEF Init
<1>2. PreparationInv /\ [Next]_vars => [DocNext]_docVars
  BY PreparationStep
<1>. QED BY <1>1, <1>2, PreparationInvariant, PTL DEF Spec, DocSpec
=============================================================================
