---------------------------- MODULE SearchParts -----------------------------
(***************************************************************************)
(* The parts of a search and of what it searches: evidence and its         *)
(* sources, chunks, unit graphs and representations, ranking, answers, and *)
(* the evaluation of all of it. A behaviour is one of a single part; the   *)
(* variables of the others stay idle.                                      *)
(***************************************************************************)
EXTENDS Parts, Ranking, Integers, Sequences, FiniteSets, SequencesExt, FiniteSetsExt, Functions, TLC

CONSTANTS
    EvidenceWorlds, EvidenceChunks, EvidenceRequests,               \* Evidence
    SourceRecords, SourceHandoffs, SourceFailures, SourceChunks,
    SourceManifests, SourceGroups, SourceLoaders, SourceDeadline,   \* Sources
    RepChunks, RepFailed, RepGraphs, RepShards, RepSpecs,
    RepGenerations, RepWorkers,                                     \* Representations
    AnswerBundles, AnswerVocabularies, AnswerTokens, AnswerWords,   \* Answering
    LadderSuite, LadderManifests, LadderWarmUps, LadderEmbedders,
    LadderOutcomes, LadderCards,                                    \* Ladder
    ChunkDocuments,                                                 \* Chunking
    EditGraph(_)    \* what an edit may make of a unit graph

VARIABLES
    world, asm, plan, stage, evidencePending, choice, covered, accepted,
    omitted,
    handoff, setManifest, status, sourcesGranted, now, stopped, waiter,
    phase, fault, ledger, chunks, unresolved, groups, loader, messages,
    cursor, missing, cache, survivors, rechecked, eligibleThen, excerpt,
    frozen, chunkRows, setProfile, graphRows, repState, shardRows, bound,
    genState, worker,
    evidence, vocabulary, asked, reply, given,
    manifest, ladderPublished, answerers, ladderStage, ladderChecked, held,
    warm, ladderRows, rungs,
    doc, layout, chunkPending, open, drafts, outcome

Assembly == INSTANCE Evidence WITH
    Worlds <- EvidenceWorlds, Chunks <- EvidenceChunks,
    Requests <- EvidenceRequests,
    pending <- evidencePending
Reads == INSTANCE Sources WITH
    Records <- SourceRecords, Handoffs <- SourceHandoffs,
    MayFail <- SourceFailures, ChunkOf <- SourceChunks,
    Manifests <- SourceManifests, Groups <- SourceGroups,
    Loaders <- SourceLoaders, Deadline <- SourceDeadline,
    granted <- sourcesGranted
Reps == INSTANCE Representations WITH
    ChunksOf <- RepChunks, FailedRevisions <- RepFailed,
    GraphArtifacts <- RepGraphs, ShardArtifacts <- RepShards,
    Specs <- RepSpecs, GenProfile <- RepGenerations, Workers <- RepWorkers
Writer == INSTANCE Answering WITH
    Bundles <- AnswerBundles, Vocabularies <- AnswerVocabularies,
    MaxTokens <- AnswerTokens, MinWords <- AnswerWords
Scores == INSTANCE Ladder WITH
    Suite <- LadderSuite, Ladders <- LadderManifests, WarmUps <- LadderWarmUps,
    Embedders <- LadderEmbedders, Outcomes <- LadderOutcomes,
    MaxCards <- LadderCards,
    published <- ladderPublished, checked <- ladderChecked, rows <- ladderRows
Chunks == INSTANCE Chunking WITH pending <- chunkPending
UnitGraphs == INSTANCE UnitGraph
Merge == INSTANCE Attempts

(* A chunk belongs to a revision that is recorded, and what was ranked are
   chunks. *)
ASSUME ChunksAreRecorded ==
    /\ \A c \in DOMAIN SourceChunks : SourceChunks[c] \in DOMAIN SourceRecords
    /\ \A h \in SourceHandoffs : h.ranked \in Seq(DOMAIN SourceChunks)

(* A chunk is of one revision, and an artifact names a revision and a set that
   exist. *)
ASSUME ArtifactsName ==
    /\ \A r, q \in DOMAIN RepChunks : r # q => RepChunks[r] \cap RepChunks[q] = {}
    /\ \A d \in RepGraphs : d.revision \in DOMAIN RepChunks
    /\ \A d \in RepShards : d.set \in DOMAIN RepSpecs /\ d.revision \in DOMAIN RepChunks

(* Generations are numbered, and an outcome of a question is a row's. *)
ASSUME RowsAreTyped ==
    /\ DOMAIN LadderEmbedders # {} /\ DOMAIN LadderEmbedders \subseteq Nat
    /\ \A o \in LadderOutcomes : {"id", "generation", "ask"} \subseteq DOMAIN o

(* The passages of a bundle are a list and numbered, and its trace gives the
   chunks and the parents of a passage as lists. *)
ASSUME TracesAreLists ==
    \A b \in AnswerBundles :
        /\ b.passages \in Seq(Range(b.passages))
        /\ \A p \in Range(b.passages) : p.n \in Nat
        /\ \A t \in Range(b.trace) :
              t.chunks \in Seq(Range(t.chunks)) /\ t.parents \in Seq(Range(t.parents))

(* A merge is given a list of reports, and its plan counts. *)
ASSUME ReportsAreTyped ==
    \A merge \in InputsOf("attempts") :
        /\ merge.reports \in Seq(Range(merge.reports))
        /\ \A r \in Range(merge.reports) : r.warm \in BOOLEAN
        /\ merge.plan.repetitions \in Nat

(* A coverage is asked of an extent and of a finite set of anchors, each a pair
   of offsets. *)
ASSUME OffsetsAreNumbers ==
    \A c \in InputsOf("coverage") :
        /\ c.extent \in Int \X Int
        /\ c.anchors \in SUBSET (Int \X Int) /\ IsFiniteSet(c.anchors)

(* A rerank ranks the chunks the fusion listed, each once, under policies that
   admission lets through; a text has a length. *)
ASSUME PoliciesAreValid ==
    \A r \in InputsOf("ranking") :
        /\ PolicyIsValid(r)
        /\ r.fused \in Seq(Range(r.fused)) /\ IsInjective(r.fused)
        /\ r.ranked \in Seq(Range(r.fused)) /\ IsInjective(r.ranked)
        /\ Range(r.ranked) = Range(r.fused)
ASSUME TextsHaveLengths == \A text \in InputsOf("windows") : text.length \in Nat

evidenceVars ==
    <<world, asm, plan, stage, evidencePending, choice, covered, accepted,
      omitted>>
sourcesVars ==
    <<handoff, setManifest, status, sourcesGranted, now, stopped, waiter, phase,
      fault, ledger, chunks, unresolved, groups, loader, messages, cursor,
      missing, cache, survivors, rechecked, eligibleThen, excerpt>>
representationsVars ==
    <<frozen, chunkRows, setProfile, graphRows, repState, shardRows, bound,
      genState, worker>>
answeringVars ==
    <<evidence, vocabulary, asked, reply, given>>
ladderVars ==
    <<manifest, ladderPublished, answerers, ladderStage, ladderChecked, held,
      warm, ladderRows, rungs>>
chunkingVars ==
    <<doc, layout, chunkPending, open, drafts, outcome>>
searchPartsVars ==
    <<evidenceVars, sourcesVars, representationsVars, answeringVars,
    ladderVars, chunkingVars>>

-----------------------------------------------------------------------------
(* An idle part. *)
AssemblyIdle ==
    world = 0 /\ asm = 0 /\ plan = 0 /\ stage = 0 /\ evidencePending = 0 /\
    choice = 0 /\ covered = 0 /\ accepted = 0 /\ omitted = 0
ReadsIdle ==
    handoff = 0 /\ setManifest = 0 /\ status = 0 /\ sourcesGranted = 0 /\
    now = 0 /\ stopped = 0 /\ waiter = 0 /\ phase = 0 /\ fault = 0 /\ ledger
    = 0 /\ chunks = 0 /\ unresolved = 0 /\ groups = 0 /\ loader = 0 /\
    messages = 0 /\ cursor = 0 /\ missing = 0 /\ cache = 0 /\ survivors = 0
    /\ rechecked = 0 /\ eligibleThen = 0 /\ excerpt = 0
RepsIdle ==
    frozen = 0 /\ chunkRows = 0 /\ setProfile = 0 /\ graphRows = 0 /\
    repState = 0 /\ shardRows = 0 /\ bound = 0 /\ genState = 0 /\ worker = 0
WriterIdle ==
    evidence = 0 /\ vocabulary = 0 /\ asked = 0 /\ reply = 0 /\ given = 0
ScoresIdle ==
    manifest = 0 /\ ladderPublished = 0 /\ answerers = 0 /\ ladderStage = 0
    /\ ladderChecked = 0 /\ held = 0 /\ warm = 0 /\ ladderRows = 0 /\ rungs
    = 0
ChunksIdle ==
    doc = 0 /\ layout = 0 /\ chunkPending = 0 /\ open = 0 /\ drafts = 0 /\
    outcome = 0
SearchPartsIdle == AssemblyIdle /\ ReadsIdle /\ RepsIdle /\ WriterIdle /\ ScoresIdle /\
    ChunksIdle

SearchPartNames ==
    {"evidence", "sources", "representations", "answering", "ladder",
     "chunks", "ranking", "windows", "graphs", "coverage", "attempts"}

SearchInit ==
    /\ StartAs(SearchPartNames)
    /\ IF part = "evidence" THEN Assembly!EvidenceInit ELSE AssemblyIdle
    /\ IF part = "sources" THEN Reads!SourcesInit ELSE ReadsIdle
    /\ IF part = "representations" THEN Reps!RepInit ELSE RepsIdle
    /\ IF part = "answering" THEN Writer!AnsweringInit ELSE WriterIdle
    /\ IF part = "ladder" THEN Scores!LadderInit ELSE ScoresIdle
    /\ IF part = "chunks" THEN Chunks!ChunkingInit(ChunkDocuments) ELSE ChunksIdle

(* The variables of the other parts stay. *)
SearchOthersIdle ==
    /\ UNCHANGED part
    /\ part # "graphs" => UNCHANGED <<input, edits>>
    /\ part # "evidence" => UNCHANGED evidenceVars
    /\ part # "sources" => UNCHANGED sourcesVars
    /\ part # "representations" => UNCHANGED representationsVars
    /\ part # "answering" => UNCHANGED answeringVars
    /\ part # "ladder" => UNCHANGED ladderVars
    /\ part # "chunks" => UNCHANGED chunkingVars

(* Two edits of a graph. *)
EditGraphs ==
    /\ part = "graphs" /\ edits < 2 /\ edits' = edits + 1
    /\ input' \in EditGraph(input) /\ SearchOthersIdle

EvidenceStep == part = "evidence" /\ SearchOthersIdle /\ Assembly!EvidenceNext
SourcesStep == part = "sources" /\ SearchOthersIdle /\ Reads!SourcesNext
RepStep == part = "representations" /\ SearchOthersIdle /\ Reps!RepNext
AnsweringStep == part = "answering" /\ SearchOthersIdle /\ Writer!AnsweringNext
LadderStep == part = "ladder" /\ SearchOthersIdle /\ Scores!LadderNext
ChunkJoin == part = "chunks" /\ SearchOthersIdle /\ Chunks!Join
ChunkBreakIdea == part = "chunks" /\ SearchOthersIdle /\ Chunks!BreakIdea
ChunkStart == part = "chunks" /\ SearchOthersIdle /\ Chunks!Start
ChunkRefineAtom == part = "chunks" /\ SearchOthersIdle /\ Chunks!RefineAtom
ChunkSplitAtom == part = "chunks" /\ SearchOthersIdle /\ Chunks!SplitAtom
ChunkFinishDrafts == part = "chunks" /\ SearchOthersIdle /\ Chunks!FinishDrafts
ChunkReplay == part = "chunks" /\ SearchOthersIdle /\ Chunks!Replay

SearchNext ==
    EvidenceStep \/ SourcesStep \/ RepStep \/ AnsweringStep \/
    LadderStep \/ ChunkJoin \/ ChunkBreakIdea \/ ChunkStart \/
    ChunkRefineAtom \/ ChunkSplitAtom \/ ChunkFinishDrafts \/
    ChunkReplay \/ EditGraphs

SearchSpec == SearchInit /\ [][SearchNext]_<<partVars, searchPartsVars>>

-----------------------------------------------------------------------------
(* Properties, each of one part. *)

(* The two sides of a conflict are delivered together or not at all. *)
ConflictsAreWhole == part = "evidence" => Assembly!ConflictsAreWhole

(* A bundle holds sources that were eligible when it was put together. *)
BundleWasEligible == part = "sources" => Reads!BundleWasEligible

(* A representation set that is complete covers its chunk set, a unit graph
   that was accepted accounts for every byte and every node, and the chunks
   of a document hold every scalar of it once. *)
RepresentationsAreWhole ==
    /\ part = "representations" => Reps!CompleteSetIsWhole
    /\ part = "graphs" => UnitGraphs!AcceptedGraphsAccount(input)
    /\ part = "chunks" => Chunks!DraftsAreWhole

(* The policies bound what they move, and windows of a text are the text. *)
RankingHolds ==
    /\ part = "ranking" =>
          PoliciesHold(input.ranked, input.fused, input)
    /\ part = "windows" =>
          LET places == 0 .. input.length
              count == [w \in places \X places |->
                           SumFunction([i \in (w[1] + 1) .. w[2] |-> input.weights[i]])
                           - (IF w[2] \in input.dips THEN 1 ELSE 0)]
          IN  SplitIsWhole(input.length, input.blank, input.budget, count)

(* An answer cites passages of its bundle and leaks nothing else. *)
AnswerIsSupported == part = "answering" => Writer!AnswerIsSupported

(* The rungs of a ladder that count were measured on the same thing. *)
RungsCompareLikeWithLike == part = "ladder" => Scores!RungsCompareLikeWithLike

(* Nothing scheduled is missing from a merge, and coverage counts each byte
   once. *)
MeasuresAddUp ==
    /\ part = "attempts" => Merge!MergeDropsNothing(input.reports, input.plan)
    /\ part = "coverage" => Scores!CoverageIsTheUnion(input.extent, input.anchors)

=============================================================================
