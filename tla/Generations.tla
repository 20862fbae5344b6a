---------------------------- MODULE Generations -----------------------------
(***************************************************************************)
(* The kernel's generations: rows of `generations` and `generation_search` *)
(* with the events their publication records on the collection's stream,   *)
(* under the calls of crates/maestro-kernel/src/generation/lifecycle.rs    *)
(* and the two calls of retrieval/write.rs that mark a generation's search *)
(* inputs.  Each call is one write transaction and one action.  The point  *)
(* count and the time of publication are reported, never compared, and are *)
(* left out; a chunk set stands for the set with its two profiles.         *)
(***************************************************************************)
EXTENDS Integers, Sequences

CONSTANTS Collection,
          ChunkSet,       \* chunk sets, with the profiles they are indexed by
          MaxGeneration   \* bound: generations ever created

ASSUME GenerationsAssumption ==
    Collection # {} /\ ChunkSet # {} /\ MaxGeneration \in Nat

Generation == 1..MaxGeneration

VARIABLES
    gstate,      \* "none" where the id is not assigned yet
    collection,  \* collection_id
    chunkSet,    \* chunk_set_id, embedding_profile and sparse_profile
    search,      \* generation_search: no row, a row, a row that is ready
    events       \* generation events on knowledge/<collection>

genVars == <<gstate, collection, chunkSet, search, events>>

GenState == {"building", "verified", "published", "retired", "failed"}
GenEvent == [type : {"published", "retired"}, generation : Generation]

GenTypeOK ==
    /\ gstate \in [Generation -> GenState \cup {"none"}]
    /\ collection \in [Generation -> Collection]
    /\ chunkSet \in [Generation -> ChunkSet]
    /\ search \in [Generation -> {"none", "begun", "ready"}]
    /\ events \in [Collection -> Seq(GenEvent)]

GenInit ==
    /\ gstate = [g \in Generation |-> "none"]
    /\ collection = [g \in Generation |-> CHOOSE c \in Collection : TRUE]
    /\ chunkSet = [g \in Generation |-> CHOOSE s \in ChunkSet : TRUE]
    /\ search = [g \in Generation |-> "none"]
    /\ events = [c \in Collection |-> <<>>]

(* state.rs MOVES and may_move_to. *)
GenMayMoveTo(from, to) ==
    <<from, to>> \in {<<"building", "verified">>, <<"building", "failed">>,
                      <<"verified", "published">>, <<"verified", "failed">>,
                      <<"published", "retired">>}

(* legal_move: the move of a generation that is recorded. *)
LegalMove(g, to) == GenMayMoveTo(gstate[g], to)

PublishedIn(c) == {g \in Generation : collection[g] = c /\ gstate[g] = "published"}

-----------------------------------------------------------------------------
(* INSERT ... RETURNING: AUTOINCREMENT assigns the id after the last. *)
CreateGeneration(g, c, s) ==
    /\ gstate[g] = "none"
    /\ \A h \in Generation : gstate[h] = "none" => g <= h
    /\ gstate' = [gstate EXCEPT ![g] = "building"]
    /\ collection' = [collection EXCEPT ![g] = c]
    /\ chunkSet' = [chunkSet EXCEPT ![g] = s]
    /\ UNCHANGED <<search, events>>

VerifyGeneration(g) ==
    /\ LegalMove(g, "verified")
    /\ gstate' = [gstate EXCEPT ![g] = "verified"]
    /\ UNCHANGED <<collection, chunkSet, search, events>>

FailGeneration(g) ==
    /\ LegalMove(g, "failed")
    /\ gstate' = [gstate EXCEPT ![g] = "failed"]
    /\ UNCHANGED <<collection, chunkSet, search, events>>

(* record_retired of the generation that was published, if one was, and    *)
(* record_published.                                                       *)
RetiredEvents(gs) ==
    IF gs = {} THEN <<>>
    ELSE <<[type |-> "retired", generation |-> CHOOSE g \in gs : TRUE]>>
PublishedEvent(g) == <<[type |-> "published", generation |-> g]>>

(* Mutant: the retirement of the one published before is not told. *)
MutPublishIn(g) ==
    /\ gstate' = [h \in Generation |-> IF h = g THEN "published"
                       ELSE IF h \in PublishedIn(collection[g]) THEN "retired" ELSE gstate[h]]
    /\ events' = [events EXCEPT ![collection[g]] = @ \o PublishedEvent(g)]
    /\ UNCHANGED <<collection, chunkSet, search>>

(* publish_in: the published generation of the collection, if any, retired *)
(* and this one published, both told on the stream, in one transaction.    *)
PublishIn(g) ==
    LET before == PublishedIn(collection[g]) IN
    /\ gstate' = [h \in Generation |-> IF h = g THEN "published"
                                       ELSE IF h \in before THEN "retired" ELSE gstate[h]]
    /\ events' = [events EXCEPT ![collection[g]] =
                    @ \o RetiredEvents(before) \o PublishedEvent(g)]
    /\ UNCHANGED <<collection, chunkSet, search>>

PublishGeneration(g) == LegalMove(g, "published") /\ PublishIn(g)

(* publish_generation_if_current, `expected` the only generation that may  *)
(* be published now, or none (the empty set).                              *)
PublishGenerationIfCurrent(g, expected) ==
    /\ LegalMove(g, "published")
    /\ PublishedIn(collection[g]) = expected
    /\ PublishIn(g)

RetireGeneration(g) ==
    /\ LegalMove(g, "retired")
    /\ gstate' = [gstate EXCEPT ![g] = "retired"]
    /\ events' = [events EXCEPT ![collection[g]] = @ \o RetiredEvents({g})]
    /\ UNCHANGED <<collection, chunkSet, search>>

(* begin_generation_search, of a row that is not there yet; with the same  *)
(* profile it answers false and writes nothing.                            *)
BeginSearch(g) ==
    /\ gstate[g] = "building"
    /\ search[g] = "none"
    /\ search' = [search EXCEPT ![g] = "begun"]
    /\ UNCHANGED <<gstate, collection, chunkSet, events>>

(* complete_generation_search, idempotent. *)
CompleteSearch(g) ==
    /\ gstate[g] = "building"
    /\ search[g] # "none"
    /\ search' = [search EXCEPT ![g] = "ready"]
    /\ UNCHANGED <<gstate, collection, chunkSet, events>>

GenNext ==
    \/ \E g \in Generation, c \in Collection, s \in ChunkSet : CreateGeneration(g, c, s)
    \/ \E g \in Generation :
          \/ VerifyGeneration(g) \/ FailGeneration(g)
          \/ PublishGeneration(g) \/ RetireGeneration(g)
          \/ BeginSearch(g) \/ CompleteSearch(g)
          \/ \E e \in {{}} \cup {{h} : h \in Generation} : PublishGenerationIfCurrent(g, e)

GenSpec == GenInit /\ [][GenNext]_genVars

-----------------------------------------------------------------------------
(* Properties.                                                             *)

(* "At most one published generation per collection, whoever writes": the  *)
(* index generations_one_published never has to refuse.                    *)
OnePublished ==
    \A g, h \in Generation :
        /\ gstate[g] = "published" /\ gstate[h] = "published"
        /\ collection[g] = collection[h]
        => g = h

(* Whoever follows the collection's stream knows which generation is       *)
(* published: those told published and not told retired since.             *)
Told(c, type) == {g \in Generation : \E n \in DOMAIN events[c] :
                      events[c][n] = [type |-> type, generation |-> g]}
StreamTellsPublished ==
    \A c \in Collection : Told(c, "published") \ Told(c, "retired") = PublishedIn(c)

(* What is told of a generation is told once, its publication before its   *)
(* retirement: a generation is published at most once in its life.         *)
ToldOnce ==
    \A c \in Collection : \A m, n \in DOMAIN events[c] :
        events[c][m].generation = events[c][n].generation /\ m < n =>
            events[c][m].type = "published" /\ events[c][n].type = "retired"

(* A generation that was retired or that failed stays so, and its search   *)
(* marker with it: nothing brings it back.                                 *)
OverIsOver ==
    [][\A g \in Generation : gstate[g] \in {"retired", "failed"} =>
          gstate'[g] = gstate[g] /\ search'[g] = search[g]]_genVars
=============================================================================
