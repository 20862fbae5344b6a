-------------------------- MODULE Representations --------------------------
(***************************************************************************)
(* The unit graphs of a chunk set and the representation sets built over   *)
(* them (maestro-kernel: unit_graph/record.rs and read.rs,                 *)
(* representation/, migrations 0017 and 0018).  Chunks, graphs and shards  *)
(* are recorded by callers that share nothing but the database; what a     *)
(* call reads before its write is read in steps of its own, and a trigger  *)
(* is a guard of the write it watches.                                     *)
(*                                                                         *)
(* One chunk set of one collection.  An artifact is its content: a graph   *)
(* names its revision, profile and chunks, a shard the set, revision and   *)
(* graph it is for and the graph whose members it lists.                   *)
(***************************************************************************)
EXTENDS Integers, Sequences, FiniteSets, Functions

CONSTANTS
    ChunksOf,        \* revision -> the chunks a preparation may record of it
    FailedRevisions, \* revisions that are Failed
    GraphArtifacts,  \* [revision, profile, chunks, valid]
    ShardArtifacts,  \* [set, revision, graph, members]
    Specs,           \* representation set -> [profile, embedding]
    GenProfile,      \* generation -> its embedding profile
    Workers          \* processes that record shards and complete sets

VARIABLES
    frozen,      \* the chunk set is complete
    chunkRows,   \* the chunks recorded
    setProfile,  \* the profile of the chunk set, once a graph is recorded
    graphRows,   \* revision -> its graph, or nothing
    repState,    \* representation set -> "absent", "building", "complete" or "failed"
    shardRows,   \* representation set -> revision -> its shard, or nothing
    bound,       \* generation -> the set it is bound to, or nothing
    genState,    \* generation -> "building" or "published"
    worker       \* what a process read so far in the call it makes

repVars == <<frozen, chunkRows, setProfile, graphRows, repState, shardRows, bound, genState, worker>>

Revs == DOMAIN ChunksOf
Sets == DOMAIN Specs
Absent == {}
Rest == [does |-> "nothing"]

RepInit ==
    /\ frozen = FALSE /\ chunkRows = {} /\ setProfile = Absent
    /\ graphRows = [r \in Revs |-> Absent]
    /\ repState = [s \in Sets |-> "absent"]
    /\ shardRows = [s \in Sets |-> [r \in Revs |-> Absent]]
    /\ bound = [g \in DOMAIN GenProfile |-> Absent] /\ genState = [g \in DOMAIN GenProfile |-> "building"]
    /\ worker = [w \in Workers |-> Rest]

-----------------------------------------------------------------------------
(* The chunk set. *)

(* chunks_cannot_extend_recorded_graph *)
RecordChunk(r, c) ==
    /\ ~ frozen /\ c \in ChunksOf[r] \ chunkRows /\ graphRows[r] = Absent
    /\ chunkRows' = chunkRows \cup {c}
    /\ UNCHANGED <<frozen, setProfile, graphRows, repState, shardRows, bound, genState, worker>>

Freeze ==
    /\ ~ frozen /\ chunkRows # {} /\ frozen' = TRUE
    /\ UNCHANGED <<chunkRows, setProfile, graphRows, repState, shardRows, bound, genState, worker>>

(* load: the artifact and those it names decode and validate. *)
Loads(d) == d.valid

(* chunks: the graph has a view for each chunk recorded of its revision. *)
ChunksMatch(d) == chunkRows \cap ChunksOf[d.revision] = d.chunks

(* profile: the first graph gives the chunk set its profile. *)
ProfileMatches(d) == d.chunks # {} /\ setProfile \in {Absent, {d.profile}}

(* record_revision_graph: the same graph again changes nothing, and another is
   a conflict. *)
RecordGraph(d) ==
    /\ Loads(d) /\ graphRows[d.revision] = Absent
    /\ ChunksMatch(d) /\ ProfileMatches(d)
    /\ ~ frozen /\ d.revision \notin FailedRevisions
    /\ graphRows' = [graphRows EXCEPT ![d.revision] = {d}]
    /\ setProfile' = {d.profile}
    /\ UNCHANGED <<frozen, chunkRows, repState, shardRows, bound, genState, worker>>

-----------------------------------------------------------------------------
(* Representation sets. *)

(* begin_representation_set; the same again changes nothing. *)
BeginSet(s) ==
    /\ repState[s] = "absent" /\ setProfile = {Specs[s].profile}
    /\ repState' = [repState EXCEPT ![s] = "building"]
    /\ UNCHANGED <<frozen, chunkRows, setProfile, graphRows, shardRows, bound, genState, worker>>

Moves(w, to) ==
    /\ worker' = [worker EXCEPT ![w] = to]
    /\ UNCHANGED <<frozen, chunkRows, setProfile, graphRows, repState, shardRows, bound, genState>>

(* record_representation_revision: the set and the shard are read, *)
ReadSet(w, d) ==
    /\ worker[w] = Rest /\ repState[d.set] = "building"
    /\ Moves(w, [does |-> "record", shard |-> d, checked |-> FALSE])

(* validate_shard: its members are those of the revision's graph, in order; *)
ValidateShard(w) ==
    /\ worker[w].does = "record" /\ ~ worker[w].checked
    /\ LET d == worker[w].shard IN
       Moves(w, IF graphRows[d.revision] = {d.members} THEN [worker[w] EXCEPT !.checked = TRUE] ELSE Rest)

(* and in the write all is checked again but the members. *)
RecordShard(w) ==
    LET d == worker[w].shard
        taken == /\ repState[d.set] = "building" /\ graphRows[d.revision] = {d.graph}
                 /\ setProfile = {Specs[d.set].profile} /\ shardRows[d.set][d.revision] = Absent
    IN
    /\ worker[w].does = "record" /\ worker[w].checked
    /\ shardRows' = IF taken THEN [shardRows EXCEPT ![d.set][d.revision] = {d}] ELSE shardRows
    /\ worker' = [worker EXCEPT ![w] = Rest]
    /\ UNCHANGED <<frozen, chunkRows, setProfile, graphRows, repState, bound, genState>>

(* complete_representation_set, with a reader that holds no transaction. *)
StartComplete(w, s) ==
    /\ worker[w] = Rest /\ repState[s] # "absent"
    /\ Moves(w, [does |-> "complete", set |-> s, at |-> "frozen"])

(* complete: a frozen chunk set, *)
CheckFrozen == frozen

(* a graph for every revision with a chunk, *)
CheckGraphs == \A r \in Revs : chunkRows \cap ChunksOf[r] # {} => graphRows[r] # Absent

(* a shard for every graph, *)
CheckMissing(s) == \A r \in Revs : graphRows[r] # Absent => shardRows[s][r] # Absent

(* and no other. *)
CheckExtra(s) == \A r \in Revs : shardRows[s][r] # Absent => graphRows[r] # Absent

CheckComplete(w) ==
    /\ worker[w].does = "complete"
    /\ LET s == worker[w].set
           Goes(ok, to) == Moves(w, IF ok THEN [worker[w] EXCEPT !.at = to] ELSE Rest)
       IN  \/ worker[w].at = "frozen" /\ Goes(CheckFrozen, "graphs")
           \/ worker[w].at = "graphs" /\ Goes(CheckGraphs, "missing")
           \/ worker[w].at = "missing" /\ Goes(CheckMissing(s), "extra")
           \/ worker[w].at = "extra" /\ Goes(CheckExtra(s), "write")

Transition(s, to) ==
    repState' = IF repState[s] = "building" THEN [repState EXCEPT ![s] = to] ELSE repState

CompleteSet(w) ==
    /\ worker[w].does = "complete" /\ worker[w].at = "write"
    /\ Transition(worker[w].set, "complete")
    /\ worker' = [worker EXCEPT ![w] = Rest]
    /\ UNCHANGED <<frozen, chunkRows, setProfile, graphRows, shardRows, bound, genState>>

FailSet(s) ==
    /\ repState[s] = "building" /\ Transition(s, "failed")
    /\ UNCHANGED <<frozen, chunkRows, setProfile, graphRows, shardRows, bound, genState, worker>>

(* bind_generation_representation, with generation_representations_matching_complete *)
Bind(g, s) ==
    /\ bound[g] = Absent /\ repState[s] = "complete" /\ frozen
    /\ GenProfile[g] = Specs[s].embedding /\ genState[g] = "building"
    /\ bound' = [bound EXCEPT ![g] = {s}]
    /\ UNCHANGED <<frozen, chunkRows, setProfile, graphRows, repState, shardRows, genState, worker>>

Publish(g) ==
    /\ genState[g] = "building" /\ frozen
    /\ genState' = [genState EXCEPT ![g] = "published"]
    /\ UNCHANGED <<frozen, chunkRows, setProfile, graphRows, repState, shardRows, bound, worker>>

RepNext ==
    \/ (\E r \in Revs : \E c \in ChunksOf[r] : RecordChunk(r, c)) \/ Freeze
    \/ (\E d \in GraphArtifacts : RecordGraph(d))
    \/ \E s \in Sets : BeginSet(s) \/ FailSet(s) \/ (\E g \in DOMAIN GenProfile : Bind(g, s))
    \/ \E w \in Workers :
         \/ (\E d \in ShardArtifacts : ReadSet(w, d)) \/ ValidateShard(w) \/ RecordShard(w)
         \/ (\E s \in Sets : StartComplete(w, s)) \/ CheckComplete(w) \/ CompleteSet(w)
    \/ \E g \in DOMAIN GenProfile : Publish(g)

-----------------------------------------------------------------------------
(* PROPERTIES *)

(* A shard that a reader is given (representation_shard). *)
Readable(s, r) == \E d \in shardRows[s][r] : graphRows[r] = {d.graph} /\ d.set = s /\ d.revision = r

(* Whoever records chunks, graphs and shards, and however the reads of two
   completions fall among their writes: a complete set, and with it each
   generation that is bound to one, has for every revision with a chunk one
   shard that can be read, which lists the members of the graph it names, and
   that graph has every chunk of the revision. *)
CompleteSetIsWhole ==
    \A s \in Sets : repState[s] = "complete" \/ (\E g \in DOMAIN GenProfile : bound[g] = {s}) =>
        \A r \in Revs : chunkRows \cap ChunksOf[r] # {} =>
            /\ Readable(s, r)
            /\ \A d \in shardRows[s][r] : d.members = d.graph
            /\ \A g \in graphRows[r] : g.chunks = chunkRows \cap ChunksOf[r]

=============================================================================
