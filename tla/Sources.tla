------------------------------ MODULE Sources ------------------------------
(***************************************************************************)
(* The reads behind an evidence bundle (maestro-knowledge,                 *)
(* search/evidence: assemble/, source.rs, section_reader.rs; and           *)
(* candidate_enrichment.rs).  A blocking worker reads the authority, the   *)
(* ledger of the chunk set, the chunks and, with up to four threads, the   *)
(* sources; what is selected is checked again before it is handed to a     *)
(* waiter that leaves at the deadline.  Every read is its own step: the    *)
(* grants, the revisions and the clock move between any two.               *)
(*                                                                         *)
(* The selection is the subject of module Evidence: here it keeps any      *)
(* sources that were loaded.  Artifacts are immutable and are read whole.  *)
(***************************************************************************)
EXTENDS Integers, Sequences, FiniteSets, FiniteSetsExt, SequencesExt, Functions

CONSTANTS
    Records,    \* revision -> [outcome, version, document, sections]
    Handoffs,   \* [uses: "assembly", "enrichment" or "section", ranked: sequence of
                \*  chunks, version, limits: BOOLEAN]
    MayFail,    \* the revisions that may fail: a bound
    ChunkOf,    \* chunk -> its revision
    Manifests,  \* what the manifest of the set may hold
    Groups,     \* near-duplicate rows: sequence of [group, revision]
    Loaders,    \* the threads that load sources
    Deadline

VARIABLES
    handoff, setManifest,     \* the request, and the manifest of its chunk set
    status,                   \* revision -> "valid" or "failed"
    granted,                  \* the principal sees what it saw at admission
    now, stopped,             \* the clock, and the flag of the dropped waiter
    waiter,                   \* "waiting", "delivered", "timed_out", "failed" or "dropped"
    phase, fault,             \* where the worker is, and why it failed
    ledger, chunks, unresolved, groups,
    loader, messages, cursor, missing,
    cache,                    \* revision -> the source that was loaded for it
    survivors, rechecked,
    eligibleThen,             \* history: what was eligible as the recheck began
    excerpt                   \* a section read on its own, by another caller

sourcesVars == <<handoff, setManifest, status, granted, now, stopped, waiter, phase, fault, ledger,
                 chunks, unresolved, groups, loader, messages, cursor, missing, cache,
                 survivors, rechecked, eligibleThen, excerpt>>

authority == <<status, granted>>
loading == <<loader, messages, cursor, missing>>
request == <<handoff, setManifest>>

Revisions == DOMAIN Records
NoValue == {}
Only(option) == CHOOSE x \in option : TRUE

Eligible(r) == status[r] # "failed" /\ Records[r].outcome \in {"accepted", "warned"}

Idle == [step |-> "idle", index |-> 0, seen |-> "none"]

SourcesInit ==
    /\ handoff \in Handoffs /\ setManifest \in Manifests
    /\ status = [r \in Revisions |-> "valid"]
    /\ granted = TRUE /\ now = 0 /\ stopped = FALSE
    /\ waiter = "waiting" /\ phase = "handoff" /\ fault = NoValue
    /\ ledger = NoValue /\ chunks = << >> /\ unresolved = FALSE /\ groups = << >>
    /\ loader = [w \in Loaders |-> Idle] /\ messages = [w \in Loaders |-> << >>]
    /\ cursor = 0 /\ missing = << >> /\ cache = << >>
    /\ survivors = {} /\ rechecked = {} /\ eligibleThen = {}
    /\ excerpt = [step |-> "idle"]

-----------------------------------------------------------------------------
(* What moves under the worker. *)

Tick ==
    /\ now < Deadline /\ now' = now + 1
    /\ UNCHANGED <<request, authority, stopped, waiter, phase, fault, ledger, chunks, unresolved, groups,
                   loading, cache, survivors, rechecked, eligibleThen, excerpt>>

(* The grants of the principal are replaced, or put back. *)
Regrant ==
    /\ granted' = ~ granted
    /\ UNCHANGED <<request, status, now, stopped, waiter, phase, fault, ledger, chunks, unresolved, groups,
                   loading, cache, survivors, rechecked, eligibleThen, excerpt>>

(* A revision may become Failed, "which it never leaves". *)
Fail(r) ==
    /\ r \in MayFail /\ status[r] = "valid"
    /\ status' = [status EXCEPT ![r] = "failed"]
    /\ UNCHANGED <<request, granted, now, stopped, waiter, phase, fault, ledger, chunks, unresolved, groups,
                   loading, cache, survivors, rechecked, eligibleThen, excerpt>>

-----------------------------------------------------------------------------
(* The worker. *)

(* check *)
Expired == stopped \/ now >= Deadline

World == <<request, authority, now, stopped, waiter, excerpt>>

Failed(why) == phase' = "failed" /\ fault' = {why}

(* One step of the worker: it stops at the deadline, fails, or goes on. *)
Stopped == Failed("timed_out") /\ UNCHANGED <<ledger, chunks, unresolved, groups, survivors, rechecked,
                                              eligibleThen, cache, loading, World>>

(* validate_input: blank, oversized or repeated fields are refused before any
   thread is started. *)
ValidInput ==
    /\ handoff.limits
    /\ \A i, j \in DOMAIN handoff.ranked : handoff.ranked[i] = handoff.ranked[j] => i = j

Start ==
    /\ phase = "handoff" /\ waiter = "waiting" /\ handoff.uses # "section"
    /\ IF now >= Deadline THEN Failed("timed_out")
       ELSE IF ~ ValidInput THEN Failed("invalid")
       ELSE phase' = "authority" /\ UNCHANGED fault
    /\ UNCHANGED <<ledger, chunks, unresolved, groups, survivors, rechecked, eligibleThen, cache,
                   loading, World>>

(* The counter is verified, then what the principal sees is compared with what
   the request was admitted with; enrichment does neither. *)
Authorize ==
    /\ phase = "authority"
    /\ IF Expired THEN Stopped
       ELSE /\ IF handoff.uses = "assembly" /\ ~ granted THEN Failed("permissions")
               ELSE phase' = (IF handoff.uses = "assembly" THEN "ledger" ELSE "chunks")
                    /\ UNCHANGED fault
            /\ UNCHANGED <<ledger, chunks, unresolved, groups, survivors, rechecked, eligibleThen,
                           cache, loading, World>>

(* validate_manifest *)
ValidLedger(m) ==
    /\ m.identity
    /\ IsInjective(m.revisions) /\ IsInjective(m.groups)
    /\ \A d \in DOMAIN m.duplicates :
         /\ {d, m.duplicates[d]} \subseteq Range(m.revisions)
         /\ m.duplicates[d] # d /\ m.duplicates[d] \notin DOMAIN m.duplicates

(* duplicate_ledger *)
ReadLedger ==
    /\ phase = "ledger"
    /\ IF Expired THEN Stopped
       ELSE /\ IF ValidLedger(setManifest)
               THEN ledger' = {setManifest} /\ phase' = "chunks" /\ UNCHANGED fault
               ELSE Failed("integrity") /\ UNCHANGED ledger
            /\ UNCHANGED <<chunks, unresolved, groups, survivors, rechecked, eligibleThen, cache,
                           loading, World>>

(* search_chunks: what is eligible now and of the version that was asked. *)
SearchChunks ==
    {c \in Range(handoff.ranked) :
        Eligible(ChunkOf[c]) /\ (handoff.version # NoValue => Records[ChunkOf[c]].version = handoff.version)}

InLedger(c) ==
    /\ ChunkOf[c] \in Range(Only(ledger).revisions)
    /\ ChunkOf[c] \notin DOMAIN Only(ledger).duplicates

(* What a list holds at some of its places, in their order. *)
AtPlaces(list, places) ==
    [i \in 1 .. Cardinality(places) |->
        list[CHOOSE p \in places : Cardinality(places \cap (1 .. p)) = i]]

(* load_candidates.  Enrichment is handed chunks that were read already. *)
LoadCandidates ==
    /\ phase = "chunks"
    /\ IF Expired THEN Stopped
       ELSE LET found == IF handoff.uses = "assembly" THEN SearchChunks ELSE Range(handoff.ranked) IN
            /\ unresolved' = (found # Range(handoff.ranked))
            /\ IF handoff.uses = "assembly" /\ \E c \in found : ~ InLedger(c)
               THEN Failed("integrity") /\ UNCHANGED chunks
               ELSE /\ chunks' = AtPlaces(handoff.ranked, {i \in DOMAIN handoff.ranked : handoff.ranked[i] \in found})
                    /\ phase' = "groups" /\ UNCHANGED fault
            /\ UNCHANGED <<ledger, groups, survivors, rechecked, eligibleThen, cache, loading, World>>

RevisionsOf(seq) == {ChunkOf[c] : c \in Range(seq)}

(* near_duplicate_groups: rows of the ledger's groups only. *)
NearGroups ==
    [r \in RevisionsOf(chunks) |->
        {row.group : row \in {x \in Range(Groups) :
            x.revision = r /\ ledger # NoValue /\ x.group \in Range(Only(ledger).groups)}}]

(* The revisions to load, each once, in the order they are first named. *)
Missing ==
    AtPlaces([j \in DOMAIN chunks |-> ChunkOf[chunks[j]]],
             {j \in DOMAIN chunks : \A k \in 1 .. (j - 1) : ChunkOf[chunks[k]] # ChunkOf[chunks[j]]})

ReadGroups ==
    /\ phase = "groups"
    /\ IF Expired THEN Stopped
       ELSE /\ groups' = NearGroups /\ missing' = Missing
            /\ phase' = "loading" /\ cursor' = 0
            /\ loader' = [i \in Loaders |-> IF Missing = << >> THEN [Idle EXCEPT !.step = "done"]
                                            ELSE [Idle EXCEPT !.step = "next"]]
            /\ UNCHANGED <<fault, ledger, chunks, unresolved, survivors, rechecked, eligibleThen, cache,
                           messages, World>>

-----------------------------------------------------------------------------
(* The threads. *)

Main == <<phase, fault, ledger, chunks, unresolved, groups, survivors, rechecked, eligibleThen, cache>>

(* load_many_worker: the next index, or the end of the queue. *)
Take(w) ==
    /\ phase = "loading" /\ loader[w].step = "next"
    /\ cursor' = cursor + 1
    /\ loader' = [loader EXCEPT ![w] =
         IF cursor + 1 > Len(missing) THEN [Idle EXCEPT !.step = "done"]
         ELSE [step |-> "revision", index |-> cursor + 1, seen |-> "none"]]
    /\ UNCHANGED <<messages, missing, Main, World>>

Report(w, result) ==
    /\ messages' = [messages EXCEPT ![w] = Append(@, [index |-> loader[w].index, result |-> result])]
    /\ loader' = [loader EXCEPT ![w] = [Idle EXCEPT !.step = "next"]]
    /\ UNCHANGED <<cursor, missing, Main, World>>

Error(why) == [ok |-> FALSE, why |-> why]
Loaded(r, seen) == [ok |-> TRUE, of |-> r, seen |-> seen]

(* load_source: the records, *)
ReadRevision(w) ==
    /\ phase = "loading" /\ loader[w].step = "revision"
    /\ IF Expired THEN Report(w, Error("timed_out"))
       ELSE /\ loader' = [loader EXCEPT ![w].step = "decision",
                                        ![w].seen = status[missing[loader[w].index]]]
            /\ UNCHANGED <<messages, cursor, missing, Main, World>>

(* the decision, *)
ReadDecision(w) ==
    /\ phase = "loading" /\ loader[w].step = "decision"
    /\ LET r == missing[loader[w].index] IN
       IF Expired THEN Report(w, Error("timed_out"))
       ELSE IF loader[w].seen = "failed" \/ Records[r].outcome \notin {"accepted", "warned"}
       THEN Report(w, Error("integrity"))
       ELSE /\ loader' = [loader EXCEPT ![w].step = "artifacts"]
            /\ UNCHANGED <<messages, cursor, missing, Main, World>>

(* and the two artifacts, which must name this revision. *)
ReadArtifacts(w) ==
    /\ phase = "loading" /\ loader[w].step = "artifacts"
    /\ LET r == missing[loader[w].index] IN
       Report(w, IF Expired THEN Error("timed_out")
                 ELSE IF Records[r].document = "broken" THEN Error("integrity")
                 ELSE Loaded(r, loader[w].seen))

(* The thread panics in the middle of a source. *)
Panic(w) ==
    /\ phase = "loading" /\ loader[w].step \in {"decision", "artifacts"}
    /\ loader' = [loader EXCEPT ![w].step = "panicked"]
    /\ UNCHANGED <<messages, cursor, missing, Main, World>>

AllMessages == UNION {Range(messages[w]) : w \in Loaders}
Outcome(i) == (CHOOSE m \in AllMessages : m.index = i).result

(* load_concurrently: one outcome per index, after the last thread ended. *)
Placed ==
    /\ \A w \in Loaders : loader[w].step # "panicked"
    /\ \A i \in DOMAIN missing : Cardinality({m \in AllMessages : m.index = i}) = 1

(* insert_loaded *)
Inserted(indices) ==
    [r \in {missing[i] : i \in indices} |-> Outcome(CHOOSE i \in indices : missing[i] = r)]

(* load_many_with_workers fails with the first error in input order and
   load_available keeps what loads. *)
JoinLoaders ==
    LET good == {i \in DOMAIN missing : Outcome(i).ok}
        bad == DOMAIN missing \ good
    IN
    /\ phase = "loading" /\ \A w \in Loaders : loader[w].step \in {"done", "panicked"}
    /\ IF handoff.uses = "enrichment"
       THEN /\ cache' = IF Placed THEN Inserted(good) ELSE << >>
            /\ phase' = "contexts" /\ UNCHANGED fault
       ELSE IF ~ Placed THEN Failed("worker") /\ UNCHANGED cache
       ELSE IF bad # {} THEN Failed(Outcome(Min(bad)).why) /\ UNCHANGED cache
       ELSE IF Expired THEN Failed("timed_out") /\ UNCHANGED cache
       ELSE cache' = Inserted(good) /\ phase' = "select" /\ UNCHANGED fault
    /\ UNCHANGED <<ledger, chunks, unresolved, groups, survivors, rechecked, eligibleThen, loading, World>>

(* enrich: the chunks whose section context may be used; the others keep the
   text that was indexed. *)
Enrich ==
    /\ phase = "contexts"
    /\ survivors' = IF Expired THEN {} ELSE RevisionsOf(chunks) \cap DOMAIN cache
    /\ phase' = "built"
    /\ UNCHANGED <<fault, ledger, chunks, unresolved, groups, rechecked, eligibleThen, cache, loading, World>>

(* load_seed_spans, then the selection: any of the sources that were loaded. *)
SelectSources(kept) ==
    /\ phase = "select"
    /\ IF Expired THEN Stopped
       ELSE /\ survivors' = kept /\ phase' = "recheck" /\ rechecked' = {}
            /\ eligibleThen' = {r \in Revisions : Eligible(r)}
            /\ UNCHANGED <<fault, ledger, chunks, unresolved, groups, cache, loading, World>>

-----------------------------------------------------------------------------
(* The last checks. *)

(* Mutant: only the records of one survivor are read again. *)
MutSame(r) == rechecked # {} \/ (status[r] = cache[r].seen)

(* What is recorded now is what was cached. *)
Same(r) == status[r] = cache[r].seen

(* recheck_survivors, one revision after the other *)
Recheck(r) ==
    /\ phase = "recheck" /\ r \in survivors \ rechecked
    /\ IF Expired THEN Stopped
       ELSE /\ IF Same(r) THEN rechecked' = rechecked \cup {r} /\ UNCHANGED <<phase, fault>>
               ELSE Failed("integrity") /\ UNCHANGED rechecked
            /\ UNCHANGED <<ledger, chunks, unresolved, groups, survivors, eligibleThen, cache, loading, World>>

(* finish: what the principal sees is compared once more. *)
FinishBundle ==
    /\ phase = "recheck" /\ rechecked = survivors
    /\ IF Expired THEN Stopped
       ELSE /\ IF granted THEN phase' = "built" /\ UNCHANGED fault ELSE Failed("permissions")
            /\ UNCHANGED <<ledger, chunks, unresolved, groups, survivors, rechecked, eligibleThen, cache,
                           loading, World>>

-----------------------------------------------------------------------------
(* The waiter. *)

Leave(end) ==
    /\ waiter' = end /\ stopped' = TRUE
    /\ UNCHANGED <<request, authority, now, excerpt, loading, Main>>

(* assemble_until_deadline: a result that comes too late is thrown away. *)
Receive ==
    /\ waiter = "waiting" /\ phase \in {"built", "failed"}
    /\ Leave(IF now >= Deadline THEN "timed_out" ELSE IF phase = "built" THEN "delivered" ELSE "failed")

TimeOut == waiter = "waiting" /\ now >= Deadline /\ Leave("timed_out")

Drop == waiter = "waiting" /\ Leave("dropped")

-----------------------------------------------------------------------------
(* A section read on its own (section_reader.rs), under the scopes its caller
   holds; there is no deadline. *)

Alone == <<request, authority, now, stopped, waiter, loading, Main>>

Naming(section) == {r \in Revisions : section \in Records[r].sections}

(* find_section_document: the one eligible revision that names it. *)
FindSection(section) ==
    LET pairs == {r \in Naming(section) : Eligible(r)} IN
    /\ handoff.uses = "section" /\ excerpt.step = "idle"
    /\ excerpt' = IF Cardinality(pairs) = 1
                  THEN [step |-> "found", section |-> section, of |-> Only(pairs)]
                  ELSE [step |-> "ended", result |-> IF pairs = {} THEN "not_found" ELSE "ambiguous"]
    /\ UNCHANGED Alone

(* read_section: the records again, then the artifacts. *)
ReadSection ==
    /\ excerpt.step = "found"
    /\ excerpt' = [step |-> "ended",
                   result |-> IF ~ Eligible(excerpt.of) THEN "not_found"
                              ELSE IF Records[excerpt.of].document = "broken" THEN "integrity"
                              ELSE "read"]
    /\ UNCHANGED Alone

SourcesNext ==
    \/ Tick \/ Regrant \/ (\E r \in Revisions : Fail(r) \/ Recheck(r))
    \/ Start \/ Authorize \/ ReadLedger \/ LoadCandidates \/ ReadGroups
    \/ \E w \in Loaders : Take(w) \/ ReadRevision(w) \/ ReadDecision(w) \/ ReadArtifacts(w) \/ Panic(w)
    \/ JoinLoaders \/ Enrich \/ (\E kept \in SUBSET DOMAIN cache : SelectSources(kept))
    \/ FinishBundle \/ Receive \/ TimeOut \/ Drop
    \/ (\E s \in UNION {Records[r].sections : r \in Revisions} : FindSection(s)) \/ ReadSection

-----------------------------------------------------------------------------
(* PROPERTIES *)

(* However the threads, the grants and the records moved, a bundle that is
   delivered rests on sources that are their own revision's, that the ledger
   of the set holds as no one's duplicate, and that were all eligible at one
   same instant, the one at which the last checks began. *)
BundleWasEligible ==
    waiter = "delivered" /\ handoff.uses = "assembly" =>
        /\ survivors \subseteq eligibleThen
        /\ \A r \in survivors : cache[r].of = r
        /\ survivors \subseteq Range(Only(ledger).revisions) \ DOMAIN Only(ledger).duplicates

=============================================================================
