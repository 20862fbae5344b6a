------------------------- MODULE SearchPartsProofs --------------------------
(***************************************************************************)
(* Theorems about the parts of a search (SearchParts).                     *)
(***************************************************************************)
EXTENDS SearchParts, RankingProofs, FiniteSetTheorems, TLAPS

(* A step is one of its part, and the part stays. *)
LEMMA StepsOfSearch ==
    ASSUME SearchNext
    PROVE  /\ part' = part
           /\ part = "sources" => Reads!SourcesNext
           /\ part = "representations" => Reps!RepNext
           /\ part = "ladder" => Scores!LadderNext
           /\ part = "answering" => Writer!AnsweringNext
  BY DEF SearchNext, SearchOthersIdle, EvidenceStep, SourcesStep, RepStep, AnsweringStep,
         LadderStep, ChunkJoin, ChunkBreakIdea, ChunkStart, ChunkRefineAtom,
         ChunkSplitAtom, ChunkFinishDrafts, ChunkReplay, EditGraphs

(* A library operator that a part uses is the library's. *)
LEMMA SameCardinality ==
    \A S : /\ Reads!Cardinality(S) = Cardinality(S)
           /\ Scores!Cardinality(S) = Cardinality(S)
           /\ Writer!Cardinality(S) = Cardinality(S)
  BY DEF Reads!Cardinality, Scores!Cardinality, Writer!Cardinality, Cardinality

-----------------------------------------------------------------------------
(* Lists.  Of n places the i-th is where the count reaches i. *)

LEMMA PlaceExists ==
    ASSUME NEW n \in Nat, NEW places \in SUBSET (1 .. n), NEW i \in 1 .. Cardinality(places)
    PROVE  \E p \in places : Cardinality(places \cap (1 .. p)) = i
<1> DEFINE count(m) == Cardinality(places \cap (1 .. m))
           S == {m \in Nat : i <= count(m)}
<1>1. IsFiniteSet(places) /\ Cardinality(places) \in Nat /\ \A m : IsFiniteSet(places \cap (1 .. m)) /\ count(m) \in Nat
  <2>1. IsFiniteSet(places)
    <3>1. IsFiniteSet(1 .. n)
      BY FS_Interval
    <3> QED
      BY <3>1, FS_Subset
  <2>2. \A m : IsFiniteSet(places \cap (1 .. m))
    BY <2>1, FS_Subset
  <2> QED
    BY <2>1, <2>2, FS_CardinalityType
<1>2. n \in S
  <2>1. places \cap (1 .. n) = places
    OBVIOUS
  <2> QED
    BY <1>1, <2>1
<1>3. PICK m \in S : \A y \in S : m <= y
  <2>1. S \in SUBSET Nat
    OBVIOUS
  <2> HIDE DEF S
  <2> QED
    BY <1>2, <2>1, LeastExists
<1>4. m # 0
  <2>1. places \cap (1 .. 0) = {}
    OBVIOUS
  <2>2. count(0) = 0
    BY <2>1, FS_EmptySet
  <2> QED
    BY <1>3, <2>2
<1>5. m - 1 \in Nat /\ count(m - 1) < i /\ i <= count(m)
  <2>1. m \in Nat /\ i <= count(m) /\ count(m - 1) \in Nat /\ i \in Nat
    BY <1>1, <1>3
  <2>2. m - 1 \in Nat /\ ~(m <= m - 1)
    BY <1>4, <2>1
  <2>3. m - 1 \notin S
    BY <1>3, <2>2
  <2>4. ~(i <= count(m - 1))
    BY <2>2, <2>3
  <2> HIDE DEF count
  <2> QED
    BY <2>1, <2>2, <2>4
<1>6. m \in places /\ count(m) = count(m - 1) + 1
  <2>1. CASE m \in places
    <3>1. places \cap (1 .. m) = (places \cap (1 .. (m - 1))) \cup {m} /\ m \notin places \cap (1 .. (m - 1))
      BY <1>3, <1>5, <2>1
    <3>2. Cardinality((places \cap (1 .. (m - 1))) \cup {m}) = Cardinality(places \cap (1 .. (m - 1))) + 1
      BY <1>1, <3>1, FS_AddElement
    <3> QED
      BY SMTT(30), <2>1, <3>1, <3>2
  <2>2. CASE m \notin places
    <3>1. places \cap (1 .. m) = places \cap (1 .. (m - 1))
      BY <1>3, <1>5, <2>2
    <3>2. count(m) = count(m - 1) /\ count(m) \in Nat /\ i \in Nat
      BY <1>1, <3>1
    <3> HIDE DEF count
    <3> QED
      BY <1>5, <3>2
  <2> QED
    BY <2>1, <2>2
<1>7. count(m) = i
  BY <1>1, <1>5, <1>6
<1> QED
  BY <1>6, <1>7

(* What is taken from a list stood at one of the places. *)
LEMMA AtPlacesHolds ==
    ASSUME NEW S, NEW list \in Seq(S), NEW places \in SUBSET DOMAIN list
    PROVE  Reads!AtPlaces(list, places) \in Seq({list[p] : p \in places})
<1>1. PICK n \in Nat : DOMAIN list = 1 .. n
  OBVIOUS
<1>2. Cardinality(places) \in Nat
  <2>1. IsFiniteSet(1 .. n)
    BY FS_Interval
  <2> QED
    BY <1>1, <2>1, FS_Subset, FS_CardinalityType
<1> DEFINE at(i) == CHOOSE p \in places : Reads!Cardinality(places \cap (1 .. p)) = i
<1>3. \A i \in 1 .. Cardinality(places) : at(i) \in places
  <2> TAKE i \in 1 .. Cardinality(places)
  <2>1. PICK p \in places : Cardinality(places \cap (1 .. p)) = i
    BY <1>1, PlaceExists
  <2>2. Reads!Cardinality(places \cap (1 .. p)) = i
    BY <2>1, SameCardinality
  <2> QED
    BY <2>2
<1>4. Reads!AtPlaces(list, places) = [i \in 1 .. Reads!Cardinality(places) |-> list[at(i)]]
  BY DEF Reads!AtPlaces
<1>5. PICK m \in Nat : m = Reads!Cardinality(places)
  BY <1>2, SameCardinality
<1>6. \A i \in 1 .. m : at(i) \in places
  BY <1>3, <1>5, SameCardinality
<1> HIDE DEF at
<1>7. \A i \in 1 .. m : list[at(i)] \in {list[p] : p \in places}
  BY <1>6
<1> QED
  BY SMTT(30), <1>4, <1>5, <1>7

-----------------------------------------------------------------------------
(* The reads behind a bundle.  The worker's phase says what it may rely on:
   the chunks and the sources to load are of revisions that the ledger holds
   as no one's duplicate, a loader answers with the source it was asked for
   if that was valid when it looked, and no revision has become eligible
   since the last checks began. *)

SourceRevisions == DOMAIN SourceRecords
Admissible == {r \in SourceRevisions : SourceRecords[r].outcome \in {"accepted", "warned"}}
OnLedger ==
    {r \in SourceRevisions : /\ r \in Reads!Range(Reads!Only(ledger).revisions)
                             /\ r \notin DOMAIN Reads!Only(ledger).duplicates}

Phases == {"handoff", "authority", "ledger", "chunks", "groups", "loading", "select", "recheck",
           "built", "failed"}

(* What a loader may report. *)
Replies ==
    {[index |-> i, result |-> Reads!Loaded(missing[i], "valid")] :
        i \in {j \in DOMAIN missing : missing[j] \in Admissible}}
    \cup {[index |-> i, result |-> Reads!Error(why)] :
        i \in DOMAIN missing, why \in {"timed_out", "integrity"}}

LoaderHolds(l) ==
    /\ l.step \in {"revision", "decision", "artifacts"} => l.index \in DOMAIN missing
    /\ l.step = "decision" => l.seen \in {"valid", "failed"}
    /\ l.step = "artifacts" => l.seen = "valid" /\ missing[l.index] \in Admissible

Loading ==
    /\ missing \in Seq(OnLedger) /\ cursor \in Nat
    /\ DOMAIN loader = SourceLoaders
    /\ \A w \in SourceLoaders : DOMAIN loader[w] = {"step", "index", "seen"} /\ LoaderHolds(loader[w])
    /\ messages \in [SourceLoaders -> Seq(Replies)]

Cached == \A r \in DOMAIN cache : r \in OnLedger \cap Admissible /\ cache[r] = Reads!Loaded(r, "valid")

Checked ==
    /\ survivors \subseteq DOMAIN cache /\ rechecked \subseteq eligibleThen
    /\ \A r \in Admissible : status[r] # "failed" => r \in eligibleThen

AssemblyInv ==
    /\ waiter = "delivered" => phase = "built"
    /\ phase \in Phases
    /\ phase \in {"handoff", "authority", "ledger", "chunks", "groups"} =>
         messages = [w \in SourceLoaders |-> << >>]
    /\ phase = "groups" => chunks \in Seq({c \in DOMAIN SourceChunks : SourceChunks[c] \in OnLedger})
    /\ phase = "loading" => Loading
    /\ phase \in {"select", "recheck", "built"} => Cached
    /\ phase \in {"recheck", "built"} => Checked
    /\ phase = "built" => survivors \subseteq rechecked

SourcesInv ==
    /\ handoff \in SourceHandoffs
    /\ status \in [SourceRevisions -> {"valid", "failed"}]
    /\ handoff.uses = "assembly" => AssemblyInv

LEMMA SourcesInits == ASSUME Reads!SourcesInit PROVE SourcesInv
  BY DEF SourcesInv, AssemblyInv, Phases, Reads!SourcesInit, Reads!Revisions, SourceRevisions

(* What moves beside the worker. *)
LEMMA WorldMoves ==
    ASSUME SourcesInv,
           UNCHANGED <<handoff, phase, ledger, chunks, missing, cursor, loader, messages, cache,
                       survivors, rechecked, eligibleThen>>,
           status' \in [SourceRevisions -> {"valid", "failed"}],
           \A r \in SourceRevisions : status'[r] # "failed" => status[r] # "failed",
           waiter' = "delivered" => waiter = "delivered" \/ phase = "built"
    PROVE  SourcesInv'
<1>1. OnLedger' = OnLedger
  BY DEF OnLedger
<1>2. Replies' = Replies /\ \A l : LoaderHolds(l)' <=> LoaderHolds(l)
  BY DEF Replies, LoaderHolds
<1>3. (Loading' <=> Loading) /\ (Cached' <=> Cached)
  BY <1>1, <1>2 DEF Loading, Cached
<1>4. Checked => Checked'
  BY DEF Checked, Admissible
<1> QED
  BY <1>1, <1>3, <1>4 DEF SourcesInv, AssemblyInv

LEMMA WorldSteps ==
    ASSUME SourcesInv,
           \/ Reads!Tick \/ Reads!Regrant \/ \E r \in SourceRevisions : Reads!Fail(r)
           \/ Reads!Receive \/ Reads!TimeOut \/ Reads!Drop
           \/ (\E s : Reads!FindSection(s)) \/ Reads!ReadSection
    PROVE  SourcesInv'
<1>1. /\ UNCHANGED <<handoff, phase, ledger, chunks, missing, cursor, loader, messages, cache,
                     survivors, rechecked, eligibleThen>>
      /\ waiter' = "delivered" => waiter = "delivered" \/ phase = "built"
  BY DEF Reads!Tick, Reads!Regrant, Reads!Fail, Reads!Receive, Reads!TimeOut, Reads!Drop, Reads!Leave,
         Reads!FindSection, Reads!ReadSection, Reads!Alone, Reads!request, Reads!authority, Reads!loading,
         Reads!Main
<1>2. /\ status' \in [SourceRevisions -> {"valid", "failed"}]
      /\ \A r \in SourceRevisions : status'[r] # "failed" => status[r] # "failed"
  <2>1. CASE UNCHANGED status
    BY <2>1 DEF SourcesInv
  <2>2. CASE \E r \in SourceRevisions : Reads!Fail(r)
    BY <2>2 DEF SourcesInv, Reads!Fail
  <2> QED
    BY <2>1, <2>2 DEF Reads!Tick, Reads!Regrant, Reads!Receive, Reads!TimeOut, Reads!Drop, Reads!Leave,
         Reads!FindSection, Reads!ReadSection, Reads!Alone, Reads!authority
<1> QED
  BY <1>1, <1>2, WorldMoves

(* A worker that stops or fails leaves nothing to rely on. *)
LEMMA WorkerFails ==
    ASSUME SourcesInv, phase # "built", phase' = "failed", UNCHANGED <<handoff, status, waiter>>
    PROVE  SourcesInv'
  BY DEF SourcesInv, AssemblyInv, Phases

LEMMA EarlySteps ==
    ASSUME SourcesInv, Reads!Start \/ Reads!Authorize \/ Reads!ReadLedger
    PROVE  SourcesInv'
<1>1. /\ UNCHANGED <<handoff, status, waiter, messages>> /\ phase \in {"handoff", "authority", "ledger"}
      /\ phase' = "failed" \/ handoff.uses = "assembly" => phase' \in {"failed", "authority", "ledger", "chunks"}
  BY DEF Reads!Start, Reads!Authorize, Reads!ReadLedger, Reads!Stopped, Reads!Failed, Reads!World,
         Reads!request, Reads!authority, Reads!loading
<1>2. CASE phase' = "failed"
  BY <1>1, <1>2, WorkerFails
<1>3. CASE phase' # "failed"
  BY <1>1, <1>3 DEF SourcesInv, AssemblyInv, Phases
<1> QED
  BY <1>2, <1>3

LEMMA LoadCandidatesSteps == ASSUME SourcesInv, Reads!LoadCandidates PROVE SourcesInv'
<1>1. UNCHANGED <<handoff, status, waiter, messages, ledger>> /\ phase = "chunks"
  BY DEF Reads!LoadCandidates, Reads!Stopped, Reads!World, Reads!request, Reads!authority, Reads!loading
<1>2. CASE phase' = "failed"
  BY <1>1, <1>2, WorkerFails
<1>3. CASE phase' # "failed"
  <2> SUFFICES ASSUME handoff.uses = "assembly" PROVE SourcesInv'
    BY <1>1 DEF SourcesInv
  <2> DEFINE found == Reads!SearchChunks
             places == {i \in DOMAIN handoff.ranked : handoff.ranked[i] \in found}
  <2>1. /\ phase' = "groups" /\ chunks' = Reads!AtPlaces(handoff.ranked, places)
        /\ \A c \in found : Reads!InLedger(c)
    BY <1>3 DEF Reads!LoadCandidates, Reads!Stopped, Reads!Failed
  <2>2. handoff.ranked \in Seq(DOMAIN SourceChunks)
    BY ChunksAreRecorded DEF SourcesInv
  <2>3. chunks' \in Seq({handoff.ranked[i] : i \in places})
    BY <2>1, <2>2, AtPlacesHolds
  <2>4. \A i \in places : handoff.ranked[i] \in DOMAIN SourceChunks /\ SourceChunks[handoff.ranked[i]] \in OnLedger
    <3> TAKE i \in places
    <3>1. handoff.ranked[i] \in DOMAIN SourceChunks /\ Reads!InLedger(handoff.ranked[i])
      BY <2>1, <2>2
    <3> QED
      BY <3>1, ChunksAreRecorded DEF Reads!InLedger, OnLedger, SourceRevisions
  <2> HIDE DEF places
  <2>5. {handoff.ranked[i] : i \in places} \subseteq {c \in DOMAIN SourceChunks : SourceChunks[c] \in OnLedger}
    BY <2>4
  <2>6. chunks' \in Seq({c \in DOMAIN SourceChunks : SourceChunks[c] \in OnLedger})
    BY <2>3, <2>5
  <2>7. OnLedger' = OnLedger
    BY <1>1 DEF OnLedger
  <2> QED
    BY <1>1, <2>1, <2>6, <2>7 DEF SourcesInv, AssemblyInv, Phases
<1> QED
  BY <1>2, <1>3

LEMMA ReadGroupsSteps == ASSUME SourcesInv, Reads!ReadGroups PROVE SourcesInv'
<1>1. UNCHANGED <<handoff, status, waiter, messages, ledger>> /\ phase = "groups"
  BY DEF Reads!ReadGroups, Reads!Stopped, Reads!World, Reads!request, Reads!authority, Reads!loading
<1>2. CASE phase' = "failed"
  BY <1>1, <1>2, WorkerFails
<1>3. CASE phase' # "failed"
  <2> SUFFICES ASSUME handoff.uses = "assembly" PROVE SourcesInv'
    BY <1>1 DEF SourcesInv
  <2>1. /\ phase' = "loading" /\ missing' = Reads!Missing /\ cursor' = 0
        /\ loader' = [i \in SourceLoaders |->
                        IF Reads!Missing = << >> THEN [Reads!Idle EXCEPT !.step = "done"]
                        ELSE [Reads!Idle EXCEPT !.step = "next"]]
    BY <1>3 DEF Reads!ReadGroups, Reads!Stopped, Reads!Failed
  <2>2. messages = [w \in SourceLoaders |-> << >>]
        /\ chunks \in Seq({c \in DOMAIN SourceChunks : SourceChunks[c] \in OnLedger})
    BY <1>1 DEF SourcesInv, AssemblyInv
  <2>3. missing' \in Seq(OnLedger)
    <3> DEFINE list == [j \in DOMAIN chunks |-> SourceChunks[chunks[j]]]
               places == {j \in DOMAIN chunks :
                            \A k \in 1 .. (j - 1) : SourceChunks[chunks[k]] # SourceChunks[chunks[j]]}
    <3>1. list \in Seq(OnLedger) /\ places \in SUBSET DOMAIN list
      BY <2>2
    <3>2. Reads!Missing = Reads!AtPlaces(list, places)
      BY DEF Reads!Missing
    <3> HIDE DEF list, places
    <3>3. Reads!AtPlaces(list, places) \in Seq({list[p] : p \in places})
      BY <3>1, AtPlacesHolds
    <3>4. {list[p] : p \in places} \subseteq OnLedger
      BY <3>1
    <3> QED
      BY <2>1, <3>2, <3>3, <3>4
  <2>4. \A w \in SourceLoaders :
          DOMAIN loader'[w] = {"step", "index", "seen"} /\ LoaderHolds(loader[w])'
    <3> TAKE w \in SourceLoaders
    <3>1. PICK l : l = loader'[w]
      OBVIOUS
    <3>2. DOMAIN l = {"step", "index", "seen"} /\ l.step \in {"done", "next"}
      BY <2>1, <3>1 DEF Reads!Idle
    <3> QED
      BY <3>1, <3>2 DEF LoaderHolds
  <2>5. messages' \in [SourceLoaders -> Seq(Replies)]'
    BY <1>1, <2>2
  <2>6. Loading'
    BY <1>1, <2>1, <2>3, <2>4, <2>5 DEF Loading, OnLedger
  <2> QED
    BY <1>1, <2>1, <2>6 DEF SourcesInv, AssemblyInv, Phases
<1> QED
  BY <1>2, <1>3

(* A thread moves: it holds what its step says it does, and what it reported,
   if anything, is a reply. *)
LEMMA OneLoaderMoves ==
    ASSUME SourcesInv, phase = "loading", NEW w \in SourceLoaders, NEW l,
           UNCHANGED <<handoff, status, waiter, phase, ledger, chunks, missing>>,
           handoff.uses = "assembly" =>
               /\ loader' = [loader EXCEPT ![w] = l] /\ cursor' \in Nat
               /\ DOMAIN l = {"step", "index", "seen"} /\ LoaderHolds(l)
               /\ \/ UNCHANGED messages
                  \/ \E m \in Replies : messages' = [messages EXCEPT ![w] = Append(@, m)]
    PROVE  SourcesInv'
<1> SUFFICES ASSUME handoff.uses = "assembly" PROVE SourcesInv'
  BY DEF SourcesInv
<1>1. Loading
  BY DEF SourcesInv, AssemblyInv
<1>2. OnLedger' = OnLedger /\ Replies' = Replies /\ \A x : LoaderHolds(x) => LoaderHolds(x)'
  BY DEF OnLedger, Replies, LoaderHolds
<1>3. \A v \in SourceLoaders :
        DOMAIN loader'[v] = {"step", "index", "seen"} /\ LoaderHolds(loader'[v])
  BY <1>1 DEF Loading
<1>4. messages' \in [SourceLoaders -> Seq(Replies)]
  <2>1. messages \in [SourceLoaders -> Seq(Replies)]
    BY <1>1 DEF Loading
  <2>2. CASE UNCHANGED messages
    BY <2>1, <2>2
  <2>3. CASE \E m \in Replies : messages' = [messages EXCEPT ![w] = Append(@, m)]
    <3>1. PICK m \in Replies : messages' = [messages EXCEPT ![w] = Append(messages[w], m)]
      BY <2>3
    <3>2. Append(messages[w], m) \in Seq(Replies)
      BY <2>1
    <3> QED
      BY <2>1, <3>1, <3>2
  <2> QED
    BY <2>2, <2>3
<1>5. \A v \in SourceLoaders : LoaderHolds(loader[v])'
  BY <1>3 DEF LoaderHolds
<1>6. Loading'
  BY <1>1, <1>2, <1>3, <1>4, <1>5 DEF Loading
<1> QED
  BY <1>6 DEF SourcesInv, AssemblyInv, Phases

LEMMA TakeSteps == ASSUME SourcesInv, NEW w \in SourceLoaders, Reads!Take(w) PROVE SourcesInv'
<1> DEFINE l == IF cursor + 1 > Len(missing) THEN [Reads!Idle EXCEPT !.step = "done"]
                ELSE [step |-> "revision", index |-> cursor + 1, seen |-> "none"]
<1>1. /\ phase = "loading" /\ loader' = [loader EXCEPT ![w] = l] /\ cursor' = cursor + 1
      /\ UNCHANGED <<handoff, status, waiter, phase, ledger, chunks, missing, messages>>
  BY DEF Reads!Take, Reads!Main, Reads!World, Reads!request, Reads!authority
<1>2. ASSUME handoff.uses = "assembly"
      PROVE  cursor' \in Nat /\ DOMAIN l = {"step", "index", "seen"} /\ LoaderHolds(l)
  <2>1. cursor \in Nat /\ Len(missing) \in Nat /\ DOMAIN missing = 1 .. Len(missing)
    BY <1>1, <1>2 DEF SourcesInv, AssemblyInv, Loading
  <2>2. CASE cursor + 1 > Len(missing)
    <3>1. PICK x : x = [Reads!Idle EXCEPT !.step = "done"]
      OBVIOUS
    <3>2. DOMAIN x = {"step", "index", "seen"} /\ x.step = "done"
      BY <3>1 DEF Reads!Idle
    <3> QED
      BY <1>1, <2>1, <2>2, <3>1, <3>2 DEF LoaderHolds
  <2>3. CASE ~(cursor + 1 > Len(missing))
    <3>1. PICK x : x = [step |-> "revision", index |-> cursor + 1, seen |-> "none"]
      OBVIOUS
    <3>2. DOMAIN x = {"step", "index", "seen"} /\ x.step = "revision" /\ x.index \in DOMAIN missing
      BY <2>1, <2>3, <3>1
    <3> QED
      BY <1>1, <2>1, <2>3, <3>1, <3>2 DEF LoaderHolds
  <2> QED
    BY <2>2, <2>3
<1> HIDE DEF l
<1> QED
  BY <1>1, <1>2, OneLoaderMoves

(* A report leaves the thread free for the next source. *)
LEMMA ReportSteps ==
    ASSUME SourcesInv, phase = "loading", NEW w \in SourceLoaders, NEW result, Reads!Report(w, result),
           handoff.uses = "assembly" => [index |-> loader[w].index, result |-> result] \in Replies
    PROVE  SourcesInv'
<1>1. PICK l : l = [Reads!Idle EXCEPT !.step = "next"]
  OBVIOUS
<1>2. DOMAIN l = {"step", "index", "seen"} /\ l.step = "next"
  BY <1>1 DEF Reads!Idle
<1>3. LoaderHolds(l)
  BY <1>2 DEF LoaderHolds
<1>4. /\ messages' = [messages EXCEPT ![w] = Append(messages[w], [index |-> loader[w].index, result |-> result])]
      /\ loader' = [loader EXCEPT ![w] = l] /\ UNCHANGED cursor
      /\ UNCHANGED <<handoff, status, waiter, phase, ledger, chunks, missing>>
  BY <1>1 DEF Reads!Report, Reads!Main, Reads!World, Reads!request, Reads!authority
<1>5. handoff.uses = "assembly" => cursor \in Nat
  BY DEF SourcesInv, AssemblyInv, Loading
<1>6. handoff.uses = "assembly" => \E m \in Replies : messages' = [messages EXCEPT ![w] = Append(@, m)]
  BY <1>4
<1> QED
  BY <1>2, <1>3, <1>4, <1>5, <1>6, OneLoaderMoves

LEMMA ErrorsAreReplies ==
    ASSUME NEW i \in DOMAIN missing, NEW why \in {"timed_out", "integrity"}
    PROVE  [index |-> i, result |-> Reads!Error(why)] \in Replies
  BY DEF Replies

LEMMA ThreadSteps ==
    ASSUME SourcesInv, NEW w \in SourceLoaders,
           Reads!ReadRevision(w) \/ Reads!ReadDecision(w) \/ Reads!ReadArtifacts(w) \/ Reads!Panic(w)
    PROVE  SourcesInv'
<1>1. phase = "loading" /\ loader[w].step \in {"revision", "decision", "artifacts"}
  BY DEF Reads!ReadRevision, Reads!ReadDecision, Reads!ReadArtifacts, Reads!Panic
<1> DEFINE assembly == handoff.uses = "assembly"
           r == missing[loader[w].index]
<1>2. assembly => /\ DOMAIN loader = SourceLoaders /\ DOMAIN loader[w] = {"step", "index", "seen"}
                  /\ loader[w].index \in DOMAIN missing /\ cursor \in Nat
                  /\ r \in SourceRevisions /\ LoaderHolds(loader[w])
  <2> SUFFICES ASSUME assembly PROVE Loading
    BY <1>1 DEF Loading, LoaderHolds, OnLedger
  <2> QED
    BY <1>1 DEF SourcesInv, AssemblyInv
<1>3. ASSUME NEW why \in {"timed_out", "integrity"}, Reads!Report(w, Reads!Error(why)) PROVE SourcesInv'
  BY <1>1, <1>2, <1>3, ErrorsAreReplies, ReportSteps
<1>4. ASSUME NEW l, loader' = [loader EXCEPT ![w] = l],
             UNCHANGED <<messages, cursor, missing, Reads!Main, Reads!World>>,
             assembly => DOMAIN l = {"step", "index", "seen"} /\ LoaderHolds(l)
      PROVE  SourcesInv'
  BY <1>1, <1>2, <1>4, OneLoaderMoves DEF Reads!Main, Reads!World, Reads!request, Reads!authority
<1>5. ASSUME NEW step \in {"decision", "artifacts", "panicked"}, NEW seen,
             loader' = [loader EXCEPT ![w] = [loader[w] EXCEPT !.step = step, !.seen = seen]],
             UNCHANGED <<messages, cursor, missing, Reads!Main, Reads!World>>,
             assembly /\ step = "decision" => seen \in {"valid", "failed"},
             assembly /\ step = "artifacts" => seen = "valid" /\ r \in Admissible
      PROVE  SourcesInv'
  <2>1. PICK l : l = [loader[w] EXCEPT !.step = step, !.seen = seen]
    OBVIOUS
  <2>2. assembly => DOMAIN l = {"step", "index", "seen"} /\ l.step = step /\ l.index = loader[w].index /\ l.seen = seen
    BY <1>2, <2>1
  <2>3. assembly => DOMAIN l = {"step", "index", "seen"} /\ LoaderHolds(l)
    BY <1>2, <1>5, <2>2 DEF LoaderHolds
  <2> QED
    BY <1>4, <1>5, <2>1, <2>3
<1>6. CASE Reads!ReadRevision(w)
  <2>1. status[r] \in {"valid", "failed"} \/ ~assembly
    BY <1>2 DEF SourcesInv
  <2>2. CASE Reads!Expired
    BY <1>3, <1>6, <2>2 DEF Reads!ReadRevision
  <2>3. CASE ~Reads!Expired
    <3>1. /\ loader' = [loader EXCEPT ![w] = [loader[w] EXCEPT !.step = "decision", !.seen = status[r]]]
          /\ UNCHANGED <<messages, cursor, missing, Reads!Main, Reads!World>>
      BY <1>6, <2>3 DEF Reads!ReadRevision
    <3> QED
      BY <1>5, <2>1, <3>1
  <2> QED
    BY <2>2, <2>3
<1>7. CASE Reads!ReadDecision(w)
  <2>1. CASE Reads!Expired
    BY <1>3, <1>7, <2>1 DEF Reads!ReadDecision
  <2>2. CASE ~Reads!Expired /\ (loader[w].seen = "failed" \/ SourceRecords[r].outcome \notin {"accepted", "warned"})
    BY <1>3, <1>7, <2>2 DEF Reads!ReadDecision
  <2>3. CASE ~Reads!Expired /\ ~(loader[w].seen = "failed" \/ SourceRecords[r].outcome \notin {"accepted", "warned"})
    <3>1. /\ loader' = [loader EXCEPT ![w] = [loader[w] EXCEPT !.step = "artifacts"]]
          /\ UNCHANGED <<messages, cursor, missing, Reads!Main, Reads!World>>
      BY <1>7, <2>3 DEF Reads!ReadDecision
    <3>2. PICK l : l = [loader[w] EXCEPT !.step = "artifacts"]
      OBVIOUS
    <3>3. assembly => DOMAIN l = {"step", "index", "seen"} /\ l.step = "artifacts" /\ l.index = loader[w].index
                      /\ l.seen = loader[w].seen
      BY <1>2, <3>2
    <3>4. loader[w].step = "decision"
      BY <1>7 DEF Reads!ReadDecision
    <3>5. assembly => DOMAIN l = {"step", "index", "seen"} /\ LoaderHolds(l)
      BY <1>2, <2>3, <3>3, <3>4 DEF LoaderHolds, Admissible
    <3> QED
      BY <1>4, <3>1, <3>2, <3>5
  <2> QED
    BY <2>1, <2>2, <2>3
<1>8. CASE Reads!ReadArtifacts(w)
  <2>1. CASE Reads!Expired
    BY <1>3, <1>8, <2>1 DEF Reads!ReadArtifacts
  <2>2. CASE ~Reads!Expired /\ SourceRecords[r].document = "broken"
    BY <1>3, <1>8, <2>2 DEF Reads!ReadArtifacts
  <2>3. CASE ~Reads!Expired /\ SourceRecords[r].document # "broken"
    <3>1. Reads!Report(w, Reads!Loaded(r, loader[w].seen)) /\ loader[w].step = "artifacts"
      BY <1>8, <2>3 DEF Reads!ReadArtifacts
    <3>2. assembly => loader[w].seen = "valid" /\ r \in Admissible
      BY <1>2, <3>1 DEF LoaderHolds
    <3>3. assembly => [index |-> loader[w].index, result |-> Reads!Loaded(r, loader[w].seen)] \in Replies
      BY <1>2, <3>2 DEF Replies
    <3> QED
      BY <1>1, <3>1, <3>3, ReportSteps
  <2> QED
    BY <2>1, <2>2, <2>3
<1>9. CASE Reads!Panic(w)
  <2>1. /\ loader' = [loader EXCEPT ![w] = [loader[w] EXCEPT !.step = "panicked"]]
        /\ UNCHANGED <<messages, cursor, missing, Reads!Main, Reads!World>>
    BY <1>9 DEF Reads!Panic
  <2>2. PICK l : l = [loader[w] EXCEPT !.step = "panicked"]
    OBVIOUS
  <2>3. assembly => DOMAIN l = {"step", "index", "seen"} /\ l.step = "panicked"
    BY <1>2, <2>2
  <2>4. assembly => DOMAIN l = {"step", "index", "seen"} /\ LoaderHolds(l)
    BY <2>3 DEF LoaderHolds
  <2> QED
    BY <1>4, <2>1, <2>2, <2>4
<1> QED
  BY <1>6, <1>7, <1>8, <1>9

(* When each index has one report, what it reports was asked for there. *)
LEMMA OutcomesArePlaced ==
    ASSUME Loading, Reads!Placed, NEW i \in DOMAIN missing, Reads!Outcome(i).ok
    PROVE  missing[i] \in OnLedger \cap Admissible /\ Reads!Outcome(i) = Reads!Loaded(missing[i], "valid")
<1>1. \A m \in Reads!AllMessages : m \in Replies
  BY DEF Loading, Reads!AllMessages, Reads!Range
<1>2. \E m \in Reads!AllMessages : m.index = i
  <2>1. PICK own : own = {m \in Reads!AllMessages : m.index = i}
    OBVIOUS
  <2>2. Cardinality(own) = 1
    BY <2>1, SameCardinality DEF Reads!Placed
  <2>3. own # {}
    BY <2>2, FS_EmptySet
  <2> QED
    BY <2>1, <2>3
<1>3. PICK m \in Reads!AllMessages : m.index = i /\ Reads!Outcome(i) = m.result
  BY <1>2 DEF Reads!Outcome
<1>4. m.result.ok /\ m \in Replies
  BY <1>1, <1>3
<1>5. missing[i] \in OnLedger
  BY DEF Loading
<1>6. CASE \E j \in DOMAIN missing : missing[j] \in Admissible
             /\ m = [index |-> j, result |-> Reads!Loaded(missing[j], "valid")]
  BY <1>3, <1>5, <1>6
<1>7. CASE \E j \in DOMAIN missing, why \in {"timed_out", "integrity"} :
             m = [index |-> j, result |-> Reads!Error(why)]
  BY <1>4, <1>7 DEF Reads!Error
<1> QED
  BY <1>4, <1>6, <1>7 DEF Replies

LEMMA JoinLoadersSteps == ASSUME SourcesInv, Reads!JoinLoaders PROVE SourcesInv'
<1>1. UNCHANGED <<handoff, status, waiter, ledger>> /\ phase = "loading"
  BY DEF Reads!JoinLoaders, Reads!Failed, Reads!World, Reads!request, Reads!authority
<1>2. CASE phase' = "failed"
  BY <1>1, <1>2, WorkerFails
<1>3. CASE phase' # "failed"
  <2> SUFFICES ASSUME handoff.uses = "assembly" PROVE SourcesInv'
    BY <1>1 DEF SourcesInv
  <2>1. /\ Reads!Placed /\ \A i \in DOMAIN missing : Reads!Outcome(i).ok
        /\ cache' = Reads!Inserted(DOMAIN missing) /\ phase' = "select"
    <3> DEFINE good == {i \in DOMAIN missing : Reads!Outcome(i).ok}
               bad == DOMAIN missing \ good
    <3>1. Reads!Placed /\ bad = {} /\ cache' = Reads!Inserted(good) /\ phase' = "select"
      BY <1>3 DEF Reads!JoinLoaders, Reads!Failed
    <3>2. good = DOMAIN missing
      BY <3>1
    <3> QED
      BY <3>1, <3>2
  <2>2. Loading
    BY <1>1 DEF SourcesInv, AssemblyInv
  <2>3. \A i \in DOMAIN missing :
          missing[i] \in OnLedger \cap Admissible /\ Reads!Outcome(i) = Reads!Loaded(missing[i], "valid")
    BY <2>1, <2>2, OutcomesArePlaced
  <2>4. \A r \in DOMAIN cache' : r \in OnLedger \cap Admissible /\ cache'[r] = Reads!Loaded(r, "valid")
    <3> DEFINE at(r) == CHOOSE i \in DOMAIN missing : missing[i] = r
               loaded == {missing[i] : i \in DOMAIN missing}
    <3>1. cache' = [r \in loaded |-> Reads!Outcome(at(r))]
      BY <2>1 DEF Reads!Inserted
    <3>2. \A r \in loaded : at(r) \in DOMAIN missing /\ missing[at(r)] = r
      OBVIOUS
    <3> HIDE DEF at, loaded
    <3> QED
      BY <2>3, <3>1, <3>2
  <2>5. Cached'
    BY <1>1, <2>4 DEF Cached, OnLedger
  <2> QED
    BY <1>1, <2>1, <2>5 DEF SourcesInv, AssemblyInv, Phases
<1> QED
  BY <1>2, <1>3

(* Only a hand-off for enrichment comes to its contexts. *)
LEMMA EnrichSteps == ASSUME SourcesInv, Reads!Enrich PROVE SourcesInv'
<1>1. UNCHANGED <<handoff, status>> /\ phase = "contexts"
  BY DEF Reads!Enrich, Reads!World, Reads!request, Reads!authority
<1> QED
  BY <1>1 DEF SourcesInv, AssemblyInv, Phases

LEMMA SelectSourcesSteps ==
    ASSUME SourcesInv, NEW kept \in SUBSET DOMAIN cache, Reads!SelectSources(kept)
    PROVE  SourcesInv'
<1>1. UNCHANGED <<handoff, status, waiter, ledger, cache>> /\ phase = "select"
  BY DEF Reads!SelectSources, Reads!Stopped, Reads!World, Reads!request, Reads!authority
<1>2. CASE phase' = "failed"
  BY <1>1, <1>2, WorkerFails
<1>3. CASE phase' # "failed"
  <2>1. /\ phase' = "recheck" /\ survivors' = kept /\ rechecked' = {}
        /\ eligibleThen' = {r \in SourceRevisions : Reads!Eligible(r)}
    BY <1>3 DEF Reads!SelectSources, Reads!Stopped, Reads!Failed, Reads!Revisions, SourceRevisions
  <2>2. Checked'
    BY <1>1, <2>1 DEF Checked, Admissible, Reads!Eligible
  <2>3. handoff.uses = "assembly" => Cached'
    BY <1>1 DEF SourcesInv, AssemblyInv, Cached, OnLedger
  <2> QED
    BY <1>1, <2>1, <2>2, <2>3 DEF SourcesInv, AssemblyInv, Phases
<1> QED
  BY <1>2, <1>3

(* What is recorded now is what was cached, so it is valid now, and it was
   eligible when the checks began, for no revision leaves Failed. *)
LEMMA RecheckSteps ==
    ASSUME SourcesInv, NEW r \in SourceRevisions, Reads!Recheck(r)
    PROVE  SourcesInv'
<1>1. /\ UNCHANGED <<handoff, status, waiter, ledger, cache, survivors, eligibleThen>>
      /\ phase = "recheck" /\ r \in survivors
  BY DEF Reads!Recheck, Reads!Stopped, Reads!World, Reads!request, Reads!authority
<1>2. CASE phase' = "failed"
  BY <1>1, <1>2, WorkerFails
<1>3. CASE phase' # "failed"
  <2> SUFFICES ASSUME handoff.uses = "assembly" PROVE SourcesInv'
    BY <1>1 DEF SourcesInv
  <2>1. Reads!Same(r) /\ rechecked' = rechecked \cup {r} /\ phase' = "recheck"
    BY <1>1, <1>3 DEF Reads!Recheck, Reads!Stopped, Reads!Failed
  <2>2. Cached /\ Checked
    BY <1>1 DEF SourcesInv, AssemblyInv
  <2>3. r \in Admissible /\ cache[r] = Reads!Loaded(r, "valid")
    BY <1>1, <2>2 DEF Cached, Checked
  <2>4. status[r] = "valid"
    BY <2>1, <2>3 DEF Reads!Same, Reads!Loaded
  <2>5. r \in eligibleThen
    BY <2>2, <2>3, <2>4 DEF Checked
  <2>6. Cached' /\ Checked'
    BY <1>1, <2>1, <2>2, <2>5 DEF Cached, Checked, OnLedger
  <2> QED
    BY <1>1, <2>1, <2>6 DEF SourcesInv, AssemblyInv, Phases
<1> QED
  BY <1>2, <1>3

LEMMA FinishBundleSteps == ASSUME SourcesInv, Reads!FinishBundle PROVE SourcesInv'
<1>1. /\ UNCHANGED <<handoff, status, waiter, ledger, cache, survivors, rechecked, eligibleThen>>
      /\ phase = "recheck" /\ survivors = rechecked
  BY DEF Reads!FinishBundle, Reads!Stopped, Reads!World, Reads!request, Reads!authority
<1>2. CASE phase' = "failed"
  BY <1>1, <1>2, WorkerFails
<1>3. CASE phase' # "failed"
  <2>1. phase' = "built"
    BY <1>3 DEF Reads!FinishBundle, Reads!Stopped, Reads!Failed
  <2>2. handoff.uses = "assembly" => Cached' /\ Checked'
    BY <1>1 DEF SourcesInv, AssemblyInv, Cached, Checked, OnLedger
  <2> QED
    BY <1>1, <2>1, <2>2 DEF SourcesInv, AssemblyInv, Phases
<1> QED
  BY <1>2, <1>3

LEMMA SourcesSteps == ASSUME SourcesInv, Reads!SourcesNext PROVE SourcesInv'
<1>1. CASE \E w \in SourceLoaders : \/ Reads!Take(w) \/ Reads!ReadRevision(w) \/ Reads!ReadDecision(w)
                                    \/ Reads!ReadArtifacts(w) \/ Reads!Panic(w)
  BY <1>1, TakeSteps, ThreadSteps
<1>2. CASE \E r \in SourceRevisions : Reads!Fail(r) \/ Reads!Recheck(r)
  BY <1>2, WorldSteps, RecheckSteps
<1>3. CASE Reads!Start \/ Reads!Authorize \/ Reads!ReadLedger \/ Reads!LoadCandidates \/ Reads!ReadGroups
  BY <1>3, EarlySteps, LoadCandidatesSteps, ReadGroupsSteps
<1>4. CASE \/ Reads!JoinLoaders \/ Reads!Enrich \/ Reads!FinishBundle
           \/ \E kept \in SUBSET DOMAIN cache : Reads!SelectSources(kept)
  BY <1>4, JoinLoadersSteps, EnrichSteps, FinishBundleSteps, SelectSourcesSteps
<1>5. CASE \/ Reads!Tick \/ Reads!Regrant \/ Reads!Receive \/ Reads!TimeOut \/ Reads!Drop
           \/ (\E s : Reads!FindSection(s)) \/ Reads!ReadSection
  BY <1>5, WorldSteps
<1> QED
  BY <1>1, <1>2, <1>3, <1>4, <1>5 DEF Reads!SourcesNext, Reads!Revisions, SourceRevisions

(* A bundle is delivered only with sources of the ledger that were all
   eligible when the last checks began, each the source of its revision,
   however the threads, the grants, the clock and the records moved
   (search/evidence/assemble/, source.rs). *)
THEOREM BundleWasEligibleHolds == SearchSpec => []BundleWasEligible
<1> DEFINE I == part = "sources" => SourcesInv
<1>1. SearchInit => I
  BY SourcesInits DEF SearchInit
<1>2. I /\ [SearchNext]_<<partVars, searchPartsVars>> => I'
  <2>1. ASSUME I, SearchNext PROVE I'
    BY <2>1, StepsOfSearch, SourcesSteps
  <2>2. ASSUME I, UNCHANGED <<partVars, searchPartsVars>> PROVE I'
    <3>1. /\ UNCHANGED <<part, handoff, phase, ledger, chunks, missing, cursor, loader, messages, cache,
                         survivors, rechecked, eligibleThen, status, waiter>>
      BY <2>2 DEF partVars, searchPartsVars, sourcesVars
    <3>2. part = "sources" => status' \in [SourceRevisions -> {"valid", "failed"}]
      BY <2>2, <3>1 DEF SourcesInv
    <3> QED
      BY <2>2, <3>1, <3>2, WorldMoves
  <2> QED
    BY <2>1, <2>2
<1>3. I => BundleWasEligible
  <2> SUFFICES ASSUME SourcesInv, waiter = "delivered", handoff.uses = "assembly"
               PROVE  /\ survivors \subseteq eligibleThen
                      /\ \A r \in survivors : cache[r].of = r
                      /\ survivors \subseteq Reads!Range(Reads!Only(ledger).revisions)
                                               \ DOMAIN Reads!Only(ledger).duplicates
    BY DEF BundleWasEligible, Reads!BundleWasEligible
  <2>1. Cached /\ Checked /\ survivors \subseteq rechecked
    BY DEF SourcesInv, AssemblyInv
  <2>2. \A r \in survivors : r \in OnLedger /\ cache[r].of = r /\ r \in eligibleThen
    BY <2>1 DEF Cached, Checked, Reads!Loaded
  <2> QED
    BY <2>2 DEF OnLedger
<1> QED
  BY <1>1, <1>2, <1>3, PTL DEF SearchSpec

-----------------------------------------------------------------------------
(* The ladder.  Generations only grow, so the rows of the rung that runs lie
   between the generation it held at its start and the published one; when
   these are the same at its end, all rows are of it.  A rung that counts has
   the generation and embedder of the first. *)

List(s) == s \in Seq({s[i] : i \in DOMAIN s})

RowsBetween(from) == \A i \in DOMAIN ladderRows :
    /\ ladderRows[i].generation \in Nat
    /\ from <= ladderRows[i].generation /\ ladderRows[i].generation <= ladderPublished

Counted(i) ==
    /\ rungs[i].verdict # "INVALID" =>
         /\ \A n \in DOMAIN rungs[i].rows : rungs[i].rows[n].generation = rungs[i].start.generation
         /\ rungs[i].start.generation = rungs[1].start.generation
         /\ rungs[i].start.embedder = rungs[1].start.embedder
    /\ rungs[i].verdict = "PASS" => manifest[i].asks

LadderInv ==
    /\ ladderPublished \in Nat /\ List(ladderRows) /\ List(rungs)
    /\ ladderStage = "running" =>
         \E p : held = {p} /\ p.generation \in Nat /\ p.generation <= ladderPublished /\ RowsBetween(p.generation)
    /\ \A i \in DOMAIN rungs : Counted(i)

LEMMA ListsGrow ==
    /\ List(<< >>)
    /\ \A s, x : List(s) => /\ List(Append(s, x)) /\ Len(s) \in Nat /\ DOMAIN s = 1 .. Len(s)
                            /\ DOMAIN Append(s, x) = 1 .. (Len(s) + 1)
                            /\ Append(s, x)[Len(s) + 1] = x
                            /\ \A i \in DOMAIN s : Append(s, x)[i] = s[i]
<1>1. List(<< >>)
  BY DEF List
<1>2. ASSUME NEW s, NEW x, List(s)
      PROVE  /\ List(Append(s, x)) /\ Len(s) \in Nat /\ DOMAIN s = 1 .. Len(s)
             /\ DOMAIN Append(s, x) = 1 .. (Len(s) + 1) /\ Append(s, x)[Len(s) + 1] = x
             /\ \A i \in DOMAIN s : Append(s, x)[i] = s[i]
  <2>1. PICK S : s \in Seq(S) /\ x \in S
    <3>1. s \in Seq({s[i] : i \in DOMAIN s} \cup {x})
      BY <1>2 DEF List
    <3> QED
      BY <3>1
  <2>2. PICK t : t = Append(s, x)
    OBVIOUS
  <2>3. /\ Len(s) \in Nat /\ DOMAIN s = 1 .. Len(s) /\ t \in Seq(S) /\ DOMAIN t = 1 .. (Len(s) + 1)
        /\ t[Len(s) + 1] = x /\ \A i \in DOMAIN s : t[i] = s[i]
    BY <2>1, <2>2
  <2>4. List(t)
    BY <2>3 DEF List
  <2> QED
    BY <2>2, <2>3, <2>4
<1> QED
  BY <1>1, <1>2

LEMMA LadderInits == ASSUME Scores!LadderInit PROVE LadderInv
<1>1. ladderRows = << >> /\ rungs = << >> /\ ladderStage # "running"
  BY DEF Scores!LadderInit
<1>2. ladderPublished \in Nat
  <2>1. PICK m \in DOMAIN LadderEmbedders : \A y \in DOMAIN LadderEmbedders : m <= y
    BY RowsAreTyped, LeastExists
  <2>2. Scores!Min(DOMAIN LadderEmbedders) \in DOMAIN LadderEmbedders
    BY <2>1 DEF Scores!Min
  <2> QED
    BY <2>2, RowsAreTyped DEF Scores!LadderInit
<1> QED
  BY <1>1, <1>2, ListsGrow DEF LadderInv

LEMMA StartRungSteps == ASSUME LadderInv, Scores!StartRung PROVE LadderInv'
<1>1. /\ UNCHANGED <<manifest, ladderPublished, rungs>> /\ ladderRows' = << >>
      /\ ladderStage' = "running" => held' = {Scores!Provenance(Scores!Rung)}
  BY DEF Scores!StartRung
<1>2. Scores!Provenance(Scores!Rung).generation = ladderPublished
  BY DEF Scores!Provenance
<1>3. ladderStage' = "running" =>
        \E p : held' = {p} /\ p.generation \in Nat /\ p.generation <= ladderPublished' /\ RowsBetween(p.generation)'
  BY <1>1, <1>2 DEF LadderInv, RowsBetween
<1> QED
  BY <1>1, <1>3, ListsGrow DEF LadderInv, Counted

LEMMA RunQuestionSteps == ASSUME LadderInv, Scores!RunQuestion PROVE LadderInv'
<1>1. PICK row : ladderRows' = Append(ladderRows, row) /\ row.generation = ladderPublished
  <2>1. PICK o \in LadderOutcomes :
          ladderRows' = Append(ladderRows, [o EXCEPT
                    !.id = Scores!Order[Len(ladderRows) + 1], !.generation = ladderPublished,
                    !.ask = IF ~ Scores!Rung.asks THEN "failed"
                            ELSE IF @ = "right" /\ ladderPublished # Scores!Holds.generation THEN "wrong" ELSE @])
    BY DEF Scores!RunQuestion
  <2>2. [o EXCEPT !.id = Scores!Order[Len(ladderRows) + 1], !.generation = ladderPublished,
                  !.ask = IF ~ Scores!Rung.asks THEN "failed"
                          ELSE IF @ = "right" /\ ladderPublished # Scores!Holds.generation THEN "wrong" ELSE @].generation
          = ladderPublished
    BY RowsAreTyped
  <2> QED
    BY <2>1, <2>2
<1>2. /\ UNCHANGED <<manifest, ladderPublished, ladderStage, held, rungs>> /\ ladderStage = "running"
  BY DEF Scores!RunQuestion
<1>3. PICK p : held = {p} /\ p.generation \in Nat /\ p.generation <= ladderPublished /\ RowsBetween(p.generation)
  BY <1>2 DEF LadderInv
<1>4. /\ List(ladderRows') /\ DOMAIN ladderRows' = 1 .. (Len(ladderRows) + 1) /\ Len(ladderRows) \in Nat
      /\ DOMAIN ladderRows = 1 .. Len(ladderRows) /\ ladderRows'[Len(ladderRows) + 1] = row
      /\ \A i \in DOMAIN ladderRows : ladderRows'[i] = ladderRows[i]
  BY <1>1, ListsGrow DEF LadderInv
<1>5. \A i \in DOMAIN ladderRows' : i \in DOMAIN ladderRows \/ ladderRows'[i].generation = ladderPublished
  BY <1>1, <1>4
<1>6. RowsBetween(p.generation)'
  BY <1>2, <1>3, <1>4, <1>5 DEF RowsBetween, LadderInv
<1> QED
  BY <1>2, <1>3, <1>4, <1>6 DEF LadderInv, Counted, List

(* A rung that ended as it started ran on one generation. *)
LEMMA EndRungSteps == ASSUME LadderInv, Scores!EndRung PROVE LadderInv'
<1>1. PICK p : held = {p} /\ p.generation \in Nat /\ p.generation <= ladderPublished /\ RowsBetween(p.generation)
  BY DEF LadderInv, Scores!EndRung
<1>2. Scores!Holds = p
  BY <1>1 DEF Scores!Holds
<1>0. PICK n : n = Len(rungs) + 1
  OBVIOUS
<1> DEFINE floors == IF Scores!Rung.asks THEN Scores!Floors(ladderRows)
                     ELSE Scores!WithoutAsks(Scores!Floors(ladderRows))
           first == IF rungs = << >> THEN p ELSE rungs[1].start
<1>3. PICK rung, end :
        /\ rungs' = Append(rungs, rung) /\ rung.start = p /\ rung.rows = ladderRows
        /\ end \in {{Scores!Provenance(Scores!Rung)}, {}}
        /\ rung.verdict = Scores!Verdict(p, end, first, floors)
  <2> DEFINE made(x) == [start |-> p, rows |-> ladderRows, floors |-> floors,
                         delivery |-> Scores!Delivery(ladderRows, Scores!Rung.asks),
                         verdict |-> Scores!Verdict(p, x, first, floors)]
  <2>1. PICK readable \in BOOLEAN :
          rungs' = Append(rungs, made(IF readable THEN {Scores!Provenance(Scores!Rung)} ELSE Scores!None))
    BY <1>2 DEF Scores!EndRung
  <2>2. PICK end : end = IF readable THEN {Scores!Provenance(Scores!Rung)} ELSE Scores!None
    OBVIOUS
  <2>3. PICK rung : rung = made(end)
    OBVIOUS
  <2>4. end \in {{Scores!Provenance(Scores!Rung)}, {}} /\ rungs' = Append(rungs, rung)
    BY <2>1, <2>2, <2>3 DEF Scores!None
  <2> HIDE DEF floors, first
  <2>5. rung.start = p /\ rung.rows = ladderRows /\ rung.verdict = Scores!Verdict(p, end, first, floors)
    BY <2>3
  <2> QED
    BY <2>4, <2>5
<1>4. /\ UNCHANGED <<manifest, ladderPublished>> /\ ladderRows' = << >> /\ ladderStage' # "running"
      /\ Scores!Rung = manifest[n]
  BY <1>0 DEF Scores!EndRung, Scores!Rung
<1>5. /\ List(rungs') /\ n \in Nat /\ DOMAIN rungs = 1 .. (n - 1) /\ DOMAIN rungs' = 1 .. n
      /\ rungs'[n] = rung /\ \A i \in DOMAIN rungs : rungs'[i] = rungs[i]
  BY <1>0, <1>3, ListsGrow DEF LadderInv
<1>6. rung.verdict # "INVALID" =>
        /\ end = {p} /\ p.generation = first.generation /\ p.embedder = first.embedder
        /\ rung.verdict = "PASS" => Scores!Passed(floors)
  BY <1>3 DEF Scores!Verdict
<1>7. first = rungs'[1].start
  <2>1. CASE rungs = << >>
    BY <1>3, <1>5, <2>1
  <2>2. CASE rungs # << >>
    <3>1. n # 1
      BY <1>5, <2>2 DEF LadderInv, List
    <3> QED
      BY <1>5, <2>2, <3>1
  <2> QED
    BY <2>1, <2>2
<1>8. rung.verdict # "INVALID" => \A i \in DOMAIN ladderRows : ladderRows[i].generation = p.generation
  <2> SUFFICES ASSUME rung.verdict # "INVALID", NEW i \in DOMAIN ladderRows
               PROVE  ladderRows[i].generation = p.generation
    OBVIOUS
  <2>1. p = Scores!Provenance(Scores!Rung)
    BY <1>3, <1>6
  <2>2. p.generation = ladderPublished
    BY <2>1 DEF Scores!Provenance
  <2> QED
    BY <1>1, <2>2 DEF RowsBetween, LadderInv
<1>9. Scores!Passed(floors) => Scores!Rung.asks
  <2> SUFFICES ASSUME ~Scores!Rung.asks PROVE ~Scores!Passed(floors)
    OBVIOUS
  <2>1. PICK measured : measured = Scores!Floors(ladderRows)
    OBVIOUS
  <2>2. floors = Scores!WithoutAsks(measured)
    BY <2>1
  <2>3. floors["refused"] = "unavailable" /\ "refused" \in Scores!FloorNames
    BY <2>2 DEF Scores!WithoutAsks, Scores!FloorNames
  <2> HIDE DEF floors
  <2> QED
    BY <2>3 DEF Scores!Passed
<1> HIDE DEF floors, first
<1>10. Counted(n)'
  BY <1>3, <1>4, <1>5, <1>6, <1>7, <1>8, <1>9 DEF Counted
<1>11. ASSUME NEW i \in DOMAIN rungs PROVE Counted(i)'
  <2>1. Counted(i) /\ rungs'[i] = rungs[i] /\ rungs'[1] = rungs[1]
    BY <1>5, <1>11 DEF LadderInv
  <2> QED
    BY <1>4, <2>1 DEF Counted
<1>12. \A i \in DOMAIN rungs' : Counted(i)'
  BY <1>5, <1>10, <1>11
<1> QED
  BY <1>4, <1>5, <1>12, ListsGrow DEF LadderInv, List

LEMMA LadderSteps == ASSUME LadderInv, Scores!LadderNext PROVE LadderInv'
<1>1. CASE Scores!PublishAnother
  <2>1. /\ UNCHANGED <<manifest, ladderStage, held, ladderRows, rungs>> /\ ladderPublished' = ladderPublished + 1
    BY <1>1 DEF Scores!PublishAnother
  <2>2. \A from \in Nat : RowsBetween(from) => RowsBetween(from)'
    BY <2>1 DEF RowsBetween, LadderInv
  <2>3. ladderStage = "running" =>
          \E p : held = {p} /\ p.generation \in Nat /\ p.generation <= ladderPublished' /\ RowsBetween(p.generation)'
    BY <2>1, <2>2 DEF LadderInv
  <2>4. ladderPublished' \in Nat /\ \A i \in DOMAIN rungs : Counted(i)'
    BY <2>1 DEF LadderInv, Counted
  <2> QED
    BY <2>1, <2>3, <2>4 DEF LadderInv, List
<1>2. CASE Scores!RegisterAnswerer \/ Scores!WarmUp
  <2>1. UNCHANGED <<manifest, ladderPublished, ladderStage, held, ladderRows, rungs>>
    BY <1>2 DEF Scores!RegisterAnswerer, Scores!WarmUp
  <2> QED
    BY <2>1 DEF LadderInv, Counted, List, RowsBetween
<1>3. CASE Scores!CheckCards
  <2>1. UNCHANGED <<manifest, ladderPublished, held, ladderRows, rungs>> /\ ladderStage' # "running"
    BY <1>3 DEF Scores!CheckCards
  <2> QED
    BY <2>1 DEF LadderInv, Counted, List
<1> QED
  BY <1>1, <1>2, <1>3, StartRungSteps, RunQuestionSteps, EndRungSteps DEF Scores!LadderNext

(* What is published or registered while a ladder runs never shows as a
   difference between its rungs: those that count searched one generation in
   every row, the one the report names (maestro cli/eval). *)
THEOREM RungsCompareLikeWithLikeHolds == SearchSpec => []RungsCompareLikeWithLike
<1> DEFINE I == part = "ladder" => LadderInv
<1>1. SearchInit => I
  BY LadderInits DEF SearchInit
<1>2. I /\ [SearchNext]_<<partVars, searchPartsVars>> => I'
  <2>1. ASSUME I, SearchNext PROVE I'
    BY <2>1, StepsOfSearch, LadderSteps
  <2>2. ASSUME I, UNCHANGED <<partVars, searchPartsVars>> PROVE I'
    <3>1. UNCHANGED <<part, manifest, ladderPublished, ladderStage, held, ladderRows, rungs>>
      BY <2>2 DEF partVars, searchPartsVars, ladderVars
    <3> QED
      BY <2>2, <3>1 DEF LadderInv, Counted, List, RowsBetween
  <2> QED
    BY <2>1, <2>2
<1>3. I => RungsCompareLikeWithLike
  <2> SUFFICES ASSUME LadderInv PROVE Scores!RungsCompareLikeWithLike
    BY DEF RungsCompareLikeWithLike
  <2>1. \A i \in DOMAIN rungs : Counted(i)
    BY DEF LadderInv
  <2> QED
    BY <2>1 DEF Scores!RungsCompareLikeWithLike, Scores!ToSet, Counted
<1> QED
  BY <1>1, <1>2, <1>3, PTL DEF SearchSpec

-----------------------------------------------------------------------------
(* Representation sets.  A graph has every chunk of its revision, for none can
   follow it, and what a completion has checked stays so, for the chunk set is
   frozen. *)

RepSets == DOMAIN RepSpecs
RepRevisions == DOMAIN RepChunks

GraphsMatch == \A r \in RepRevisions :
    graphRows[r] = {} \/ \E d \in RepGraphs : graphRows[r] = {d} /\ d.chunks = chunkRows \cap RepChunks[r]

ShardsMatch == \A s \in RepSets, r \in RepRevisions :
    shardRows[s][r] = {} \/ \E d \in RepShards :
        /\ shardRows[s][r] = {d} /\ graphRows[r] = {d.graph}
        /\ d.set = s /\ d.revision = r /\ d.members = d.graph

Records(x) ==
    /\ DOMAIN x = {"does", "shard", "checked"} /\ x.does = "record" /\ x.shard \in RepShards
    /\ x.checked => graphRows[x.shard.revision] = {x.shard.members}

Completes(x) == \E s \in RepSets, at \in {"frozen", "graphs", "missing", "extra", "write"} :
    /\ x = [does |-> "complete", set |-> s, at |-> at]
    /\ at # "frozen" => frozen
    /\ at \notin {"frozen", "graphs"} => Reps!CheckGraphs
    /\ at \in {"extra", "write"} => Reps!CheckMissing(s)

WorkerHolds(x) == x = [does |-> "nothing"] \/ Records(x) \/ Completes(x)

WholeSet(s) == frozen /\ Reps!CheckGraphs /\ Reps!CheckMissing(s)

RepInv ==
    /\ DOMAIN graphRows = RepRevisions /\ DOMAIN shardRows = RepSets
    /\ \A s \in RepSets : DOMAIN shardRows[s] = RepRevisions
    /\ DOMAIN repState = RepSets /\ DOMAIN bound = DOMAIN RepGenerations /\ DOMAIN worker = RepWorkers
    /\ GraphsMatch /\ ShardsMatch
    /\ \A w \in RepWorkers : WorkerHolds(worker[w])
    /\ \A s \in RepSets : repState[s] = "complete" => WholeSet(s)
    /\ \A g \in DOMAIN RepGenerations, s \in RepSets : bound[g] = {s} => repState[s] = "complete"

LEMMA WorkerDoes ==
    ASSUME NEW x, WorkerHolds(x)
    PROVE  (x.does = "record" => Records(x)) /\ (x.does = "complete" => Completes(x))
<1>1. Records(x) => x.does = "record"
  BY DEF Records
<1>2. Completes(x) => x.does = "complete"
  BY DEF Completes
<1>3. x = [does |-> "nothing"] => x.does = "nothing"
  OBVIOUS
<1> QED
  BY <1>1, <1>2, <1>3 DEF WorkerHolds

LEMMA RepInits == ASSUME Reps!RepInit PROVE RepInv
  BY DEF RepInv, Reps!RepInit, Reps!Rest, Reps!Absent, Reps!Revs, Reps!Sets, RepSets, RepRevisions,
         GraphsMatch, ShardsMatch, WorkerHolds

(* What was read or checked stays so while graphs are only added before the
   freeze, chunks only before it, and shards only added. *)
LEMMA HoldsStay ==
    ASSUME RepInv, frozen => frozen',
           frozen => UNCHANGED <<chunkRows, graphRows>>,
           \A r \in RepRevisions : graphRows[r] # {} => graphRows'[r] = graphRows[r],
           \A s \in RepSets, r \in RepRevisions : shardRows[s][r] # {} => shardRows'[s][r] # {}
    PROVE  /\ \A x : WorkerHolds(x) => WorkerHolds(x)'
           /\ \A s \in RepSets : WholeSet(s) => WholeSet(s)'
<1>1. ASSUME NEW s \in RepSets, frozen
      PROVE  /\ Reps!CheckGraphs => Reps!CheckGraphs'
             /\ Reps!CheckMissing(s) => Reps!CheckMissing(s)'
  BY <1>1 DEF Reps!CheckGraphs, Reps!CheckMissing, Reps!Absent, Reps!Revs, RepRevisions
<1>2. \A x : Records(x) => Records(x)'
  <2> SUFFICES ASSUME NEW x, Records(x) PROVE Records(x)'
    OBVIOUS
  <2>1. x.checked => graphRows'[x.shard.revision] = {x.shard.members}
    BY ArtifactsName DEF Records, RepRevisions
  <2> QED
    BY <2>1 DEF Records
<1>3. \A x : Completes(x) => Completes(x)'
  <2> SUFFICES ASSUME NEW x, NEW s \in RepSets, NEW at \in {"frozen", "graphs", "missing", "extra", "write"},
                      x = [does |-> "complete", set |-> s, at |-> at],
                      at # "frozen" => frozen,
                      at \notin {"frozen", "graphs"} => Reps!CheckGraphs,
                      at \in {"extra", "write"} => Reps!CheckMissing(s)
               PROVE  Completes(x)'
    BY DEF Completes
  <2>1. /\ at # "frozen" => frozen'
        /\ at \notin {"frozen", "graphs"} => Reps!CheckGraphs'
        /\ at \in {"extra", "write"} => Reps!CheckMissing(s)'
    BY <1>1
  <2> QED
    BY <2>1 DEF Completes
<1>4. \A s \in RepSets : WholeSet(s) => WholeSet(s)'
  BY <1>1 DEF WholeSet
<1> QED
  BY <1>2, <1>3, <1>4 DEF WorkerHolds

(* Chunks, graphs and the freeze. *)
LEMMA ChunkSetSteps ==
    ASSUME RepInv,
           \/ \E r \in RepRevisions : \E c \in RepChunks[r] : Reps!RecordChunk(r, c)
           \/ Reps!Freeze \/ \E d \in RepGraphs : Reps!RecordGraph(d)
    PROVE  RepInv'
<1>1. UNCHANGED <<repState, shardRows, bound, worker>> /\ ~frozen /\ DOMAIN graphRows' = RepRevisions
  BY DEF RepInv, Reps!RecordChunk, Reps!Freeze, Reps!RecordGraph
<1>2. \A r \in RepRevisions : graphRows[r] # {} => graphRows'[r] = graphRows[r]
  BY ArtifactsName DEF RepInv, Reps!RecordChunk, Reps!Freeze, Reps!RecordGraph, Reps!Absent, RepRevisions
<1>3. GraphsMatch'
  <2>1. CASE \E r \in RepRevisions : \E c \in RepChunks[r] : Reps!RecordChunk(r, c)
    <3>1. PICK q \in RepRevisions : \E c \in RepChunks[q] :
            chunkRows' = chunkRows \cup {c} /\ graphRows[q] = {} /\ UNCHANGED graphRows
      BY <2>1 DEF Reps!RecordChunk, Reps!Absent
    <3>2. \A r \in RepRevisions : r # q => chunkRows' \cap RepChunks[r] = chunkRows \cap RepChunks[r]
      BY <3>1, ArtifactsName DEF RepRevisions
    <3> QED
      BY <3>1, <3>2 DEF GraphsMatch, RepInv
  <2>2. CASE Reps!Freeze
    BY <2>2 DEF GraphsMatch, RepInv, Reps!Freeze
  <2>3. CASE \E d \in RepGraphs : Reps!RecordGraph(d)
    <3>1. PICK d \in RepGraphs :
            /\ graphRows' = [graphRows EXCEPT ![d.revision] = {d}] /\ UNCHANGED chunkRows
            /\ chunkRows \cap RepChunks[d.revision] = d.chunks
      BY <2>3 DEF Reps!RecordGraph, Reps!ChunksMatch
    <3> QED
      BY <3>1, ArtifactsName DEF GraphsMatch, RepInv, RepRevisions
  <2> QED
    BY <2>1, <2>2, <2>3
<1>4. ShardsMatch'
  <2> SUFFICES ASSUME NEW s \in RepSets, NEW r \in RepRevisions, shardRows[s][r] # {}
               PROVE  \E d \in RepShards :
                        /\ shardRows[s][r] = {d} /\ graphRows'[r] = {d.graph}
                        /\ d.set = s /\ d.revision = r /\ d.members = d.graph
    BY <1>1 DEF ShardsMatch
  <2>1. PICK d \in RepShards : /\ shardRows[s][r] = {d} /\ graphRows[r] = {d.graph}
                              /\ d.set = s /\ d.revision = r /\ d.members = d.graph
    BY DEF ShardsMatch, RepInv
  <2>2. graphRows[r] # {}
    BY <2>1
  <2> QED
    BY <1>2, <2>1, <2>2
<1>5. /\ \A x : WorkerHolds(x) => WorkerHolds(x)'
      /\ \A s \in RepSets : WholeSet(s) => WholeSet(s)'
  BY <1>1, <1>2, HoldsStay
<1>6. /\ \A w \in RepWorkers : WorkerHolds(worker[w])'
      /\ \A s \in RepSets : repState'[s] = "complete" => WholeSet(s)'
  BY <1>1, <1>5 DEF RepInv
<1> QED
  BY <1>1, <1>3, <1>4, <1>6 DEF RepInv

(* A step of a worker or a set that records no chunk and no graph. *)
LEMMA SetSteps ==
    ASSUME RepInv, UNCHANGED <<frozen, chunkRows, graphRows>>,
           ShardsMatch', DOMAIN shardRows' = RepSets, \A s \in RepSets : DOMAIN shardRows'[s] = RepRevisions,
           \A s \in RepSets, r \in RepRevisions : shardRows[s][r] # {} => shardRows'[s][r] # {},
           DOMAIN repState' = RepSets,
           \A s \in RepSets : repState'[s] = "complete" => repState[s] = "complete" \/ WholeSet(s),
           \A s \in RepSets : repState[s] = "complete" => repState'[s] = "complete",
           DOMAIN bound' = DOMAIN RepGenerations,
           \A g \in DOMAIN RepGenerations, s \in RepSets :
               bound'[g] = {s} => bound[g] = {s} \/ repState[s] = "complete",
           DOMAIN worker' = RepWorkers,
           \A w \in RepWorkers : worker'[w] = worker[w] \/ WorkerHolds(worker'[w])
    PROVE  RepInv'
<1>1. GraphsMatch'
  BY DEF GraphsMatch, RepInv
<1>2. /\ \A x : WorkerHolds(x) => WorkerHolds(x)'
      /\ \A s \in RepSets : WholeSet(s) => WholeSet(s)'
  BY HoldsStay
<1>3. \A w \in RepWorkers : WorkerHolds(worker'[w])
  BY DEF RepInv
<1>4. \A w \in RepWorkers : WorkerHolds(worker[w])'
  <2>1. ASSUME NEW w \in RepWorkers, NEW x, x = worker'[w], WorkerHolds(x)' PROVE WorkerHolds(worker[w])'
    BY <2>1 DEF WorkerHolds, Records, Completes
  <2> QED
    BY <1>2, <1>3, <2>1
<1>5. \A s \in RepSets : repState'[s] = "complete" => WholeSet(s)'
  BY <1>2 DEF RepInv
<1>6. \A g \in DOMAIN RepGenerations, s \in RepSets : bound'[g] = {s} => repState'[s] = "complete"
  BY DEF RepInv
<1> QED
  BY <1>1, <1>4, <1>5, <1>6 DEF RepInv

LEMMA SetLifeSteps ==
    ASSUME RepInv, NEW s \in RepSets,
           Reps!BeginSet(s) \/ Reps!FailSet(s) \/ \E g \in DOMAIN RepGenerations : Reps!Bind(g, s)
    PROVE  RepInv'
<1>1. UNCHANGED <<frozen, chunkRows, graphRows, shardRows, worker>>
  BY DEF Reps!BeginSet, Reps!FailSet, Reps!Bind
<1>2. /\ DOMAIN repState' = RepSets
      /\ \A t \in RepSets : repState'[t] = "complete" <=> repState[t] = "complete"
  BY DEF RepInv, Reps!BeginSet, Reps!FailSet, Reps!Bind, Reps!Transition
<1>3. /\ DOMAIN bound' = DOMAIN RepGenerations
      /\ \A g \in DOMAIN RepGenerations, t \in RepSets :
           bound'[g] = {t} => bound[g] = {t} \/ repState[t] = "complete"
  BY SMTT(30) DEF RepInv, Reps!BeginSet, Reps!FailSet, Reps!Bind
<1>4. ShardsMatch'
  BY <1>1 DEF RepInv, ShardsMatch
<1>5. /\ DOMAIN shardRows' = RepSets /\ \A t \in RepSets : DOMAIN shardRows'[t] = RepRevisions
      /\ DOMAIN worker' = RepWorkers
      /\ \A t \in RepSets, r \in RepRevisions : shardRows[t][r] # {} => shardRows'[t][r] # {}
      /\ \A w \in RepWorkers : worker'[w] = worker[w] \/ WorkerHolds(worker'[w])
  BY <1>1 DEF RepInv
<1> QED
  BY <1>1, <1>2, <1>3, <1>4, <1>5, SetSteps

(* A worker reads: it moves to what it holds. *)
LEMMA WorkerReads ==
    ASSUME RepInv, NEW w \in RepWorkers, NEW x, Reps!Moves(w, x), WorkerHolds(x)
    PROVE  RepInv'
<1>1. /\ UNCHANGED <<frozen, chunkRows, graphRows, repState, shardRows, bound>>
      /\ worker' = [worker EXCEPT ![w] = x]
  BY DEF Reps!Moves
<1>2. ShardsMatch'
  BY <1>1 DEF RepInv, ShardsMatch
<1>3. DOMAIN worker' = RepWorkers /\ \A v \in RepWorkers : worker'[v] = worker[v] \/ WorkerHolds(worker'[v])
  BY <1>1 DEF RepInv
<1>4. /\ DOMAIN shardRows' = RepSets /\ \A t \in RepSets : DOMAIN shardRows'[t] = RepRevisions
      /\ DOMAIN repState' = RepSets /\ DOMAIN bound' = DOMAIN RepGenerations
  BY <1>1 DEF RepInv
<1> QED
  BY <1>1, <1>2, <1>3, <1>4, SetSteps

LEMMA ShardReads ==
    ASSUME RepInv, NEW w \in RepWorkers,
           (\E d \in RepShards : Reps!ReadSet(w, d)) \/ Reps!ValidateShard(w)
           \/ \E s \in RepSets : Reps!StartComplete(w, s)
    PROVE  RepInv'
<1>1. CASE \E d \in RepShards : Reps!ReadSet(w, d)
  <2>1. PICK d \in RepShards : Reps!Moves(w, [does |-> "record", shard |-> d, checked |-> FALSE])
    BY <1>1 DEF Reps!ReadSet
  <2>2. PICK x : x = [does |-> "record", shard |-> d, checked |-> FALSE]
    OBVIOUS
  <2>3. DOMAIN x = {"does", "shard", "checked"} /\ x.does = "record" /\ x.shard = d /\ ~x.checked
    BY <2>2
  <2>4. Records(x)
    BY <2>3 DEF Records
  <2> QED
    BY <2>1, <2>2, <2>4, WorkerReads DEF WorkerHolds
<1>2. CASE \E s \in RepSets : Reps!StartComplete(w, s)
  <2>1. PICK s \in RepSets : Reps!Moves(w, [does |-> "complete", set |-> s, at |-> "frozen"])
    BY <1>2 DEF Reps!StartComplete
  <2>2. Completes([does |-> "complete", set |-> s, at |-> "frozen"])
    BY DEF Completes
  <2> QED
    BY <2>1, <2>2, WorkerReads DEF WorkerHolds
<1>3. CASE Reps!ValidateShard(w)
  <2>1. WorkerHolds(worker[w]) /\ worker[w].does = "record"
    BY <1>3 DEF RepInv, Reps!ValidateShard
  <2>2. PICK d : d = worker[w].shard
    OBVIOUS
  <2>3. CASE graphRows[d.revision] = {d.members}
    <3>1. PICK x : x = [worker[w] EXCEPT !.checked = TRUE]
      OBVIOUS
    <3>2. Reps!Moves(w, x)
      BY <1>3, <2>2, <2>3, <3>1 DEF Reps!ValidateShard
    <3>3. Records(worker[w])
      BY <2>1, WorkerDoes
    <3>4. DOMAIN x = {"does", "shard", "checked"} /\ x.does = "record" /\ x.shard = d
      BY <2>2, <3>1, <3>3 DEF Records
    <3>5. Records(x)
      BY <2>2, <2>3, <3>3, <3>4 DEF Records
    <3> QED
      BY <3>2, <3>5, WorkerReads DEF WorkerHolds
  <2>4. CASE graphRows[d.revision] # {d.members}
    <3>1. Reps!Moves(w, Reps!Rest)
      BY <1>3, <2>2, <2>4 DEF Reps!ValidateShard
    <3> QED
      BY <3>1, WorkerReads DEF WorkerHolds, Reps!Rest
  <2> QED
    BY <2>3, <2>4
<1> QED
  BY <1>1, <1>2, <1>3

(* One check of a completion more. *)
LEMMA CheckCompleteSteps == ASSUME RepInv, NEW w \in RepWorkers, Reps!CheckComplete(w) PROVE RepInv'
<1>1. WorkerHolds(worker[w]) /\ worker[w].does = "complete"
  BY DEF RepInv, Reps!CheckComplete
<1>2. PICK s \in RepSets, at \in {"frozen", "graphs", "missing", "extra", "write"} :
        /\ worker[w] = [does |-> "complete", set |-> s, at |-> at]
        /\ at # "frozen" => frozen
        /\ at \notin {"frozen", "graphs"} => Reps!CheckGraphs
        /\ at \in {"extra", "write"} => Reps!CheckMissing(s)
  BY <1>1, WorkerDoes DEF Completes
<1>3. ASSUME NEW to \in {"graphs", "missing", "extra", "write"},
             Reps!Moves(w, [worker[w] EXCEPT !.at = to]),
             frozen, to # "graphs" => Reps!CheckGraphs, to \in {"extra", "write"} => Reps!CheckMissing(s)
      PROVE  RepInv'
  <2>1. [worker[w] EXCEPT !.at = to] = [does |-> "complete", set |-> s, at |-> to]
    BY <1>2
  <2>2. Completes([does |-> "complete", set |-> s, at |-> to])
    BY <1>3 DEF Completes
  <2> QED
    BY <1>3, <2>1, <2>2, WorkerReads DEF WorkerHolds
<1>4. ASSUME Reps!Moves(w, Reps!Rest) PROVE RepInv'
  BY <1>4, WorkerReads DEF WorkerHolds, Reps!Rest
<1>5. worker[w].set = s /\ worker[w].at = at
  BY <1>2
<1>6. \/ Reps!Moves(w, Reps!Rest)
      \/ at = "frozen" /\ Reps!CheckFrozen /\ Reps!Moves(w, [worker[w] EXCEPT !.at = "graphs"])
      \/ at = "graphs" /\ Reps!CheckGraphs /\ Reps!Moves(w, [worker[w] EXCEPT !.at = "missing"])
      \/ at = "missing" /\ Reps!CheckMissing(s) /\ Reps!Moves(w, [worker[w] EXCEPT !.at = "extra"])
      \/ at = "extra" /\ Reps!Moves(w, [worker[w] EXCEPT !.at = "write"])
  BY <1>5 DEF Reps!CheckComplete
<1> QED
  BY <1>2, <1>3, <1>4, <1>6 DEF Reps!CheckFrozen

LEMMA CompleteSetSteps == ASSUME RepInv, NEW w \in RepWorkers, Reps!CompleteSet(w) PROVE RepInv'
<1>1. WorkerHolds(worker[w]) /\ worker[w].does = "complete" /\ worker[w].at = "write"
  BY DEF RepInv, Reps!CompleteSet
<1>2. PICK s \in RepSets : worker[w].set = s /\ WholeSet(s)
  <2>1. Completes(worker[w])
    BY <1>1, WorkerDoes
  <2>2. PICK s \in RepSets, at \in {"frozen", "graphs", "missing", "extra", "write"} :
          /\ worker[w] = [does |-> "complete", set |-> s, at |-> at]
          /\ at # "frozen" => frozen
          /\ at \notin {"frozen", "graphs"} => Reps!CheckGraphs
          /\ at \in {"extra", "write"} => Reps!CheckMissing(s)
    BY <2>1 DEF Completes
  <2>3. worker[w].set = s /\ at = "write"
    BY <1>1, <2>2
  <2> QED
    BY <2>2, <2>3 DEF WholeSet
<1>3. /\ UNCHANGED <<frozen, chunkRows, graphRows, shardRows, bound>>
      /\ worker' = [worker EXCEPT ![w] = Reps!Rest]
      /\ repState' = IF repState[s] = "building" THEN [repState EXCEPT ![s] = "complete"] ELSE repState
  BY <1>2 DEF Reps!CompleteSet, Reps!Transition
<1>4. ShardsMatch'
  BY <1>3 DEF RepInv, ShardsMatch
<1>5. DOMAIN worker' = RepWorkers /\ \A v \in RepWorkers : worker'[v] = worker[v] \/ WorkerHolds(worker'[v])
  BY <1>3 DEF RepInv, WorkerHolds, Reps!Rest
<1>6. /\ DOMAIN repState' = RepSets
      /\ \A t \in RepSets : repState'[t] = "complete" => repState[t] = "complete" \/ WholeSet(t)
      /\ \A t \in RepSets : repState[t] = "complete" => repState'[t] = "complete"
  BY <1>2, <1>3 DEF RepInv
<1>7. /\ DOMAIN shardRows' = RepSets /\ \A t \in RepSets : DOMAIN shardRows'[t] = RepRevisions
      /\ DOMAIN bound' = DOMAIN RepGenerations
  BY <1>3 DEF RepInv
<1> QED
  BY <1>3, <1>4, <1>5, <1>6, <1>7, SetSteps

(* What was checked of the shard still holds as it is written. *)
LEMMA RecordShardSteps == ASSUME RepInv, NEW w \in RepWorkers, Reps!RecordShard(w) PROVE RepInv'
<1>1. WorkerHolds(worker[w]) /\ worker[w].does = "record" /\ worker[w].checked
  BY DEF RepInv, Reps!RecordShard
<1>2. PICK d \in RepShards : worker[w].shard = d /\ graphRows[d.revision] = {d.members}
  BY <1>1, WorkerDoes DEF Records
<1>3. d.set \in RepSets /\ d.revision \in RepRevisions
  BY ArtifactsName DEF RepSets, RepRevisions
<1>4. /\ UNCHANGED <<frozen, chunkRows, graphRows, repState, bound>>
      /\ worker' = [worker EXCEPT ![w] = Reps!Rest]
      /\ \/ UNCHANGED shardRows
         \/ /\ shardRows' = [shardRows EXCEPT ![d.set][d.revision] = {d}]
            /\ graphRows[d.revision] = {d.graph}
  BY <1>2 DEF Reps!RecordShard
<1>5. /\ ShardsMatch' /\ DOMAIN shardRows' = RepSets /\ \A s \in RepSets : DOMAIN shardRows'[s] = RepRevisions
      /\ \A s \in RepSets, r \in RepRevisions : shardRows[s][r] # {} => shardRows'[s][r] # {}
  <2>1. CASE UNCHANGED shardRows
    BY <1>4, <2>1 DEF ShardsMatch, RepInv
  <2>2. CASE shardRows' = [shardRows EXCEPT ![d.set][d.revision] = {d}] /\ graphRows[d.revision] = {d.graph}
    <3>1. d.members = d.graph
      BY <1>2, <2>2
    <3>2. /\ DOMAIN shardRows' = RepSets /\ \A s \in RepSets : DOMAIN shardRows'[s] = RepRevisions
          /\ \A s \in RepSets, r \in RepRevisions :
               shardRows'[s][r] = IF s = d.set /\ r = d.revision THEN {d} ELSE shardRows[s][r]
      BY <1>3, <2>2 DEF RepInv
    <3>3. ShardsMatch'
      <4> SUFFICES ASSUME NEW s \in RepSets, NEW r \in RepRevisions, shardRows'[s][r] # {}
                   PROVE  \E e \in RepShards :
                            /\ shardRows'[s][r] = {e} /\ graphRows[r] = {e.graph}
                            /\ e.set = s /\ e.revision = r /\ e.members = e.graph
        BY <1>4 DEF ShardsMatch
      <4>1. CASE s = d.set /\ r = d.revision
        BY <2>2, <3>1, <3>2, <4>1
      <4>2. CASE ~(s = d.set /\ r = d.revision)
        BY <3>2, <4>2 DEF ShardsMatch, RepInv
      <4> QED
        BY <4>1, <4>2
    <3> QED
      BY <3>2, <3>3
  <2> QED
    BY <1>4, <2>1, <2>2
<1>6. DOMAIN worker' = RepWorkers /\ \A v \in RepWorkers : worker'[v] = worker[v] \/ WorkerHolds(worker'[v])
  BY <1>4 DEF RepInv, WorkerHolds, Reps!Rest
<1>7. DOMAIN repState' = RepSets /\ DOMAIN bound' = DOMAIN RepGenerations
  BY <1>4 DEF RepInv
<1> QED
  BY <1>4, <1>5, <1>6, <1>7, SetSteps

LEMMA RepSteps == ASSUME RepInv, Reps!RepNext PROVE RepInv'
<1>1. CASE \E g \in DOMAIN RepGenerations : Reps!Publish(g)
  <2>1. UNCHANGED <<frozen, chunkRows, graphRows, shardRows, repState, bound, worker>>
    BY <1>1 DEF Reps!Publish
  <2> QED
    BY <2>1 DEF RepInv, GraphsMatch, ShardsMatch, WorkerHolds, Records, Completes, WholeSet,
               Reps!CheckGraphs, Reps!CheckMissing
<1> QED
  BY <1>1, ChunkSetSteps, SetLifeSteps, ShardReads, RecordShardSteps, CheckCompleteSteps, CompleteSetSteps
     DEF Reps!RepNext, Reps!Revs, Reps!Sets, RepRevisions, RepSets

LEMMA CompleteSetsAreWhole == ASSUME RepInv PROVE Reps!CompleteSetIsWhole
<1> SUFFICES ASSUME NEW s \in RepSets,
                    repState[s] = "complete" \/ (\E g \in DOMAIN RepGenerations : bound[g] = {s}),
                    NEW r \in RepRevisions, chunkRows \cap RepChunks[r] # {}
             PROVE  /\ Reps!Readable(s, r)
                    /\ \A d \in shardRows[s][r] : d.members = d.graph
                    /\ \A g \in graphRows[r] : g.chunks = chunkRows \cap RepChunks[r]
  BY DEF Reps!CompleteSetIsWhole, Reps!Revs, Reps!Sets, RepRevisions, RepSets
<1>1. WholeSet(s)
  BY DEF RepInv
<1>2. graphRows[r] # {} /\ shardRows[s][r] # {}
  BY <1>1 DEF WholeSet, Reps!CheckGraphs, Reps!CheckMissing, Reps!Absent, Reps!Revs, RepRevisions
<1>3. PICK d \in RepShards : /\ shardRows[s][r] = {d} /\ graphRows[r] = {d.graph}
                             /\ d.set = s /\ d.revision = r /\ d.members = d.graph
  BY <1>2 DEF RepInv, ShardsMatch
<1>4. \A g \in graphRows[r] : g.chunks = chunkRows \cap RepChunks[r]
  BY <1>2 DEF RepInv, GraphsMatch
<1> QED
  BY <1>3, <1>4 DEF Reps!Readable

(* However chunks, graphs and shards are recorded and however two completions
   run among them, a complete set, and each generation bound to one, has for
   every revision with a chunk one shard that can be read, of a graph with all
   its chunks (maestro-kernel, representation/ and unit_graph/). *)
THEOREM CompleteSetIsWholeHolds ==
    SearchSpec => [](part = "representations" => Reps!CompleteSetIsWhole)
<1> DEFINE I == part = "representations" => RepInv
<1>1. SearchInit => I
  BY RepInits DEF SearchInit
<1>2. I /\ [SearchNext]_<<partVars, searchPartsVars>> => I'
  <2>1. ASSUME I, SearchNext PROVE I'
    BY <2>1, StepsOfSearch, RepSteps
  <2>2. ASSUME I, UNCHANGED <<partVars, searchPartsVars>> PROVE I'
    <3>1. UNCHANGED <<part, frozen, chunkRows, graphRows, shardRows, repState, bound, worker>>
      BY <2>2 DEF partVars, searchPartsVars, representationsVars
    <3> QED
      BY <2>2, <3>1 DEF RepInv, GraphsMatch, ShardsMatch, WorkerHolds, Records, Completes, WholeSet,
                       Reps!CheckGraphs, Reps!CheckMissing
  <2> QED
    BY <2>1, <2>2
<1>3. I => (part = "representations" => Reps!CompleteSetIsWhole)
  BY CompleteSetsAreWhole
<1> QED
  BY <1>1, <1>2, <1>3, PTL DEF SearchSpec
-----------------------------------------------------------------------------
(* Answers.  The numbers a text shows stand in brackets, which are citations,
   or outside of them, where the literal check sees them. *)

Tokens == UNION AnswerVocabularies

LEMMA NumbersAreBounded ==
    ASSUME NEW S \in SUBSET (Nat \ {0}), IsFiniteSet(S)
    PROVE  \E n \in Nat : S \subseteq 1 .. n
<1> DEFINE Unbounded(T) == \A n \in Nat : ~ T \subseteq 1 .. n
           Sizes == {k \in Nat : \E T \in SUBSET (Nat \ {0}) : IsFiniteSet(T) /\ Cardinality(T) = k /\ Unbounded(T)}
<1>1. SUFFICES ASSUME Unbounded(S) PROVE FALSE
  OBVIOUS
<1>2. Cardinality(S) \in Sizes
  BY <1>1, FS_CardinalityType
<1>3. PICK k \in Sizes : \A m \in Sizes : k <= m
  <2>1. Sizes \in SUBSET Nat
    OBVIOUS
  <2> HIDE DEF Sizes
  <2> QED
    BY <1>2, <2>1, LeastExists
<1>4. PICK T \in SUBSET (Nat \ {0}) : IsFiniteSet(T) /\ Cardinality(T) = k /\ Unbounded(T)
  BY <1>3
<1>5. PICK x : x \in T
  BY <1>4 DEF Unbounded
<1>6. IsFiniteSet(T \ {x}) /\ Cardinality(T \ {x}) = k - 1 /\ k \in Nat
  BY <1>3, <1>4, <1>5, FS_RemoveElement
<1>7. Cardinality(T \ {x}) \in Nat /\ k - 1 \in Nat
  BY <1>6, FS_CardinalityType
<1>8. PICK n \in Nat : T \ {x} \subseteq 1 .. n
  <2>1. k - 1 \notin Sizes
    BY SMTT(30), <1>3, <1>6
  <2>2. ~ Unbounded(T \ {x})
    BY <1>4, <1>6, <1>7, <2>1
  <2> QED
    BY <2>2
<1>9. T \subseteq 1 .. (n + x) /\ n + x \in Nat
  BY <1>4, <1>5, <1>8
<1> QED
  BY <1>4, <1>9

(* A finite set of numbers has an ascending list of them. *)
LEMMA AscendingHolds ==
    ASSUME NEW S \in SUBSET (Nat \ {0}), IsFiniteSet(S)
    PROVE  \E n \in Nat :
              /\ n = 0 <=> S = {}
              /\ DOMAIN Writer!Ascending(S) = 1 .. n
              /\ Writer!Range(Writer!Ascending(S)) = S
              /\ \A i \in 2 .. n : Writer!Ascending(S)[i - 1] < Writer!Ascending(S)[i]
<1> DEFINE upTo(p) == {m \in S : m <= p}
           at(i) == CHOOSE p \in S : Writer!Cardinality({m \in S : m <= p}) = i
<1>0. \A p \in S : p \in Nat /\ 1 <= p
  OBVIOUS
<1>1. PICK n \in Nat : n = Cardinality(S)
  BY FS_CardinalityType
<1>2. \A i \in 1 .. n : \E p \in S : Cardinality(upTo(p)) = i
  <2> TAKE i \in 1 .. n
  <2>1. PICK b \in Nat : S \subseteq 1 .. b
    BY NumbersAreBounded
  <2>2. PICK p \in S : Cardinality(S \cap (1 .. p)) = i
    BY <1>1, <2>1, PlaceExists
  <2>3. S \cap (1 .. p) = upTo(p)
    <3>1. ASSUME NEW m \in S PROVE m \in 1 .. p <=> m <= p
      <4>1. m \in Nat /\ 1 <= m /\ p \in Nat
        BY <1>0
      <4> QED
        BY <4>1
    <3> QED
      BY <3>1, Zenon
  <2> QED
    BY <2>2, <2>3
<1>3. \A i \in 1 .. n : at(i) \in S /\ Cardinality(upTo(at(i))) = i
  BY <1>2, SameCardinality
<1>4. Writer!Ascending(S) = [i \in 1 .. n |-> at(i)]
  BY <1>1, SameCardinality DEF Writer!Ascending
<1>5. \A p \in S : Cardinality(upTo(p)) \in 1 .. n
  <2> TAKE p \in S
  <2>1. upTo(p) \in SUBSET S /\ p \in upTo(p)
    OBVIOUS
  <2>2. IsFiniteSet(upTo(p)) /\ Cardinality(upTo(p)) \in Nat /\ Cardinality(upTo(p)) <= n
    BY <1>1, <2>1, FS_Subset, FS_CardinalityType
  <2>3. Cardinality(upTo(p)) # 0
    BY <2>1, <2>2, FS_EmptySet
  <2> HIDE DEF upTo
  <2> QED
    BY <2>2, <2>3
<1>6. \A p, q \in S : p < q => Cardinality(upTo(p)) < Cardinality(upTo(q))
  <2> SUFFICES ASSUME NEW p \in S, NEW q \in S, p < q
               PROVE  Cardinality(upTo(p)) < Cardinality(upTo(q))
    OBVIOUS
  <2>1. IsFiniteSet(upTo(p)) /\ IsFiniteSet(upTo(q))
    BY FS_Subset
  <2>2. upTo(p) \subseteq upTo(q) /\ q \in upTo(q) /\ q \notin upTo(p)
    <3>1. ASSUME NEW m \in S PROVE m <= p => m <= q
      <4>1. m \in Nat /\ p \in Nat /\ q \in Nat
        BY <1>0
      <4> QED
        BY <4>1
    <3>2. q <= q /\ ~ q <= p
      <4>1. p \in Nat /\ q \in Nat
        BY <1>0
      <4> QED
        BY <4>1
    <3> QED
      BY <3>1, <3>2, Zenon
  <2>3. IsFiniteSet(upTo(p) \cup {q}) /\ Cardinality(upTo(p) \cup {q}) = Cardinality(upTo(p)) + 1
    BY <2>1, <2>2, FS_AddElement
  <2>4. Cardinality(upTo(p) \cup {q}) <= Cardinality(upTo(q))
    BY <2>1, <2>2, FS_Subset
  <2>5. Cardinality(upTo(p)) \in Nat /\ Cardinality(upTo(q)) \in Nat
    BY <2>1, FS_CardinalityType
  <2> HIDE DEF upTo
  <2> QED
    BY <2>3, <2>4, <2>5
<1> DEFINE size(p) == Cardinality(upTo(p))
<1>A. \A p \in S : size(p) \in 1 .. n
  BY <1>5
<1>B. \A p, q \in S : p < q => size(p) < size(q)
  BY <1>6
<1>C. \A i \in 1 .. n : at(i) \in S /\ size(at(i)) = i
  BY <1>3
<1> HIDE DEF at, size
<1>7. \A p \in S : \E i \in 1 .. n : at(i) = p
  <2> TAKE p \in S
  <2>1. PICK i \in 1 .. n : i = size(p)
    BY <1>A
  <2>2. PICK q \in S : q = at(i) /\ size(q) = i
    BY <1>C
  <2>3. p \in Nat /\ q \in Nat /\ size(p) \in Nat /\ size(q) \in Nat
    BY <1>0, <1>A
  <2>4. ~ q < p /\ ~ p < q
    BY <1>B, <2>1, <2>2, <2>3
  <2>5. p = q
    BY <2>3, <2>4
  <2> QED
    BY <2>1, <2>2, <2>5
<1>8. \A i \in 2 .. n : at(i - 1) < at(i)
  <2> TAKE i \in 2 .. n
  <2>1. i \in 1 .. n /\ i - 1 \in 1 .. n /\ i \in Nat
    BY <1>1
  <2>2. PICK q \in S : q = at(i) /\ size(q) = i
    BY <1>C, <2>1
  <2>3. PICK p \in S : p = at(i - 1) /\ size(p) = i - 1
    BY <1>C, <2>1
  <2>4. p \in Nat /\ q \in Nat /\ p # q
    BY <1>0, <2>1, <2>2, <2>3
  <2>5. ~ q < p
    BY <1>B, <2>1, <2>2, <2>3
  <2> QED
    BY <2>2, <2>3, <2>4, <2>5
<1>9. Writer!Range(Writer!Ascending(S)) = S
  <2>1. {at(i) : i \in 1 .. n} = S
    BY <1>C, <1>7
  <2>2. Writer!Range([i \in 1 .. n |-> at(i)]) = {at(i) : i \in 1 .. n}
    BY DEF Writer!Range
  <2> QED
    BY <1>4, <2>1, <2>2
<1>10. n = 0 <=> S = {}
  BY <1>1, FS_EmptySet
<1> QED
  BY <1>4, <1>8, <1>9, <1>10

LEMMA FirstIsThere ==
    ASSUME NEW text \in Seq(Tokens), NEW kind \in Writer!Kinds(text)
    PROVE  Writer!First(text, kind) \in DOMAIN text
<1> DEFINE S == {i \in DOMAIN text : text[i].kind = kind}
<1>1. S \in SUBSET Nat /\ S # {}
  BY DEF Writer!Kinds
<1>2. PICK m \in S : \A y \in S : m <= y
  <2> HIDE DEF S
  <2> QED
    BY <1>1, LeastExists
<1>3. \A j \in 1 .. (m - 1) : j \in DOMAIN text /\ ~ m <= j
  BY <1>1, <1>2
<1>4. \A j \in 1 .. (m - 1) : text[j].kind # kind
  BY <1>2, <1>3
<1> QED
  BY <1>2, <1>4 DEF Writer!First

(* What a bracket runs to. *)
LEMMA ClosesAreThere ==
    ASSUME NEW text \in Seq(Tokens), NEW left \in Writer!Opens(text),
           \E i \in DOMAIN text : text[i].kind = "close" /\ ~ i < left
    PROVE  \E close \in DOMAIN text :
              /\ close = Writer!CloseOf(text, left) /\ left < close
              /\ text[close].kind = "close"
              /\ \A k \in left .. (close - 1) : text[k].kind # "close"
<1> DEFINE S == {i \in DOMAIN text : text[i].kind = "close" /\ ~ i < left}
<1>1. S \in SUBSET Nat /\ S # {} /\ left \in DOMAIN text /\ left \in Nat /\ text[left].kind = "open"
  BY DEF Writer!Opens
<1>2. PICK m \in S : \A y \in S : m <= y
  <2> HIDE DEF S
  <2> QED
    BY <1>1, LeastExists
<1>3. m \in DOMAIN text /\ text[m].kind = "close" /\ m > left
  <2>1. m \in DOMAIN text /\ m \in Nat /\ text[m].kind = "close" /\ ~ m < left /\ m # left
    BY <1>1, <1>2
  <2> QED
    BY <1>1, <2>1
<1>4. \A k \in left .. (m - 1) : text[k].kind # "close"
  <2> SUFFICES ASSUME NEW k \in left .. (m - 1), text[k].kind = "close" PROVE FALSE
    OBVIOUS
  <2>1. k \in DOMAIN text /\ ~ k < left /\ ~ m <= k
    BY <1>1, <1>3
  <2> QED
    BY <1>2, <2>1
<1> DEFINE P(i) == i > left /\ text[i].kind = "close" /\ \A k \in left .. (i - 1) : text[k].kind # "close"
<1>5. PICK close \in DOMAIN text : close = Writer!CloseOf(text, left) /\ P(close)
  <2>1. \E i \in DOMAIN text : P(i)
    BY <1>3, <1>4
  <2>2. Writer!CloseOf(text, left) = CHOOSE i \in DOMAIN text : P(i)
    BY DEF Writer!CloseOf
  <2> HIDE DEF P
  <2> QED
    BY <2>1, <2>2
<1>6. left < close
  BY <1>1, <1>5
<1> QED
  BY <1>5, <1>6

(* The token before the close of a bracket is what the bracket holds. *)
LEMMA ContentsAreHeld ==
    ASSUME NEW text \in Seq(Tokens), NEW left \in Nat \ {0}, NEW close \in DOMAIN text,
           close = Writer!CloseOf(text, left), NEW i \in (left + 1) .. (close - 1)
    PROVE  /\ Writer!Content(text, left) \in Seq(Tokens)
           /\ i - left \in DOMAIN Writer!Content(text, left)
           /\ Writer!Content(text, left)[i - left] = text[i]
<1>1. Writer!Content(text, left) = SubSeq(text, left + 1, close - 1)
  BY DEF Writer!Content
<1>2. left + 1 \in Nat /\ close - 1 \in Nat /\ 1 <= left + 1 /\ close - 1 <= Len(text)
  OBVIOUS
<1> QED
  BY SMTT(30), <1>1, <1>2

(* A list of citations holds numbers and commas, and each number is cited. *)
LEMMA NumbersAreCited ==
    ASSUME NEW content \in Seq(Tokens), NEW numbers \in Writer!CitedIn(content),
           NEW p \in DOMAIN content, content[p].kind \in {"number", "literal"}
    PROVE  content[p].n \in Writer!Range(numbers)
<1>1. numbers \in Writer!MarkerNumbers(content)
  BY DEF Writer!CitedIn, Writer!IsText, Writer!Kinds
<1> DEFINE list == [i \in 1 .. ((Len(content) + 1) \div 2) |-> content[(2 * i) - 1].n]
<1>2. numbers = list /\ \A i \in DOMAIN content : content[i].kind = IF i % 2 = 1 THEN "number" ELSE "comma"
  BY <1>1, Zenon DEF Writer!MarkerNumbers
<1>3. p % 2 = 1 /\ p \in Nat /\ p <= Len(content) /\ Len(content) \in Nat
  BY <1>2
<1>4. PICK q \in Nat : p = (2 * q) + 1
  BY <1>3
<1>5. q + 1 \in 1 .. ((Len(content) + 1) \div 2) /\ (2 * (q + 1)) - 1 = p
  BY <1>3, <1>4
<1>6. list[q + 1] = content[p].n /\ q + 1 \in DOMAIN list
  BY <1>5
<1> HIDE DEF list
<1> QED
  BY <1>2, <1>6 DEF Writer!Range


(* Whatever brackets a text has, a number or literal of it is cited when it
   stands inside a bracket, and is left for the literal check when not. *)
LEMMA ShownIsCitedOrLeft ==
    ASSUME NEW text \in Seq(Tokens), NEW cited \in Writer!RemoveCitations(text),
           NEW i \in DOMAIN text, text[i].kind \in {"number", "literal"}
    PROVE  IF Writer!Bracketed(text, i) THEN text[i].n \in cited.citations ELSE i \in cited.plain
<1> DEFINE opens == Writer!Opens(text)
           closes == {x \in DOMAIN text : text[x].kind = "close"}
           inside == UNION {left .. Writer!CloseOf(text, left) : left \in opens}
           shown == UNION {(left + 1) .. (Writer!CloseOf(text, left) - 1) :
                              left \in {o \in opens : Writer!IsText(Writer!Content(text, o))}}
           numbersOf(left) == UNION {Writer!Range(numbers) :
                                        numbers \in Writer!CitedIn(Writer!Content(text, left))}
<1>0. /\ \A left \in opens : ~ \A x \in closes : x < left
      /\ \A left \in opens : Writer!CitedIn(Writer!Content(text, left)) # {}
      /\ cited.plain = (DOMAIN text \ inside) \cup shown
      /\ cited.citations = UNION {numbersOf(left) : left \in opens}
  BY DEF Writer!RemoveCitations
<1>1. \A left \in opens : left \in DOMAIN text /\ left \in Nat /\ 1 <= left /\ text[left].kind = "open"
  BY DEF Writer!Opens
<1>2. ASSUME NEW left \in opens
      PROVE  \E close \in DOMAIN text :
                /\ close = Writer!CloseOf(text, left) /\ left < close
                /\ text[close].kind = "close"
                /\ \A k \in left .. (close - 1) : text[k].kind # "close"
  <2>1. \E x \in DOMAIN text : text[x].kind = "close" /\ ~ x < left
    BY <1>0
  <2> QED
    BY <2>1, ClosesAreThere
<1>3. ASSUME Writer!Bracketed(text, i) PROVE text[i].n \in cited.citations
  <2> DEFINE S == {j \in 1 .. (i - 1) : text[j].kind = "open" /\ \A k \in j .. i : text[k].kind # "close"}
  <2>1. S \in SUBSET Nat /\ S # {}
    BY <1>3 DEF Writer!Bracketed
  <2>2. PICK left \in S : \A y \in S : left <= y
    <3> HIDE DEF S
    <3> QED
      BY <2>1, LeastExists
  <2>3. left \in opens
    <3>1. ASSUME NEW j \in 1 .. (left - 1), text[j].kind = "open"
          PROVE  \E k \in j .. left : text[k].kind = "close"
      <4>1. j \notin S /\ j \in 1 .. (i - 1)
        <5>1. left \in 1 .. (i - 1) /\ i \in Nat
          BY <2>2
        <5>2. ~ left <= j /\ j \in 1 .. (i - 1)
          BY <5>1
        <5> HIDE DEF S
        <5> QED
          BY <2>2, <5>2
      <4>2. PICK k \in j .. i : text[k].kind = "close"
        BY <3>1, <4>1
      <4>3. k \in j .. left
        <5>1. \A l \in left .. i : text[l].kind # "close"
          BY <2>2
        <5> QED
          BY <2>2, <4>2, <5>1
      <4> QED
        BY <4>2, <4>3
    <3>2. left \in DOMAIN text /\ text[left].kind = "open"
      BY <2>2
    <3> QED
      BY <3>1, <3>2 DEF Writer!Opens
  <2>4. PICK close \in DOMAIN text :
            /\ close = Writer!CloseOf(text, left) /\ left < close
            /\ text[close].kind = "close"
    BY <1>2, <2>3
  <2>5. i < close
    <3>1. \A k \in left .. i : text[k].kind # "close"
      BY <2>2
    <3> QED
      BY <2>2, <2>4, <3>1
  <2>6. i \in (left + 1) .. (close - 1) /\ left \in Nat \ {0}
    BY <2>2, <2>5
  <2> DEFINE content == Writer!Content(text, left)
  <2>7. content \in Seq(Tokens) /\ i - left \in DOMAIN content /\ content[i - left] = text[i]
    BY <2>4, <2>6, ContentsAreHeld
  <2>8. PICK numbers : numbers \in Writer!CitedIn(content)
    BY <1>0, <2>3
  <2> HIDE DEF content
  <2>9. text[i].n \in Writer!Range(numbers)
    BY <2>7, <2>8, NumbersAreCited
  <2>10. text[i].n \in numbersOf(left)
    BY <2>8, <2>9 DEF content
  <2> HIDE DEF numbersOf
  <2> QED
    BY <1>0, <2>3, <2>10
<1>4. ASSUME i \in inside PROVE Writer!Bracketed(text, i)
  <2>1. PICK left \in opens : i \in left .. Writer!CloseOf(text, left)
    BY <1>4
  <2>2. PICK close \in DOMAIN text :
            /\ close = Writer!CloseOf(text, left) /\ left < close
            /\ text[close].kind = "close"
            /\ \A k \in left .. (close - 1) : text[k].kind # "close"
    BY <1>2, <2>1
  <2>3. i # left /\ i # close /\ left \in Nat /\ 1 <= left /\ text[left].kind = "open"
    BY <1>1, <2>1, <2>2
  <2>4. left \in 1 .. (i - 1) /\ \A k \in left .. i : k \in left .. (close - 1)
    BY <2>1, <2>2, <2>3
  <2> QED
    BY <2>2, <2>3, <2>4 DEF Writer!Bracketed
<1> HIDE DEF inside, shown, opens, closes, numbersOf
<1> QED
  BY <1>0, <1>3, <1>4


Supported(text, citations) ==
    /\ Writer!Kinds(text) \cap {"think", "unthink"} = {}
    /\ citations # << >>
    /\ \A i \in DOMAIN citations :
         /\ i > 1 => citations[i - 1] < citations[i]
         /\ citations[i] \in Writer!Numbers(evidence)
    /\ \A i \in DOMAIN text : text[i].kind \in {"number", "literal"} =>
         IF Writer!Bracketed(text, i) THEN text[i].n \in Writer!Range(citations)
         ELSE text[i].n \in evidence.supported

AnsweringInv ==
    /\ evidence \in AnswerBundles /\ Writer!CheckBundle(evidence)
    /\ vocabulary \in AnswerVocabularies /\ reply \in Seq(Tokens)
    /\ \A a \in given : a.kind = "answer" => Supported(a.text, a.citations)
    /\ (\E a \in given : a.kind = "answer") \/ given = {} =>
         \A n \in Writer!Numbers(evidence) : Writer!CitedBy(n) # {}

LEMMA StrippedIsText ==
    ASSUME NEW raw \in Seq(Tokens), NEW text \in Writer!Stripped(raw)
    PROVE  text \in Seq(Tokens)
<1>1. CASE text = raw
  BY <1>1
<1>2. CASE "unthink" \in Writer!Kinds(raw) /\ text = Writer!From(raw, Writer!First(raw, "unthink") + 1)
  <2>1. PICK k \in DOMAIN raw : k = Writer!First(raw, "unthink")
    BY <1>2, FirstIsThere
  <2>2. text = SubSeq(raw, k + 1, Len(raw))
    BY <1>2, <2>1 DEF Writer!From
  <2> QED
    BY <2>1, <2>2
<1> QED
  BY <1>1, <1>2 DEF Writer!Stripped

(* The numbers of the passages are positive, and finitely many. *)
LEMMA PassagesAreNumbered ==
    ASSUME evidence \in AnswerBundles, Writer!CheckBundle(evidence)
    PROVE  Writer!Numbers(evidence) \in SUBSET (Nat \ {0}) /\ IsFiniteSet(Writer!Numbers(evidence))
<1>1. PICK n \in Nat : DOMAIN evidence.passages = 1 .. n
  BY TracesAreLists
<1>2. \A i \in 1 .. n : evidence.passages[i].n \in Nat /\ evidence.passages[i].n > 0
  <2>1. \A i \in 1 .. n : evidence.passages[i] \in Range(evidence.passages)
    BY <1>1 DEF Range
  <2> QED
    BY <1>1, <2>1, TracesAreLists DEF Writer!CheckBundle, Writer!Numbered
<1> DEFINE f == [i \in 1 .. n |-> evidence.passages[i].n]
<1>3. f \in Surjection(1 .. n, Writer!Numbers(evidence))
  <2>1. Writer!Numbers(evidence) = {f[i] : i \in 1 .. n}
    BY <1>1 DEF Writer!Numbers
  <2>2. f \in [1 .. n -> Writer!Numbers(evidence)]
    BY <2>1
  <2> QED
    BY <2>1, <2>2 DEF Surjection
<1>4. IsFiniteSet(Writer!Numbers(evidence))
  BY <1>3, FS_Surjection, FS_Interval
<1> QED
  BY <1>1, <1>2, <1>4 DEF Writer!Numbers

LEMMA RepliesAreSupported ==
    ASSUME AnsweringInv, Writer!ValidateReply(reply).ok
    PROVE  Supported(Writer!ValidateReply(reply).text, Writer!ValidateReply(reply).citations)
<1>1. PICK text : text = CHOOSE t \in Writer!Stripped(reply) : TRUE
  OBVIOUS
<1>2. PICK cited : cited = CHOOSE c \in Writer!RemoveCitations(text) : TRUE
  OBVIOUS
<1> DEFINE numbers == cited.citations
<1>3. /\ Writer!Stripped(reply) # {} /\ \A t \in Writer!Stripped(reply) : ~ Writer!Leaks(t)
      /\ Writer!RemoveCitations(text) # {}
      /\ numbers # {} /\ numbers \subseteq Writer!Numbers(evidence)
      /\ Writer!Unsupported(text, cited.plain) = {}
      /\ Writer!ValidateReply(reply).text = text
      /\ Writer!ValidateReply(reply).citations = Writer!Ascending(numbers)
  BY <1>1, <1>2 DEF Writer!ValidateReply, Writer!Valid, Writer!Invalid
<1>4. text \in Writer!Stripped(reply) /\ cited \in Writer!RemoveCitations(text)
  BY <1>1, <1>2, <1>3
<1>5. text \in Seq(Tokens)
  BY <1>4, StrippedIsText DEF AnsweringInv
<1>6. Writer!Kinds(text) \cap {"think", "unthink"} = {}
  BY <1>3, <1>4 DEF Writer!Leaks
<1>7. numbers \in SUBSET (Nat \ {0}) /\ IsFiniteSet(numbers)
  BY <1>3, PassagesAreNumbered, FS_Subset DEF AnsweringInv
<1>8. PICK n \in Nat :
         /\ n # 0
         /\ DOMAIN Writer!Ascending(numbers) = 1 .. n
         /\ Writer!Range(Writer!Ascending(numbers)) = numbers
         /\ \A i \in 2 .. n : Writer!Ascending(numbers)[i - 1] < Writer!Ascending(numbers)[i]
  BY <1>3, <1>7, AscendingHolds
<1>9. PICK citations : citations = Writer!Ascending(numbers)
  OBVIOUS
<1>10. citations # << >> /\ \A i \in DOMAIN citations :
           (i > 1 => citations[i - 1] < citations[i]) /\ citations[i] \in Writer!Numbers(evidence)
  <2>1. \A i \in 1 .. n : citations[i] \in numbers /\ (i > 1 => i \in 2 .. n)
    BY <1>8, <1>9 DEF Writer!Range
  <2> QED
    BY <1>3, <1>8, <1>9, <2>1
<1>11. ASSUME NEW i \in DOMAIN text, text[i].kind \in {"number", "literal"}
       PROVE  IF Writer!Bracketed(text, i) THEN text[i].n \in Writer!Range(citations)
              ELSE text[i].n \in evidence.supported
  <2>1. IF Writer!Bracketed(text, i) THEN text[i].n \in numbers ELSE i \in cited.plain
    BY <1>4, <1>5, <1>11, ShownIsCitedOrLeft
  <2>2. i \in cited.plain => text[i].n \in evidence.supported
    BY <1>3, <1>11 DEF Writer!Unsupported
  <2> QED
    BY <1>8, <1>9, <2>1, <2>2
<1> QED
  BY <1>3, <1>6, <1>9, <1>10, <1>11 DEF Supported

(* What is said of the bundle stays said of it. *)
LEMMA BundleStays ==
    ASSUME evidence' = evidence
    PROVE  /\ Writer!CheckBundle(evidence) => Writer!CheckBundle(evidence)'
           /\ (\A n \in Writer!Numbers(evidence) : Writer!CitedBy(n) # {}) =>
                (\A n \in Writer!Numbers(evidence) : Writer!CitedBy(n) # {})'
           /\ (\A a \in given : a.kind = "answer" => Supported(a.text, a.citations)) /\ given' = given =>
                (\A a \in given : a.kind = "answer" => Supported(a.text, a.citations))'
<1>1. Writer!CheckBundle(evidence) => Writer!CheckBundle(evidence)'
  OBVIOUS
<1>2. (\A n \in Writer!Numbers(evidence) : Writer!CitedBy(n) # {}) =>
                (\A n \in Writer!Numbers(evidence) : Writer!CitedBy(n) # {})'
  BY DEF Writer!CitedBy
<1>3. (\A a \in given : a.kind = "answer" => Supported(a.text, a.citations)) /\ given' = given =>
                (\A a \in given : a.kind = "answer" => Supported(a.text, a.citations))'
  BY DEF Supported
<1> QED
  BY <1>1, <1>2, <1>3

LEMMA AnsweringInits == ASSUME Writer!AnsweringInit PROVE AnsweringInv
<1> SUFFICES ASSUME Writer!AnsweringInit PROVE AnsweringInv
  OBVIOUS
<1>1. evidence \in AnswerBundles /\ Writer!CheckBundle(evidence) /\ vocabulary \in AnswerVocabularies
  BY DEF Writer!AnsweringInit
<1>2. reply \in Seq(Tokens)
  <2>1. reply = << >>
    BY DEF Writer!AnsweringInit
  <2> QED
    BY <2>1
<1>3. (\E n \in Writer!Numbers(evidence) : Writer!CitedBy(n) = {}) =>
         given = {[kind |-> "error", code |-> "integrity"]}
  BY DEF Writer!AnsweringInit, Writer!Errs
<1>4. given # {} => \E x \in given : given = {x} /\ x.kind # "answer"
  BY DEF Writer!AnsweringInit, Writer!Errs, Writer!Refused
<1> QED
  BY <1>1, <1>2, <1>3, <1>4 DEF AnsweringInv

LEMMA AnsweringSteps == ASSUME AnsweringInv, Writer!AnsweringNext PROVE AnsweringInv'
<1>1. ASSUME NEW answerer \in BOOLEAN, Writer!StartChat(answerer) PROVE AnsweringInv'
  <2>1. /\ given = {} /\ \A a \in given' : a.kind # "answer"
        /\ UNCHANGED <<evidence, vocabulary, reply>>
    BY <1>1 DEF Writer!StartChat, Writer!Refused
  <2> QED
    BY <2>1, BundleStays DEF AnsweringInv
<1>2. ASSUME NEW t \in vocabulary, Writer!Write(t) PROVE AnsweringInv'
  <2>1. reply' \in Seq(Tokens)
    BY <1>2 DEF AnsweringInv, Writer!Write, Tokens
  <2> QED
    BY <1>2, <2>1, BundleStays DEF AnsweringInv, Writer!Write
<1>3. ASSUME Writer!EndReply PROVE AnsweringInv'
  <2> DEFINE checked == Writer!ValidateReply(reply)
  <2>1. CASE checked.ok
    <3>1. given' = {[kind |-> "answer", text |-> checked.text, citations |-> checked.citations]}
          /\ given = {} /\ UNCHANGED <<evidence, vocabulary, reply>>
      BY <1>3, <2>1 DEF Writer!EndReply
    <3>2. Supported(checked.text, checked.citations)
      BY <2>1, RepliesAreSupported
    <3>3. PICK a : a = [kind |-> "answer", text |-> checked.text, citations |-> checked.citations]
      OBVIOUS
    <3>4. a.text = checked.text /\ a.citations = checked.citations /\ given' = {a}
      BY <3>1, <3>3
    <3>5. Supported(a.text, a.citations)'
      <4> HIDE DEF checked
      <4> QED
        BY <3>1, <3>2, <3>4 DEF Supported, Writer!Numbers
    <3> HIDE DEF checked
    <3> QED
      BY <3>1, <3>4, <3>5, BundleStays DEF AnsweringInv
  <2>2. CASE ~ checked.ok
    <3>1. /\ given = {} /\ (given' = {} \/ given' = Writer!Refused("unsupported"))
          /\ reply' = << >> /\ UNCHANGED <<evidence, vocabulary>>
      BY <1>3, <2>2 DEF Writer!EndReply, Writer!Repair
    <3> HIDE DEF checked
    <3> QED
      BY <3>1, BundleStays DEF AnsweringInv, Writer!Refused
  <2> QED
    BY <2>1, <2>2
<1>4. ASSUME NEW how, how \in {"not_found", "incomplete", "backend", "timeout"}, Writer!EndOtherwise(how)
      PROVE AnsweringInv'
  <2>1. /\ given = {} /\ \A a \in given' : a.kind # "answer"
        /\ reply' = << >> /\ UNCHANGED <<evidence, vocabulary>>
    BY <1>4 DEF Writer!EndOtherwise, Writer!Repair, Writer!Refused, Writer!Errs
  <2> QED
    BY <2>1, BundleStays DEF AnsweringInv
<1> QED
  BY <1>1, <1>2, <1>3, <1>4 DEF Writer!AnsweringNext

(* A passage that is cited resolves to a chunk of its own revision. *)
LEMMA CitationsResolve ==
    ASSUME AnsweringInv, NEW n \in Writer!Numbers(evidence), NEW c \in Writer!CitedBy(n)
    PROVE  <<Writer!RevisionOf(evidence, n), c>> \in Writer!Contained(evidence)
<1>1. PICK t \in Writer!Range(evidence.trace) : t.n = n /\ t.chunks \o t.parents # << >>
                                                  /\ c = (t.chunks \o t.parents)[1]
  BY DEF Writer!CitedBy
<1>2. t.chunks \in Seq(Range(t.chunks)) /\ t.parents \in Seq(Range(t.parents))
  <2>1. t \in Range(evidence.trace)
    BY <1>1 DEF Range, Writer!Range
  <2> QED
    BY <2>1, TracesAreLists DEF AnsweringInv
<1>3. CASE t.chunks # << >>
  <2>1. c = t.chunks[1] /\ 1 \in DOMAIN t.chunks
    <3>1. PICK S : S = Range(t.chunks) \cup Range(t.parents)
      OBVIOUS
    <3>2. t.chunks \in Seq(S) /\ t.parents \in Seq(S)
      BY <1>2, <3>1
    <3>3. Len(t.chunks) \in Nat /\ 1 <= Len(t.chunks)
      BY <1>3, <3>2
    <3>4. PICK m \in Nat : m = Len(t.chunks) /\ 1 <= m /\ DOMAIN t.chunks = 1 .. m
      BY <3>2, <3>3
    <3>5. (t.chunks \o t.parents)[1] = t.chunks[1]
      <4>1. ASSUME NEW x \in Seq(S), NEW y \in Seq(S), 1 <= Len(x) PROVE (x \o y)[1] = x[1]
        BY <4>1
      <4> QED
        BY <3>2, <3>3, <4>1
    <3> QED
      BY <1>1, <3>4, <3>5
  <2> QED
    BY <1>1, <2>1 DEF Writer!Contained, Writer!Range
<1>4. CASE t.chunks = << >>
  <2>1. c = t.parents[1] /\ 1 \in DOMAIN t.parents
    BY <1>1, <1>2, <1>4
  <2> QED
    BY <1>1, <2>1 DEF AnsweringInv, Writer!CheckBundle, Writer!CheckParentContext, Writer!Range
<1> QED
  BY <1>3, <1>4

LEMMA AnswersAreSupported == ASSUME AnsweringInv PROVE Writer!AnswerIsSupported
<1> SUFFICES ASSUME NEW a \in given, a.kind = "answer"
             PROVE  /\ Writer!Kinds(a.text) \cap {"think", "unthink"} = {} /\ a.citations # << >>
                    /\ \A i \in DOMAIN a.citations :
                         LET n == a.citations[i] IN
                         /\ i > 1 => a.citations[i - 1] < n
                         /\ n \in Writer!Numbers(evidence) /\ Writer!CitedBy(n) # {}
                         /\ \A c \in Writer!CitedBy(n) :
                              <<Writer!RevisionOf(evidence, n), c>> \in Writer!Contained(evidence)
                    /\ \A i \in DOMAIN a.text : a.text[i].kind \in {"number", "literal"} =>
                         IF Writer!Bracketed(a.text, i) THEN a.text[i].n \in Writer!Range(a.citations)
                         ELSE a.text[i].n \in evidence.supported
  BY DEF Writer!AnswerIsSupported
<1>1. Supported(a.text, a.citations) /\ \A n \in Writer!Numbers(evidence) : Writer!CitedBy(n) # {}
  BY DEF AnsweringInv
<1> QED
  BY <1>1, CitationsResolve DEF Supported

(* Whatever a model writes, in its first reply or after the repair: an answer
   that is given shows no thinking, cites passages of the bundle that resolve
   to chunks of their own revision, cites every number it shows in brackets,
   and has support for every other literal (answer_bundle, validate_reply). *)
THEOREM AnswerIsSupportedHolds == SearchSpec => []AnswerIsSupported
<1> DEFINE Inv == part = "answering" => AnsweringInv
<1>1. SearchInit => Inv
  BY AnsweringInits DEF SearchInit
<1>2. Inv /\ [SearchNext]_<<partVars, searchPartsVars>> => Inv'
  <2>1. ASSUME Inv, SearchNext PROVE Inv'
    BY <2>1, StepsOfSearch, AnsweringSteps
  <2>2. ASSUME Inv, UNCHANGED <<partVars, searchPartsVars>> PROVE Inv'
    BY <2>2, BundleStays DEF partVars, searchPartsVars, answeringVars, AnsweringInv
  <2> QED
    BY <2>1, <2>2
<1>3. Inv => AnswerIsSupported
  BY AnswersAreSupported DEF AnswerIsSupported
<1> QED
  BY <1>1, <1>2, <1>3, PTL DEF SearchSpec


-----------------------------------------------------------------------------
(* Merges of attempt reports: what a merge accepts depends on the set of its
   reports, and the schedule counts that set in two ways. *)

ReportList(reports) ==
    /\ reports \in Seq(Merge!ToSet(reports))
    /\ \A r \in Merge!ToSet(reports) : r.warm \in BOOLEAN

LEMMA SameMergeCardinality == \A S : Merge!Cardinality(S) = Cardinality(S)
  BY DEF Merge!Cardinality, Cardinality

LEMMA ReportsAreFinite ==
    ASSUME NEW reports, ReportList(reports)
    PROVE  /\ Len(reports) \in Nat /\ DOMAIN reports = 1 .. Len(reports)
           /\ IsFiniteSet(Merge!ToSet(reports))
<1>1. PICK S : S = Merge!ToSet(reports)
  OBVIOUS
<1>2. reports \in Seq(S)
  BY <1>1 DEF ReportList
<1>3. Len(reports) \in Nat /\ DOMAIN reports = 1 .. Len(reports)
  BY SMTT(30), <1>2
<1>4. PICK n \in Nat : DOMAIN reports = 1 .. n /\ n = Len(reports)
  BY <1>3
<1> DEFINE f == [i \in 1 .. n |-> reports[i]]
<1>5. f \in Surjection(1 .. n, S)
  <2>1. S = {f[i] : i \in 1 .. n}
    BY <1>1, <1>4 DEF Merge!ToSet
  <2>2. f \in [1 .. n -> S]
    BY <2>1
  <2> QED
    BY <2>1, <2>2 DEF Surjection
<1>6. IsFiniteSet(S)
  BY <1>5, FS_Surjection, FS_Interval
<1> QED
  BY <1>1, <1>3, <1>6

LEMMA SameReport ==
    ASSUME NEW reports, ReportList(reports), Merge!Consistent(reports),
           NEW r \in Merge!ToSet(reports), NEW s \in Merge!ToSet(reports), r.attempt = s.attempt
    PROVE  r = s
  BY DEF Merge!Consistent, Merge!ToSet

(* One report more in a set of which the count is fixed. *)
LEMMA OneMore ==
    ASSUME NEW S, NEW T, IsFiniteSet(S), NEW x \in S, T = S \ {x}
    PROVE  Merge!Cardinality(S) # Merge!Cardinality(T)
<1>1. Cardinality(T) = Cardinality(S) - 1 /\ Cardinality(S) \in Nat
  BY FS_RemoveElement, FS_CardinalityType
<1> QED
  BY <1>1, SameMergeCardinality

LEMMA PlacesOfBoth ==
    ASSUME NEW S, NEW a \in Seq(S), NEW b \in Seq(S)
    PROVE  /\ \A j \in 1 .. Len(a) : (a \o b)[j] = a[j]
           /\ \A j \in 1 .. Len(b) : (a \o b)[Len(a) + j] = b[j]
  OBVIOUS

LEMMA OnlyRetriesMayMiss ==
    ASSUME NEW reports, NEW agreed, ReportList(reports), Merge!Merges(reports, agreed),
           NEW i \in DOMAIN reports, Merge!Merges(Merge!RemoveAt(reports, i), agreed)
    PROVE  reports[i].retry # Merge!None
<1> SUFFICES ASSUME reports[i].retry = Merge!None PROVE FALSE
  OBVIOUS
<1>1. PICK left : left = Merge!RemoveAt(reports, i)
  OBVIOUS
<1>2. PICK S : S = Merge!ToSet(reports) /\ reports \in Seq(S)
  BY DEF ReportList
<1>3. PICK n \in Nat : DOMAIN reports = 1 .. n /\ n = Len(reports)
  BY ReportsAreFinite
<1>4. left = SubSeq(reports, 1, i - 1) \o SubSeq(reports, i + 1, n)
  BY <1>1, <1>3 DEF Merge!RemoveAt
<1>5. /\ DOMAIN left = 1 .. (n - 1)
      /\ \A j \in 1 .. (n - 1) : left[j] = IF j < i THEN reports[j] ELSE reports[j + 1]
  <2>0. i \in 1 .. n /\ i \in Nat /\ n \in Nat
    BY <1>3
  <2>1. PICK a \in Seq(S) : /\ a = SubSeq(reports, 1, i - 1) /\ Len(a) = i - 1
                            /\ \A j \in 1 .. (i - 1) : a[j] = reports[j]
    <3>1. SubSeq(reports, 1, i - 1) \in Seq(S) /\ Len(SubSeq(reports, 1, i - 1)) = i - 1
      BY <1>2, <1>3, <2>0
    <3>2. \A j \in 1 .. (i - 1) : SubSeq(reports, 1, i - 1)[j] = reports[j]
      BY <1>2, <1>3, <2>0
    <3> QED
      BY <3>1, <3>2
  <2>2. PICK b \in Seq(S) : /\ b = SubSeq(reports, i + 1, n) /\ Len(b) = n - i
                            /\ \A j \in 1 .. (n - i) : b[j] = reports[i + j]
    <3>1. SubSeq(reports, i + 1, n) \in Seq(S) /\ Len(SubSeq(reports, i + 1, n)) = n - i
      BY <1>2, <1>3, <2>0
    <3>2. \A j \in 1 .. (n - i) : SubSeq(reports, i + 1, n)[j] = reports[i + j]
      BY <1>2, <1>3, <2>0
    <3> QED
      BY <3>1, <3>2
  <2>3. left = a \o b
    BY <1>4, <2>1, <2>2
  <2>4. Len(left) = n - 1 /\ left \in Seq(S)
    BY SMTT(30), <2>0, <2>1, <2>2, <2>3
  <2>5. ASSUME NEW j \in 1 .. (n - 1) PROVE left[j] = IF j < i THEN reports[j] ELSE reports[j + 1]
    <3>1. CASE j < i
      <4>1. j \in 1 .. (i - 1)
        BY <2>0, <3>1
      <4>2. left[j] = a[j]
        BY <2>1, <2>3, <4>1, PlacesOfBoth
      <4> QED
        BY <2>1, <3>1, <4>1, <4>2
    <3>2. CASE ~ j < i
      <4> DEFINE k == j - (i - 1)
      <4>1. k \in 1 .. (n - i) /\ i + k = j + 1 /\ (i - 1) + k = j
        BY <2>0, <3>2
      <4> HIDE DEF k
      <4>2. k \in 1 .. Len(b) /\ Len(a) + k = j
        BY <2>1, <2>2, <4>1
      <4>3. (a \o b)[Len(a) + k] = b[k]
        BY <4>2, PlacesOfBoth
      <4> QED
        BY <2>2, <2>3, <3>2, <4>1, <4>2, <4>3
    <3> QED
      BY <3>1, <3>2
  <2> QED
    BY <2>4, <2>5
<1>6. Merge!ToSet(left) = S \ {reports[i]}
  <2>1. ASSUME NEW j \in 1 .. (n - 1) PROVE left[j] \in S /\ left[j] # reports[i]
    <3>1. PICK k \in DOMAIN reports : k # i /\ left[j] = reports[k]
      <4>1. j \in DOMAIN reports /\ j + 1 \in DOMAIN reports /\ (j < i => j # i) /\ (~ j < i => j + 1 # i)
        BY <1>3
      <4> QED
        BY <1>5, <4>1
    <3>2. reports[k].attempt # reports[i].attempt
      BY <3>1 DEF Merge!Merges, Merge!Consistent
    <3> QED
      BY <1>2, <3>1, <3>2 DEF Merge!ToSet
  <2>2. ASSUME NEW k \in 1 .. n, k # i PROVE \E j \in 1 .. (n - 1) : left[j] = reports[k]
    <3>1. CASE k < i
      <4>1. k \in 1 .. (n - 1)
        BY <1>3, <3>1
      <4> QED
        BY <1>5, <3>1, <4>1
    <3>2. CASE i < k
      <4>1. k - 1 \in 1 .. (n - 1) /\ ~ k - 1 < i /\ (k - 1) + 1 = k
        BY <1>3, <3>2
      <4> QED
        BY <1>5, <4>1
    <3> QED
      BY <1>3, <2>2, <3>1, <3>2
  <2>3. Merge!ToSet(left) = {left[j] : j \in 1 .. (n - 1)} /\ S = {reports[k] : k \in 1 .. n}
    BY <1>2, <1>3, <1>5 DEF Merge!ToSet
  <2> QED
    BY <2>1, <2>2, <2>3
<1>7. reports[i] \in S /\ IsFiniteSet(S) /\ reports[i].warm \in BOOLEAN
  BY <1>2, ReportsAreFinite DEF ReportList, Merge!ToSet
<1>8. CASE reports[i].warm
  <2>1. reports[i] \in Merge!Warm(reports) /\ Merge!Warm(left) = Merge!Warm(reports) \ {reports[i]}
    BY <1>2, <1>6, <1>7, <1>8 DEF Merge!Warm
  <2>2. IsFiniteSet(Merge!Warm(reports))
    BY <1>2, <1>7, FS_Subset DEF Merge!Warm
  <2> QED
    BY <1>1, <2>1, <2>2, OneMore DEF Merge!Merges, Merge!ValidSchedule
<1>9. CASE ~ reports[i].warm
  <2>1. reports[i] \in Merge!Originals(reports) /\ Merge!Originals(left) = Merge!Originals(reports) \ {reports[i]}
    BY <1>2, <1>6, <1>7, <1>9 DEF Merge!Originals
  <2>2. IsFiniteSet(Merge!Originals(reports))
    BY <1>2, <1>7, FS_Subset DEF Merge!Originals
  <2> QED
    BY <1>1, <2>1, <2>2, OneMore DEF Merge!Merges, Merge!ValidSchedule, Merge!CoversPlan
<1> QED
  BY <1>7, <1>8, <1>9

LEMMA OrderDoesNotMatter ==
    ASSUME NEW reports, NEW agreed, ReportList(reports), Merge!Merges(reports, agreed)
    PROVE  Merge!Merges(Merge!Reverse(reports), agreed)
<1>1. PICK turned : turned = Merge!Reverse(reports)
  OBVIOUS
<1>2. PICK n \in Nat : DOMAIN reports = 1 .. n /\ n = Len(reports)
  BY ReportsAreFinite
<1>3. turned = [j \in 1 .. n |-> reports[(n - j) + 1]]
  BY <1>1, <1>2 DEF Merge!Reverse
<1>4. \A j \in 1 .. n : (n - j) + 1 \in 1 .. n /\ turned[j] = reports[(n - j) + 1]
  BY <1>3
<1>5. DOMAIN turned = 1 .. n
  BY <1>3
<1>6. Merge!ToSet(turned) = Merge!ToSet(reports)
  <2>1. ASSUME NEW k \in 1 .. n PROVE \E j \in 1 .. n : turned[j] = reports[k]
    <3>1. (n - k) + 1 \in 1 .. n /\ (n - ((n - k) + 1)) + 1 = k
      OBVIOUS
    <3> QED
      BY <1>4, <3>1
  <2>2. ASSUME NEW j \in 1 .. n PROVE \E k \in 1 .. n : turned[j] = reports[k]
    BY <1>4
  <2>3. Merge!ToSet(turned) = {turned[j] : j \in 1 .. n} /\ Merge!ToSet(reports) = {reports[k] : k \in 1 .. n}
    BY <1>2, <1>5 DEF Merge!ToSet
  <2> QED
    BY <2>1, <2>2, <2>3
<1>7. Len(turned) = Len(reports)
  <2>1. turned \in Seq({reports[k] : k \in 1 .. n})
    BY <1>3, <1>4
  <2> QED
    BY <1>2, <1>5, <2>1
<1>8. turned # << >>
  <2>1. n # 0
    <3>1. n = 0 => reports = << >>
      BY <1>2 DEF ReportList
    <3> QED
      BY <3>1 DEF Merge!Merges
  <2> QED
    BY <1>5, <2>1
<1>9. Merge!Consistent(turned)
  <2>1. \A i, j \in 1 .. n : /\ DOMAIN reports[i].rows = DOMAIN reports[j].rows
                             /\ reports[i].attempt = reports[j].attempt => i = j
    BY <1>2 DEF Merge!Merges, Merge!Consistent
  <2>2. \A i, j \in 1 .. n : (n - i) + 1 = (n - j) + 1 => i = j
    OBVIOUS
  <2> QED
    BY <1>4, <1>5, <2>1, <2>2 DEF Merge!Consistent
<1>10. Merge!ValidSchedule(turned, agreed)
  <2>1. Merge!ValidSchedule(reports, agreed)
    BY DEF Merge!Merges
  <2>2. Merge!Originals(turned) = Merge!Originals(reports) /\ Merge!Warm(turned) = Merge!Warm(reports)
    BY <1>6 DEF Merge!Originals, Merge!Warm
  <2>3. \A r : Merge!ValidRetry(reports, r) => Merge!ValidRetry(turned, r)
    BY <1>6 DEF Merge!ValidRetry
  <2> QED
    BY <1>6, <1>7, <2>1, <2>2, <2>3 DEF Merge!ValidSchedule, Merge!CoversPlan
<1> QED
  BY <1>1, <1>6, <1>8, <1>9, <1>10 DEF Merge!Merges

LEMMA RepetitionsAreOnce ==
    ASSUME NEW reports, NEW agreed, ReportList(reports), Merge!Merges(reports, agreed),
           agreed.repetitions \in Nat, NEW k \in 1 .. agreed.repetitions
    PROVE  Merge!Cardinality({r \in Merge!Originals(reports) : r.repetition = k}) = 1
<1>1. PICK n \in Nat : n = agreed.repetitions
  OBVIOUS
<1>2. PICK S : S = Merge!Originals(reports)
  OBVIOUS
<1>3. IsFiniteSet(S)
  BY <1>2, ReportsAreFinite, FS_Subset DEF Merge!Originals
<1>4. {r.repetition : r \in S} = 1 .. n /\ Cardinality(S) = n
  BY <1>1, <1>2, SameMergeCardinality DEF Merge!Merges, Merge!ValidSchedule, Merge!CoversPlan
<1> DEFINE f == [r \in S |-> r.repetition]
<1>5. f \in Surjection(S, 1 .. n)
  <2>1. f \in [S -> 1 .. n] /\ \A m \in 1 .. n : \E r \in S : f[r] = m
    BY <1>4
  <2> QED
    BY <2>1 DEF Surjection
<1>6. Cardinality(1 .. n) = n
  BY FS_Interval
<1>7. f \in Injection(S, 1 .. n)
  BY <1>3, <1>4, <1>5, <1>6, FS_SurjSameCardinalityImpliesInj
<1>8. \A r, s \in S : r.repetition = s.repetition => r = s
  <2>1. \A r, s \in S : f[r] = f[s] => r = s
    BY <1>7 DEF Injection, IsInjective
  <2> QED
    BY <2>1
<1>9. PICK x \in S : x.repetition = k
  BY <1>1, <1>4
<1>10. {r \in S : r.repetition = k} = {x}
  BY <1>8, <1>9
<1>11. Cardinality({x}) = 1
  BY FS_Singleton
<1> QED
  BY <1>2, <1>10, <1>11, SameMergeCardinality

LEMMA MismatchesAreMisses ==
    ASSUME NEW reports, NEW agreed, ReportList(reports), Merge!Merges(reports, agreed), Merge!Violates(reports)
    PROVE  \/ Merge!Hits(reports) # Merge!Measured(reports)
           \/ \E r \in Merge!Warm(reports) : "mismatch" \in Merge!Range(r.rows)
<1>1. PICK r \in Merge!ToSet(reports) : "mismatch" \in Merge!Range(r.rows)
  BY DEF Merge!Violates
<1>2. CASE r.warm
  <2>1. r.retry = Merge!None
    BY <1>2 DEF Merge!Merges, Merge!ValidMetadata
  <2> QED
    BY <1>1, <1>2, <2>1 DEF Merge!Warm
<1>3. CASE ~ r.warm
  <2>1. PICK q \in DOMAIN r.rows : r.rows[q] = "mismatch"
    BY <1>1 DEF Merge!Range
  <2>2. q \in DOMAIN reports[1].rows
    <3>1. 1 \in DOMAIN reports
      BY ReportsAreFinite DEF Merge!Merges, Merge!ToSet
    <3> QED
      BY <2>1, <3>1 DEF Merge!Merges, Merge!Consistent, Merge!ToSet
  <2> DEFINE m == <<r.attempt, q>>
  <2>3. m \in Merge!Measured(reports)
    BY <1>3, <2>2 DEF Merge!Measured
  <2>4. ASSUME NEW s \in Merge!ToSet(reports), s.attempt = m[1] PROVE s.rows[m[2]] # "ranked"
    <3>1. s = r
      BY <2>4, SameReport DEF Merge!Merges
    <3> QED
      BY <2>1, <3>1
  <2>5. m \notin Merge!Hits(reports)
    BY <2>4 DEF Merge!Hits
  <2> QED
    BY <2>3, <2>5
<1>4. r.warm \in BOOLEAN
  BY DEF ReportList
<1> QED
  BY <1>2, <1>3, <1>4

LEMMA MergesDropNothing ==
    ASSUME NEW reports, NEW agreed, ReportList(reports), agreed.repetitions \in Nat
    PROVE  Merge!MergeDropsNothing(reports, agreed)
<1> SUFFICES ASSUME Merge!Merges(reports, agreed)
             PROVE  /\ \A i \in DOMAIN reports :
                          Merge!Merges(Merge!RemoveAt(reports, i), agreed) => reports[i].retry # Merge!None
                    /\ Merge!Merges(Merge!Reverse(reports), agreed)
                    /\ \A k \in 1 .. agreed.repetitions :
                          Merge!Cardinality({r \in Merge!Originals(reports) : r.repetition = k}) = 1
                    /\ Merge!Violates(reports) => Merge!Hits(reports) # Merge!Measured(reports)
                          \/ \E r \in Merge!Warm(reports) : "mismatch" \in Merge!Range(r.rows)
                    /\ Merge!Compares(reports, reports)
  BY Zenon DEF Merge!MergeDropsNothing
<1>1. Merge!Compares(reports, reports)
  BY DEF Merge!Compares
<1> QED
  BY <1>1, OnlyRetriesMayMiss, OrderDoesNotMatter, RepetitionsAreOnce, MismatchesAreMisses, Zenon

-----------------------------------------------------------------------------
(* The coverage of an extent.  The spans have a first, a second and so on, the
   loop over them is defined, and after each of them what is counted is what
   lies in one of them. *)

Spans == Int \X Int

LEMMA OfTwo ==
    ASSUME NEW a \in Int, NEW b \in Int
    PROVE  /\ Scores!Max({a, b}) = IF a <= b THEN b ELSE a
           /\ Scores!Min({a, b}) = IF a <= b THEN a ELSE b
<1>1. \A x \in {a, b} : (\A y \in {a, b} : x >= y) => x = IF a <= b THEN b ELSE a
  OBVIOUS
<1>2. \E x \in {a, b} : \A y \in {a, b} : x >= y
  OBVIOUS
<1>3. \A x \in {a, b} : (\A y \in {a, b} : x <= y) => x = IF a <= b THEN a ELSE b
  OBVIOUS
<1>4. \E x \in {a, b} : \A y \in {a, b} : x <= y
  OBVIOUS
<1>5. Scores!Max({a, b}) \in {a, b} /\ \A y \in {a, b} : Scores!Max({a, b}) >= y
  BY <1>2, Zenon DEF Scores!Max
<1>6. Scores!Min({a, b}) \in {a, b} /\ \A y \in {a, b} : Scores!Min({a, b}) <= y
  BY <1>4, Zenon DEF Scores!Min
<1> QED
  BY <1>1, <1>3, <1>5, <1>6

LEMMA SpansAreRanked ==
    ASSUME NEW S \in SUBSET Spans, IsFiniteSet(S)
    PROVE  \E n \in Nat :
              /\ Scores!InOrder(S) \in Seq(Spans) /\ Len(Scores!InOrder(S)) = n
              /\ {Scores!InOrder(S)[i] : i \in 1 .. n} = S
              /\ \A i, j \in 1 .. n : i <= j => Scores!InOrder(S)[i][1] <= Scores!InOrder(S)[j][1]
<1> DEFINE below(a) == {b \in S : Scores!Before(b, a)}
           rank(a) == Cardinality(below(a))
           at(i) == CHOOSE a \in S : Scores!Cardinality({b \in S : Scores!Before(b, a)}) = i
<1>1. PICK n \in Nat : n = Cardinality(S)
  BY FS_CardinalityType
<1>2. \A a \in S : a[1] \in Int /\ a[2] \in Int /\ a = <<a[1], a[2]>>
  BY DEF Spans
<1>3. \A a \in S : rank(a) \in 1 .. n
  <2> TAKE a \in S
  <2>1. a \in below(a)
    BY <1>2 DEF Scores!Before
  <2>2. IsFiniteSet(below(a)) /\ rank(a) \in Nat /\ rank(a) <= n
    BY <1>1, FS_Subset, FS_CardinalityType
  <2>3. rank(a) # 0
    BY <2>1, <2>2, FS_EmptySet
  <2> HIDE DEF rank
  <2> QED
    BY <2>2, <2>3
<1>4. \A a, b \in S : Scores!Before(a, b) /\ a # b => rank(a) < rank(b)
  <2> SUFFICES ASSUME NEW a \in S, NEW b \in S, Scores!Before(a, b), a # b PROVE rank(a) < rank(b)
    OBVIOUS
  <2>1. \A c \in S : Scores!Before(c, a) => Scores!Before(c, b)
    BY <1>2 DEF Scores!Before
  <2>2. Scores!Before(b, b) /\ ~ Scores!Before(b, a)
    BY <1>2 DEF Scores!Before
  <2>3. below(a) \subseteq below(b) /\ b \in below(b) /\ b \notin below(a)
    BY <2>1, <2>2, Zenon
  <2>4. IsFiniteSet(below(a)) /\ IsFiniteSet(below(b)) /\ rank(a) \in Nat /\ rank(b) \in Nat
    BY FS_Subset, FS_CardinalityType
  <2>5. Cardinality(below(a) \cup {b}) = rank(a) + 1
    BY <2>3, <2>4, FS_AddElement
  <2>6. Cardinality(below(a) \cup {b}) <= rank(b)
    BY <2>3, <2>4, FS_Subset
  <2> HIDE DEF rank, below
  <2> QED
    BY <2>4, <2>5, <2>6
<1>5. \A a, b \in S : Scores!Before(a, b) \/ Scores!Before(b, a)
  BY <1>2 DEF Scores!Before
<1>6. \A a \in S : Scores!Cardinality({b \in S : Scores!Before(b, a)}) = rank(a)
  BY SameCardinality
<1> HIDE DEF rank
<1> DEFINE f == [a \in S |-> rank(a)]
<1>7. f \in Surjection(S, 1 .. n)
  <2>1. \A a, b \in S : f[a] = f[b] => a = b
    BY <1>3, <1>4, <1>5
  <2>2. f \in [S -> 1 .. n]
    BY <1>3
  <2>3. f \in Injection(S, 1 .. n)
    BY <2>1, <2>2 DEF Injection, IsInjective
  <2>4. IsFiniteSet(1 .. n) /\ Cardinality(1 .. n) = n
    BY FS_Interval
  <2> HIDE DEF f
  <2> QED
    BY <1>1, <2>3, <2>4, FS_Injection
<1>8. \A i \in 1 .. n : \E a \in S : rank(a) = i
  BY <1>7 DEF Surjection
<1>9. \A i \in 1 .. n : at(i) \in S /\ rank(at(i)) = i
  BY <1>6, <1>8
<1>10. Scores!InOrder(S) = [i \in 1 .. n |-> at(i)]
  BY <1>1, SameCardinality DEF Scores!InOrder
<1> HIDE DEF at
<1>11. \A a \in S : \E i \in 1 .. n : at(i) = a
  <2> TAKE a \in S
  <2>1. PICK b \in S : b = at(rank(a)) /\ rank(b) = rank(a)
    BY <1>3, <1>9
  <2>2. a = b
    BY <1>3, <1>4, <1>5, <2>1
  <2> QED
    BY <1>3, <2>1, <2>2
<1>12. \A i, j \in 1 .. n : i <= j => at(i)[1] <= at(j)[1]
  <2> TAKE i, j \in 1 .. n
  <2> HAVE i <= j
  <2>1. PICK a \in S : a = at(i) /\ rank(a) = i
    BY <1>9
  <2>2. PICK b \in S : b = at(j) /\ rank(b) = j
    BY <1>9
  <2>3. Scores!Before(a, b)
    <3>1. ~ rank(b) < rank(a)
      BY <2>1, <2>2
    <3>2. a = b => Scores!Before(a, b)
      BY <1>5
    <3> QED
      BY <1>4, <1>5, <3>1, <3>2
  <2> QED
    BY <1>2, <2>1, <2>2, <2>3 DEF Scores!Before
<1>13. Scores!InOrder(S) \in Seq(Spans) /\ Len(Scores!InOrder(S)) = n
  BY <1>9, <1>10
<1> QED
  BY <1>9, <1>10, <1>11, <1>12, <1>13

SweepsAs(state, list, from, n) ==
    state = [i \in 0 .. n |-> IF i = 0 THEN [covered |-> 0, reached |-> from]
                              ELSE Scores!Sweep(state[i - 1], list[i])]

LEMMA SweepEnds ==
    ASSUME NEW list, NEW from, NEW n \in Nat
    PROVE  \E state : SweepsAs(state, list, from, n)
<1> DEFINE S == {m \in Nat : ~ \E state : SweepsAs(state, list, from, m)}
<1> SUFFICES ASSUME n \in S PROVE FALSE
  OBVIOUS
<1>1. PICK m \in S : \A k \in S : m <= k
  <2>1. S \in SUBSET Nat
    OBVIOUS
  <2> HIDE DEF S
  <2> QED
    BY <2>1, LeastExists
<1>2. CASE m = 0
  <2>1. SweepsAs([i \in 0 .. 0 |-> [covered |-> 0, reached |-> from]], list, from, 0)
    BY DEF SweepsAs
  <2> QED
    BY <1>1, <1>2, <2>1
<1>3. CASE m # 0
  <2>1. m - 1 \in Nat /\ ~ m <= m - 1 /\ m \in Nat
    BY <1>1, <1>3
  <2>2. PICK g : SweepsAs(g, list, from, m - 1)
    BY <1>1, <2>1
  <2> DEFINE f == [i \in 0 .. m |-> IF i < m THEN g[i] ELSE Scores!Sweep(g[m - 1], list[m])]
  <2>3. \A i \in 0 .. m : f[i] = IF i = 0 THEN [covered |-> 0, reached |-> from]
                                 ELSE Scores!Sweep(f[i - 1], list[i])
    <3> TAKE i \in 0 .. m
    <3>1. CASE i = m
      <4>1. f[i] = Scores!Sweep(g[m - 1], list[m]) /\ f[i - 1] = g[m - 1]
        BY <2>1, <3>1
      <4> HIDE DEF f
      <4> QED
        BY <1>3, <3>1, <4>1
    <3>2. CASE i # m /\ i = 0
      <4>1. f[i] = g[0] /\ 0 \in 0 .. (m - 1)
        BY <2>1, <3>2
      <4> HIDE DEF f
      <4> QED
        BY <2>2, <3>2, <4>1 DEF SweepsAs
    <3>3. CASE i # m /\ i # 0
      <4>1. f[i] = g[i] /\ f[i - 1] = g[i - 1] /\ i \in 0 .. (m - 1)
        BY <2>1, <3>3
      <4> HIDE DEF f
      <4>2. g[i] = Scores!Sweep(g[i - 1], list[i])
        BY <2>2, <3>3, <4>1 DEF SweepsAs
      <4> QED
        BY <3>3, <4>1, <4>2
    <3> QED
      BY <3>1, <3>2, <3>3
  <2>4. f = [i \in 0 .. m |-> f[i]]
    OBVIOUS
  <2> HIDE DEF f
  <2>5. SweepsAs(f, list, from, m)
    BY <2>3, <2>4 DEF SweepsAs
  <2> QED
    BY <1>1, <2>5
<1> QED
  BY <1>2, <1>3



LEMMA SweptIs ==
    ASSUME NEW list, NEW from, NEW n \in Nat, Len(list) = n
    PROVE  \E state : SweepsAs(state, list, from, n) /\ Scores!Swept(list, from) = state[n]
<1> DEFINE ends == CHOOSE state : SweepsAs(state, list, from, n)
<1>1. SweepsAs(ends, list, from, n)
  BY SweepEnds
<1>2. Scores!Swept(list, from) = ends[n]
  BY Zenon DEF Scores!Swept, SweepsAs
<1> QED
  BY <1>1, <1>2, Zenon

(* What lies in one of the first i spans, and what the loop knows after them:
   the number of these points, and how far the spans reach. *)
HeldBy(list, i, extent) ==
    {p \in extent[1] .. extent[2] - 1 : \E j \in 1 .. i : list[j][1] <= p /\ p < list[j][2]}

CountsThem(state, list, i, extent) ==
    /\ state.covered = Cardinality(HeldBy(list, i, extent))
    /\ state.reached \in Int /\ extent[1] <= state.reached
    /\ \A j \in 1 .. i : list[j][2] <= state.reached
    /\ state.reached # extent[1] => \E j \in 1 .. i : list[j][2] = state.reached

LEMMA IntervalCounts ==
    ASSUME NEW a \in Int, NEW b \in Int
    PROVE  /\ IsFiniteSet(a .. b - 1)
           /\ Cardinality(a .. b - 1) = IF a <= b THEN b - a ELSE 0
<1>1. PICK c \in Int : c = b - 1
  OBVIOUS
<1>2. IsFiniteSet(a .. c) /\ Cardinality(a .. c) = IF a > c THEN 0 ELSE c - a + 1
  BY FS_Interval, Zenon
<1>3. IsFiniteSet(a .. b - 1) /\ Cardinality(a .. b - 1) = IF a > c THEN 0 ELSE c - a + 1
  BY <1>1, <1>2, Zenon
<1> DEFINE size == Cardinality(a .. b - 1)
<1>4. size = IF a > c THEN 0 ELSE c - a + 1
  BY <1>3
<1> HIDE DEF size
<1>5. size = IF a <= b THEN b - a ELSE 0
  BY <1>1, <1>4
<1> USE DEF size
<1> QED
  BY <1>3, <1>5

LEMMA OneMoreSpan ==
    ASSUME NEW extent \in Spans, NEW n \in Nat, NEW list \in Seq(Spans), Len(list) = n,
           \A i, j \in 1 .. n : i <= j => list[i][1] <= list[j][1],
           \A i \in 1 .. n : extent[1] <= list[i][1] /\ list[i][2] <= extent[2],
           NEW i \in 1 .. n, NEW state, CountsThem(state, list, i - 1, extent)
    PROVE  CountsThem(Scores!Sweep(state, list[i]), list, i, extent)
<1> DEFINE s1 == list[i][1]
           s2 == list[i][2]
           old == HeldBy(list, i - 1, extent)
           from == IF s1 <= state.reached THEN state.reached ELSE s1
           more == IF from <= s2 THEN s2 - from ELSE 0
           to == IF state.reached <= s2 THEN s2 ELSE state.reached
<1>1. /\ \A j \in 1 .. n : list[j][1] \in Int /\ list[j][2] \in Int
      /\ extent[1] \in Int /\ extent[2] \in Int /\ s1 \in Int /\ s2 \in Int
  BY SMTT(30) DEF Spans
<1>2. state.reached \in Int /\ from \in Int /\ to \in Int
  BY <1>1 DEF CountsThem
<1>3. Scores!Sweep(state, list[i]) = [covered |-> state.covered + more, reached |-> to]
  <2>1. Scores!Max({s1, state.reached}) = from /\ Scores!Max({state.reached, s2}) = to
    BY <1>1, <1>2, OfTwo
  <2>2. s2 - from \in Int /\ 0 \in Int
    BY SMTT(30), <1>1, <1>2
  <2>3. Scores!Max({0, s2 - from}) = IF 0 <= s2 - from THEN s2 - from ELSE 0
    BY <2>2, OfTwo
  <2>4. Scores!Max({0, s2 - from}) = more
    BY <1>1, <1>2, <2>3
  <2> HIDE DEF from, more, to
  <2> QED
    BY <2>1, <2>4 DEF Scores!Sweep
<1>4. HeldBy(list, i, extent) = old \cup (from .. s2 - 1)
  <2>1. ASSUME NEW p \in HeldBy(list, i, extent) PROVE p \in old \cup (from .. s2 - 1)
    <3>1. p \in extent[1] .. extent[2] - 1 /\ p \in Int
      BY <1>1 DEF HeldBy
    <3>2. PICK j \in 1 .. i : list[j][1] <= p /\ p < list[j][2]
      BY DEF HeldBy
    <3>3. CASE j # i
      BY <3>1, <3>2, <3>3 DEF HeldBy
    <3>4. CASE j = i /\ state.reached <= p
      BY <1>1, <1>2, <3>1, <3>2, <3>4
    <3>5. CASE j = i /\ p < state.reached
      <4>1. s1 <= p /\ extent[1] < state.reached
        BY <1>1, <1>2, <3>1, <3>2, <3>5
      <4>2. PICK k \in 1 .. (i - 1) : list[k][2] = state.reached
        BY <1>1, <1>2, <4>1 DEF CountsThem
      <4>3. list[k][1] <= s1 /\ list[k][1] \in Int
        BY <1>1, <4>2
      <4>4. list[k][1] <= p /\ p < list[k][2]
        BY <1>1, <3>1, <3>5, <4>1, <4>2, <4>3
      <4> QED
        BY <3>1, <4>2, <4>4 DEF HeldBy
    <3> QED
      BY <1>2, <3>1, <3>3, <3>4, <3>5
  <2>2. ASSUME NEW p \in old PROVE p \in HeldBy(list, i, extent)
    BY DEF HeldBy
  <2>3. ASSUME NEW p \in from .. s2 - 1 PROVE p \in HeldBy(list, i, extent)
    <3>1. p \in Int /\ s1 <= p /\ p < s2
      BY <1>1, <1>2, <2>3
    <3>2. p \in extent[1] .. extent[2] - 1
      BY <1>1, <3>1
    <3> QED
      BY <3>1, <3>2 DEF HeldBy
  <2> HIDE DEF old, from, s2
  <2> QED
    BY <2>1, <2>2, <2>3
<1>5. old \cap (from .. s2 - 1) = {}
  <2> SUFFICES ASSUME NEW p \in old, p \in from .. s2 - 1 PROVE FALSE
    OBVIOUS
  <2>1. p \in Int /\ state.reached <= p
    BY <1>1, <1>2
  <2>2. PICK j \in 1 .. (i - 1) : p < list[j][2]
    BY DEF HeldBy
  <2>3. list[j][2] <= state.reached /\ list[j][2] \in Int
    BY <1>1, <2>2 DEF CountsThem
  <2> QED
    BY <1>2, <2>1, <2>2, <2>3
<1>6. IsFiniteSet(old) /\ IsFiniteSet(from .. s2 - 1) /\ Cardinality(from .. s2 - 1) = more
  <2>1. IsFiniteSet(extent[1] .. extent[2] - 1) /\ old \subseteq extent[1] .. extent[2] - 1
    BY <1>1, IntervalCounts DEF HeldBy
  <2>2. IsFiniteSet(old)
    BY <2>1, FS_Subset
  <2>3. s2 \in Int
    BY <1>1
  <2> HIDE DEF from, s2, old
  <2> QED
    BY <1>2, <2>2, <2>3, IntervalCounts DEF more
<1>7. Cardinality(HeldBy(list, i, extent)) = Cardinality(old) + more
  <2> DEFINE next == from .. s2 - 1
  <2>1. Cardinality({}) = 0 /\ Cardinality(old) \in Nat /\ more \in Nat
    BY <1>6, FS_EmptySet, FS_CardinalityType
  <2>2. HeldBy(list, i, extent) = old \cup next /\ old \cap next = {} /\ Cardinality(next) = more
    BY <1>4, <1>5, <1>6
  <2>3. IsFiniteSet(old) /\ IsFiniteSet(next)
    BY <1>6
  <2> HIDE DEF next, old, more
  <2>4. Cardinality(old \cup next) = Cardinality(old) + Cardinality(next) - Cardinality(old \cap next)
    BY <2>3, FS_Union
  <2>5. Cardinality(HeldBy(list, i, extent)) = Cardinality(old) + more - 0
    BY <2>1, <2>2, <2>4, Zenon
  <2> QED
    BY <2>1, <2>5
<1>8. state.covered = Cardinality(old)
  BY DEF CountsThem
<1>9. \A j \in 1 .. i : list[j][2] <= to
  <2> TAKE j \in 1 .. i
  <2>1. list[j][2] \in Int /\ (j # i => list[j][2] <= state.reached)
    BY <1>1 DEF CountsThem
  <2> QED
    BY <1>1, <1>2, <2>1
<1>10. extent[1] <= to
  BY SMTT(30), <1>1, <1>2 DEF CountsThem
<1>11. to # extent[1] => \E j \in 1 .. i : list[j][2] = to
  <2>1. CASE to = s2
    BY <2>1
  <2>2. CASE to = state.reached
    BY <2>2 DEF CountsThem
  <2> QED
    BY <2>1, <2>2
<1> HIDE DEF to, more, old
<1> QED
  BY <1>2, <1>3, <1>7, <1>8, <1>9, <1>10, <1>11 DEF CountsThem


LEMMA SpansAreCounted ==
    ASSUME NEW extent \in Spans, NEW n \in Nat, NEW list \in Seq(Spans), Len(list) = n,
           \A i, j \in 1 .. n : i <= j => list[i][1] <= list[j][1],
           \A i \in 1 .. n : extent[1] <= list[i][1] /\ list[i][2] <= extent[2],
           NEW state, SweepsAs(state, list, extent[1], n),
           NEW i \in 0 .. n
    PROVE  CountsThem(state[i], list, i, extent)
<1> DEFINE S == {m \in 0 .. n : ~ CountsThem(state[m], list, m, extent)}
<1> SUFFICES ASSUME i \in S PROVE FALSE
  OBVIOUS
<1>1. PICK m \in S : \A k \in S : m <= k
  <2>1. S \in SUBSET Nat
    OBVIOUS
  <2> HIDE DEF S
  <2> QED
    BY <2>1, LeastExists
<1>2. CASE m = 0
  <2>1. state[0] = [covered |-> 0, reached |-> extent[1]]
    BY DEF SweepsAs
  <2>2. HeldBy(list, 0, extent) = {} /\ extent[1] \in Int
    BY DEF HeldBy, Spans
  <2>3. state[0].covered = 0 /\ Cardinality(HeldBy(list, 0, extent)) = 0
    <3>1. state[0].covered = 0
      BY <2>1
    <3> QED
      BY <2>2, <3>1, FS_EmptySet, Zenon
  <2>4. CountsThem(state[0], list, 0, extent)
    BY <2>1, <2>2, <2>3 DEF CountsThem
  <2> QED
    BY <1>1, <1>2, <2>4
<1>3. CASE m # 0
  <2>1. m - 1 \in 0 .. n /\ m \in 1 .. n /\ ~ m <= m - 1
    BY <1>1, <1>3
  <2>2. CountsThem(state[m - 1], list, m - 1, extent)
    BY <1>1, <2>1
  <2>3. state[m] = Scores!Sweep(state[m - 1], list[m])
    BY <1>3, <2>1 DEF SweepsAs
  <2>4. CountsThem(state[m], list, m, extent)
    BY <2>1, <2>2, <2>3, OneMoreSpan
  <2> QED
    BY <1>1, <2>4
<1> QED
  BY <1>2, <1>3

LEMMA ClippedSpans ==
    ASSUME NEW extent \in Spans, NEW anchors \in SUBSET Spans, IsFiniteSet(anchors)
    PROVE  /\ Scores!Clipped(extent, anchors) \in SUBSET Spans
           /\ IsFiniteSet(Scores!Clipped(extent, anchors))
           /\ \A s \in Scores!Clipped(extent, anchors) : extent[1] <= s[1] /\ s[2] <= extent[2]
           /\ \A p \in extent[1] .. extent[2] - 1 :
                 (\E s \in Scores!Clipped(extent, anchors) : s[1] <= p /\ p < s[2])
                   <=> \E a \in anchors : a[1] <= p /\ p < a[2]
<1> DEFINE clip(a) == <<Scores!Max({a[1], extent[1]}), Scores!Min({a[2], extent[2]})>>
<1>1. /\ extent[1] \in Int /\ extent[2] \in Int
      /\ \A a \in anchors : a[1] \in Int /\ a[2] \in Int
  BY DEF Spans
<1>2. Scores!Clipped(extent, anchors) = {clip(a) : a \in anchors}
  BY DEF Scores!Clipped
<1>3. IsFiniteSet({clip(a) : a \in anchors})
  <2> DEFINE f == [a \in anchors |-> clip(a)]
             T == {clip(a) : a \in anchors}
  <2>1. f \in Surjection(anchors, T)
    <3> HIDE DEF clip
    <3> QED
      BY DEF Surjection
  <2> HIDE DEF f, T
  <2>2. IsFiniteSet(T)
    BY <2>1, FS_Surjection
  <2> QED
    BY <2>2 DEF T
<1>4. \A a \in anchors : /\ clip(a)[1] = IF a[1] <= extent[1] THEN extent[1] ELSE a[1]
                         /\ clip(a)[2] = IF a[2] <= extent[2] THEN a[2] ELSE extent[2]
                         /\ clip(a) = <<clip(a)[1], clip(a)[2]>>
  BY <1>1, OfTwo
<1> HIDE DEF clip
<1>5. \A a \in anchors : clip(a)[1] \in Int /\ clip(a)[2] \in Int
  BY <1>1, <1>4
<1>6. \A a \in anchors : clip(a) \in Spans
  BY <1>4, <1>5 DEF Spans
<1>7. \A a \in anchors : extent[1] <= clip(a)[1] /\ clip(a)[2] <= extent[2]
  BY <1>1, <1>4
<1>8. \A a \in anchors : \A p \in extent[1] .. extent[2] - 1 :
         clip(a)[1] <= p /\ p < clip(a)[2] <=> a[1] <= p /\ p < a[2]
  BY <1>1, <1>4
<1> QED
  BY <1>2, <1>3, <1>6, <1>7, <1>8

LEMMA CoveragesAreUnions ==
    ASSUME NEW extent \in Spans, NEW anchors \in SUBSET Spans, IsFiniteSet(anchors)
    PROVE  Scores!CoverageIsTheUnion(extent, anchors)
<1> DEFINE list == Scores!InOrder(Scores!Clipped(extent, anchors))
           within == {p \in extent[1] .. extent[2] - 1 : \E a \in anchors : a[1] <= p /\ p < a[2]}
<1>1. PICK n \in Nat :
         /\ list \in Seq(Spans) /\ Len(list) = n
         /\ {list[i] : i \in 1 .. n} = Scores!Clipped(extent, anchors)
         /\ \A i, j \in 1 .. n : i <= j => list[i][1] <= list[j][1]
  BY ClippedSpans, SpansAreRanked
<1>2. \A i \in 1 .. n : extent[1] <= list[i][1] /\ list[i][2] <= extent[2]
  <2> TAKE i \in 1 .. n
  <2>1. list[i] \in Scores!Clipped(extent, anchors)
    BY <1>1, Zenon
  <2> QED
    BY <2>1, ClippedSpans
<1> HIDE DEF list
<1>3. PICK state : SweepsAs(state, list, extent[1], n) /\ Scores!Swept(list, extent[1]) = state[n]
  BY <1>1, SweptIs
<1>4. CountsThem(state[n], list, n, extent)
  BY <1>1, <1>2, <1>3, SpansAreCounted
<1>5. HeldBy(list, n, extent) = within
  <2>1. \A p \in extent[1] .. extent[2] - 1 :
           (\E j \in 1 .. n : list[j][1] <= p /\ p < list[j][2])
             <=> \E s \in Scores!Clipped(extent, anchors) : s[1] <= p /\ p < s[2]
    <3> TAKE p \in extent[1] .. extent[2] - 1
    <3>1. \A j \in 1 .. n : list[j] \in Scores!Clipped(extent, anchors)
      BY <1>1, Zenon
    <3>2. \A s \in Scores!Clipped(extent, anchors) : \E j \in 1 .. n : list[j] = s
      BY <1>1, Zenon
    <3> QED
      BY <3>1, <3>2, Zenon
  <2> QED
    BY <2>1, ClippedSpans, Zenon DEF HeldBy
<1>6. Scores!Swept(list, extent[1]).covered = Scores!Cardinality(within)
  BY <1>3, <1>4, <1>5, SameCardinality DEF CountsThem
<1>7. Scores!Coverage(extent, anchors)
        = (Scores!Swept(list, extent[1]).covered * 1000) \div (extent[2] - extent[1])
  BY Zenon DEF Scores!Coverage, list
<1> HIDE DEF within
<1>8. Scores!Coverage(extent, anchors) = (Scores!Cardinality(within) * 1000) \div (extent[2] - extent[1])
  BY <1>6, <1>7
<1> QED
  BY <1>8 DEF within, Scores!CoverageIsTheUnion


(* Of the reports of an accepted merge, however many and in whatever order,
   only a retry could be missing and the rest still be accepted; each planned
   repetition has one original; and a mismatch of a measured attempt is a miss
   (merge_v2_attempts, validate_merged_schedule). And what a delivery covers of
   an extent is the share that lies in some anchor, however many there are and
   however they overlap, nest, touch or reach past it (coverage_permille). *)
THEOREM MeasuresAddUpHolds == SearchSpec => []MeasuresAddUp
<1> DEFINE Inv == part \in {"attempts", "coverage"} => input \in InputsOf(part)
<1>1. SearchInit => Inv
  BY DEF SearchInit, StartAs
<1>2. Inv /\ [SearchNext]_<<partVars, searchPartsVars>> => Inv'
  <2>1. ASSUME Inv, SearchNext PROVE Inv'
    BY <2>1 DEF SearchNext, SearchOthersIdle, EvidenceStep, SourcesStep, RepStep, AnsweringStep,
         LadderStep, ChunkJoin, ChunkBreakIdea, ChunkStart, ChunkRefineAtom,
         ChunkSplitAtom, ChunkFinishDrafts, ChunkReplay, EditGraphs
  <2> QED
    BY <2>1 DEF partVars
<1>3. Inv => MeasuresAddUp
  <2>1. ASSUME input \in InputsOf("attempts")
        PROVE  Merge!MergeDropsNothing(input.reports, input.plan)
    <3>1. ReportList(input.reports) /\ input.plan.repetitions \in Nat
      BY <2>1, ReportsAreTyped DEF ReportList, Merge!ToSet, Range
    <3> QED
      BY <3>1, MergesDropNothing
  <2>2. ASSUME input \in InputsOf("coverage")
        PROVE  Scores!CoverageIsTheUnion(input.extent, input.anchors)
    <3>1. /\ input.extent \in Spans
          /\ input.anchors \in SUBSET Spans /\ IsFiniteSet(input.anchors)
      BY <2>2, OffsetsAreNumbers DEF Spans
    <3> QED
      BY <3>1, CoveragesAreUnions
  <2> QED
    BY <2>1, <2>2 DEF MeasuresAddUp
<1> QED
  BY <1>1, <1>2, <1>3, PTL DEF SearchSpec

-----------------------------------------------------------------------------
(* Whatever order a rerank gave and whatever the policies' settings: they drop
   and repeat no chunk, keep the bound, and put no chunk without a penalty
   behind one that has it; and whatever a tokenizer counts, the windows of
   a text are the text (rank_policy.rs; rerank.rs, split_text). *)
THEOREM RankingHoldsHolds == SearchSpec => []RankingHolds
<1> DEFINE Inv == part \in {"ranking", "windows"} => input \in InputsOf(part)
<1>1. SearchInit => Inv
  BY DEF SearchInit, StartAs
<1>2. Inv /\ [SearchNext]_<<partVars, searchPartsVars>> => Inv'
  <2>1. ASSUME Inv, SearchNext PROVE Inv'
    BY <2>1 DEF SearchNext, SearchOthersIdle, EvidenceStep, SourcesStep, RepStep, AnsweringStep,
         LadderStep, ChunkJoin, ChunkBreakIdea, ChunkStart, ChunkRefineAtom,
         ChunkSplitAtom, ChunkFinishDrafts, ChunkReplay, EditGraphs
  <2> QED
    BY <2>1 DEF partVars
<1>3. Inv => RankingHolds
  <2>1. ASSUME NEW r \in InputsOf("ranking")
        PROVE  PoliciesHold(r.ranked, r.fused, r)
    <3> DEFINE S == Range(r.fused)
    <3>1. ASSUME NEW list, list \in Seq(S), Range(list) = S, IsInjective(list)
          PROVE  Lists(list, S)
      <4>1. DOMAIN list = 1 .. Len(list)
        BY <3>1
      <4> QED
        BY <3>1, <4>1 DEF Lists, Range, IsInjective
    <3>2. /\ r.ranked \in Seq(S) /\ Range(r.ranked) = S /\ IsInjective(r.ranked)
          /\ r.fused \in Seq(S) /\ IsInjective(r.fused) /\ PolicyIsValid(r)
      BY PoliciesAreValid
    <3> HIDE DEF S
    <3>3. Lists(r.ranked, S)
      BY <3>1, <3>2
    <3>4. Lists(r.fused, S)
      BY <3>1, <3>2 DEF S
    <3> QED
      BY <3>2, <3>3, <3>4, PoliciesHoldAlways
  <2>2. ASSUME part = "windows", input \in InputsOf("windows") PROVE RankingHolds
    <3>1. input.length \in Nat
      BY <2>2, TextsHaveLengths
    <3>2. \A count : SplitIsWhole(input.length, input.blank, input.budget, count)
      BY <3>1, SplitIsWholeAlways
    <3> QED
      BY <2>2, <3>2 DEF RankingHolds
  <2>3. ASSUME part = "ranking", input \in InputsOf("ranking") PROVE RankingHolds
    BY <2>1, <2>3 DEF RankingHolds
  <2> QED
    BY <2>2, <2>3 DEF RankingHolds
<1> QED
  BY <1>1, <1>2, <1>3, PTL DEF SearchSpec

=============================================================================
