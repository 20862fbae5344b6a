------------------------------- MODULE Ladder -------------------------------
(***************************************************************************)
(* The evaluation ladder (maestro cli/eval, maestro-knowledge eval): every *)
(* rung of a manifest is checked, then each in turn searches and asks      *)
(* every question of the suite against the collection as it is, which      *)
(* others publish and register cards in meanwhile, and is scored.          *)
(*                                                                         *)
(* A search's result is told by where it ranks an expected document        *)
(* ("first", "top10" or "other"), an answer by whether it cites an         *)
(* expected section; an elapsed time is "fast" within the floor's limit or *)
(* "slow".                                                                 *)
(***************************************************************************)
EXTENDS Integers, Sequences, FiniteSets, FiniteSetsExt, SequencesExt

CONSTANTS
    Suite,          \* question -> whether a section answers it
    Ladders,        \* the manifests: sequences of rungs
    WarmUps,
    Embedders,      \* generation -> the embedder card it names, if registered
    Outcomes,       \* [search, asked]: what a question may give
    MaxCards        \* answerer cards that may be registered

VARIABLES
    manifest,       \* the rungs to run
    published,      \* the published generation
    answerers,      \* how many answerer cards were registered so far
    ladderStage,    \* "checking", "starting", "running", "done", "refused" or "failed"
    checked,        \* rungs whose cards were checked
    held,           \* what the running rung holds
    warm,           \* warm-ups it ran
    rows,           \* its rows
    rungs           \* the rungs that were recorded

ladderVars == <<manifest, published, answerers, ladderStage, checked, held, warm, rows, rungs>>

None == {}
Order == SetToSeq(DOMAIN Suite)

-----------------------------------------------------------------------------
(* Scores. *)

(* index: the row of a question, and the rows that are refused: those the
   suite does not know, and the second of a question. *)
RowOf(rs, q) ==
    LET own == {i \in DOMAIN rs : rs[i].id = q} IN IF own = {} THEN None ELSE {rs[Min(own)]}

Rejected(rs) ==
    {i \in DOMAIN rs : rs[i].id \notin DOMAIN Suite \/ \E j \in 1 .. i - 1 : rs[j].id = rs[i].id}

CeilDiv(a, b) == (a + b - 1) \div b

Answerable == {q \in DOMAIN Suite : Suite[q]}
Having(qs, rs, good) == {q \in qs : RowOf(rs, q) \cap good # {}}

(* share *)
Share(met, of, percent) ==
    IF of = {} THEN "unavailable"
    ELSE IF Cardinality(met) >= CeilDiv(percent * Cardinality(of), 100) THEN "pass" ELSE "fail"

(* latency: the nearest-rank p95 over every question; a timeout and a missing
   row rank above every time. *)
Latency(rs, fast) ==
    LET n == Cardinality(DOMAIN Suite)
    IN  IF Cardinality(Having(DOMAIN Suite, rs, fast)) >= CeilDiv(950 * n, 1000)
        THEN "pass" ELSE "fail"

Answered(rs) == Having(DOMAIN Suite, rs, {r \in ToSet(rs) : r.ask \in {"right", "wrong"}})
CitesRight(rs) == Having(Answerable, rs, {r \in ToSet(rs) : r.ask = "right"})

FloorNames == {"top_10", "top_1", "refused", "citation", "answered", "literals", "search_p95", "ask_p95"}

(* score_floors *)
Floors(rs) ==
    LET unanswerable == DOMAIN Suite \ Answerable
        literal == {r \in UNION {RowOf(rs, q) : q \in Answered(rs)} : r.invented} IN
    IF Rejected(rs) # {} THEN [f \in FloorNames |-> "unavailable"]
    ELSE [top_10 |-> Share(Having(Answerable, rs, {r \in ToSet(rs) : r.search \in {"first", "top10"}}), Answerable, 90),
          top_1 |-> Share(Having(Answerable, rs, {r \in ToSet(rs) : r.search = "first"}), Answerable, 70),
          refused |-> Share(Having(unanswerable, rs, {r \in ToSet(rs) : r.ask = "refused"}), unanswerable, 90),
          citation |-> Share(CitesRight(rs), Answered(rs), 90),
          answered |-> Share(CitesRight(rs), Answerable, 80),
          literals |-> IF literal = {} THEN "pass" ELSE "fail",
          search_p95 |-> Latency(rs, {r \in ToSet(rs) : r.search # "timed_out" /\ r.searchTime = "fast"}),
          ask_p95 |-> Latency(rs, {r \in ToSet(rs) : r.ask # "timed_out" /\ r.askTime = "fast"})]

(* without_asks: the floors ask measures did not run. *)
WithoutAsks(floors) ==
    [f \in FloorNames |-> IF f \in {"refused", "citation", "answered", "literals", "ask_p95"}
                          THEN "unavailable" ELSE floors[f]]

Passed(floors) == \A f \in FloorNames : floors[f] = "pass"

(* coverage_permille's loop over the spans, in order. *)
Sweep(state, s) ==
    LET from == Max({s[1], state.reached})
    IN  [covered |-> state.covered + Max({0, s[2] - from}), reached |-> Max({state.reached, s[2]})]

(* The spans in order. *)
Before(a, b) == a[1] < b[1] \/ (a[1] = b[1] /\ a[2] <= b[2])

InOrder(spans) ==
    [i \in 1 .. Cardinality(spans) |->
        CHOOSE a \in spans : Cardinality({b \in spans : Before(b, a)}) = i]

Swept(list, from) ==
    LET state[i \in 0 .. Len(list)] ==
            IF i = 0 THEN [covered |-> 0, reached |-> from] ELSE Sweep(state[i - 1], list[i])
    IN  state[Len(list)]

Clipped(extent, anchors) == {<<Max({a[1], extent[1]}), Min({a[2], extent[2]})>> : a \in anchors}

(* coverage_permille: what the anchors cover of an extent, in thousandths; the
   spans are clipped to it, sorted and swept. *)
Coverage(extent, anchors) ==
    (Swept(InOrder(Clipped(extent, anchors)), extent[1]).covered * 1000) \div (extent[2] - extent[1])

(* score_delivery: a row is credited when its search ranked and its ask, if
   any, answered or refused. *)
Credited(r, asked) ==
    /\ r.search \in {"first", "top10", "other"}
    /\ asked => r.ask \in {"right", "wrong", "refused", "unavailable"}

Delivery(rs, asked) ==
    [delivered |-> Having(Answerable, rs, {r \in ToSet(rs) : Credited(r, asked) /\ r.delivered # "none"}),
     full |-> Having(Answerable, rs, {r \in ToSet(rs) : Credited(r, asked) /\ r.delivered = "whole"}),
     uncredited |-> Answerable \ Having(Answerable, rs, {r \in ToSet(rs) : Credited(r, asked)})]

-----------------------------------------------------------------------------
(* The manifest and the machine. *)

(* Manifest::check, check_rung, check_intent *)
ValidRung(rung) ==
    /\ rung.routes # {}
    /\ rung.depth <= rung.pool
    /\ rung.asks => ~ rung.searchOnly
    /\ rung.intent = "hyde" => rung.intentCard

ValidManifest(ladder) ==
    /\ ladder # << >> /\ \A i \in DOMAIN ladder : ValidRung(ladder[i])
    /\ \A i, j \in DOMAIN ladder : ladder[i].name = ladder[j].name => i = j

(* KernelEngine::cards: what a rung would run against now.  The reranker and
   the intent card are named by digest; the answerer is the last registered,
   unless the rung names one. *)
Provenance(rung) ==
    [generation |-> published, embedder |-> Embedders[published],
     answerer |-> IF rung.answerer # None THEN rung.answerer
                  ELSE IF answerers = 0 THEN None ELSE {answerers},
     reranker |-> rung.reranker]

(* candidate_reranker, candidate_answerer, check_cards *)
CanRun(rung) ==
    /\ "dense" \in rung.routes => Provenance(rung).embedder # None
    /\ rung.asks => Provenance(rung).answerer # None

LadderInit ==
    /\ manifest \in Ladders
    /\ published = Min(DOMAIN Embedders) /\ answerers = 1
    /\ ladderStage = IF ValidManifest(manifest) /\ WarmUps <= Cardinality(DOMAIN Suite)
                     THEN "checking" ELSE "refused"
    /\ checked = 0 /\ held = None /\ warm = 0 /\ rows = << >> /\ rungs = << >>

(* Others publish a generation and register answerer cards meanwhile. *)
PublishAnother ==
    /\ published + 1 \in DOMAIN Embedders /\ published' = published + 1
    /\ UNCHANGED <<manifest, answerers, ladderStage, checked, held, warm, rows, rungs>>

RegisterAnswerer ==
    /\ answerers < MaxCards /\ answerers' = answerers + 1
    /\ UNCHANGED <<manifest, published, ladderStage, checked, held, warm, rows, rungs>>

(* run_ladder: every rung is checked before the first search. *)
CheckCards ==
    /\ ladderStage = "checking"
    /\ checked' = checked + 1
    /\ ladderStage' = IF ~ CanRun(manifest[checked']) THEN "refused"
                      ELSE IF checked' = Len(manifest) THEN "starting" ELSE "checking"
    /\ UNCHANGED <<manifest, published, answerers, held, warm, rows, rungs>>

Rung == manifest[Len(rungs) + 1]

(* Engine::start holds the cards and the documents the rung is scored by; a
   suite whose sections do not resolve there stops the ladder. *)
StartRung ==
    /\ ladderStage = "starting"
    /\ \E resolves \in BOOLEAN :
         /\ ladderStage' = IF resolves THEN "running" ELSE "refused"
         /\ held' = IF resolves THEN {Provenance(Rung)} ELSE None
    /\ warm' = 0 /\ rows' = << >>
    /\ UNCHANGED <<manifest, published, answerers, checked, rungs>>

WarmUp ==
    /\ ladderStage = "running" /\ warm < WarmUps /\ warm' = warm + 1
    /\ UNCHANGED <<manifest, published, answerers, ladderStage, checked, held, rows, rungs>>

Holds == CHOOSE p \in held : TRUE

(* Engine::search, Engine::ask: each pins the generation that is published
   then.  A citation from another generation than the held one names no
   revision, so it is not the expected one. *)
RunQuestion ==
    /\ ladderStage = "running" /\ warm = WarmUps /\ Len(rows) < Len(Order)
    /\ \E o \in Outcomes :
         rows' = Append(rows, [o EXCEPT
                    !.id = Order[Len(rows) + 1], !.generation = published,
                    !.ask = IF ~ Rung.asks THEN "failed"
                            ELSE IF @ = "right" /\ published # Holds.generation THEN "wrong" ELSE @])
    /\ UNCHANGED <<manifest, published, answerers, ladderStage, checked, held, warm, rungs>>

(* Mutant: a rung is not compared with the state it ended in. *)
MutVerdict(start, end, first, floors) ==
    IF start.generation # first.generation \/ start.embedder # first.embedder THEN "INVALID"
    ELSE IF Passed(floors) THEN "PASS" ELSE "FAIL"

(* RungRun::verdict *)
Verdict(start, end, first, floors) ==
    IF end # {start} \/ start.generation # first.generation \/ start.embedder # first.embedder
    THEN "INVALID" ELSE IF Passed(floors) THEN "PASS" ELSE "FAIL"

(* run_rung's end and write_rung: what the rung runs against is read again,
   and an unreadable end is recorded as INVALID and stops the ladder. *)
EndRung ==
    /\ ladderStage = "running" /\ Len(rows) = Len(Order)
    /\ \E readable \in BOOLEAN :
         LET floors == IF Rung.asks THEN Floors(rows) ELSE WithoutAsks(Floors(rows))
             end == IF readable THEN {Provenance(Rung)} ELSE None
             first == IF rungs = << >> THEN Holds ELSE rungs[1].start
         IN  /\ rungs' = Append(rungs, [start |-> Holds, rows |-> rows, floors |-> floors,
                                        delivery |-> Delivery(rows, Rung.asks),
                                        verdict |-> Verdict(Holds, end, first, floors)])
             /\ ladderStage' = IF ~ readable THEN "failed"
                               ELSE IF Len(rungs') = Len(manifest) THEN "done" ELSE "starting"
    /\ held' = None /\ rows' = << >> /\ warm' = 0
    /\ UNCHANGED <<manifest, published, answerers, checked>>

LadderNext ==
    \/ PublishAnother \/ RegisterAnswerer \/ CheckCards
    \/ StartRung \/ WarmUp \/ RunQuestion \/ EndRung

-----------------------------------------------------------------------------
(* PROPERTIES *)

(* What is published or registered between the check, the start, the
   questions and the end of a rung never shows as a difference between rungs:
   the rungs of a ladder that are not INVALID searched one generation in every
   row, the one the report names, and only a rung that asks may pass. *)
RungsCompareLikeWithLike ==
    \A i, j \in DOMAIN rungs :
        /\ rungs[i].verdict # "INVALID" =>
             \A r \in ToSet(rungs[i].rows) : r.generation = rungs[i].start.generation
        /\ "INVALID" \notin {rungs[i].verdict, rungs[j].verdict} =>
             /\ rungs[i].start.generation = rungs[j].start.generation
             /\ rungs[i].start.embedder = rungs[j].start.embedder
        /\ rungs[i].verdict = "PASS" => manifest[i].asks

(* Coverage is the share of the extent that lies in some anchor, however the
   anchors overlap, nest, touch or reach past the extent. *)
CoverageIsTheUnion(extent, anchors) ==
    LET within == {p \in extent[1] .. extent[2] - 1 : \E a \in anchors : a[1] <= p /\ p < a[2]}
    IN  Coverage(extent, anchors) = (Cardinality(within) * 1000) \div (extent[2] - extent[1])

=============================================================================
