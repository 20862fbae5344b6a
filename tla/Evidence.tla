------------------------------ MODULE Evidence ------------------------------
(***************************************************************************)
(* The assembly of an evidence bundle (maestro-knowledge,                  *)
(* search/evidence): the ranked chunks become candidates, conflicts        *)
(* between the tables they may deliver are found, candidates of older      *)
(* versions are suppressed, and a greedy selection admits the rest, one    *)
(* unit at a time, under a budget of passages and bytes.                   *)
(*                                                                         *)
(* A span is a pair <<start, end>> of places in its revision.  The score   *)
(* that orders the units (features/, mmr.rs) is abstract: any unit that is *)
(* not covered may be the best.  A passage costs its length and one more.  *)
(***************************************************************************)
EXTENDS Integers, Sequences, FiniteSets, FiniteSetsExt, SequencesExt, Functions

CONSTANTS
    Worlds,     \* what the revisions may hold: functions from revisions to sources
    Chunks,     \* chunk -> [revision, span, section (whether it names one)]
    Requests    \* [chunks, mode, largest, k, bytes, collapse]

VARIABLES
    world,      \* the revisions as they are
    asm,        \* the request under assembly
    plan,       \* the conflicts and the eligible candidates, fixed before the selection
    stage,      \* "selecting", "expanding", "done" or "failed"
    pending,    \* units that were not tried
    choice,     \* admitted candidate -> its ranges
    covered,    \* candidates the passages deliver
    accepted,   \* units that may still grow, in the order of their admission
    omitted     \* what the gaps of the bundle will tell

evidenceVars == <<world, asm, plan, stage, pending, choice, covered, accepted, omitted>>

None == {}
The(option) == CHOOSE x \in option : TRUE

-----------------------------------------------------------------------------
(* Spans. *)

Encloses(outer, inner) == outer[1] <= inner[1] /\ inner[2] <= outer[2]
Hull(spans) == <<Min({s[1] : s \in spans}), Max({s[2] : s \in spans})>>

(* Spans that overlap or touch become one. *)
Merge(spans) ==
    LET opens == {s \in spans : ~ \E t \in spans : t[1] < s[1] /\ s[1] <= t[2]}
        closes == {s[2] : s \in {x \in spans : ~ \E t \in spans : t[1] <= x[2] /\ x[2] < t[2]}}
    IN  {<<s[1], Min({e \in closes : e > s[1]})>> : s \in opens}

(* The smallest nonempty parts of nodes that no edge leaves. *)
Components(nodes, linked) ==
    LET closed == {C \in (SUBSET nodes) \ {{}} :
                     \A a \in C : \A b \in nodes : <<a, b>> \in linked => b \in C}
    IN  {C \in closed : ~ \E D \in closed : D # C /\ D \subseteq C}

-----------------------------------------------------------------------------
(* Candidates and their sections. *)

(* union_seed_spans: the chunks of one revision that overlap or touch are one
   candidate. *)
Candidates(chunks) ==
    UNION {LET own == {c \in chunks : Chunks[c].revision = r}
               spans == Merge({Chunks[c].span : c \in own})
           IN  {[revision |-> r, span |-> s,
                 seeds |-> {c \in own : Encloses(s, Chunks[c].span)}] : s \in spans}
           : r \in {Chunks[c].revision : c \in chunks}}

Source(c) == world[c.revision]

(* SectionIndex::expand: the innermost section that holds the candidate, else
   what stands before the first heading, else the whole content. *)
Expansion(c) ==
    LET holding == {s \in Source(c).sections : Encloses(s.extent, c.span)}
        sectionless == \A seed \in c.seeds : ~ Chunks[seed].section
    IN  IF holding # {} THEN
          CHOOSE s \in holding : \A t \in holding :
              s.extent[1] > t.extent[1] \/ (s.extent[1] = t.extent[1] /\ s.extent[2] <= t.extent[2])
        ELSE IF sectionless /\ Encloses(Source(c).preamble.extent, c.span)
        THEN Source(c).preamble ELSE Source(c).content

Extent(c) == Expansion(c).extent

(* window_plan: the run of siblings that holds the seed. *)
Mandatory(c, seed) ==
    Hull({s \in ToSet(Expansion(c).siblings) :
            (s[1] <= seed[1] /\ seed[1] < s[2]) \/ (s[1] < seed[2] /\ seed[2] <= s[2])})

(* The neighbours tried around it: before, after, then the next of each. *)
Neighbors(c, seed) ==
    LET all == Expansion(c).siblings
        window == Mandatory(c, seed)
        before == Reverse(SelectSeq(all, LAMBDA s : s[2] <= window[1]))
        after == SelectSeq(all, LAMBDA s : s[1] >= window[2])
        At(seq, n) == IF n <= Len(seq) THEN <<seq[n]>> ELSE << >>
    IN  At(before, 1) \o At(after, 1) \o At(before, 2) \o At(after, 2)

-----------------------------------------------------------------------------
(* Conflicts and versions. *)

Corresponds(a, b) ==
    \/ Source(a).document = Source(b).document
    \/ Source(a).near \cap Source(b).near # {}

(* Mutant: a candidate observes only the tables of its own window. *)
MutObserved(c) ==
    UNION {{[table |-> t.span, key |-> f.key, value |-> f.value] : f \in t.facts} :
               t \in {t \in Source(c).tables : Encloses(Mandatory(c, c.span), t.span)}}

(* observations: the facts of every table within the extent a candidate may
   be expanded to. *)
Observed(c) ==
    UNION {{[table |-> t.span, key |-> f.key, value |-> f.value] : f \in t.facts} :
               t \in {t \in Source(c).tables : Encloses(Extent(c), t.span)}}

(* conflict_graph: the facts of a candidate that another one, or the candidate
   itself, contradicts, and the tables they are in. *)
Contradictions(cands) ==
    LET facts == UNION {{[of |-> c, fact |-> f] : f \in Observed(c)} : c \in cands}
    IN  {[by |-> p[1].of, with |-> p[2].of, key |-> p[1].fact.key, table |-> p[1].fact.table] :
          p \in {q \in facts \X facts :
                   /\ q[1].fact.key = q[2].fact.key /\ q[1].fact.value # q[2].fact.value
                   /\ Corresponds(q[1].of, q[2].of)}}

(* detect_conflicts: per key, the connected candidates. *)
Findings(graph) ==
    UNION {LET members == {e.by : e \in {x \in graph : x.key = key}}
               linked == {<<e.by, e.with>> : e \in {x \in graph : x.key = key}}
           IN  {[key |-> key, members |-> C] : C \in Components(members, linked)}
           : key \in {e.key : e \in graph}}

(* conflict_required_spans: a candidate must bring the tables it is in
   conflict over. *)
Required(c, graph) == Hull({c.span} \cup {e.table : e \in {x \in graph : x.by = c}})

(* collapse_versions: of candidates that say the same in corresponding
   sections of several revisions, the latest version stays, unless a version
   is unknown. *)
Suppressed(cands, graph) ==
    LET free == cands \ {e.by : e \in graph}
        eligible == {c \in free : \E s \in Source(c).sections : s = Expansion(c)}
        same == {p \in eligible \X eligible : /\ Expansion(p[1]).path = Expansion(p[2]).path
                                             /\ Expansion(p[1]).text = Expansion(p[2]).text
                                             /\ Corresponds(p[1], p[2])}
        Older(G) ==
            IF Cardinality({c.revision : c \in G}) = 1 THEN {}
            ELSE IF \E c \in G : Source(c).version = None THEN {}
            ELSE {c \in G : \E d \in G : The(Source(c).version) < The(Source(d).version)}
    IN  UNION {Older(G) : G \in Components(eligible, same)}

LatestUndetermined(cands, graph) ==
    LET sections == {c \in cands : \E s \in Source(c).sections : s = Expansion(c)}
    IN  \E a, b \in sections :
          /\ a.revision # b.revision /\ Corresponds(a, b)
          /\ Expansion(a).path = Expansion(b).path /\ Expansion(a).text = Expansion(b).text
          /\ None \in {Source(a).version, Source(b).version}
          /\ {a, b} \cap {e.by : e \in graph} = {}

(* What is fixed before the first unit is tried. *)
Planned ==
    LET all == Candidates(asm.chunks)
        graph == Contradictions(all)
    IN  [all |-> all, graph |-> graph, findings |-> Findings(graph),
         eligible |-> all \ (IF asm.collapse THEN Suppressed(all, graph) ELSE {}),
         latest |-> ~ LatestUndetermined(all, graph),
         need |-> [c \in all |-> Required(c, graph)]]

Eligible == plan.eligible
Need(c) == plan.need[c]

(* selection_units: conflicts that share a candidate are one unit, every other
   candidate is its own. *)
Units ==
    LET findings == plan.findings
        members == UNION {f.members : f \in findings}
        together == UNION {f.members \X f.members : f \in findings}
    IN  Components(members, together) \cup {{c} : c \in Eligible \ members}

IsConflict(unit) == \E f \in plan.findings : f.members \subseteq unit

-----------------------------------------------------------------------------
(* Trials. *)

(* DeliveryChoice::ranges *)
Ranges(c, context) == Merge({Chunks[seed].span : seed \in c.seeds} \cup context)

(* render_trial: the clusters of each revision. *)
Passages(spans) ==
    UNION {{[revision |-> r, span |-> s] :
              s \in Merge(UNION {spans[c] : c \in {x \in DOMAIN spans : x.revision = r}})}
           : r \in {c.revision : c \in DOMAIN spans}}

Delivers(passages, c, span) ==
    \E p \in passages : p.revision = c.revision /\ Encloses(p.span, span)

(* covered_candidates: with parent chains only those that were chosen. *)
Covers(spans) ==
    LET passages == Passages(spans)
        chosen == {c \in DOMAIN spans : \A s \in spans[c] : Delivers(passages, c, s)}
    IN  IF asm.mode = "parent_chain" THEN chosen
        ELSE chosen \cup {c \in Eligible \ DOMAIN spans : Delivers(passages, c, Need(c))}

(* count_passages: what the passages cost as the answer is written. *)
Cost(passages) == MapThenSumSet(LAMBDA p : p.span[2] - p.span[1] + 1, passages)

(* fits_trial *)
Fits(spans) ==
    LET passages == Passages(spans) IN
    /\ \A c \in DOMAIN spans : \A s \in spans[c] : s[2] - s[1] < asm.bytes
    /\ Cardinality(passages) <= asm.k
    /\ Cost(passages) <= asm.bytes

With(spans, unit, context) ==
    [c \in DOMAIN spans \cup unit |-> IF c \in unit THEN Ranges(c, {context[c]}) ELSE spans[c]]

(* add_optional_siblings: each neighbour that still fits is taken, the window
   growing as it does. *)
Grown(spans, c) ==
    LET Larger(window, s) == Hull({window, s})
        start == <<Hull(spans[c]), spans>>
        Try(state, s) ==
            LET window == Larger(state[1], s)
                trial == [state[2] EXCEPT ![c] = Ranges(c, {window})]
            IN  IF Fits(trial) THEN <<window, trial>> ELSE state
    IN  FoldLeft(Try, start, Neighbors(c, Need(c)))[2]

(* relevant_span: of a table, its rows up to the one the seed ends in. *)
Relevant(c) ==
    LET window == Mandatory(c, Need(c))
        rows == UNION {t.rows : t \in {x \in Source(c).tables : x.span = window}}
        last == {row \in rows : row[1] < Need(c)[2] /\ Need(c)[2] <= row[2]}
    IN  IF last = {} THEN window ELSE <<window[1], The(last)[2]>>

(* table_ranges: the header of a table and the rows the candidate touches. *)
TableRanges(c) ==
    LET window == Mandatory(c, Need(c))
        tables == {t \in Source(c).tables : t.span = window}
        touched(t) == {row \in t.rows : row[1] < Need(c)[2] /\ Need(c)[1] < row[2]}
        ranges == UNION {Merge(touched(t) \cup {t.head}) : t \in tables}
    IN  IF \E s \in ranges : Encloses(s, Need(c)) THEN ranges ELSE {}

(* LegacyCanonicalGraph::choices, from the smallest delivery to the section. *)
DeliveryChoices(c) ==
    LET window == Mandatory(c, Need(c))
        header == IF TableRanges(c) = {} THEN << >> ELSE <<Ranges(c, TableRanges(c))>>
        section == IF window = Extent(c) THEN << >> ELSE <<Ranges(c, {Extent(c)})>>
        all == header \o <<Ranges(c, {window})>> \o section
    IN  SelectSeq([i \in DOMAIN all |-> <<i, all[i]>>],
                  LAMBDA e : e[1] = 1 \/ all[e[1] - 1] # e[2])

Tiers(unit) == Max({Len(DeliveryChoices(c)) : c \in unit})

(* parent_trial *)
Parent(spans, unit, tier) ==
    [c \in DOMAIN spans \cup unit |->
        IF c \in unit THEN DeliveryChoices(c)[Min({tier, Len(DeliveryChoices(c))})][2] ELSE spans[c]]

-----------------------------------------------------------------------------
(* Selection. *)

EvidenceInit ==
    /\ world \in Worlds /\ asm \in Requests
    /\ plan = Planned
    /\ stage = "selecting" /\ pending = Units
    /\ choice = << >> /\ covered = {} /\ accepted = << >>
    /\ omitted = [evidence |-> FALSE, conflict |-> FALSE, latest |-> FALSE]

Accept(spans) == choice' = spans /\ covered' = Covers(spans)

Admit(unit, spans, grows) ==
    /\ Accept(spans) /\ accepted' = accepted \o grows /\ UNCHANGED omitted

Omit(unit) ==
    /\ omitted' = [omitted EXCEPT !.evidence = TRUE, !.conflict = @ \/ IsConflict(unit)]
    /\ UNCHANGED <<choice, covered, accepted>>

(* A unit's candidates, in the order they are expanded. *)
Ordered(unit) == SetToSeq(unit)

(* The trial that admits a unit, if any: its spans, and what may grow later. *)
Window(unit) == With(choice, unit, [c \in unit |-> Mandatory(c, Need(c))])
Full(unit) == With(choice, unit, [c \in unit |-> Extent(c)])
Prefix(unit) == With(choice, unit, [c \in unit |-> Relevant(c)])

FittingTiers(unit) == {t \in 1 .. Tiers(unit) : Fits(Parent(choice, unit, t))}

SelectUnit(unit) ==
    CASE asm.mode = "parent_chain" ->
           IF FittingTiers(unit) = {} THEN Omit(unit)
           ELSE LET tier == IF asm.largest THEN Max(FittingTiers(unit)) ELSE Min(FittingTiers(unit))
                IN  Admit(unit, Parent(choice, unit, tier), <<[unit |-> unit, tier |-> tier]>>)
      [] asm.mode = "relevant_blocks" ->
           IF Fits(Prefix(unit)) THEN Admit(unit, Prefix(unit), <<[unit |-> unit, tier |-> 0]>>)
           ELSE Omit(unit)
      [] asm.mode = "full_section" /\ Fits(Full(unit)) -> Admit(unit, Full(unit), << >>)
      [] OTHER ->
           IF Fits(Window(unit))
           THEN Admit(unit, FoldLeft(Grown, Window(unit), Ordered(unit)), << >>)
           ELSE Omit(unit)

(* select: the best unit is tried; one that is covered already is passed
   over, and a conflict covered in part is an integrity failure. *)
Select(unit) ==
    /\ stage = "selecting" /\ unit \in pending
    /\ ~ unit \subseteq covered
    /\ pending' = pending \ {unit}
    /\ IF IsConflict(unit) /\ unit \cap covered # {}
       THEN stage' = "failed" /\ UNCHANGED <<choice, covered, accepted, omitted>>
       ELSE SelectUnit(unit) /\ UNCHANGED stage
    /\ UNCHANGED <<world, asm, plan>>

NothingToSelect ==
    /\ stage = "selecting" /\ \A unit \in pending : unit \subseteq covered
    /\ stage' = "expanding" /\ pending' = {}
    /\ UNCHANGED <<world, asm, plan, choice, covered, accepted, omitted>>

(* After the last unit: what was admitted in part grows, in order. *)
Larger(spans, grows) ==
    IF asm.mode = "parent_chain" THEN
      LET Try(state, tier) ==
              LET trial == Parent(state, grows.unit, tier) IN IF Fits(trial) THEN trial ELSE state
      IN  FoldLeft(Try, spans, [i \in 1 .. (Tiers(grows.unit) - grows.tier) |-> grows.tier + i])
    ELSE FoldLeft(Grown, spans, Ordered(grows.unit))

Grow ==
    /\ stage = "expanding" /\ accepted # << >>
    /\ Accept(Larger(choice, Head(accepted))) /\ accepted' = Tail(accepted)
    /\ UNCHANGED <<world, asm, plan, stage, pending, omitted>>

(* emit_conflicts: a finding is told only whole, with a passage for each of
   its tables. *)
Told(f) == f.members \subseteq covered
Tables(f) == {[c |-> e.by, span |-> e.table] :
                e \in {x \in plan.graph : x.key = f.key /\ x.by \in f.members}}
Emits(f) ==
    \/ f.members \cap covered = {}
    \/ Told(f) /\ \A t \in Tables(f) : Delivers(Passages(choice), t.c, t.span)

(* build_known_gaps *)
Gaps == [omitted EXCEPT !.latest = ~ plan.latest]

Finish ==
    /\ stage = "expanding" /\ accepted = << >>
    /\ stage' = IF \A f \in plan.findings : Emits(f) THEN "done" ELSE "failed"
    /\ omitted' = Gaps
    /\ UNCHANGED <<world, asm, plan, pending, choice, covered, accepted>>

EvidenceNext == (\E unit \in pending : Select(unit)) \/ NothingToSelect \/ Grow \/ Finish

-----------------------------------------------------------------------------
(* PROPERTIES *)

(* Whatever unit scores best at each step and whatever expansion covers on the
   way, no assembly ends in the failures the code keeps for a conflict that is
   covered in part: both sides of a conflict are delivered, each with its
   table, or neither is; and a candidate that is left out is told. *)
ConflictsAreWhole ==
    /\ stage # "failed"
    /\ stage = "done" => \A c \in Eligible \ covered : omitted.evidence
    /\ stage = "done" => \A f \in plan.findings : ~ Told(f) => omitted.conflict

=============================================================================
