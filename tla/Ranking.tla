------------------------------- MODULE Ranking -------------------------------
(***************************************************************************)
(* How a search orders what its routes found: reciprocal rank fusion, the  *)
(* set handed to the reranker after an intent expansion, the rerank with   *)
(* scores an earlier pass gave, and the policies that move positions       *)
(* afterwards (maestro-knowledge, search/).                                *)
(*                                                                         *)
(* Chunks are naturals, so that their ids have the order of the strings.   *)
(* A rank or a position is one-based.  Scores are exact fractions over a   *)
(* common denominator, where the code has f64.                             *)
(***************************************************************************)
EXTENDS Integers, Sequences, FiniteSets, FiniteSetsExt, SequencesExt

(* An optional value is a set of at most one. *)
None == {}

The(option) == CHOOSE x \in option : TRUE

Position(seq, x) == CHOOSE i \in DOMAIN seq : seq[i] = x

Take(seq, n) == SubSeq(seq, 1, Min({n, Len(seq)}))

(* The members of a set in an order: pairs of which the first comes first. *)
Sorted(set, before) ==
    LET pairs == {p : p \in before}
    IN  [i \in 1 .. Cardinality(set) |->
            CHOOSE a \in set : Cardinality({b \in set : <<b, a>> \in pairs}) = i - 1]

(* What a list holds at some of its places. *)
AtPlaces(list, places) ==
    LET at == Sorted(places, {p \in places \X places : p[1] < p[2]})
    IN  [i \in DOMAIN at |-> list[at[i]]]

(* A multiple of every k + r, for the ranks r up to n. *)
Common(k, n) ==
    LET product[r \in 0 .. n] == IF r = 0 THEN 1 ELSE (k + r) * product[r - 1]
    IN  product[n]

-----------------------------------------------------------------------------
(* Reciprocal rank fusion. *)

(* A chunk's rank in a route's list: the distinct chunks up to its first
   occurrence. *)
RankIn(hits, c) ==
    Cardinality({hits[i] : i \in {j \in DOMAIN hits : \A m \in 1 .. (j - 1) : hits[m] # c}})

(* lists and weights are functions from routes; a route without hits casts
   no vote. *)
Voted(lists) == UNION {Range(lists[r]) : r \in DOMAIN lists}

FusedScore(lists, weights, k, c) ==
    LET common == Common(k, Cardinality(Voted(lists)))
        Vote(r) == IF r \in DOMAIN lists /\ c \in Range(lists[r])
                   THEN weights[r] * (common \div (k + RankIn(lists[r], c))) ELSE 0
    IN  Vote("dense_intent") + Vote("lexical_intent") + Vote("dense") + Vote("lexical")
        + Vote("identifier") + Vote("structured")

FuseWeighted(lists, limit, k, weights) ==
    LET chunks == Voted(lists)
        score == [c \in chunks |-> FusedScore(lists, weights, k, c)]
        before == {p \in chunks \X chunks :
                      score[p[1]] > score[p[2]] \/ (score[p[1]] = score[p[2]] /\ p[1] < p[2])}
    IN  Take(Sorted(chunks, before), limit)

(* What goes to the reranker once intent routes have voted as well: every
   kept chunk, at most `additions' others of the combined head, then the
   rest while the pool has room. *)
RerankSet(kept, combined, depth, additions, pool) ==
    LET places == DOMAIN combined
        others == {i \in places : i <= depth /\ combined[i] \notin kept}
        added == {i \in others : Cardinality({j \in others : j < i}) < additions}
        head == {i \in places : combined[i] \in kept} \cup added
        room == Max({0, pool - Cardinality(head)})
    IN  [fused |-> AtPlaces(combined, head) \o Take(AtPlaces(combined, places \ head), room),
         added |-> Cardinality(added),
         displaced |-> Cardinality({i \in places : i > depth /\ combined[i] \in kept})]

(* route_list and results: the pool of one search pass. *)
Pool(original, intent, weights, cfg) ==
    IF DOMAIN intent = {}
    THEN [fused |-> FuseWeighted(original, cfg.pool, cfg.k, weights),
          added |-> 0, displaced |-> 0]
    ELSE LET kept == Range(FuseWeighted(original, cfg.depth, cfg.k, weights))
             both == [r \in DOMAIN original \cup DOMAIN intent |->
                         IF r \in DOMAIN original THEN original[r] ELSE intent[r]]
         IN  RerankSet(kept, FuseWeighted(both, Cardinality(Voted(both)), cfg.k, weights),
                       cfg.depth, cfg.additions, cfg.pool)

-----------------------------------------------------------------------------
(* The rerank. *)

(* The scores of a candidate's windows are reduced to the best of them;
   one with no window has none. *)
BestScore(scores) == IF scores = {} THEN None ELSE {Max(scores)}

(* Scored candidates by descending score, then the others; ties keep the
   fused order. *)
ByScoreThenFused(scores) ==
    LET places == DOMAIN scores
        Before(i, j) ==
            IF (scores[i] = None) # (scores[j] = None) THEN scores[j] = None
            ELSE IF scores[i] # scores[j] THEN The(scores[i]) > The(scores[j])
            ELSE i < j
    IN  Sorted(places, {p \in places \X places : Before(p[1], p[2])})

(* Candidates in fused order are reranked down to `head' = depth + extra.
   Only those without a known score go to the model, which is `available'
   or not; one that fails drops every score.  No candidate reranked, or
   none to rerank, keeps the fused order.  head = 0 stands for a rerank
   that is disabled. *)
RerankReusing(candidates, head, known, model, available) ==
    LET fresh == {i \in DOMAIN candidates :
                      i <= head /\ candidates[i] \notin DOMAIN known}
        ok == candidates # << >> /\ head > 0 /\ (fresh = {} \/ available)
        scores == [i \in DOMAIN candidates |->
                      IF ~ok \/ i > head THEN None
                      ELSE IF i \in fresh THEN BestScore(model[candidates[i]])
                      ELSE {known[candidates[i]]}]
        order == ByScoreThenFused(scores)
    IN  [ranked |-> [p \in DOMAIN order |->
                        [id |-> candidates[order[p]], score |-> scores[order[p]]]],
         ok |-> ok]

TopRerankScore(ranked) ==
    BestScore(UNION {ranked[p].score : p \in DOMAIN ranked})

(* Windows of a text that is too long for the model.  count[<<s, e>>] is what
   the tokenizer says of the characters s + 1 .. e; blank is the set of the
   whitespace characters.  The search by halves takes the count to grow
   with the window, which a tokenizer need not grant. *)
Halved(range, start, budget, count) ==
    LET middle == range[1] + (range[2] - range[1]) \div 2
    IN  IF range[1] >= range[2] THEN range
        ELSE IF count[<<start, start + middle + 1>>] <= budget THEN <<middle + 1, range[2]>>
        ELSE <<range[1], middle>>

Fitting(start, length, budget, count) ==
    LET range[n \in 0 .. length] ==
            IF n = 0 THEN <<0, length - start>> ELSE Halved(range[n - 1], start, budget, count)
    IN  start + range[length][1]

(* A window ends after its last blank, unless the tokenizer counts
   more than the budget up to there. *)
WindowEnd(start, longest, blank, budget, count) ==
    LET blanks == blank \cap (start + 1) .. longest
        cut == IF blanks = {} THEN longest ELSE Max(blanks)
    IN  IF count[<<start, cut>>] <= budget THEN cut ELSE longest

(* The next window of the text; one that does not fit is ContextLimit. *)
NextWindow(state, length, blank, budget, count) ==
    LET longest == Fitting(state.at, length, budget, count)
        end == WindowEnd(state.at, longest, blank, budget, count)
    IN  IF ~ state.ok \/ state.at = length THEN state
        ELSE IF longest > state.at /\ count[<<state.at, end>>] <= budget
        THEN [ok |-> TRUE, at |-> end,
              windows |-> Append(state.windows, [from |-> state.at, to |-> end])]
        ELSE [state EXCEPT !.ok = FALSE]

(* The windows, or none. *)
SplitText(length, blank, budget, count) ==
    LET after[n \in 0 .. length] ==
            IF n = 0 THEN [ok |-> TRUE, at |-> 0, windows |-> << >>]
            ELSE NextWindow(after[n - 1], length, blank, budget, count)
    IN  IF after[length].ok THEN {after[length].windows} ELSE None

-----------------------------------------------------------------------------
(* The rank policies: positions only. *)

AtPlace(ranked, order) == [i \in DOMAIN ranked |-> ranked[order[i]]]

(* (1 - w) / (k + reranked) + w / (k + fused), w a number of hundredths. *)
Blend(ranked, fused, weight, k) ==
    LET common == Common(k, Len(fused))
        At(p) == Position(fused, ranked[p])
        score == [p \in DOMAIN ranked |-> (100 - The(weight)) * (common \div (k + p))
                                          + The(weight) * (common \div (k + At(p)))]
        before == {p \in (DOMAIN ranked) \X (DOMAIN ranked) :
                      \/ score[p[1]] > score[p[2]]
                      \/ score[p[1]] = score[p[2]] /\ At(p[1]) < At(p[2])}
    IN  IF weight = None THEN ranked ELSE AtPlace(ranked, Sorted(DOMAIN ranked, before))

(* multipliers gives hundredths for the penalized chunks. *)
Demote(ranked, multipliers) ==
    LET common == Common(0, Len(ranked))
        times == [p \in DOMAIN ranked |-> IF ranked[p] \in DOMAIN multipliers
                                          THEN multipliers[ranked[p]] ELSE 100]
        score == [p \in DOMAIN ranked |-> times[p] * (common \div p)]
        Before(p, q) ==
            IF score[p] # score[q] THEN score[p] > score[q]
            ELSE IF times[p] # times[q] THEN times[p] > times[q]
            ELSE p < q
        before == {p \in (DOMAIN ranked) \X (DOMAIN ranked) : Before(p[1], p[2])}
    IN  IF DOMAIN multipliers = {} THEN ranked ELSE AtPlace(ranked, Sorted(DOMAIN ranked, before))

CappedPlaces == 10

(* Mutant: the chunks are moved up from the last to the first. *)
MutCapped(fused) == Reverse(Take(fused, CappedPlaces))

(* The chunks the bound holds for, in the order they are moved. *)
Capped(fused) == Take(fused, CappedPlaces)

MovedUp(order, id, bound) ==
    LET p == Position(order, id)
        moved == Min({bound, p})
    IN  [i \in DOMAIN order |->
            IF i = moved THEN id
            ELSE IF moved < i /\ i <= p THEN order[i - 1] ELSE order[i]]

CapDemotion(ranked, fused, cap) ==
    LET ids == Capped(fused)
        order[n \in 0 .. Len(ids)] ==
            IF n = 0 THEN ranked
            ELSE MovedUp(order[n - 1], ids[n], Position(fused, ids[n]) + The(cap))
    IN  IF cap = None THEN ranked ELSE order[Len(ids)]

(* What admission lets through: a weight is a part of the whole, so is what
   a penalty leaves, and the rest cannot be negative. *)
Portion == 0 .. 100
PolicyIsValid(policy) ==
    /\ policy.k \in Nat
    /\ policy.blend # None => The(policy.blend) \in Portion
    /\ \A prior \in {policy.section, policy.source} :
           prior.multiplier # None => The(prior.multiplier) \in Portion
    /\ policy.cap # None => The(policy.cap) \in Nat

(* apply_rank_policies: the blend, one demotion for the priors of the
   section and of the source together, then the bound. *)
ApplyRankPolicies(ranked, fused, policy) ==
    LET Of(prior, c) == IF c \in prior.ids /\ prior.multiplier # None
                        THEN The(prior.multiplier) ELSE 100
        penalized == {c \in Range(fused) : \E prior \in {policy.section, policy.source} :
                          c \in prior.ids /\ prior.multiplier # None}
        multipliers == [c \in penalized |->
                           (Of(policy.section, c) * Of(policy.source, c)) \div 100]
    IN  CapDemotion(Demote(Blend(ranked, fused, policy.blend, policy.k), multipliers),
                    fused, policy.cap)

-----------------------------------------------------------------------------
(* Properties. *)

(* The policies reorder, they drop and repeat nothing, and none of the
   chunks the fusion put first ends further down than the bound allows,
   though moving one up moves others down again (rank_policy.rs,
   cap_demotion).  Without the bound and the blend, a chunk without a
   penalty never loses a place to one that has it. *)
PoliciesHold(ranked, fused, policy) ==
    LET final == ApplyRankPolicies(ranked, fused, policy)
        spared == Range(ranked) \ (policy.section.ids \cup policy.source.ids)
    IN  /\ Len(final) = Len(ranked) /\ Range(final) = Range(ranked)
        /\ policy.cap # None =>
               \A c \in Range(Capped(fused)) :
                   Position(final, c) <= Position(fused, c) + The(policy.cap)
        /\ policy.cap = None /\ policy.blend = None =>
               \A c \in spared : Position(final, c) <= Position(ranked, c)

(* The windows of a long text are the text, from its first character to its
   last, and none is over the budget, whatever the tokenizer counts
   (rerank.rs,
   split_text). *)
SplitIsWhole(length, blank, budget, count) ==
    \A windows \in SplitText(length, blank, budget, count) :
        /\ \A i \in DOMAIN windows :
               /\ windows[i].from = IF i = 1 THEN 0 ELSE windows[i - 1].to
               /\ windows[i].from < windows[i].to
               /\ count[<<windows[i].from, windows[i].to>>] <= budget
        /\ length > 0 => Last(windows).to = length
=============================================================================
