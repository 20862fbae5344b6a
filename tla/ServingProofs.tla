---------------------------- MODULE ServingProofs ----------------------------
(***************************************************************************)
(* What a request delivers, for every instance of Serving: any scopes,     *)
(* generations, chunks, routes, settings and deadline, any edits of        *)
(* config.toml and publications meanwhile.  Then the cutoffs of its        *)
(* deadline, for every deadline.                                           *)
(***************************************************************************)
EXTENDS Serving, RankingProofs, TLAPS

Routes == OriginalRoutes \cup IntentRoutes

(* The steps before a generation is pinned, and those after the handoff to
   the assembly, without and with a bundle. *)
BeforePin == {"opening", "pinning", "admission", "pin"}
AfterHandoff == {"assemble", "assembled", "chatting", "delivering", "delivered"}
WithBundle == AfterHandoff \ {"assemble"}

(* No route answers before the pin, so that the profile it was compared with
   is that of the generation pinned. *)
NoRouteBeforePin ==
    /\ DOMAIN outcome = Routes
    /\ pc \in BeforePin => \A r \in Routes : outcome[r] = Pending

(* The bundle holds chunks of the pinned generation, in the admitted scopes. *)
BundleIsPinned == pc \in WithBundle => \A c \in passages : Loadable(c)

(* A search past its handoff was admitted with the scopes of its kernel, and
   what is delivered was compared with config.toml last. *)
SearchKeepsScopes == op = "search" /\ pc \in AfterHandoff => scopes = opened
DeliveredIsCurrent == pc = "delivered" => opened = granted

IInv == NoRouteBeforePin /\ VectorsMatch /\ BundleIsPinned /\ SearchKeepsScopes
        /\ DeliveredIsCurrent

LEMMA InitIInv == Init => IInv
  BY DEF Init, IInv, NoRouteBeforePin, VectorsMatch, BundleIsPinned, SearchKeepsScopes,
         DeliveredIsCurrent, Routes, Pending, AfterHandoff, WithBundle, BeforePin

(* The world only moves while the request is not over. *)
LEMMA WorldKeeps == ASSUME IInv, World PROVE IInv'
<1> USE DEF IInv, NoRouteBeforePin, VectorsMatch, BundleIsPinned, SearchKeepsScopes,
            DeliveredIsCurrent, Loadable, pinVars, passVars, bundleVars, Over
<1>1. CASE EditConfig
  BY <1>1 DEF EditConfig
<1>2. CASE Reconcile
  BY <1>2 DEF Reconcile
<1>3. CASE PublishNext
  BY <1>3 DEF PublishNext
<1> QED
  BY <1>1, <1>2, <1>3 DEF World

(* Up to the routes: the card, the scopes and the generation are chosen while
   no route runs. *)
LEMMA AdmissionKeeps ==
    ASSUME IInv, Open \/ PinModels \/ AdmissionReadsScopes \/ Pin \/ NothingToPin \/ AdmissionTimesOut
    PROVE  IInv'
<1> USE DEF IInv, NoRouteBeforePin, VectorsMatch, BundleIsPinned, SearchKeepsScopes,
            DeliveredIsCurrent, BeforePin, AfterHandoff, WithBundle, Routes, Pending,
            worldVars, passVars, bundleVars
<1>1. CASE Open
  BY <1>1 DEF Open
<1>2. CASE PinModels
  BY <1>2 DEF PinModels
<1>3. CASE AdmissionReadsScopes
  BY <1>3 DEF AdmissionReadsScopes
<1>4. CASE Pin
  BY <1>4 DEF Pin
<1>5. CASE NothingToPin
  BY <1>5 DEF NothingToPin, End, pinVars
<1>6. CASE AdmissionTimesOut
  BY <1>6 DEF AdmissionTimesOut, End, pinVars
<1> QED
  BY <1>1, <1>2, <1>3, <1>4, <1>5, <1>6

(* A route has hits only after Answers compared its model's profile; what is
   fused and ranked from them touches neither pin nor bundle. *)
LEMMA RoutesKeep ==
    ASSUME IInv,
           \/ \E r \in Routes : RouteAnswers(r) \/ RouteFails(r)
           \/ Expand \/ ReadyReranker \/ Fuse \/ FuseAgain \/ NothingAdded
    PROVE  IInv'
<1> USE DEF IInv, NoRouteBeforePin, BundleIsPinned, SearchKeepsScopes,
            DeliveredIsCurrent, BeforePin, AfterHandoff, WithBundle, Loadable,
            worldVars, pinVars, bundleVars
<1>1. ASSUME NEW r \in Routes, RouteAnswers(r) PROVE IInv'
  <2>1. \A q \in Routes : outcome'[q].status = "ok" =>
            outcome[q].status = "ok" \/ (q \in Dense => card = ProfileOf[pinned])
    BY <1>1 DEF RouteAnswers, Answers, Available
  <2>2. VectorsMatch'
    BY <1>1, <2>1 DEF RouteAnswers, VectorsMatch, Routes
  <2> QED
    BY <1>1, <2>2 DEF RouteAnswers
<1>2. ASSUME NEW r \in Routes, RouteFails(r) PROVE IInv'
  <2>1. \A q \in Routes : outcome'[q].status = "ok" => outcome[q].status = "ok"
    BY <1>2 DEF RouteFails, Unavailable
  <2>2. VectorsMatch'
    BY <1>2, <2>1 DEF RouteFails, VectorsMatch, Routes
  <2> QED
    BY <1>2, <2>2 DEF RouteFails
<1>3. CASE Expand
  BY <1>3 DEF Expand, VectorsMatch
<1>4. CASE ReadyReranker
  BY <1>4 DEF ReadyReranker, VectorsMatch
<1>5. CASE Fuse
  BY <1>5 DEF Fuse, AfterFusion, VectorsMatch
<1>6. CASE FuseAgain
  BY <1>6 DEF FuseAgain, AfterFusion, VectorsMatch
<1>7. CASE NothingAdded
  BY <1>7 DEF NothingAdded, passVars, VectorsMatch
<1> QED
  BY <1>1, <1>2, <1>3, <1>4, <1>5, <1>6, <1>7

(* The candidates and the two passes, up to the handoff, where a search that
   was admitted with other scopes ends. *)
LEMMA FinishKeeps ==
    ASSUME IInv, CheckBeforeLoad \/ Load \/ Rerank \/ CheckAfterLoad \/ Handoff
    PROVE  IInv'
<1> USE DEF IInv, NoRouteBeforePin, VectorsMatch, BundleIsPinned, SearchKeepsScopes,
            DeliveredIsCurrent, BeforePin, AfterHandoff, WithBundle,
            worldVars, pinVars, bundleVars
<1>1. CASE CheckBeforeLoad
  BY <1>1 DEF CheckBeforeLoad, passVars
<1>2. CASE Load
  <2>1. pc' \in {"rerank", "failed", "recheck"}
    BY <1>2 DEF Load
  <2>2. pc' \notin BeforePin \cup AfterHandoff
    BY <2>1
  <2>3. UNCHANGED <<worldVars, pinVars, outcome, bundleVars>>
    BY <1>2 DEF Load
  <2>4. NoRouteBeforePin' /\ VectorsMatch'
    BY <2>2, <2>3
  <2>5. BundleIsPinned' /\ SearchKeepsScopes' /\ DeliveredIsCurrent'
    BY SMTT(30), <2>2
  <2> QED
    BY <2>4, <2>5
<1>3. CASE Rerank
  BY <1>3 DEF Rerank
<1>4. CASE CheckAfterLoad
  BY <1>4 DEF CheckAfterLoad
<1>5. CASE Handoff
  <2>1. DOMAIN outcome' = Routes /\ \A r \in Routes : outcome'[r] = Pending
    BY <1>5 DEF Handoff
  <2>2. NoRouteBeforePin' /\ VectorsMatch'
    BY <1>5, <2>1 DEF Handoff, Routes, Pending
  <2> QED
    BY <1>5, <2>2 DEF Handoff
<1> QED
  BY <1>1, <1>2, <1>3, <1>4, <1>5

(* From the assembly, which reads the ranked chunks through the pin again, to
   the last look at the rights. *)
LEMMA DeliveryKeeps ==
    ASSUME IInv, Assemble \/ FinishAssembly \/ RefuseToAnswer \/ Chat \/ Deliver
    PROVE  IInv'
<1> USE DEF IInv, NoRouteBeforePin, VectorsMatch, BundleIsPinned, SearchKeepsScopes,
            DeliveredIsCurrent, BeforePin, AfterHandoff, WithBundle, Loadable,
            worldVars, pinVars, passVars
<1>1. CASE Assemble
  BY <1>1 DEF Assemble
<1>2. CASE FinishAssembly
  BY <1>2 DEF FinishAssembly, bundleVars
<1>3. CASE RefuseToAnswer
  BY <1>3 DEF RefuseToAnswer, End, bundleVars
<1>4. CASE Chat
  BY <1>4 DEF Chat
<1>5. CASE Deliver
  BY <1>5 DEF Deliver, CurrentScopes, bundleVars
<1> QED
  BY <1>1, <1>2, <1>3, <1>4, <1>5

LEMMA IInvHolds == Spec => []IInv
<1>1. ASSUME IInv, [Next]_vars PROVE IInv'
  <2> USE DEF IInv, NoRouteBeforePin, VectorsMatch, BundleIsPinned, SearchKeepsScopes,
              DeliveredIsCurrent, Loadable, worldVars, pinVars, passVars, bundleVars
  <2>1. CASE Steps
    BY <1>1, <2>1, AdmissionKeeps, RoutesKeep, FinishKeeps, DeliveryKeeps DEF Steps, Routes
  <2>2. CASE Tick
    BY <1>1, <2>2 DEF Tick
  <2>3. CASE UNCHANGED vars
    BY <1>1, <2>3 DEF vars
  <2> QED
    BY <1>1, <2>1, <2>2, <2>3, WorldKeeps DEF Next, Rest
<1> QED
  BY InitIInv, <1>1, PTL DEF Spec

-----------------------------------------------------------------------------
(* What a search delivers is granted to the local principal as it is
   delivered, whatever was granted and taken back meanwhile (search_with,
   ensure_current_scopes and search_chunks together). *)
THEOREM DeliveredIsGrantedHolds == Spec => []DeliveredIsGranted
<1>1. IInv => DeliveredIsGranted
  BY DEF IInv, BundleIsPinned, SearchKeepsScopes, DeliveredIsCurrent, DeliveredIsGranted,
         AfterHandoff, WithBundle, Loadable
<1> QED
  BY <1>1, IInvHolds, PTL

(* What is delivered, of an answer too, is of the generation and through the
   scopes the search was admitted with, whatever the projection returned. *)
THEOREM DeliveredIsPinnedHolds == Spec => []DeliveredIsPinned
<1>1. IInv => DeliveredIsPinned
  BY DEF IInv, BundleIsPinned, DeliveredIsPinned, AfterHandoff, WithBundle, Loadable
<1> QED
  BY <1>1, IInvHolds, PTL

(* A dense route that answered asked a model of the pinned generation's
   profile, though a generation may be published between card and pin. *)
THEOREM VectorsMatchHolds == Spec => []VectorsMatch
<1>1. IInv => VectorsMatch
  BY DEF IInv
<1> QED
  BY <1>1, IInvHolds, PTL

-----------------------------------------------------------------------------
(* The first pass of a low-confidence search waits for the second, and the one
   that is kept is not worse in what the code compares. *)
SecondRanksAsWell == pc = "searched" /\ first # {} => RanksAsWell(The(first), ranking)

SecondInv ==
    /\ first # {} => first = {The(first)}
    /\ pc = "intent" => first = {ranking}
    /\ SecondRanksAsWell

LEMMA SecondSteps == ASSUME SecondInv, Next PROVE SecondInv'
<1> USE DEF SecondInv, SecondRanksAsWell, worldVars, pinVars, passVars, bundleVars
<1>1. ASSUME World \/ Tick \/ Rest PROVE SecondInv'
  <2>1. UNCHANGED <<pc, first, ranking>>
    BY <1>1 DEF World, EditConfig, Reconcile, PublishNext, Tick, Rest, vars
  <2> QED
    BY <2>1
<1>2. ASSUME Open \/ PinModels \/ AdmissionReadsScopes \/ Pin \/ NothingToPin \/ AdmissionTimesOut
      PROVE  SecondInv'
  <2>1. UNCHANGED <<first, ranking>> /\ pc' \notin {"intent", "searched"}
    BY <1>2 DEF Open, PinModels, AdmissionReadsScopes, Pin, NothingToPin, AdmissionTimesOut, End
  <2> QED
    BY <2>1
<1>3. ASSUME \/ \E r \in OriginalRoutes \cup IntentRoutes : RouteAnswers(r) \/ RouteFails(r)
             \/ Expand \/ ReadyReranker
      PROVE  SecondInv'
  <2>1. UNCHANGED <<pc, first, ranking>>
    BY <1>3 DEF RouteAnswers, RouteFails, Expand, ReadyReranker
  <2> QED
    BY <2>1
<1>4. ASSUME Fuse \/ FuseAgain \/ CheckBeforeLoad \/ Load \/ Rerank PROVE SecondInv'
  <2>1. UNCHANGED first /\ pc' \notin {"intent", "searched"}
    BY <1>4 DEF Fuse, FuseAgain, CheckBeforeLoad, Load, Rerank, AfterFusion
  <2> QED
    BY SMTT(30), <2>1
<1>5. ASSUME CheckAfterLoad PROVE SecondInv'
  <2>1. CASE pc' \in {"failed"}
    BY <1>5, <2>1 DEF CheckAfterLoad
  <2>2. CASE pc' = "intent"
    BY <1>5, <2>2, TheOne DEF CheckAfterLoad
  <2>3. CASE pc' = "searched"
    <3>1. first' = first /\ (first # {} => ranking' = Keeps(The(first), ranking))
      BY <1>5, <2>3 DEF CheckAfterLoad
    <3>2. first # {} => RanksAsWell(The(first), ranking')
      BY <3>1 DEF Keeps, RanksAsWell
    <3>3. The(first)' = The(first)
      BY <3>1
    <3> QED
      BY <2>3, <3>1, <3>2, <3>3 DEF RanksAsWell
  <2> QED
    BY <1>5, <2>1, <2>2, <2>3 DEF CheckAfterLoad
<1>6. ASSUME NothingAdded PROVE SecondInv'
  <2>1. UNCHANGED <<first, ranking>> /\ first = {ranking} /\ pc' # "intent"
    BY <1>6 DEF NothingAdded
  <2>2. RanksAsWell(ranking, ranking)
    BY DEF RanksAsWell
  <2>3. (first # {} => first = {The(first)})' /\ The(first)' = ranking'
    BY <2>1, TheOne
  <2>4. RanksAsWell(The(first), ranking)'
    BY <2>1, <2>2, <2>3 DEF RanksAsWell
  <2> QED
    BY <2>1, <2>3, <2>4
<1>7. ASSUME Handoff \/ Assemble \/ FinishAssembly \/ RefuseToAnswer \/ Chat \/ Deliver
      PROVE  SecondInv'
  <2>1. first' \in {{}, first} /\ pc' \notin {"intent", "searched"}
    BY <1>7 DEF Handoff, Assemble, FinishAssembly, RefuseToAnswer, Chat, Deliver, End
  <2> QED
    BY <2>1
<1> QED
  BY <1>1, <1>2, <1>3, <1>4, <1>5, <1>6, <1>7 DEF Next, Steps

(* Whatever the second pass of a search gave, and whether the expansion found
   anything: a search whose first ranking was reranked, or held a candidate,
   ends with one that is and does (conditional_search, ranks_as_well). *)
THEOREM SecondRanksAsWellHolds == Spec => []SecondRanksAsWell
<1>1. Init => SecondInv
  BY DEF Init, SecondInv, SecondRanksAsWell
<1>2. ASSUME SecondInv, [Next]_vars PROVE SecondInv'
  <2>1. CASE Next
    BY <1>2, <2>1, SecondSteps
  <2>2. CASE UNCHANGED vars
    BY <1>2, <2>2 DEF SecondInv, SecondRanksAsWell, vars, passVars
  <2> QED
    BY <1>2, <2>1, <2>2
<1>3. SecondInv => SecondRanksAsWell
  BY DEF SecondInv
<1> QED
  BY <1>1, <1>2, <1>3, PTL DEF Spec

-----------------------------------------------------------------------------
(* The scores of the first pass meet those of the second. *)

Scored(list) == {p \in DOMAIN list : list[p].score # None}

(* A pass ranks chunks once each, and scores them only if its rerank ended
   well. *)
IsPass(pass) == Ranked(pass.ranked, Chunk) /\ (Scored(pass.ranked) # {} => pass.ok)

(* What the routes, the fusion and the passes hold. *)
PassesAreTyped ==
    /\ \E request \in Requests : cfg = request.cfg
    /\ DOMAIN outcome = Routes /\ \A r \in Routes : outcome[r].hits \in Seq(Chunk)
    /\ pool.added \in Nat /\ Distinct(pool.fused, Chunk)
    /\ IsPass(ranking) /\ \A pass \in first : IsPass(pass)

(* The votes of the first pass, and the chunks it sends to the reranker. *)
OriginalVotes == [r \in OriginalRoutes |-> Votes(r)]
Kept == KeptFirst(OriginalVotes, Weights, cfg)

LEMMA SettingsAreTyped ==
    ASSUME PassesAreTyped
    PROVE  /\ cfg.depth \in Nat /\ cfg.pool \in Nat /\ cfg.k \in Nat /\ cfg.additions \in Nat
           /\ \A source \in cfg.penalized :
                  PolicyIsValid([cfg.policy EXCEPT !.source.ids = source])
  BY RequestsAreTyped DEF PassesAreTyped

LEMMA FusedKeeps ==
    ASSUME PassesAreTyped, NEW intent \in SUBSET IntentRoutes
    PROVE  PoolKeeps(Fused(intent), Chunk, Kept, cfg.depth, intent # {})
<1> DEFINE votes == [r \in intent |-> Votes(r)]
<1>1. \A r \in Routes : Votes(r) \in Seq(Chunk) /\ Weights[r] = 1
  BY DEF PassesAreTyped, Votes, Weights, Routes
<1>2. IsFiniteSet(Chunk) /\ Chunk \subseteq Nat
  BY RequestsAreTyped
<1>3. RoutesList(OriginalVotes, Weights, Chunk) /\ RoutesList(votes, Weights, Chunk)
  BY <1>1, <1>2 DEF RoutesList, OriginalVotes, Routes
<1>4. DOMAIN votes = intent
  OBVIOUS
<1>5. Fused(intent) = Pool(OriginalVotes, votes, Weights, cfg)
  BY DEF Fused, OriginalVotes
<1> HIDE DEF votes
<1>6. PoolKeeps(Pool(OriginalVotes, votes, Weights, cfg), Chunk,
                KeptFirst(OriginalVotes, Weights, cfg), cfg.depth, DOMAIN votes # {})
  BY <1>3, SettingsAreTyped, PoolHolds
<1> QED
  BY <1>4, <1>5, <1>6 DEF Kept

(* The scores that are known are those the first pass gave. *)
LEMMA KnownIsScored ==
    ASSUME PassesAreTyped, first # {} => first = {The(first)}
    PROVE  /\ \A c \in DOMAIN Known : Known[c] \in Int
           /\ first # {} => \A p \in Scored(The(first).ranked) :
                 /\ The(first).ranked[p].id \in DOMAIN Known
                 /\ {Known[The(first).ranked[p].id]} = The(first).ranked[p].score
<1>1. CASE first = {}
  BY <1>1 DEF Known
<1>2. CASE first # {}
  <2>1. PICK list : list = The(first).ranked
    OBVIOUS
  <2>2. Ranked(list, Chunk)
    BY <1>2, <2>1 DEF PassesAreTyped, IsPass
  <2> DEFINE scored == {p \in DOMAIN list : list[p].score # None}
             Of(c) == CHOOSE p \in scored : list[p].id = c
  <2>3. Known = [c \in {list[p].id : p \in scored} |-> The(list[Of(c)].score)]
    BY <1>2, <2>1 DEF Known
  <2>4. \A p \in scored : Of(list[p].id) = p
    <3> TAKE p \in scored
    <3>1. Of(list[p].id) \in scored /\ list[Of(list[p].id)].id = list[p].id
      BY Zenon
    <3> HIDE DEF Of
    <3> QED
      BY <2>2, <3>1 DEF Ranked
  <2>5. \A p \in scored : \E x \in Int : list[p].score = {x}
    BY <2>2 DEF Ranked, IsScore
  <2> HIDE DEF Of
  <2>6. \A p \in scored : /\ list[p].id \in DOMAIN Known
                          /\ {Known[list[p].id]} = list[p].score
                          /\ Known[list[p].id] \in Int
    <3> TAKE p \in scored
    <3>1. PICK x \in Int : list[p].score = {x}
      BY <2>5
    <3>2. Known[list[p].id] = The(list[p].score)
      BY <2>3, <2>4
    <3> QED
      BY <2>3, <3>1, <3>2, TheOne
  <2>7. \A c \in DOMAIN Known : \E p \in scored : list[p].id = c
    BY <2>3
  <2> QED
    BY <2>1, <2>6, <2>7 DEF Scored
<1> QED
  BY <1>1, <1>2

(* A rerank: how the ranking it leaves comes of what the model made. *)
RerankGives(made, head) ==
    /\ Reranks(made, Chunk, pool.fused, head, Known)
    /\ head \in {0, cfg.depth + pool.added} /\ (made.ok => head > 0)
    /\ IsPass(ranking') /\ ranking'.ok = made.ok
    /\ SameEntries(ranking'.ranked, made.ranked, Chunk)

LEMMA RerankMakes ==
    ASSUME PassesAreTyped, first # {} => first = {The(first)}, Rerank
    PROVE  \E made, head : RerankGives(made, head)
<1> DEFINE head == IF cfg.rerank THEN cfg.depth + pool.added ELSE 0
           Made(available) == RerankReusing(pool.fused, head, Known, Model, available)
           Ids(list) == [p \in DOMAIN list |-> list[p].id]
           Order(ids, source) == ApplyRankPolicies(ids, pool.fused,
                                    [cfg.policy EXCEPT !.source.ids = source])
           Final(list, order) ==
               [p \in DOMAIN order |-> list[Position(Ids(list), order[p])]]
<1>1. PICK available \in IF now < Setup THEN BOOLEAN ELSE {FALSE}, source \in cfg.penalized :
         ranking' = [ranked |-> Final(Made(available).ranked, Order(Ids(Made(available).ranked), source)),
                     ok |-> Made(available).ok]
  BY Zenon DEF Rerank
<1>2. head \in Nat /\ head \in {0, cfg.depth + pool.added}
  BY SettingsAreTyped DEF PassesAreTyped
<1>3. Distinct(pool.fused, Chunk)
  BY DEF PassesAreTyped
<1> HIDE DEF head
<1>4. PICK made : made = Made(available)
  OBVIOUS
<1>5. Reranks(made, Chunk, pool.fused, head, Known)
  <2>1. ModelScores(Model, Chunk)
    BY RequestsAreTyped DEF ModelScores
  <2>2. \A c \in DOMAIN Known : Known[c] \in Int
    BY KnownIsScored
  <2> QED
    BY <1>2, <1>3, <1>4, <2>1, <2>2, RerankHolds
<1>6. made.ok => head > 0
  BY <1>4, Zenon DEF RerankReusing
<1> HIDE DEF Made
<1> DEFINE ids == Ids(made.ranked)
           order == Order(ids, source)
           final == Final(made.ranked, order)
           S == Range(pool.fused)
<1>7. ranking' = [ranked |-> final, ok |-> made.ok]
  BY <1>1, <1>4
<1>8. Ranked(made.ranked, Chunk) /\ DOMAIN made.ranked = 1 .. Len(pool.fused)
  BY <1>5 DEF Reranks
<1>9. Lists(pool.fused, S) /\ \A c : c \in S <=> \E i \in 1 .. Len(pool.fused) : pool.fused[i] = c
  BY <1>3, DistinctIsListed
<1>10. Len(pool.fused) \in Nat
  BY <1>3 DEF Distinct
<1>11. \A c : c \in S <=> \E p \in DOMAIN made.ranked : made.ranked[p].id = c
  BY <1>5, <1>9 DEF Reranks
<1> HIDE DEF S
<1>12. ids \in Seq(S) /\ Len(ids) = Len(pool.fused)
  <2>1. \A p \in 1 .. Len(pool.fused) : made.ranked[p].id \in S
    BY <1>8, <1>11
  <2> QED
    BY <1>8, <1>10, <2>1
<1>13. Lists(ids, S)
  <2>1. \A p \in 1 .. Len(pool.fused) : ids[p] = made.ranked[p].id
    BY <1>8
  <2>2. \A p, q \in 1 .. Len(pool.fused) : ids[p] = ids[q] => p = q
    BY <1>8, <2>1 DEF Ranked
  <2>3. \A c \in S : \E p \in 1 .. Len(pool.fused) : ids[p] = c
    BY <1>8, <1>11, <2>1
  <2> HIDE DEF ids
  <2> QED
    BY <1>12, <2>2, <2>3 DEF Lists
<1>14. ids = [p \in DOMAIN made.ranked |-> made.ranked[p].id]
  OBVIOUS
<1>15. PICK policy : policy = [cfg.policy EXCEPT !.source.ids = source]
  OBVIOUS
<1>16. PolicyIsValid(policy)
  BY <1>15, SettingsAreTyped
<1>17. order = ApplyRankPolicies(ids, pool.fused, policy)
  BY <1>15
<1>18. final = [p \in DOMAIN order |-> made.ranked[Position(ids, order[p])]]
  OBVIOUS
<1> HIDE DEF ids, order, final
<1>19. Lists(order, S) /\ PoliciesHold(ids, pool.fused, policy)
  BY <1>9, <1>13, <1>16, <1>17, PoliciesHoldAlways
<1>20. Len(order) = Len(ids)
  BY <1>17, <1>19 DEF PoliciesHold
<1>21. Range(ids) = S
  BY <1>13, ListedRange
<1>22. SameEntries(final, made.ranked, Chunk)
  <2>1. Lists(order, Range(ids))
    BY <1>19, <1>21
  <2>2. PICK reranked : reranked = made.ranked
    OBVIOUS
  <2>3. Ranked(reranked, Chunk) /\ ids = [p \in DOMAIN reranked |-> reranked[p].id]
    BY <1>8, <1>14, <2>2
  <2>4. SameEntries([p \in DOMAIN order |-> reranked[Position(ids, order[p])]], reranked, Chunk)
    BY <1>20, <2>1, <2>3, ReorderedHolds
  <2> QED
    BY <1>18, <2>2, <2>4
<1>23. Scored(final) # {} => made.ok
  <2>1. \A p \in DOMAIN final : final[p].score # None => made.ok
    BY <1>5, <1>22 DEF Reranks, SameEntries
  <2> QED
    BY <2>1 DEF Scored
<1>24. ranking'.ranked = final /\ ranking'.ok = made.ok
  BY <1>7
<1>25. RerankGives(made, head)
  BY <1>2, <1>5, <1>6, <1>22, <1>23, <1>24 DEF RerankGives, IsPass, SameEntries
<1> QED
  BY <1>25

(* The second pass asks for the chunks the first kept, and each stage after
   the routes holds what the next needs of it. *)
BeforeFusion == BeforePin \cup {"routes"}
BeforeRank == {"check", "load", "rerank"}
Finishing == BeforeRank \cup {"recheck"}

FirstIsNotAsked ==
    /\ pc \in BeforeFusion => first = {}
    /\ pc \in BeforeFusion \cup Finishing /\ first = {} /\ cfg.intent = "low" => expansion = "idle"

FirstPool ==
    pc \in BeforeRank /\ first = {} /\ cfg.intent = "low" =>
        /\ pool.added = 0
        /\ \A i \in 1 .. Len(pool.fused) : i <= cfg.depth => pool.fused[i] \in Kept

KeepsTo(list) == \A p \in Scored(list) : list[p].id \in Kept

FirstScores ==
    /\ pc = "recheck" /\ first = {} /\ cfg.intent = "low" => KeepsTo(ranking.ranked)
    /\ pc \in Finishing \cup {"intent"} /\ first # {} => KeepsTo(The(first).ranked)

SecondPool ==
    pc \in BeforeRank /\ first # {} =>
        \A c \in Kept : \E i \in 1 .. Len(pool.fused) :
            pool.fused[i] = c /\ i <= cfg.depth + pool.added

(* Every score of a list is one of another's. *)
ScoresStay(before, after) ==
    \A p \in Scored(before) : \E q \in DOMAIN after : after[q].score = before[p].score

SecondScores ==
    pc = "recheck" /\ first # {} /\ ranking.ok => ScoresStay(The(first).ranked, ranking.ranked)

TopStays(before, after) ==
    TopRerankScore(before) # None =>
        /\ TopRerankScore(after) # None
        /\ The(TopRerankScore(after)) >= The(TopRerankScore(before))

SecondTop == pc = "searched" /\ first # {} => TopStays(The(first).ranked, ranking.ranked)

PassInv ==
    /\ PassesAreTyped /\ SecondInv /\ FirstIsNotAsked /\ FirstPool /\ FirstScores
    /\ SecondPool /\ SecondScores /\ SecondTop

LEMMA InitPassInv == Init => PassInv
<1> SUFFICES ASSUME Init PROVE PassInv
  OBVIOUS
<1>1. pc = "opening" /\ first = {} /\ expansion = "idle"
  BY DEF Init
<1>2. IsPass(ranking)
  <2>1. DOMAIN ranking.ranked = 1 .. 0
    BY DEF Init, NoRanking
  <2>2. 0 \in Nat /\ 1 .. 0 = {}
    OBVIOUS
  <2>3. Ranked(ranking.ranked, Chunk)
    BY <2>1, <2>2 DEF Ranked
  <2>4. Scored(ranking.ranked) = {}
    BY <2>1, <2>2 DEF Scored
  <2> QED
    BY <2>3, <2>4 DEF IsPass
<1>3. pool.added \in Nat /\ Distinct(pool.fused, Chunk)
  BY DEF Init, NoPool, Distinct
<1>4. DOMAIN outcome = Routes /\ \A r \in Routes : outcome[r].hits \in Seq(Chunk)
  BY DEF Init, Pending, Routes
<1>5. \E request \in Requests : cfg = request.cfg
  BY DEF Init
<1>6. PassesAreTyped
  BY <1>1, <1>2, <1>3, <1>4, <1>5 DEF PassesAreTyped
<1>7. /\ SecondInv /\ FirstIsNotAsked /\ FirstPool /\ FirstScores
      /\ SecondPool /\ SecondScores /\ SecondTop
  BY <1>1 DEF SecondInv, SecondRanksAsWell, FirstIsNotAsked, FirstPool, FirstScores,
              SecondPool, SecondScores, SecondTop, BeforeRank, Finishing
<1> QED
  BY <1>6, <1>7 DEF PassInv

(* While the settings and the original routes' outcomes stay, so do the chunks
   kept. *)
LEMMA KeptStays ==
    ASSUME UNCHANGED cfg, \A r \in OriginalRoutes : outcome'[r] = outcome[r]
    PROVE  Kept' = Kept
<1>1. OriginalVotes' = OriginalVotes
  BY DEF OriginalVotes, Votes
<1> QED
  BY <1>1 DEF Kept, Weights

(* Steps that leave the passes and the settings alone, and do not enter a
   stage that finishes one. *)
LEMMA QuietKeeps ==
    ASSUME PassInv, SecondInv', UNCHANGED <<cfg, outcome, pool, ranking, first>>,
           \/ UNCHANGED <<pc, expansion>>
           \/ pc = "intent" /\ pc' = "intent"
           \/ pc' \notin BeforeFusion \cup Finishing \cup {"intent", "searched"}
           \/ /\ pc \in BeforeFusion /\ pc' \in BeforeFusion
              /\ cfg.intent = "low" => UNCHANGED expansion
           \/ pc \in BeforeRank /\ pc' \in BeforeRank /\ UNCHANGED expansion
    PROVE  PassInv'
<1>1. Kept' = Kept
  BY KeptStays
<1>2. PassesAreTyped'
  BY DEF PassInv, PassesAreTyped, IsPass, Scored, Routes
<1>3. FirstIsNotAsked'
  BY DEF PassInv, FirstIsNotAsked, BeforeFusion, BeforePin, BeforeRank, Finishing
<1>4. FirstPool' /\ SecondPool'
  BY <1>1 DEF PassInv, FirstPool, SecondPool, BeforeFusion, BeforePin, BeforeRank, Finishing
<1>5. FirstScores'
  <2>1. KeepsTo(ranking.ranked)' <=> KeepsTo(ranking.ranked)
    BY <1>1 DEF KeepsTo, Scored
  <2>2. KeepsTo(The(first).ranked)' <=> KeepsTo(The(first).ranked)
    BY <1>1 DEF KeepsTo, Scored
  <2> QED
    BY <2>1, <2>2 DEF PassInv, FirstScores, BeforeFusion, BeforePin, BeforeRank, Finishing
<1>6. SecondScores' /\ SecondTop'
  BY DEF PassInv, SecondScores, SecondTop, BeforeFusion, BeforePin, BeforeRank, Finishing
<1> QED
  BY <1>2, <1>3, <1>4, <1>5, <1>6 DEF PassInv

LEMMA QuietSteps ==
    ASSUME PassInv, SecondInv',
           \/ World \/ Tick \/ Rest \/ UNCHANGED vars
           \/ Open \/ PinModels \/ AdmissionReadsScopes \/ Pin \/ NothingToPin \/ AdmissionTimesOut
           \/ Expand \/ ReadyReranker \/ CheckBeforeLoad
           \/ Assemble \/ FinishAssembly \/ RefuseToAnswer \/ Chat \/ Deliver
    PROVE  PassInv'
<1> USE DEF BeforeFusion, BeforePin, Finishing, BeforeRank, worldVars, pinVars, passVars, bundleVars
<1>1. CASE World \/ Tick \/ Rest \/ UNCHANGED vars \/ ReadyReranker
  <2>1. UNCHANGED <<pc, expansion, cfg, outcome, pool, ranking, first>>
    BY <1>1 DEF World, EditConfig, Reconcile, PublishNext, Tick, Rest, vars, ReadyReranker
  <2> QED
    BY <2>1, QuietKeeps
<1>2. CASE Open \/ PinModels \/ AdmissionReadsScopes \/ Pin
  <2>1. /\ pc \in BeforeFusion /\ pc' \in BeforeFusion
        /\ UNCHANGED <<cfg, outcome, pool, ranking, first>>
    BY <1>2 DEF Open, PinModels, AdmissionReadsScopes, Pin
  <2>2. cfg.intent = "low" => UNCHANGED expansion
    BY <1>2 DEF Open, PinModels, AdmissionReadsScopes, Pin, PassInv, FirstIsNotAsked
  <2> QED
    BY <2>1, <2>2, QuietKeeps
<1>3. CASE NothingToPin \/ AdmissionTimesOut
  <2>1. /\ pc' \notin BeforeFusion \cup Finishing \cup {"intent", "searched"}
        /\ UNCHANGED <<cfg, outcome, pool, ranking, first>>
    BY <1>3 DEF NothingToPin, AdmissionTimesOut, End
  <2> QED
    BY <2>1, QuietKeeps
<1>4. CASE Expand
  <2>1. UNCHANGED <<pc, cfg, outcome, pool, ranking, first>> /\ pc \in {"routes", "intent"}
    BY <1>4 DEF Expand
  <2>2. pc = "routes" => cfg.intent # "low"
    BY <1>4 DEF Expand, PassInv, FirstIsNotAsked
  <2> QED
    BY <2>1, <2>2, QuietKeeps
<1>5. CASE CheckBeforeLoad
  <2>1. /\ UNCHANGED <<cfg, outcome, pool, ranking, first, expansion>>
        /\ pc = "check" /\ pc' \in {"load", "failed"}
    BY <1>5 DEF CheckBeforeLoad
  <2> QED
    BY <2>1, QuietKeeps
<1>6. CASE Assemble \/ FinishAssembly \/ RefuseToAnswer \/ Chat \/ Deliver
  <2>1. UNCHANGED <<cfg, outcome, pool, ranking, first>>
    BY <1>6 DEF Assemble, FinishAssembly, RefuseToAnswer, Chat, Deliver, End
  <2>2. pc' \notin BeforeFusion \cup Finishing \cup {"intent", "searched"}
    BY <1>6 DEF Assemble, FinishAssembly, RefuseToAnswer, Chat, Deliver, End, MaxChats
  <2> QED
    BY <2>1, <2>2, QuietKeeps
<1> QED
  BY <1>1, <1>2, <1>3, <1>4, <1>5, <1>6

(* A route of the second pass votes beside those of the first. *)
LEMMA RouteSteps ==
    ASSUME PassInv, SecondInv', NEW r \in Routes, RouteAnswers(r) \/ RouteFails(r)
    PROVE  PassInv'
<1>1. /\ pc \in {"routes", "intent"} /\ r \in Running
      /\ UNCHANGED <<pc, cfg, expansion, pool, ranking, first>>
  BY DEF RouteAnswers, RouteFails, pinVars
<1>2. PICK answer : outcome' = [outcome EXCEPT ![r] = answer] /\ answer.hits \in Seq(Chunk)
  <2>1. HitLists \subseteq Seq(Chunk) /\ << >> \in Seq(Chunk)
    BY RequestsAreTyped
  <2>2. CASE RouteAnswers(r)
    <3>1. PICK hits \in HitLists : outcome' = [outcome EXCEPT ![r] = Available(hits)]
      BY <2>2 DEF RouteAnswers
    <3>2. Available(hits).hits \in Seq(Chunk)
      BY <2>1 DEF Available
    <3> QED
      BY <3>1, <3>2
  <2>3. CASE RouteFails(r)
    <3>1. PICK hits \in HitLists \cup {<< >>} : outcome' = [outcome EXCEPT ![r] = Unavailable(hits)]
      BY <2>3 DEF RouteFails
    <3>2. Unavailable(hits).hits \in Seq(Chunk)
      BY <2>1 DEF Unavailable
    <3> QED
      BY <3>1, <3>2
  <2> QED
    BY <2>2, <2>3
<1>3. DOMAIN outcome' = Routes /\ \A q \in Routes : outcome'[q].hits \in Seq(Chunk)
  BY <1>2 DEF PassInv, PassesAreTyped
<1>4. PassesAreTyped'
  BY <1>1, <1>3 DEF PassInv, PassesAreTyped, IsPass, Scored, Routes
<1>5. FirstIsNotAsked'
  BY <1>1 DEF PassInv, FirstIsNotAsked
<1>6. FirstPool' /\ SecondPool' /\ SecondScores' /\ SecondTop'
  BY <1>1 DEF FirstPool, SecondPool, SecondScores, SecondTop, BeforeRank
<1>7. FirstScores'
  <2>1. CASE pc = "routes"
    BY <1>1, <2>1 DEF PassInv, FirstIsNotAsked, FirstScores, BeforeFusion, BeforeRank, Finishing
  <2>2. CASE pc = "intent"
    <3>1. \A q \in OriginalRoutes : q # r
      BY <1>1, <2>2, RequestsAreTyped DEF Running
    <3>2. \A q \in OriginalRoutes : outcome'[q] = outcome[q]
      BY <1>2, <3>1
    <3>3. Kept' = Kept
      BY <1>1, <3>2, KeptStays
    <3>4. KeepsTo(The(first).ranked)' <=> KeepsTo(The(first).ranked)
      BY <1>1, <3>3 DEF KeepsTo, Scored
    <3> QED
      BY <1>1, <2>2, <3>4 DEF PassInv, FirstScores
  <2> QED
    BY <1>1, <2>1, <2>2
<1> QED
  BY <1>4, <1>5, <1>6, <1>7 DEF PassInv

LEMMA FusionSteps == ASSUME PassInv, SecondInv', Fuse \/ FuseAgain PROVE PassInv'
<1> DEFINE intent == IF Fuse /\ expansion # "made" THEN {} ELSE IntentRoutes
<1>1. /\ pool' = Fused(intent) /\ pc' \in {"load", "check"}
      /\ UNCHANGED <<cfg, outcome, ranking, first, expansion>>
  BY DEF Fuse, FuseAgain, AfterFusion, pinVars
<1>2. FuseAgain => intent # {}
  BY DEF Fuse, FuseAgain, Found
<1>3. intent \in SUBSET IntentRoutes
  OBVIOUS
<1>4. first = {} /\ cfg.intent = "low" => intent = {}
  BY DEF Fuse, FuseAgain, PassInv, SecondInv, FirstIsNotAsked, BeforeFusion
<1>5. first # {} => FuseAgain
  BY DEF Fuse, PassInv, FirstIsNotAsked, BeforeFusion
<1>6. first # {} \/ cfg.intent # "low" \/ expansion = "idle"
  BY DEF Fuse, FuseAgain, PassInv, SecondInv, FirstIsNotAsked, BeforeFusion
<1> HIDE DEF intent
<1>7. PoolKeeps(pool', Chunk, Kept, cfg.depth, intent # {})
  BY <1>1, <1>3, FusedKeeps DEF PassInv
<1>8. Kept' = Kept
  BY <1>1, KeptStays
<1>9. PassesAreTyped'
  BY <1>1, <1>7 DEF PassInv, PassesAreTyped, IsPass, Scored, Routes, PoolKeeps
<1>10. FirstIsNotAsked'
  BY <1>1, <1>6 DEF FirstIsNotAsked, BeforeFusion, BeforePin
<1>11. FirstPool'
  BY <1>1, <1>4, <1>7, <1>8 DEF FirstPool, PoolKeeps
<1>12. SecondPool'
  BY <1>1, <1>2, <1>5, <1>7, <1>8 DEF SecondPool, PoolKeeps
<1>13. FirstScores'
  <2>1. first # {} => KeepsTo(The(first).ranked)
    BY <1>5 DEF FuseAgain, PassInv, FirstScores
  <2>2. KeepsTo(The(first).ranked)' <=> KeepsTo(The(first).ranked)
    BY <1>1, <1>8 DEF KeepsTo, Scored
  <2> QED
    BY <1>1, <2>1, <2>2 DEF FirstScores
<1>14. SecondScores' /\ SecondTop'
  BY <1>1 DEF SecondScores, SecondTop
<1> QED
  BY <1>9, <1>10, <1>11, <1>12, <1>13, <1>14 DEF PassInv

LEMMA LoadSteps == ASSUME PassInv, SecondInv', Load PROVE PassInv'
<1>1. /\ pc = "load" /\ UNCHANGED <<cfg, outcome, pool, first, expansion>>
      /\ \/ pc' \in {"rerank", "failed"} /\ UNCHANGED ranking
         \/ pc' = "recheck" /\ ranking' = NoRanking
  BY DEF Load, pinVars
<1>2. CASE pc' \in {"rerank", "failed"} /\ UNCHANGED ranking
  BY <1>1, <1>2, QuietKeeps DEF BeforeFusion, BeforePin, Finishing, BeforeRank
<1>3. CASE pc' = "recheck" /\ ranking' = NoRanking
  <2>1. ranking'.ok = FALSE /\ DOMAIN ranking'.ranked = 1 .. 0 /\ 1 .. 0 = {} /\ 0 \in Nat
    BY <1>3 DEF NoRanking
  <2>2. IsPass(ranking') /\ Scored(ranking'.ranked) = {}
    BY <2>1 DEF IsPass, Ranked, Scored
  <2>3. PassesAreTyped'
    BY <1>1, <2>2 DEF PassInv, PassesAreTyped, IsPass, Scored, Routes
  <2>4. FirstIsNotAsked'
    BY <1>1, <1>3 DEF PassInv, FirstIsNotAsked, BeforeFusion, BeforePin, Finishing, BeforeRank
  <2>5. Kept' = Kept
    BY <1>1, KeptStays
  <2>6. KeepsTo(ranking.ranked)'
    BY <2>2 DEF KeepsTo, Scored
  <2>7. KeepsTo(The(first).ranked)' <=> KeepsTo(The(first).ranked)
    BY <1>1, <2>5 DEF KeepsTo, Scored
  <2>8. FirstScores'
    BY <1>1, <1>3, <2>6, <2>7 DEF PassInv, FirstScores, Finishing, BeforeRank
  <2>9. FirstPool' /\ SecondPool' /\ SecondScores' /\ SecondTop'
    BY <1>3, <2>1 DEF FirstPool, SecondPool, SecondScores, SecondTop, BeforeRank
  <2> QED
    BY <2>3, <2>4, <2>8, <2>9 DEF PassInv
<1> QED
  BY <1>1, <1>2, <1>3

(* A second rerank that ends well scores each chunk the first had scored, for
   it asks for all of those and takes the score that is known. *)
LEMMA RerankSteps == ASSUME PassInv, SecondInv', Rerank PROVE PassInv'
<1>1. /\ pc = "rerank" /\ pc' = "recheck"
      /\ UNCHANGED <<cfg, outcome, pool, first, expansion>>
  BY DEF Rerank, pinVars
<1>2. PassesAreTyped /\ (first # {} => first = {The(first)})
  BY DEF PassInv, SecondInv
<1>3. PICK made, head : RerankGives(made, head)
  BY <1>2, RerankMakes
<1>4. Kept' = Kept
  BY <1>1, KeptStays
<1>5. /\ cfg.depth \in Nat /\ pool.added \in Nat /\ Len(pool.fused) \in Nat
  BY <1>2, SettingsAreTyped DEF PassesAreTyped, Distinct
<1>6. PassesAreTyped'
  BY <1>1, <1>2, <1>3 DEF PassesAreTyped, IsPass, Scored, Routes, RerankGives
<1>7. FirstIsNotAsked'
  BY <1>1 DEF PassInv, FirstIsNotAsked, BeforeFusion, BeforePin, Finishing, BeforeRank
<1>8. KeepsTo(The(first).ranked)' <=> KeepsTo(The(first).ranked)
  BY <1>1, <1>4 DEF KeepsTo, Scored
<1>9. ASSUME first = {}, cfg.intent = "low" PROVE KeepsTo(ranking.ranked)'
  <2>1. /\ pool.added = 0
        /\ \A i \in 1 .. Len(pool.fused) : i <= cfg.depth => pool.fused[i] \in Kept
    BY <1>1, <1>9 DEF PassInv, FirstPool, BeforeRank
  <2>2. head \in {0, cfg.depth}
    BY <1>3, <1>5, <2>1 DEF RerankGives
  <2>3. ASSUME NEW p \in DOMAIN ranking'.ranked, ranking'.ranked[p].score # None
        PROVE  ranking'.ranked[p].id \in Kept
    <3>1. PICK q \in DOMAIN made.ranked : ranking'.ranked[p] = made.ranked[q]
      BY <1>3 DEF RerankGives, SameEntries
    <3>2. PICK i \in 1 .. Len(pool.fused) : i <= head /\ pool.fused[i] = made.ranked[q].id
      BY <1>3, <2>3, <3>1 DEF RerankGives, Reranks
    <3>3. i <= cfg.depth
      BY <1>5, <2>2, <3>2
    <3> QED
      BY <2>1, <3>1, <3>2, <3>3
  <2> QED
    BY <1>4, <2>3 DEF KeepsTo, Scored
<1>10. FirstScores'
  BY <1>1, <1>8, <1>9 DEF PassInv, FirstScores, Finishing, BeforeRank
<1>11. ASSUME first # {}, ranking'.ok PROVE ScoresStay(The(first).ranked, ranking'.ranked)
  <2>1. head = cfg.depth + pool.added
    <3>1. head \in {0, cfg.depth + pool.added} /\ head > 0
      BY <1>3, <1>11 DEF RerankGives
    <3>2. head # 0
      BY <3>1
    <3> QED
      BY <3>1, <3>2
  <2>2. ASSUME NEW p \in Scored(The(first).ranked)
        PROVE  \E q \in DOMAIN ranking'.ranked :
                   ranking'.ranked[q].score = The(first).ranked[p].score
    <3> DEFINE c == The(first).ranked[p].id
    <3>1. c \in Kept
      BY <1>1, <1>11 DEF PassInv, FirstScores, KeepsTo, Finishing, BeforeRank
    <3>2. PICK i \in 1 .. Len(pool.fused) : pool.fused[i] = c /\ i <= cfg.depth + pool.added
      BY <1>1, <1>11, <3>1 DEF PassInv, SecondPool, BeforeRank
    <3>3. c \in DOMAIN Known /\ {Known[c]} = The(first).ranked[p].score
      BY <1>2, <1>11, KnownIsScored
    <3> HIDE DEF c
    <3>4. i <= head /\ pool.fused[i] \in DOMAIN Known
      BY <2>1, <3>2, <3>3
    <3>5. made.ok /\ Reranks(made, Chunk, pool.fused, head, Known)
      BY <1>3, <1>11 DEF RerankGives
    <3>6. PICK q \in DOMAIN made.ranked : made.ranked[q].score = {Known[pool.fused[i]]}
      BY <3>4, <3>5 DEF Reranks
    <3>7. PICK s \in DOMAIN ranking'.ranked : ranking'.ranked[s] = made.ranked[q]
      BY <1>3 DEF RerankGives, SameEntries
    <3> QED
      BY <3>2, <3>3, <3>6, <3>7
  <2> QED
    BY <2>2 DEF ScoresStay
<1>12. SecondScores'
  BY <1>1, <1>11 DEF SecondScores
<1>13. FirstPool' /\ SecondPool' /\ SecondTop'
  BY <1>1 DEF FirstPool, SecondPool, SecondTop, BeforeRank
<1> QED
  BY ZenonT(60), <1>6, <1>7, <1>10, <1>12, <1>13 DEF PassInv

(* The first ranking ends its pass, or waits for the second; of two, the one
   that is kept holds the best score of the first. *)
LEMMA RecheckSteps == ASSUME PassInv, SecondInv', CheckAfterLoad PROVE PassInv'
<1>1. pc = "recheck" /\ UNCHANGED <<cfg, outcome, pool>> /\ pc' \in {"failed", "searched", "intent"}
  BY DEF CheckAfterLoad, pinVars
<1>2. Kept' = Kept
  BY <1>1, KeptStays
<1>3. first = {} \/ first = {The(first)}
  BY DEF PassInv, SecondInv
<1>4. /\ ranking' \in {ranking} \cup first /\ first' \in {first, {ranking}}
      /\ pc' = "intent" => first = {} /\ cfg.intent = "low" /\ first' = {ranking}
      /\ pc' = "searched" => first' = first
      /\ pc' = "searched" /\ first # {} => ranking' = Keeps(The(first), ranking)
  BY <1>3 DEF CheckAfterLoad, Keeps
<1>5. PassesAreTyped'
  <2>1. IsPass(ranking') /\ \A pass \in first' : IsPass(pass)
    BY <1>4 DEF PassInv, PassesAreTyped
  <2>2. IsPass(ranking)' /\ \A pass \in first' : IsPass(pass)'
    BY <2>1 DEF IsPass, Scored
  <2> QED
    BY <1>1, <2>2 DEF PassInv, PassesAreTyped, Routes
<1>6. FirstIsNotAsked' /\ FirstPool' /\ SecondPool' /\ SecondScores'
  BY <1>1 DEF FirstIsNotAsked, FirstPool, SecondPool, SecondScores, BeforeFusion, BeforePin,
              BeforeRank, Finishing
<1>7. FirstScores'
  <2>1. CASE pc' = "intent"
    <3>1. KeepsTo(ranking.ranked)
      BY <1>1, <1>4, <2>1 DEF PassInv, FirstScores
    <3>2. The(first)' = ranking
      BY <1>4, <2>1, TheOne
    <3>3. KeepsTo(The(first).ranked)'
      BY <1>2, <3>1, <3>2 DEF KeepsTo, Scored
    <3> QED
      BY <2>1, <3>3 DEF FirstScores
  <2> QED
    BY <1>1, <2>1 DEF FirstScores, BeforeRank, Finishing
<1>8. SecondTop'
  <2> SUFFICES ASSUME pc' = "searched", first' # {}
               PROVE  TopStays(The(first)'.ranked, ranking'.ranked)
    BY DEF SecondTop
  <2> DEFINE before == The(first)
  <2>1. first' = first /\ first # {} /\ first = {before} /\ The(first)' = before
    BY <1>3, <1>4
  <2>2. ranking' = Keeps(before, ranking)
    BY <1>4, <2>1
  <2>3. IsPass(before) /\ IsPass(ranking)
    BY <2>1 DEF PassInv, PassesAreTyped
  <2>4. ranking.ok => ScoresStay(before.ranked, ranking.ranked)
    BY <1>1, <2>1 DEF PassInv, SecondScores
  <2> HIDE DEF before
  <2>5. Ranked(before.ranked, Chunk) /\ Ranked(ranking.ranked, Chunk)
    BY <2>3 DEF IsPass
  <2>6. CASE ranking' = before
    <3>1. IsScore(TopRerankScore(before.ranked))
      BY <2>5, TopIsGreatest
    <3>2. TopRerankScore(before.ranked) # None => The(TopRerankScore(before.ranked)) \in Int
      BY <3>1, TheOne DEF IsScore
    <3>3. TopStays(before.ranked, before.ranked)
      BY <3>2 DEF TopStays
    <3> QED
      BY <2>1, <2>6, <3>3
  <2>7. CASE ranking' = ranking /\ RanksAsWell(before, ranking)
    <3> SUFFICES ASSUME TopRerankScore(before.ranked) # None
                 PROVE  /\ TopRerankScore(ranking.ranked) # None
                        /\ The(TopRerankScore(ranking.ranked)) >= The(TopRerankScore(before.ranked))
      BY <2>1, <2>7 DEF TopStays
    <3>1. PICK p \in DOMAIN before.ranked : before.ranked[p].score # None
      BY <2>5, TopIsGreatest
    <3>2. before.ok
      BY <2>3, <3>1 DEF IsPass, Scored
    <3>3. ScoresStay(before.ranked, ranking.ranked)
      BY <2>4, <2>7, <3>2 DEF RanksAsWell
    <3>4. \A q \in DOMAIN before.ranked : before.ranked[q].score # None =>
              \E s \in DOMAIN ranking.ranked : ranking.ranked[s].score = before.ranked[q].score
      BY <3>3 DEF ScoresStay, Scored
    <3> QED
      BY <2>5, <3>4, TopIsNoWorse
  <2> QED
    BY <2>2, <2>6, <2>7 DEF Keeps
<1> QED
  BY <1>5, <1>6, <1>7, <1>8 DEF PassInv

LEMMA EndSteps == ASSUME PassInv, SecondInv', NothingAdded \/ Handoff PROVE PassInv'
<1> USE DEF pinVars, passVars
<1>1. CASE NothingAdded
  <2>1. /\ pc = "intent" /\ pc' \in {"searched", "failed"}
        /\ UNCHANGED <<cfg, outcome, pool, ranking, first>>
    BY <1>1 DEF NothingAdded
  <2>2. first = {ranking} /\ The(first) = ranking
    BY <2>1, TheOne DEF PassInv, SecondInv
  <2>3. PassesAreTyped'
    BY <2>1 DEF PassInv, PassesAreTyped, IsPass, Scored, Routes
  <2>4. /\ FirstIsNotAsked' /\ FirstPool' /\ FirstScores' /\ SecondPool' /\ SecondScores'
    BY <2>1 DEF FirstIsNotAsked, FirstPool, FirstScores, SecondPool, SecondScores,
                BeforeFusion, BeforePin, BeforeRank, Finishing
  <2>5. SecondTop'
    <3>1. Ranked(ranking.ranked, Chunk)
      BY DEF PassInv, PassesAreTyped, IsPass
    <3>2. IsScore(TopRerankScore(ranking.ranked))
      BY <3>1, TopIsGreatest
    <3>3. TopRerankScore(ranking.ranked) # None => The(TopRerankScore(ranking.ranked)) \in Int
      BY <3>2, TheOne DEF IsScore
    <3>4. TopStays(ranking.ranked, ranking.ranked)
      BY <3>3 DEF TopStays
    <3>5. The(first)' = ranking /\ ranking' = ranking
      BY <2>1, <2>2
    <3> QED
      BY <3>4, <3>5 DEF SecondTop
  <2> QED
    BY <2>3, <2>4, <2>5 DEF PassInv
<1>2. CASE Handoff
  <2>1. /\ pc' \in {"assemble", "failed"} /\ UNCHANGED <<cfg, ranking>>
        /\ first' = {} /\ pool' = NoPool /\ outcome' = [r \in DOMAIN outcome |-> Pending]
    BY <1>2 DEF Handoff
  <2>2. pool'.added \in Nat /\ Distinct(pool'.fused, Chunk)
    BY <2>1 DEF NoPool, Distinct
  <2>3. DOMAIN outcome' = Routes /\ \A r \in Routes : outcome'[r].hits \in Seq(Chunk)
    <3>1. Pending.hits \in Seq(Chunk)
      BY DEF Pending
    <3>2. DOMAIN outcome = Routes
      BY DEF PassInv, PassesAreTyped
    <3> QED
      BY <2>1, <3>1, <3>2
  <2>4. IsPass(ranking)'
    BY <2>1 DEF PassInv, PassesAreTyped, IsPass, Scored
  <2>5. PassesAreTyped'
    BY <2>1, <2>2, <2>3, <2>4 DEF PassInv, PassesAreTyped, Routes
  <2>6. /\ FirstIsNotAsked' /\ FirstPool' /\ FirstScores' /\ SecondPool' /\ SecondScores' /\ SecondTop'
    BY <2>1 DEF FirstIsNotAsked, FirstPool, FirstScores, SecondPool, SecondScores, SecondTop,
                BeforeFusion, BeforePin, BeforeRank, Finishing
  <2> QED
    BY <2>5, <2>6 DEF PassInv
<1> QED
  BY <1>1, <1>2

LEMMA PassInvHolds == Spec => []PassInv
<1>1. ASSUME PassInv, [Next]_vars PROVE PassInv'
  <2>1. SecondInv'
    <3>1. CASE Next
      BY <1>1, <3>1, SecondSteps DEF PassInv
    <3>2. CASE UNCHANGED vars
      BY <1>1, <3>2 DEF PassInv, SecondInv, SecondRanksAsWell, vars, passVars
    <3> QED
      BY <1>1, <3>1, <3>2
  <2>2. CASE Steps
    BY <1>1, <2>1, <2>2, QuietSteps, RouteSteps, FusionSteps, LoadSteps, RerankSteps,
       RecheckSteps, EndSteps DEF Steps, Routes
  <2>3. CASE World \/ Tick \/ Rest \/ UNCHANGED vars
    BY <1>1, <2>1, <2>3, QuietSteps
  <2> QED
    BY <1>1, <2>2, <2>3 DEF Next
<1> QED
  BY InitPassInv, <1>1, PTL DEF Spec

(* An expansion never makes a search worse: whatever the routes of the intent
   found, the second pass is kept only if it is reranked like the first, and
   then it has scored every chunk the first did, so that the best score stays
   (rerank_set, rerank_reusing, ranks_as_well). *)
THEOREM SecondIsNoWorseHolds == Spec => []SecondIsNoWorse
<1>1. PassInv => SecondIsNoWorse
  BY DEF PassInv, SecondInv, SecondRanksAsWell, RanksAsWell, SecondTop, TopStays, SecondIsNoWorse
<1> QED
  BY <1>1, PassInvHolds, PTL

-----------------------------------------------------------------------------
(* The windows are natural numbers, a quarter and a tenth at most. *)
LEMMA WindowsAreParts ==
    ASSUME NEW ms \in Nat
    PROVE  /\ D!Window(ms) \in Nat /\ 4 * D!Window(ms) <= D!Duration(ms)
           /\ D!Reserve(ms) \in Nat /\ 10 * D!Reserve(ms) <= D!Duration(ms)
           /\ D!Duration(ms) \div 10 \in Nat /\ 10 * (D!Duration(ms) \div 10) <= D!Duration(ms)
           /\ D!Duration(ms) \in Nat
  BY DEF D!Window, D!Reserve, D!Duration, D!Least, D!MaxAssemblyWindow, D!MaxT032Reserve

(* from_budget: whatever the deadline, no cutoff precedes the request, and
   each stage leaves those after it their time. *)
THEOREM CutoffsAreInOrder == \A ms \in Nat : D!InOrder(ms)
<1> SUFFICES ASSUME NEW ms \in Nat PROVE D!InOrder(ms)
  OBVIOUS
<1> DEFINE d == D!Duration(ms) w == D!Window(ms) r == D!Reserve(ms) t == d \div 10
<1>1. /\ w \in Nat /\ 4 * w <= d /\ r \in Nat /\ 10 * r <= d
      /\ t \in Nat /\ 10 * t <= d /\ d \in Nat
  BY WindowsAreParts
<1>2. /\ D!Work(ms) = d - r /\ D!Setup(ms) = d - r - D!Greatest(2 * w, t)
      /\ D!Enrichment(ms) = D!Setup(ms) - w /\ D!Expires(ms) = d
      /\ D!RoutesEnd(ms, {}) = D!Setup(ms) - D!Greatest(t, w)
  BY DEF D!Work, D!Setup, D!Enrichment, D!Expires, D!RoutesEnd
<1> HIDE DEF d, w, r, t
<1>3. /\ D!Greatest(2 * w, t) \in Nat /\ 2 * w <= D!Greatest(2 * w, t)
      /\ 2 * D!Greatest(2 * w, t) <= d
      /\ D!Greatest(t, w) \in Nat /\ w <= D!Greatest(t, w) /\ 4 * D!Greatest(t, w) <= d
  BY <1>1 DEF D!Greatest
<1>4. /\ 0 <= D!RoutesEnd(ms, {}) /\ D!RoutesEnd(ms, {}) <= D!Enrichment(ms)
      /\ D!Enrichment(ms) + w = D!Setup(ms)
      /\ D!Setup(ms) + 2 * w <= D!Work(ms) /\ D!Work(ms) + r = D!Expires(ms)
  BY <1>1, <1>2, <1>3
<1> QED
  BY <1>4 DEF D!InOrder, w, r

(* A fixed window of the routes never moves what comes after them. *)
THEOREM FixedWindowsStayBefore ==
    ASSUME NEW ms \in Nat, NEW stage, stage # {}, stage \subseteq Nat, NEW ready \in Nat
    PROVE  D!FixedInOrder(ms, stage, ready)
<1>1. D!Setup(ms) \in Int
  BY SMTT(30), WindowsAreParts DEF D!Setup, D!Work, D!Expires, D!Greatest
<1>2. D!Fixed(ms, stage) \in Nat
  BY WindowsAreParts DEF D!Fixed, D!Least
<1>3. D!RoutesEnd(ms, stage) = D!Setup(ms)
  BY DEF D!RoutesEnd
<1> QED
  BY <1>1, <1>2, <1>3 DEF D!FixedInOrder, D!Routes, D!RouteAfter, D!Least
=============================================================================
