------------------------------- MODULE Serving -------------------------------
(***************************************************************************)
(* One `knowledge search' or `knowledge ask', from the opened kernel to    *)
(* what is delivered: the models it pins, the admission, the routes, the   *)
(* fusion, the candidates, the rerank, the second pass of an intent        *)
(* expansion, the assembly of evidence, the chat, and the checks of the    *)
(* caller's rights between them.  Beside it the owner edits config.toml,   *)
(* other processes reconcile the grants of the kernel with it, and other   *)
(* commands publish generations.                                           *)
(*                                                                         *)
(* A check of rights that fails, a cutoff that passed and every refusal    *)
(* end the request; a route that fails or is late only leaves its hits     *)
(* out.  The projection is external and not trusted: a route may return    *)
(* any chunk.                                                              *)
(***************************************************************************)
EXTENDS Ranking

D == INSTANCE Deadlines

CONSTANTS
    Scope,          \* scopes a grant names
    Generation,     \* 1 .. n, published in this order
    Chunk,          \* naturals: the ids of chunks, in their order
    GenerationOf, ScopeOf,      \* of each chunk
    ProfileOf,      \* the embedding profile of each generation
    OriginalRoutes, \* of "dense", "lexical", "identifier", "structured"
    IntentRoutes,   \* of "dense_intent", "lexical_intent"
    HitLists,       \* what a route may return
    Model,          \* the reranker: each chunk's window scores
    Requests,       \* an operation, "search" or "ask", and the settings' configuration
    BudgetMs,       \* the accepted deadline
    MaxEdits        \* bound on the edits of config.toml

ASSUME ServingAssumption ==
    /\ BudgetMs \in 1 .. D!MaxDeadlineMs
    /\ \A c \in Chunk : GenerationOf[c] \in Generation /\ ScopeOf[c] \in Scope

(* A route lists chunks, a model scores windows with numbers, and a request's
   settings are those that admission lets through. *)
ASSUME RequestsAreTyped ==
    /\ IsFiniteSet(Chunk) /\ Chunk \subseteq Nat
    /\ HitLists \subseteq Seq(Chunk)
    /\ \A c \in Chunk : IsFiniteSet(Model[c]) /\ Model[c] \subseteq Int
    /\ OriginalRoutes \cap IntentRoutes = {}
    /\ \A request \in Requests :
           /\ request.cfg.depth \in Nat /\ request.cfg.pool \in Nat
           /\ request.cfg.k \in Nat /\ request.cfg.additions \in Nat
           /\ \A source \in request.cfg.penalized :
                  PolicyIsValid([request.cfg.policy EXCEPT !.source.ids = source])

VARIABLES
    granted,    \* the scopes config.toml grants the local principal
    visible,    \* the scopes the kernel's tables grant it
    edits,
    published,  \* the published generation; those before it are retired
    now,        \* the request's clock
    pc,
    op, cfg,
    opened,     \* the scopes of the kernel the operation opened
    card,       \* the profile the embedder's card was pinned for
    scopes,     \* the scopes the search was admitted with
    pinned,     \* the generation it was admitted with
    expansion,  \* of the query: "idle", "asked", "made", "failed"
    readied,    \* whether the reranker's setup ended
    outcome,    \* each route's status and hits
    pool,       \* the fused candidates, and how many the intent added
    ranking,    \* the candidates in order, with their scores
    first,      \* the first pass's ranking, {} before its end
    passages,   \* the chunks the bundle quotes
    chats       \* chat attempts made

worldVars == <<granted, visible, edits, published>>
pinVars == <<op, cfg, opened, card, scopes, pinned>>
passVars == <<expansion, readied, outcome, pool, ranking, first>>
bundleVars == <<passages, chats>>
vars == <<worldVars, now, pc, pinVars, passVars, bundleVars>>

Pending == [status |-> "pending", hits |-> << >>]
Unavailable(hits) == [status |-> "unavailable", hits |-> hits]
Available(hits) == [status |-> "ok", hits |-> hits]

NoPool == [fused |-> << >>, added |-> 0, displaced |-> 0]
NoRanking == [ranked |-> << >>, ok |-> FALSE]

Cutoffs == {D!RoutesEnd(BudgetMs, {}), D!Enrichment(BudgetMs), D!Setup(BudgetMs),
            D!Work(BudgetMs), D!Expires(BudgetMs)}
RoutesEnd == D!RoutesEnd(BudgetMs, {})
Setup == D!Setup(BudgetMs)
Work == D!Work(BudgetMs)
Expires == D!Expires(BudgetMs)

Init ==
    /\ granted \in (SUBSET Scope) \ {{}} /\ visible = granted
    /\ edits = 0 /\ published = 1
    /\ now = 0 /\ pc = "opening"
    /\ \E request \in Requests : op = request.op /\ cfg = request.cfg
    /\ opened = {} /\ card = 0 /\ scopes = {} /\ pinned = 0
    /\ expansion = "idle" /\ readied = FALSE
    /\ outcome = [r \in OriginalRoutes \cup IntentRoutes |-> Pending]
    /\ pool = NoPool /\ ranking = NoRanking /\ first = {}
    /\ passages = {} /\ chats = 0

Over == {"delivered", "refused", "failed"}

End(how) == pc' = how /\ UNCHANGED <<worldVars, now, pinVars, passVars, bundleVars>>

-----------------------------------------------------------------------------
(* The world around the request. *)

EditConfig ==
    /\ edits < MaxEdits /\ pc \notin Over
    /\ edits' = edits + 1
    /\ \E g \in SUBSET Scope : g # granted /\ granted' = g
    /\ UNCHANGED <<visible, published, now, pc, pinVars, passVars, bundleVars>>

(* Another process opens the kernel and reconciles its grants. *)
Reconcile ==
    /\ visible # granted /\ pc \notin Over
    /\ visible' = granted
    /\ UNCHANGED <<granted, edits, published, now, pc, pinVars, passVars, bundleVars>>

PublishNext ==
    /\ published + 1 \in Generation /\ pc \notin Over
    /\ published' = published + 1
    /\ UNCHANGED <<granted, visible, edits, now, pc, pinVars, passVars, bundleVars>>

(* The clock of an admitted request; an ask past its search has none. *)
Timed == pc \notin Over \cup {"opening", "pinning", "chatting"}

Tick ==
    /\ Timed
    /\ \E t \in Cutoffs : /\ t > now
                          /\ \A u \in Cutoffs : u > now => t <= u
                          /\ now' = t
    /\ UNCHANGED <<worldVars, pc, pinVars, passVars, bundleVars>>

World == EditConfig \/ Reconcile \/ PublishNext

-----------------------------------------------------------------------------
(* Opening, and admission. *)

(* Kernel::open reconciles the grants and keeps them as the operation's. *)
Open ==
    /\ pc = "opening"
    /\ visible' = granted /\ opened' = granted
    /\ pc' = "pinning"
    /\ UNCHANGED <<granted, edits, published, now, op, cfg, card, scopes, pinned,
                   passVars, bundleVars>>

(* The embedder's card is that of the generation published now. *)
PinModels ==
    /\ pc = "pinning"
    /\ card' = ProfileOf[published]
    /\ pc' = "admission"
    /\ UNCHANGED <<worldVars, now, op, cfg, opened, scopes, pinned, passVars, bundleVars>>

AdmissionReadsScopes ==
    /\ pc = "admission" /\ now < Expires
    /\ scopes' = visible
    /\ pc' = "pin"
    /\ UNCHANGED <<worldVars, now, op, cfg, opened, card, pinned, passVars, bundleVars>>

(* The collection of a generation is visible through one of its scopes. *)
Readable(g, s) == \E c \in Chunk : GenerationOf[c] = g /\ ScopeOf[c] \in s

Pin ==
    /\ pc = "pin" /\ now < Expires
    /\ Readable(published, scopes)
    /\ pinned' = published
    /\ expansion' = IF cfg.intent = "always" THEN "asked" ELSE "idle"
    /\ pc' = "routes"
    /\ UNCHANGED <<worldVars, now, op, cfg, opened, card, scopes,
                   readied, outcome, pool, ranking, first, bundleVars>>

NothingToPin ==
    /\ pc = "pin" /\ now < Expires /\ ~Readable(published, scopes)
    /\ End("refused")

AdmissionTimesOut ==
    /\ pc \in {"admission", "pin"} /\ now >= Expires
    /\ End("failed")

-----------------------------------------------------------------------------
(* The routes, which run at once. *)

Dense == {"dense", "dense_intent"}

(* Mutant: the embedder's vectors are searched whatever its profile. *)
MutAnswers(r) == now < RoutesEnd

(* dense_outcome, lexical_outcome, search_identifiers_as,
   structured_outcome: in time, with a model of the generation's profile,
   a route returns its hits. *)
Answers(r) ==
    /\ now < RoutesEnd
    /\ r \in Dense => card = ProfileOf[pinned]

Running ==
    {r \in (IF pc = "intent" THEN {} ELSE OriginalRoutes)
           \cup (IF expansion = "made" THEN IntentRoutes ELSE {}) :
        outcome[r] = Pending}

RouteAnswers(r) ==
    /\ pc \in {"routes", "intent"} /\ r \in Running /\ Answers(r)
    /\ \E hits \in HitLists : outcome' = [outcome EXCEPT ![r] = Available(hits)]
    /\ UNCHANGED <<worldVars, now, pc, pinVars, expansion, readied, pool, ranking,
                   first, bundleVars>>

(* Disabled, late, refused, of another profile or failed: only the
   identifier route keeps what its other leg had found. *)
RouteFails(r) ==
    /\ pc \in {"routes", "intent"} /\ r \in Running
    /\ \E hits \in IF r = "identifier" /\ now < RoutesEnd THEN HitLists ELSE {<< >>} :
          outcome' = [outcome EXCEPT ![r] = Unavailable(hits)]
    /\ UNCHANGED <<worldVars, now, pc, pinVars, expansion, readied, pool, ranking,
                   first, bundleVars>>

(* expand, with its guard: the generated query, or none. *)
Expand ==
    /\ pc \in {"routes", "intent"} /\ expansion = "asked"
    /\ expansion' \in IF now < RoutesEnd THEN {"made", "failed"} ELSE {"failed"}
    /\ UNCHANGED <<worldVars, now, pc, pinVars, readied, outcome, pool, ranking, first,
                   bundleVars>>

(* prepare_reranker runs beside the routes, until its own cutoff. *)
ReadyReranker ==
    /\ pc = "routes" /\ ~readied
    /\ readied' = TRUE
    /\ UNCHANGED <<worldVars, now, pc, pinVars, expansion, outcome, pool, ranking, first,
                   bundleVars>>

(* route_list: with the noise guard an unavailable route casts no vote. *)
Votes(r) == IF cfg.guard /\ outcome[r].status # "ok" THEN << >> ELSE outcome[r].hits

Weights == [r \in OriginalRoutes \cup IntentRoutes |-> 1]

Fused(intent) ==
    Pool([r \in OriginalRoutes |-> Votes(r)], [r \in intent |-> Votes(r)], Weights, cfg)

(* finish_search checks the rights only when there is something to load. *)
AfterFusion(p) == IF p.fused = << >> THEN "load" ELSE "check"

Fuse ==
    /\ pc = "routes" /\ Running = {} /\ expansion # "asked" /\ readied
    /\ pool' = Fused(IF expansion = "made" THEN IntentRoutes ELSE {})
    /\ pc' = AfterFusion(pool')
    /\ UNCHANGED <<worldVars, now, pinVars, expansion, readied, outcome, ranking, first,
                   bundleVars>>

-----------------------------------------------------------------------------
(* finish_search. *)

(* ensure_permissions: the tables, read again, grant what was admitted. *)
SameRights == visible = scopes

CheckBeforeLoad ==
    /\ pc = "check"
    /\ IF now < Work /\ SameRights
       THEN pc' = "load" ELSE pc' = "failed"
    /\ UNCHANGED <<worldVars, now, pinVars, passVars, bundleVars>>

(* Mutant: the candidates are looked up by their id only. *)
MutLoadable(c) == TRUE

(* search_chunks: in the pinned generation, through the admitted scopes. *)
Loadable(c) == GenerationOf[c] = pinned /\ ScopeOf[c] \in scopes

(* Exact candidates; one that is not there, or is another's, fails the
   search, and a late load ranks nothing. *)
Load ==
    /\ pc = "load"
    /\ \/ /\ now < Work \/ pool.fused = << >>
          /\ pc' \in (IF \A c \in Range(pool.fused) : Loadable(c) THEN {"rerank"} ELSE {})
                        \cup (IF pool.fused # << >> THEN {"failed"} ELSE {})
          /\ UNCHANGED ranking
       \/ /\ pool.fused # << >> /\ now >= Work
          /\ ranking' = NoRanking
          /\ pc' = "recheck"
    /\ UNCHANGED <<worldVars, now, pinVars, expansion, readied, outcome, pool, first,
                   bundleVars>>

(* The scores the first pass gave. *)
Known ==
    IF first = {} THEN [c \in {} |-> 0]
    ELSE LET scored == {p \in DOMAIN The(first).ranked :
                            The(first).ranked[p].score # None}
         IN  [c \in {The(first).ranked[p].id : p \in scored} |->
                 The(The(first).ranked[CHOOSE p \in scored :
                     The(first).ranked[p].id = c].score)]

(* rerank_reusing, then the policies: a model that is late, refuses or
   answers badly leaves the fused order. *)
Rerank ==
    /\ pc = "rerank"
    /\ \E available \in IF now < Setup THEN BOOLEAN ELSE {FALSE},
          source \in cfg.penalized :
         LET head == IF cfg.rerank THEN cfg.depth + pool.added ELSE 0
             reranked == RerankReusing(pool.fused, head, Known, Model, available)
             ids == [p \in DOMAIN reranked.ranked |-> reranked.ranked[p].id]
             order == ApplyRankPolicies(ids, pool.fused,
                         [cfg.policy EXCEPT !.source.ids = source])
         IN  ranking' = [ranked |-> [p \in DOMAIN order |->
                                        reranked.ranked[Position(ids, order[p])]],
                         ok |-> reranked.ok]
    /\ pc' = "recheck"
    /\ UNCHANGED <<worldVars, now, pinVars, expansion, readied, outcome, pool, first,
                   bundleVars>>

(* ranks_as_well *)
RanksAsWell(before, after) ==
    /\ after.ok \/ ~before.ok
    /\ after.ranked # << >> \/ before.ranked = << >>

(* Mutant: the second pass is kept whatever it gave. *)
MutKeeps(before, after) == after

Keeps(before, after) == IF RanksAsWell(before, after) THEN after ELSE before

Confident == LET top == TopRerankScore(ranking.ranked)
             IN  top # None /\ The(top) >= cfg.confidence

(* The check after the load, then conditional_search: the first ranking
   stands, asks for an expansion, or meets the second. *)
CheckAfterLoad ==
    /\ pc = "recheck"
    /\ IF ~(now < Expires /\ SameRights) THEN pc' = "failed" /\ UNCHANGED <<ranking, first, expansion>>
       ELSE IF first # {}
            THEN /\ pc' = "searched"
                 /\ ranking' = Keeps(The(first), ranking)
                 /\ UNCHANGED <<first, expansion>>
       ELSE IF cfg.intent = "low" /\ ~Confident
            THEN /\ pc' = "intent"
                 /\ first' = {ranking} /\ expansion' = "asked"
                 /\ UNCHANGED ranking
       ELSE pc' = "searched" /\ UNCHANGED <<ranking, first, expansion>>
    /\ UNCHANGED <<worldVars, now, pinVars, readied, outcome, pool, bundleVars>>

Found == expansion = "made" /\ \E r \in IntentRoutes : outcome[r].hits # << >>

(* The expansion found something: both passes' votes are fused again. *)
FuseAgain ==
    /\ pc = "intent" /\ Running = {} /\ expansion # "asked" /\ Found
    /\ pool' = Fused(IntentRoutes)
    /\ pc' = AfterFusion(pool')
    /\ UNCHANGED <<worldVars, now, pinVars, expansion, readied, outcome, ranking, first,
                   bundleVars>>

(* It found nothing: the first ranking stands, after a check. *)
NothingAdded ==
    /\ pc = "intent" /\ Running = {} /\ expansion # "asked" /\ ~Found
    /\ IF now < Expires /\ SameRights THEN pc' = "searched" ELSE pc' = "failed"
    /\ UNCHANGED <<worldVars, now, pinVars, passVars, bundleVars>>

-----------------------------------------------------------------------------
(* The handoff, the assembly, and what is delivered. *)

(* search_with refuses a search admitted with other scopes than the kernel
   it opened; ask_configured hands the search on as it is.  The routes'
   results end with the search. *)
Handoff ==
    /\ pc = "searched"
    /\ IF op = "search" /\ scopes # opened THEN pc' = "failed" ELSE pc' = "assemble"
    /\ outcome' = [r \in DOMAIN outcome |-> Pending] /\ pool' = NoPool /\ first' = {}
    /\ UNCHANGED <<worldVars, now, pinVars, expansion, readied, ranking, bundleVars>>

(* assemble_evidence: the rights and the generation, read again.  The
   states a served generation may be in are published and retired, which
   is every generation up to the published one. *)
AssemblyAdmits == now < Expires /\ SameRights /\ pinned <= published

RankedIds == {ranking.ranked[p].id : p \in DOMAIN ranking.ranked}

(* load_candidates reads the ranked chunks through search_chunks once more;
   the selection keeps any of those that are there. *)
Assemble ==
    /\ pc = "assemble"
    /\ IF AssemblyAdmits
       THEN /\ pc' = "assembled"
            /\ \E chosen \in SUBSET {c \in RankedIds : Loadable(c)} : passages' = chosen
       ELSE pc' = "failed" /\ UNCHANGED passages
    /\ UNCHANGED <<worldVars, now, pinVars, passVars, chats>>

(* The bundle is finished: the rights once more, and the deadline. *)
FinishAssembly ==
    /\ pc = "assembled"
    /\ pc' = IF ~(now < Expires /\ SameRights) THEN "failed"
             ELSE IF op = "ask" THEN "chatting" ELSE "delivering"
    /\ UNCHANGED <<worldVars, now, pinVars, passVars, bundleVars>>

MaxChats == 2

BelowThreshold ==
    LET top == TopRerankScore(ranking.ranked)
    IN  cfg.threshold # None /\ top # None /\ The(top) < The(cfg.threshold)

(* answer_relevant, answer_bundle: a refusal without a chat (below the
   threshold, without passages, without a registered answerer), which names
   the passages all the same. *)
RefuseToAnswer ==
    /\ pc = "chatting" /\ chats = 0
    /\ End("delivering")

(* One attempt: the backend fails or is late; the reply is an answer, a
   refusal, or what asks for the one repair. *)
Chat ==
    /\ pc = "chatting" /\ ~BelowThreshold /\ passages # {}
    /\ chats < MaxChats
    /\ chats' = chats + 1
    /\ pc' \in {"failed", "delivering"}
               \cup (IF chats' < MaxChats THEN {"chatting"} ELSE {})
    /\ UNCHANGED <<worldVars, now, pinVars, passVars, passages>>

(* Mutant: the grants are read from the tables, which nobody reconciled. *)
MutCurrentScopes == visible

(* ensure_current_scopes: the grants reconciled with config.toml. *)
CurrentScopes == granted

(* The caller's last look at the rights: search_with, the CLI and the MCP
   server each compare them with those of the opened kernel. *)
Deliver ==
    /\ pc = "delivering"
    /\ visible' = granted
    /\ pc' = IF CurrentScopes # opened THEN "failed"
             ELSE IF op = "search" /\ now >= Expires THEN "failed"
             ELSE "delivered"
    /\ UNCHANGED <<granted, edits, published, now, pinVars, passVars, bundleVars>>

-----------------------------------------------------------------------------
Steps ==
    \/ Open \/ PinModels \/ AdmissionReadsScopes \/ Pin \/ NothingToPin
    \/ AdmissionTimesOut
    \/ \E r \in OriginalRoutes \cup IntentRoutes : RouteAnswers(r) \/ RouteFails(r)
    \/ Expand \/ ReadyReranker \/ Fuse
    \/ CheckBeforeLoad \/ Load \/ Rerank \/ CheckAfterLoad
    \/ FuseAgain \/ NothingAdded
    \/ Handoff \/ Assemble \/ FinishAssembly \/ RefuseToAnswer \/ Chat \/ Deliver

(* A request that is over rests; any other has a step to make or a cutoff
   to wait for, so that a deadlock would be a request that never ends. *)
Rest == pc \in Over /\ UNCHANGED vars

Next == World \/ Tick \/ Steps \/ Rest

Spec == Init /\ [][Next]_vars

-----------------------------------------------------------------------------
(* What a search delivers is granted to the local principal when it is
   delivered, whatever was granted, taken back and granted again, by
   whichever process, since the request began. *)
DeliveredIsGranted ==
    pc = "delivered" /\ op = "search" => \A c \in passages : ScopeOf[c] \in granted

(* The server's instructions: `answer from passages granted to the local
   principal'.  The same of an answer. *)
AnswerIsGranted ==
    pc = "delivered" /\ op = "ask" => \A c \in passages : ScopeOf[c] \in granted

(* What is delivered is of the generation the search was admitted with,
   through the scopes it was admitted with, though the projection may
   answer with the chunks of another and the published one moves. *)
DeliveredIsPinned ==
    pc = "delivered" => \A c \in passages : GenerationOf[c] = pinned /\ ScopeOf[c] \in scopes

(* A route that asked a model of another profile than the pinned
   generation's has no hits: the card is chosen before the pin. *)
VectorsMatch ==
    \A r \in Dense \cap (OriginalRoutes \cup IntentRoutes) :
        outcome[r].status = "ok" => card = ProfileOf[pinned]

(* An expansion never makes a search worse: the best score of the first
   ranking is not lost, and neither is its being reranked. *)
SecondIsNoWorse ==
    pc = "searched" /\ first # {} =>
        LET before == The(first)
            top == TopRerankScore(before.ranked)
        IN  /\ before.ok => ranking.ok
            /\ before.ranked # << >> => ranking.ranked # << >>
            /\ top # None =>
                  /\ TopRerankScore(ranking.ranked) # None
                  /\ The(TopRerankScore(ranking.ranked)) >= The(top)
=============================================================================
