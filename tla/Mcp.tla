--------------------------------- MODULE Mcp ---------------------------------
(***************************************************************************)
(* The tool calls of the MCP server (maestro, mcp/server) and the scoped   *)
(* operations behind them (knowledge/operations): a call takes a worker,   *)
(* the worker opens the kernel, reads under the rights it opened with and  *)
(* looks at the rights again before its result is delivered; the call      *)
(* itself ends at the first of the work, its cancellation and its deadline *)
(* and leaves the work running.                                            *)
(*                                                                         *)
(* Other processes edit the grants and publish generations meanwhile.  The *)
(* chunk asked for is one that every generation in Holding holds.  What a  *)
(* search or an answer does inside is Serving's: here it is its admission, *)
(* which reads the grants again, and one read under what it was admitted   *)
(* with.  Admission reads the tables, which may lag behind the             *)
(* configuration; it is then an admission before the edit.                 *)
(***************************************************************************)
EXTENDS Integers, Sequences, FiniteSets, FiniteSetsExt, Functions, SequencesExt

CONSTANTS Calls, Collections, Holding,
          Requests,      \* what each call may ask for
          Configs,       \* the sets of collections a configuration may grant
          WorkerLimit,   \* WORKER_LIMIT
          MaxGeneration, MaxGrants  \* bounds on what the others do

VARIABLES grants,    \* what the configuration grants: a set of collections
          granted,   \* history: how often it changed
          published, \* the published generation of a collection, 0 without
          workers,   \* free permits
          call
mcpVars == <<grants, granted, published, workers, call>>

None == {}
The(option) == CHOOSE x \in option : TRUE

(* A request is a tool, the collection it names and, for knowledge_get, the
   generation; the arguments of a bad one do not parse. *)
Request(tool, collection, generation) ==
    [tool |-> tool, collection |-> collection, generation |-> generation]

Idle == [request |-> None, at |-> "idle", cancelled |-> FALSE, late |-> FALSE,
         scopes |-> {}, admitted |-> {}, todo |-> {}, data |-> {}, answer |-> None,
         reply |-> None, checked |-> None]

McpInit ==
    /\ grants \in Configs /\ granted = 0
    /\ published = [c \in Collections |-> 0]
    /\ workers = WorkerLimit
    /\ call = [c \in Calls |-> Idle]

Updated(record, fields) ==
    [f \in DOMAIN record |-> IF f \in DOMAIN fields THEN fields[f] ELSE record[f]]
Set(c, fields) == call' = [call EXCEPT ![c] = Updated(@, fields)]

-----------------------------------------------------------------------------
(* The others. *)
EditGrants ==
    /\ granted < MaxGrants /\ granted' = granted + 1
    /\ \E now \in Configs \ {grants} : grants' = now
    /\ UNCHANGED <<published, workers, call>>

PublishOne ==
    /\ \E c \in Collections : /\ published[c] < MaxGeneration
                              /\ published' = [published EXCEPT ![c] = @ + 1]
    /\ UNCHANGED <<grants, granted, workers, call>>

-----------------------------------------------------------------------------
(* call_tool: arguments that do not parse, or a tool that is not listed, are
   refused before a worker is asked for, and so is a call without one. *)
Refused(request) == request.tool \in {"unknown", "invalid"}

CallTool(c) ==
    /\ call[c].request = None
    /\ \E request \in Requests[c] :
         \/ /\ Refused(request)
            /\ Set(c, [request |-> {request}, reply |-> {"refused"}])
            /\ UNCHANGED workers
         \/ /\ ~Refused(request) /\ workers = 0
            /\ Set(c, [request |-> {request}, reply |-> {"busy"}])
            /\ UNCHANGED workers
         \/ /\ ~Refused(request) /\ workers > 0
            /\ Set(c, [request |-> {request}, at |-> "spawned"])
            /\ workers' = workers - 1
    /\ UNCHANGED <<grants, granted, published>>

(* The client cancels; the accepted deadline of a search passes, which only
   its work looks at. *)
Cancel(c) ==
    /\ call[c].request # None /\ call[c].reply = None /\ ~call[c].cancelled
    /\ Set(c, [cancelled |-> TRUE])
    /\ UNCHANGED <<grants, granted, published, workers>>

Late(c) ==
    /\ call[c].at \notin {"idle", "ended"} /\ ~call[c].late
    /\ The(call[c].request).tool = "search"
    /\ Set(c, [late |-> TRUE])
    /\ UNCHANGED <<grants, granted, published, workers>>

(* The select: the work that ended, the cancellation or the call's own
   deadline, whichever is seen; the work goes on without the call. *)
Reply(c) ==
    /\ call[c].at # "idle" /\ call[c].reply = None
    /\ \/ call[c].answer # None /\ Set(c, [reply |-> call[c].answer])
       \/ call[c].cancelled /\ Set(c, [reply |-> {"cancelled"}])
       \/ Set(c, [reply |-> {"deadline_exceeded"}])
    /\ UNCHANGED <<grants, granted, published, workers>>

-----------------------------------------------------------------------------
(* The worker.  It gives its permit back when it ends, however it ends, and
   what it read goes with it unless it is the result. *)
Ends(c, answer) ==
    /\ call' = [call EXCEPT ![c] = [Idle EXCEPT !.request = call[c].request,
                                               !.cancelled = call[c].cancelled,
                                               !.reply = call[c].reply,
                                               !.at = "ended", !.answer = {answer}]]
    /\ workers' = workers + 1

Goes(c, fields) == Set(c, fields) /\ UNCHANGED workers

Tool(c) == The(call[c].request).tool

(* run_operation looks at the cancellation before it opens the kernel, a
   search does not; opening may fail. *)
OpenKernel(c) ==
    /\ call[c].at = "spawned"
    /\ IF call[c].cancelled /\ Tool(c) # "search" THEN Ends(c, "cancelled")
       ELSE \/ Ends(c, "kernel_unavailable")
            \/ Goes(c, [at |-> "opened", scopes |-> grants, todo |-> grants])
    /\ UNCHANGED <<grants, granted, published>>

(* collections_with asks for the published generation of each collection it
   listed, one at a time. *)
ListOne(c) ==
    /\ call[c].at = "opened" /\ Tool(c) = "collections"
    /\ IF call[c].todo = {} THEN Goes(c, [at |-> "read"])
       ELSE \E one \in call[c].todo :
              Goes(c, [todo |-> call[c].todo \ {one},
                       data |-> call[c].data \cup {<<one, published[one]>>}])
    /\ UNCHANGED <<grants, granted, published>>

(* chunk_locations and section_locations: a generation that is named may be
   retired, and is named only with its collection. *)
Locations(scopes, request) ==
    {held \in Holding :
        LET c == held[1]
            g == held[2]
        IN  /\ c \in scopes
            /\ request.collection # None => c = The(request.collection)
            /\ request.generation # None => request.collection # None
            /\ IF request.generation = None THEN g = published[c]
               ELSE g = The(request.generation) /\ g <= published[c]}

Locate(c) ==
    /\ call[c].at = "opened" /\ Tool(c) = "get"
    /\ LET found == Locations(call[c].scopes, The(call[c].request)) IN
       CASE found = {} -> Ends(c, "not_found")
         [] Cardinality(found) > 1 -> Ends(c, "ambiguous")
         [] OTHER -> Goes(c, [at |-> "located", data |-> found])
    /\ UNCHANGED <<grants, granted, published>>

(* ensure_current_scopes: the configuration is read again and granted
   scopes that are not the admitted ones end the operation. *)
SameScopes(c) == grants = call[c].scopes

(* The text behind the location, which may be damaged or too large; a section
   that cannot be read is told only to one who still may read it. *)
ReadExcerpt(c) ==
    /\ call[c].at = "located"
    /\ IF SameScopes(c)
       THEN Ends(c, "integrity_error") \/ Goes(c, [at |-> "read"])
       ELSE Ends(c, "access_changed")
    /\ UNCHANGED <<grants, granted, published>>

(* search_with and ask_with: the search inside is admitted with the scopes
   granted then, not with those its kernel opened with. *)
Admit(c) ==
    /\ call[c].at = "opened" /\ Tool(c) \in {"search", "ask"}
    /\ LET x == The(The(call[c].request).collection) IN
       \/ Ends(c, "failed")
       \/ (x \notin grants \/ published[x] = 0) /\ Ends(c, "not_found")
       \/ x \in grants /\ published[x] > 0 /\ Goes(c, [at |-> "admitted", admitted |-> grants])
    /\ UNCHANGED <<grants, granted, published>>

(* Mutant: what was admitted is not compared. *)
MutAdmittedAsOpened(c) == TRUE

(* A search refuses what it was not opened for; an ask does not compare. *)
AdmittedAsOpened(c) == Tool(c) = "search" => call[c].admitted = call[c].scopes

(* The evidence, or the answer from it, under the scopes admitted, which are
   looked at again before it is handed on. *)
Retrieve(c) ==
    /\ call[c].at = "admitted"
    /\ LET x == The(The(call[c].request).collection) IN
       \/ Ends(c, "failed")
       \/ /\ grants # call[c].admitted \/ ~AdmittedAsOpened(c)
          /\ Ends(c, "access_changed")
       \/ /\ grants = call[c].admitted /\ AdmittedAsOpened(c)
          /\ Goes(c, [at |-> IF Tool(c) = "search" THEN "read" ELSE "checked",
                      data |-> {<<x, published[x]>>}])
    /\ UNCHANGED <<grants, granted, published>>

(* The operation's own last look at the scopes. *)
FinishOperation(c) ==
    /\ call[c].at = "read"
    /\ IF SameScopes(c) THEN Goes(c, [at |-> "checked"]) ELSE Ends(c, "access_changed")
    /\ UNCHANGED <<grants, granted, published>>

(* The worker's look: a search that is late ends before it, and after it. *)
CheckScopes(c) ==
    /\ call[c].at = "checked"
    /\ CASE call[c].late -> Ends(c, "deadline_exceeded")
         [] ~call[c].late /\ ~SameScopes(c) -> Ends(c, "access_changed")
         [] OTHER -> Goes(c, [at |-> "looked", checked |-> {grants}])
    /\ UNCHANGED <<grants, granted, published>>

Delivers(c) == ~call[c].late /\ ~call[c].cancelled

(* The result was measured before, and one that does not fit is refused
   now. *)
FinishWork(c) ==
    /\ call[c].at = "looked"
    /\ IF Delivers(c)
       THEN \E answer \in {"result", "response_too_large"} :
              /\ Set(c, [at |-> "ended", answer |-> {answer}])
              /\ workers' = workers + 1
       ELSE Ends(c, IF call[c].late THEN "deadline_exceeded" ELSE "cancelled")
    /\ UNCHANGED <<grants, granted, published>>

McpNext ==
    \/ EditGrants \/ PublishOne
    \/ \E c \in Calls :
         \/ CallTool(c) \/ Cancel(c) \/ Late(c) \/ Reply(c)
         \/ OpenKernel(c) \/ ListOne(c) \/ Locate(c) \/ ReadExcerpt(c) \/ Admit(c)
         \/ Retrieve(c) \/ FinishOperation(c) \/ CheckScopes(c) \/ FinishWork(c)

-----------------------------------------------------------------------------
(* A result is replied only when the rights its worker opened the kernel
   with were the rights again when it last looked, and then everything in it
   is of collections they grant, though a search is admitted with what is
   granted in between.  An answer is not: it may rest on what was granted
   only while it was admitted, which AnswerIsGranted of Serving shows.  And
   every worker that runs, also for a call that was answered long ago, holds
   one of the permits, so that no more run than the server allows and none
   is lost. *)
RepliesAreCurrent ==
    /\ \A c \in Calls : call[c].reply = {"result"} =>
         /\ call[c].checked = {call[c].scopes}
         /\ Tool(c) # "ask" => \A item \in call[c].data : item[1] \in The(call[c].checked)
    /\ workers + Cardinality({c \in Calls : call[c].at \notin {"idle", "ended"}})
         = WorkerLimit
-----------------------------------------------------------------------------
(* How a response is made to fit (knowledge/output/policy.rs and
   mcp/server/response.rs): a search bundle loses its lowest-ranked passages,
   then the groups of its inventory, one at a time, until what is left, with
   what tells the loss, fits the limit.  Sizes are in units.  A gap names the
   number of a passage, or 0. *)

(* A bundle: passages maps the number of each to its size, conflicts are
   sets of numbers, groups is the number of inventory groups. *)
Bundle(passages, conflicts, gaps, groups) ==
    [passages |-> passages, trace |-> DOMAIN passages, conflicts |-> conflicts,
     gaps |-> gaps, groups |-> groups, evidence |-> SumFunction(passages),
     dropped |-> [passages |-> 0, groups |-> 0]]

(* write_truncation_gaps, for the gaps that tell what was dropped. *)
TruncationGaps(b) ==
    (IF b.dropped.passages > 0 THEN 1 ELSE 0) + (IF b.dropped.groups > 0 THEN 1 ELSE 0)

(* search_tool_result and response_fits: the bundle, with a warning once it
   was truncated. *)
SizeOf(b) ==
    SumFunction(b.passages)
      + Cardinality(DOMAIN b.gaps) + Cardinality(b.conflicts) + b.groups + 2 * TruncationGaps(b)

(* Mutant: the gaps that name a dropped passage stay. *)
MutDropLowestPassage(b) ==
    LET n == Max(DOMAIN b.passages)
        left == Restrict(b.passages, DOMAIN b.passages \ {n})
        cut == {x \ {n} : x \in b.conflicts}
    IN  [b EXCEPT !.passages = left, !.trace = @ \ {n},
                  !.conflicts = {x \in cut : Cardinality(x) >= 2},
                  !.evidence = SumFunction(left),
                  !.dropped.passages = @ + 1]

DropLowestPassage(b) ==
    LET n == Max(DOMAIN b.passages)
        left == Restrict(b.passages, DOMAIN b.passages \ {n})
        cut == {x \ {n} : x \in b.conflicts}
    IN  [b EXCEPT !.passages = left, !.trace = @ \ {n},
                  !.conflicts = {x \in cut : Cardinality(x) >= 2},
                  !.gaps = Restrict(@, {g \in DOMAIN @ : @[g] # n}),
                  !.evidence = SumFunction(left),
                  !.dropped.passages = @ + 1]

DropInventoryItem(b) == [b EXCEPT !.groups = @ - 1, !.dropped.groups = @ + 1]

Reductions(b) == Cardinality(DOMAIN b.passages) + b.groups

(* truncate_search_bundle: the bundle after its first reductions, and the
   first that fits; a bundle reduced to nothing may still not fit. *)
Reduced(b) == IF DOMAIN b.passages # {} THEN DropLowestPassage(b) ELSE DropInventoryItem(b)
AfterReductions(b) ==
    LET after[k \in 0 .. Reductions(b)] == IF k = 0 THEN b ELSE Reduced(after[k - 1])
    IN  after
TruncateSearchBundle(b, limit) ==
    LET fitting == {k \in 0 .. Reductions(b) : SizeOf(AfterReductions(b)[k]) <= limit}
    IN  IF fitting = {} THEN {} ELSE {AfterReductions(b)[Min(fitting)]}

(* bounded_collections_result: entries are popped from the end, and the
   first loss adds the notice that tells it. *)
BoundedCollections(sizes, limit) ==
    LET kept(k) == SubSeq(sizes, 1, Len(sizes) - k)
        size(k) == FoldSeq(+, 0, kept(k)) + (IF k > 0 THEN 1 ELSE 0)
        fitting == {k \in 0 .. Len(sizes) : size(k) <= limit}
    IN  IF fitting = {} THEN {} ELSE {kept(Min(fitting))}

(* What is delivered fits, keeps the best-ranked passages and no gap in
   their numbers, tells exactly what it lost, counts the evidence it still
   holds and names no passage that is gone: not in a conflict, a trace or a
   known gap; and nothing is dropped that would have fitted. *)
TruncationIsHonest(b, limit) ==
    \A t \in TruncateSearchBundle(b, limit) :
      LET left == DOMAIN t.passages
          named == (UNION t.conflicts) \cup t.trace \cup (Range(t.gaps) \ {0})
      IN  /\ SizeOf(t) <= limit
          /\ left \subseteq DOMAIN b.passages
          /\ \A n \in left, m \in DOMAIN b.passages : m < n => m \in left
          /\ named \subseteq left
          /\ \A x \in t.conflicts : \E y \in b.conflicts : x = y \cap left
          /\ \A x \in b.conflicts : Cardinality(x \cap left) > 1 => x \cap left \in t.conflicts
          /\ t.evidence = SumFunction(Restrict(b.passages, left))
          /\ t.dropped.passages = Cardinality(DOMAIN b.passages \ left)
          /\ t.groups + t.dropped.groups = b.groups
          /\ t.dropped.groups > 0 => left = {}
          /\ \A g \in DOMAIN b.gaps : b.gaps[g] \in left \cup {0} => g \in DOMAIN t.gaps /\ t.gaps[g] = b.gaps[g]
          /\ SizeOf(b) <= limit => t = b
=============================================================================
