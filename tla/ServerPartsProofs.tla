-------------------------- MODULE ServerPartsProofs --------------------------
(***************************************************************************)
(* The promises of the parts around the server, for every value of their   *)
(* parameters.  A behaviour of ServerParts is one of a single part, so     *)
(* each argument is about that part's own steps.                           *)
(***************************************************************************)
EXTENDS ServerParts, SequenceTheorems, FiniteSetTheorems, WellFoundedInduction, TLAPS

serverVars == <<partVars, serverPartsVars>>

(* A step is one of the part that was chosen at the start. *)
LEMMA StepsOfParts ==
    ASSUME ServerNext
    PROVE  /\ part' = part
           /\ part = "stdio" => Line!StdioNext
           /\ part = "mcp" => Server!McpNext
           /\ part = "gateway" => Models!GatewayNext
           /\ part = "settings" => Preferences!SettingsNext
           /\ part = "cards" => edits < 2 /\ edits' = edits + 1 /\ input' \in EditCard(input)
           /\ part = "truncation" => UNCHANGED input
  BY DEF ServerNext, StdioStep, McpStep, GatewayStep, SettingsStep, EditCards, ServerOthersIdle

(* A library operator that a part uses is the library's. *)
LEMMA SameCardinality ==
    \A S : /\ Server!Cardinality(S) = Cardinality(S)
          /\ Models!Cardinality(S) = Cardinality(S)
          /\ Line!Cardinality(S) = Cardinality(S)
  BY DEF Server!Cardinality, Models!Cardinality, Line!Cardinality, Cardinality

Options(S) == {{}} \cup {{x} : x \in S}

-----------------------------------------------------------------------------
(* The calls of the server.  Everything the replies depend on is in the
   record of a call, so a step is a record that is replaced by one that
   keeps the promise, and a permit that is taken, given back or neither. *)

CallFields == {"request", "at", "cancelled", "late", "scopes", "admitted", "todo", "data",
               "answer", "reply", "checked"}

ToolOf(r) == Server!The(r.request).tool
CollectionOf(r) == Server!The(Server!The(r.request).collection)

(* What holds of one call: before its kernel is open it has read nothing, and
   unless it asks it reads only what it opened, since a search is admitted
   with the collection it names and goes on only as it was opened; its result
   is answered after the rights were found unchanged, and a reply of a result
   is that answer. *)
CallHolds(r) ==
    /\ DOMAIN r = CallFields
    /\ r.todo \subseteq r.scopes
    /\ ToolOf(r) # "ask" => \A item \in r.data : item[1] \in r.scopes
    /\ r.at \in {"idle", "spawned"} => r.data = {}
    /\ r.at = "admitted" => ToolOf(r) \in {"search", "ask"} /\ CollectionOf(r) \in r.admitted
    /\ r.request = {} => r.at = "idle" /\ r.reply = {}
    /\ r.at = "looked" => r.checked = {r.scopes}
    /\ r.answer # {} => r.at = "ended"
    /\ r.answer = {"result"} => r.checked = {r.scopes}
    /\ r.reply = {"result"} => r.answer = {"result"}

(* What is asked for is the request's. *)
LEMMA SameRequest ==
    \A r, s : r.request = s.request => ToolOf(r) = ToolOf(s) /\ CollectionOf(r) = CollectionOf(s)
  BY DEF ToolOf, CollectionOf

Runs(r) == r.at \notin {"idle", "ended"}
Running == {c \in ServerCalls : Runs(call[c])}

McpInv ==
    /\ DOMAIN call = ServerCalls
    /\ \A c \in ServerCalls : CallHolds(call[c])
    /\ workers \in Nat /\ workers + Cardinality(Running) = ServerWorkers

LEMMA McpInits == ASSUME Server!McpInit PROVE McpInv
<1>1. DOMAIN call = ServerCalls /\ \A c \in ServerCalls : call[c] = Server!Idle
  BY DEF Server!McpInit
<1>2. CallHolds(Server!Idle) /\ ~Runs(Server!Idle)
  BY DEF CallHolds, CallFields, Runs, Server!Idle, Server!None
<1>3. Running = {}
  BY <1>1, <1>2 DEF Running
<1>4. Cardinality(Running) = 0
  BY <1>3, FS_EmptySet
<1> QED
  BY <1>1, <1>2, <1>4, CallsAreFinite DEF McpInv, Server!McpInit

(* One call moves, and its permit with it. *)
LEMMA OneCallMoves ==
    ASSUME McpInv, NEW c \in ServerCalls, NEW to, CallHolds(to),
           call' = [call EXCEPT ![c] = to],
           \/ (Runs(to) <=> Runs(call[c])) /\ workers' = workers
           \/ ~Runs(call[c]) /\ Runs(to) /\ workers > 0 /\ workers' = workers - 1
           \/ Runs(call[c]) /\ ~Runs(to) /\ workers' = workers + 1
    PROVE  McpInv'
<1>1. /\ DOMAIN call' = ServerCalls /\ call'[c] = to
      /\ \A d \in ServerCalls \ {c} : call'[d] = call[d]
  BY DEF McpInv
<1>2. \A d \in ServerCalls : CallHolds(call'[d])
  BY <1>1 DEF McpInv
<1>3. IsFiniteSet(Running)
  BY CallsAreFinite, FS_Subset DEF Running
<1>4. Cardinality(Running) \in Nat
  BY <1>3, FS_CardinalityType
<1>5. /\ Runs(to) <=> c \in Running'
      /\ \A d \in ServerCalls \ {c} : d \in Running' <=> d \in Running
      /\ Runs(call[c]) <=> c \in Running
      /\ Running' \subseteq ServerCalls /\ Running \subseteq ServerCalls
  BY <1>1 DEF Running, Runs
<1>6. workers' \in Nat /\ workers' + Cardinality(Running') = ServerWorkers
  <2>1. CASE (Runs(to) <=> Runs(call[c])) /\ workers' = workers
    <3>1. Running' = Running
      BY <1>5, <2>1
    <3> QED
      BY <2>1, <3>1 DEF McpInv
  <2>2. CASE ~Runs(call[c]) /\ Runs(to) /\ workers > 0 /\ workers' = workers - 1
    <3>1. Running' = Running \cup {c} /\ c \notin Running
      BY <1>5, <2>2
    <3>2. Cardinality(Running') = Cardinality(Running) + 1
      BY <1>3, <3>1, FS_AddElement
    <3> QED
      BY <1>4, <2>2, <3>2 DEF McpInv
  <2>3. CASE Runs(call[c]) /\ ~Runs(to) /\ workers' = workers + 1
    <3>1. Running' = Running \ {c} /\ c \in Running
      BY <1>5, <2>3
    <3>2. Cardinality(Running') = Cardinality(Running) - 1
      BY <1>3, <3>1, FS_RemoveElement
    <3> QED
      BY <1>4, <2>3, <3>2 DEF McpInv
  <2> QED
    BY <2>1, <2>2, <2>3
<1> QED
  BY <1>1, <1>2, <1>6 DEF McpInv

(* A worker ends with something other than the result. *)
LEMMA WorkerEnds ==
    ASSUME McpInv, NEW c \in ServerCalls, NEW answer, answer # "result", Runs(call[c]),
           Server!Ends(c, answer)
    PROVE  McpInv'
<1>1. PICK to : to = [Server!Idle EXCEPT !.request = call[c].request,
                                          !.cancelled = call[c].cancelled,
                                          !.reply = call[c].reply,
                                          !.at = "ended", !.answer = {answer}]
  OBVIOUS
<1>2. call' = [call EXCEPT ![c] = to] /\ workers' = workers + 1
  BY <1>1 DEF Server!Ends
<1>3. CallHolds(call[c]) /\ call[c].answer = {} /\ call[c].reply # {"result"}
  BY DEF McpInv, CallHolds, Runs
<1>4. /\ DOMAIN to = CallFields
      /\ to.at = "ended" /\ to.answer = {answer} /\ to.reply = call[c].reply
      /\ to.request = call[c].request
      /\ to.scopes = {} /\ to.todo = {} /\ to.data = {}
  BY <1>1 DEF Server!Idle, Server!None, CallFields
<1>5. call[c].request # {}
  BY <1>3 DEF CallHolds, Runs
<1>6. CallHolds(to) /\ ~Runs(to)
  BY <1>3, <1>4, <1>5 DEF CallHolds, Runs
<1> QED
  BY <1>2, <1>6, OneCallMoves

(* What a call, its client and its clock do. *)
LEMMA CallerSteps ==
    ASSUME McpInv, NEW c \in ServerCalls,
           Server!CallTool(c) \/ Server!Cancel(c) \/ Server!Late(c) \/ Server!Reply(c)
    PROVE  McpInv'
<1> DEFINE r == call[c]
<1>1. CallHolds(r)
  BY DEF McpInv
<1>2. ASSUME NEW request, NEW reply \in {"refused", "busy"}, r.request = {}, UNCHANGED workers,
             Server!Set(c, [request |-> {request}, reply |-> {reply}])
      PROVE  McpInv'
  <2>1. PICK to : to = Server!Updated(r, [request |-> {request}, reply |-> {reply}])
    OBVIOUS
  <2>2. call' = [call EXCEPT ![c] = to]
    BY <1>2, <2>1 DEF Server!Set
  <2>3. /\ DOMAIN to = CallFields /\ to.at = r.at /\ to.request = {request}
        /\ to.scopes = r.scopes /\ to.admitted = r.admitted /\ to.todo = r.todo
        /\ to.data = r.data /\ to.answer = r.answer /\ to.reply = {reply}
        /\ to.checked = r.checked
    BY <1>1, <2>1 DEF Server!Updated, CallHolds, CallFields
  <2>4. CallHolds(to) /\ to.at = r.at
    BY <1>1, <1>2, <2>3, SameRequest DEF CallHolds, Runs
  <2> HIDE DEF r
  <2> QED
    BY <1>2, <2>2, <2>4, OneCallMoves DEF Runs, r
<1>3. ASSUME NEW request, r.request = {}, workers > 0, workers' = workers - 1,
             Server!Set(c, [request |-> {request}, at |-> "spawned"])
      PROVE  McpInv'
  <2>1. PICK to : to = Server!Updated(r, [request |-> {request}, at |-> "spawned"])
    OBVIOUS
  <2>2. call' = [call EXCEPT ![c] = to]
    BY <1>3, <2>1 DEF Server!Set
  <2>3. /\ DOMAIN to = CallFields /\ to.at = "spawned" /\ to.request = {request}
        /\ to.scopes = r.scopes /\ to.admitted = r.admitted /\ to.todo = r.todo
        /\ to.data = r.data /\ to.answer = r.answer /\ to.reply = r.reply
        /\ to.checked = r.checked
    BY <1>1, <2>1 DEF Server!Updated, CallHolds, CallFields
  <2>4. CallHolds(to) /\ to.at = "spawned" /\ r.at = "idle"
    BY <1>1, <1>3, <2>3, SameRequest DEF CallHolds, Runs
  <2> QED
    BY <1>3, <2>2, <2>4, OneCallMoves DEF Runs
<1>4. ASSUME Server!CallTool(c) PROVE McpInv'
  BY <1>2, <1>3, <1>4 DEF Server!CallTool, Server!None
<1>5. ASSUME Server!Cancel(c) PROVE McpInv'
  <2>1. PICK to : to = Server!Updated(r, [cancelled |-> TRUE])
    OBVIOUS
  <2>2. call' = [call EXCEPT ![c] = to] /\ workers' = workers
    BY <1>5, <2>1 DEF Server!Cancel, Server!Set
  <2>3. /\ DOMAIN to = CallFields /\ to.at = r.at /\ to.request = r.request
        /\ to.scopes = r.scopes /\ to.admitted = r.admitted /\ to.todo = r.todo
        /\ to.data = r.data /\ to.answer = r.answer /\ to.reply = r.reply
        /\ to.checked = r.checked
    BY <1>1, <2>1 DEF Server!Updated, CallHolds, CallFields
  <2>4. CallHolds(to)
    BY <1>1, <2>3, SameRequest DEF CallHolds
  <2> QED
    BY <2>2, <2>3, <2>4, OneCallMoves DEF Runs
<1>6. ASSUME Server!Late(c) PROVE McpInv'
  <2>1. PICK to : to = Server!Updated(r, [late |-> TRUE])
    OBVIOUS
  <2>2. call' = [call EXCEPT ![c] = to] /\ workers' = workers
    BY <1>6, <2>1 DEF Server!Late, Server!Set
  <2>3. /\ DOMAIN to = CallFields /\ to.at = r.at /\ to.request = r.request
        /\ to.scopes = r.scopes /\ to.admitted = r.admitted /\ to.todo = r.todo
        /\ to.data = r.data /\ to.answer = r.answer /\ to.reply = r.reply
        /\ to.checked = r.checked
    BY <1>1, <2>1 DEF Server!Updated, CallHolds, CallFields
  <2>4. CallHolds(to)
    BY <1>1, <2>3, SameRequest DEF CallHolds
  <2> QED
    BY <2>2, <2>3, <2>4, OneCallMoves DEF Runs
<1>7. ASSUME Server!Reply(c) PROVE McpInv'
  <2>1. PICK reply : /\ Server!Set(c, [reply |-> reply])
                     /\ reply = r.answer \/ reply \in {{"cancelled"}, {"deadline_exceeded"}}
    BY <1>7 DEF Server!Reply
  <2>2. PICK to : to = Server!Updated(r, [reply |-> reply])
    OBVIOUS
  <2>3. call' = [call EXCEPT ![c] = to] /\ workers' = workers /\ r.at # "idle"
    BY <1>7, <2>1, <2>2 DEF Server!Reply, Server!Set
  <2>4. reply = {"result"} => r.answer = {"result"}
    BY <2>1
  <2>5. /\ DOMAIN to = CallFields /\ to.at = r.at /\ to.request = r.request
        /\ to.scopes = r.scopes /\ to.admitted = r.admitted /\ to.todo = r.todo
        /\ to.data = r.data /\ to.answer = r.answer /\ to.reply = reply
        /\ to.checked = r.checked
    BY <1>1, <2>2 DEF Server!Updated, CallHolds, CallFields
  <2>6. CallHolds(to)
    BY <1>1, <2>3, <2>4, <2>5, SameRequest DEF CallHolds
  <2> QED
    BY <2>3, <2>5, <2>6, OneCallMoves DEF Runs
<1> QED
  BY <1>4, <1>5, <1>6, <1>7

(* A worker that runs on, with what it read. *)
LEMMA WorkerGoes ==
    ASSUME McpInv, NEW c \in ServerCalls, NEW to, CallHolds(to), Runs(to), Runs(call[c]),
           call' = [call EXCEPT ![c] = to], workers' = workers
    PROVE  McpInv'
  BY OneCallMoves

LEMMA OpenAndListSteps ==
    ASSUME McpInv, NEW c \in ServerCalls, Server!OpenKernel(c) \/ Server!ListOne(c)
    PROVE  McpInv'
<1> DEFINE r == call[c]
<1>1. CallHolds(r)
  BY DEF McpInv
<1>2. ASSUME Server!OpenKernel(c) PROVE McpInv'
  <2>1. r.at = "spawned" /\ Runs(r)
    BY <1>2 DEF Server!OpenKernel, Runs
  <2>2. \/ Server!Ends(c, "cancelled") \/ Server!Ends(c, "kernel_unavailable")
        \/ Server!Goes(c, [at |-> "opened", scopes |-> grants, todo |-> grants])
    BY <1>2 DEF Server!OpenKernel
  <2>3. ASSUME Server!Goes(c, [at |-> "opened", scopes |-> grants, todo |-> grants]) PROVE McpInv'
    <3>1. PICK to : to = Server!Updated(r, [at |-> "opened", scopes |-> grants, todo |-> grants])
      OBVIOUS
    <3>2. call' = [call EXCEPT ![c] = to] /\ workers' = workers
      BY <2>3, <3>1 DEF Server!Goes, Server!Set
    <3>3. /\ DOMAIN to = CallFields /\ to.at = "opened" /\ to.scopes = grants /\ to.todo = grants
          /\ to.data = r.data /\ to.request = r.request /\ to.answer = r.answer
          /\ to.reply = r.reply
      BY <1>1, <3>1 DEF Server!Updated, CallHolds, CallFields
    <3>4. CallHolds(to) /\ Runs(to)
      BY <1>1, <2>1, <3>3, SameRequest DEF CallHolds, Runs
    <3> QED
      BY <2>1, <3>2, <3>4, WorkerGoes
  <2> QED
    BY <2>1, <2>2, <2>3, WorkerEnds
<1>3. ASSUME Server!ListOne(c) PROVE McpInv'
  <2>1. r.at = "opened" /\ Runs(r)
    BY <1>3 DEF Server!ListOne, Runs
  <2>2. CASE Server!Goes(c, [at |-> "read"])
    <3>1. PICK to : to = Server!Updated(r, [at |-> "read"])
      OBVIOUS
    <3>2. call' = [call EXCEPT ![c] = to] /\ workers' = workers
      BY <2>2, <3>1 DEF Server!Goes, Server!Set
    <3>3. /\ DOMAIN to = CallFields /\ to.at = "read" /\ to.request = r.request
          /\ to.scopes = r.scopes /\ to.admitted = r.admitted /\ to.todo = r.todo
          /\ to.data = r.data /\ to.answer = r.answer /\ to.reply = r.reply
          /\ to.checked = r.checked
      BY <1>1, <3>1 DEF Server!Updated, CallHolds, CallFields
    <3>4. CallHolds(to) /\ Runs(to)
      BY <1>1, <2>1, <3>3, SameRequest DEF CallHolds, Runs
    <3> QED
      BY <2>1, <3>2, <3>4, WorkerGoes
  <2>3. ASSUME NEW one \in r.todo, NEW g,
               Server!Goes(c, [todo |-> r.todo \ {one}, data |-> r.data \cup {<<one, g>>}])
        PROVE  McpInv'
    <3>1. PICK to : to = Server!Updated(r, [todo |-> r.todo \ {one}, data |-> r.data \cup {<<one, g>>}])
      OBVIOUS
    <3>2. call' = [call EXCEPT ![c] = to] /\ workers' = workers
      BY <2>3, <3>1 DEF Server!Goes, Server!Set
    <3>3. /\ DOMAIN to = CallFields /\ to.at = r.at /\ to.scopes = r.scopes
          /\ to.todo = r.todo \ {one} /\ to.data = r.data \cup {<<one, g>>}
          /\ to.request = r.request /\ to.answer = r.answer /\ to.checked = r.checked
          /\ to.reply = r.reply
      BY <1>1, <3>1 DEF Server!Updated, CallHolds, CallFields
    <3>4. CallHolds(to) /\ Runs(to)
      BY <1>1, <2>1, <3>3, SameRequest DEF CallHolds, Runs
    <3> QED
      BY <2>1, <3>2, <3>4, WorkerGoes
  <2> QED
    BY <1>3, <2>2, <2>3 DEF Server!ListOne
<1> QED
  BY <1>2, <1>3

LEMMA ReadSteps ==
    ASSUME McpInv, NEW c \in ServerCalls,
           \/ Server!Locate(c) \/ Server!ReadExcerpt(c)
           \/ Server!Admit(c) \/ Server!Retrieve(c) \/ Server!FinishOperation(c)
    PROVE  McpInv'
<1> DEFINE r == call[c]
<1>1. CallHolds(r)
  BY DEF McpInv
(* What was read is of collections in the scopes, or of an ask. *)
<1>2. ASSUME NEW at \in {"located", "read", "checked"}, NEW data, r.at \in {"opened", "admitted"},
             ToolOf(r) # "ask" => \A item \in data : item[1] \in r.scopes,
             Server!Goes(c, [at |-> at, data |-> data])
      PROVE  McpInv'
  <2>1. PICK to : to = Server!Updated(r, [at |-> at, data |-> data])
    OBVIOUS
  <2>2. call' = [call EXCEPT ![c] = to] /\ workers' = workers
    BY <1>2, <2>1 DEF Server!Goes, Server!Set
  <2>3. /\ DOMAIN to = CallFields /\ to.at = at /\ to.request = r.request
        /\ to.scopes = r.scopes /\ to.admitted = r.admitted /\ to.todo = r.todo
        /\ to.data = data /\ to.answer = r.answer /\ to.reply = r.reply
        /\ to.checked = r.checked
    BY <1>1, <2>1 DEF Server!Updated, CallHolds, CallFields
  <2>4. CallHolds(to) /\ Runs(to) /\ Runs(r)
    BY <1>1, <1>2, <2>3, SameRequest DEF CallHolds, Runs
  <2> QED
    BY <2>2, <2>4, WorkerGoes
<1>3. ASSUME NEW at \in {"read", "checked"}, r.at \in {"located", "read"}, Server!Goes(c, [at |-> at])
      PROVE  McpInv'
  <2>1. PICK to : to = Server!Updated(r, [at |-> at])
    OBVIOUS
  <2>2. call' = [call EXCEPT ![c] = to] /\ workers' = workers
    BY <1>3, <2>1 DEF Server!Goes, Server!Set
  <2>3. /\ DOMAIN to = CallFields /\ to.at = at /\ to.request = r.request
        /\ to.scopes = r.scopes /\ to.admitted = r.admitted /\ to.todo = r.todo
        /\ to.data = r.data /\ to.answer = r.answer /\ to.reply = r.reply
        /\ to.checked = r.checked
    BY <1>1, <2>1 DEF Server!Updated, CallHolds, CallFields
  <2>4. CallHolds(to) /\ Runs(to) /\ Runs(r)
    BY <1>1, <1>3, <2>3, SameRequest DEF CallHolds, Runs
  <2> QED
    BY <2>2, <2>4, WorkerGoes
<1>4. ASSUME Server!Locate(c) PROVE McpInv'
  <2>1. PICK found : found = Server!Locations(r.scopes, Server!The(r.request))
    OBVIOUS
  <2>2. \A held \in found : held[1] \in r.scopes
    BY <2>1 DEF Server!Locations
  <2>3. /\ r.at = "opened"
        /\ \/ Server!Ends(c, "not_found") \/ Server!Ends(c, "ambiguous")
           \/ Server!Goes(c, [at |-> "located", data |-> found])
    BY <1>4, <2>1 DEF Server!Locate
  <2> QED
    BY <1>2, <2>2, <2>3, WorkerEnds DEF Runs
<1>5. ASSUME Server!ReadExcerpt(c) PROVE McpInv'
  <2>1. /\ r.at = "located"
        /\ \/ Server!Ends(c, "integrity_error") \/ Server!Ends(c, "access_changed")
           \/ Server!Goes(c, [at |-> "read"])
    BY <1>5 DEF Server!ReadExcerpt
  <2> QED
    BY <1>3, <2>1, WorkerEnds DEF Runs
<1>6. ASSUME Server!Admit(c) PROVE McpInv'
  <2>1. /\ r.at = "opened"
        /\ ToolOf(r) \in {"search", "ask"}
        /\ \/ Server!Ends(c, "failed") \/ Server!Ends(c, "not_found")
           \/ CollectionOf(r) \in grants /\ Server!Goes(c, [at |-> "admitted", admitted |-> grants])
    BY <1>6 DEF Server!Admit, Server!Tool, ToolOf, CollectionOf
  <2>2. ASSUME CollectionOf(r) \in grants, Server!Goes(c, [at |-> "admitted", admitted |-> grants])
        PROVE  McpInv'
    <3>1. PICK to : to = Server!Updated(r, [at |-> "admitted", admitted |-> grants])
      OBVIOUS
    <3>2. call' = [call EXCEPT ![c] = to] /\ workers' = workers
      BY <2>2, <3>1 DEF Server!Goes, Server!Set
    <3>3. /\ DOMAIN to = CallFields /\ to.at = "admitted" /\ to.request = r.request
          /\ to.scopes = r.scopes /\ to.admitted = grants /\ to.todo = r.todo
          /\ to.data = r.data /\ to.answer = r.answer /\ to.reply = r.reply
          /\ to.checked = r.checked
      BY <1>1, <3>1 DEF Server!Updated, CallHolds, CallFields
    <3>4. CallHolds(to) /\ Runs(to) /\ Runs(r)
      BY <1>1, <2>1, <2>2, <3>3, SameRequest DEF CallHolds, Runs
    <3> QED
      BY <3>2, <3>4, WorkerGoes
  <2> QED
    BY <2>1, <2>2, WorkerEnds DEF Runs
(* A search goes on only as it was opened, and so reads what it opened. *)
<1>7. ASSUME Server!Retrieve(c) PROVE McpInv'
  <2>1. PICK data : data = {<<CollectionOf(r), published[CollectionOf(r)]>>}
    OBVIOUS
  <2>2. PICK at : at = IF ToolOf(r) = "search" THEN "read" ELSE "checked"
    OBVIOUS
  <2>3. /\ r.at = "admitted"
        /\ \/ Server!Ends(c, "failed") \/ Server!Ends(c, "access_changed")
           \/ /\ ToolOf(r) = "search" => r.admitted = r.scopes
              /\ Server!Goes(c, [at |-> at, data |-> data])
    BY <1>7, <2>1, <2>2
       DEF Server!Retrieve, Server!AdmittedAsOpened, Server!Tool, ToolOf, CollectionOf
  <2>4. ToolOf(r) \in {"search", "ask"} /\ CollectionOf(r) \in r.admitted
    BY <1>1, <2>3 DEF CallHolds
  <2>5. ASSUME ToolOf(r) = "search" => r.admitted = r.scopes,
               Server!Goes(c, [at |-> at, data |-> data])
        PROVE  McpInv'
    <3>1. ToolOf(r) # "ask" => \A item \in data : item[1] \in r.scopes
      BY <2>1, <2>4, <2>5
    <3>2. at \in {"located", "read", "checked"}
      BY <2>2
    <3> QED
      BY <1>2, <2>3, <2>5, <3>1, <3>2
  <2> QED
    BY <2>3, <2>5, WorkerEnds DEF Runs
<1>8. ASSUME Server!FinishOperation(c) PROVE McpInv'
  <2>1. /\ r.at = "read"
        /\ Server!Ends(c, "access_changed") \/ Server!Goes(c, [at |-> "checked"])
    BY <1>8 DEF Server!FinishOperation
  <2> QED
    BY <1>3, <2>1, WorkerEnds DEF Runs
<1> QED
  BY <1>4, <1>5, <1>6, <1>7, <1>8

(* The last looks: the rights are those of the opening. *)
LEMMA LookSteps ==
    ASSUME McpInv, NEW c \in ServerCalls, Server!CheckScopes(c) \/ Server!FinishWork(c)
    PROVE  McpInv'
<1> DEFINE r == call[c]
<1>1. CallHolds(r)
  BY DEF McpInv
<1>2. ASSUME Server!CheckScopes(c) PROVE McpInv'
  <2>1. /\ r.at = "checked"
        /\ \/ Server!Ends(c, "deadline_exceeded") \/ Server!Ends(c, "access_changed")
           \/ grants = r.scopes /\ Server!Goes(c, [at |-> "looked", checked |-> {grants}])
    BY <1>2 DEF Server!CheckScopes, Server!SameScopes
  <2>2. ASSUME grants = r.scopes, Server!Goes(c, [at |-> "looked", checked |-> {grants}])
        PROVE  McpInv'
    <3>1. PICK to : to = Server!Updated(r, [at |-> "looked", checked |-> {grants}])
      OBVIOUS
    <3>2. call' = [call EXCEPT ![c] = to] /\ workers' = workers
      BY <2>2, <3>1 DEF Server!Goes, Server!Set
    <3>3. /\ DOMAIN to = CallFields /\ to.at = "looked" /\ to.request = r.request
          /\ to.scopes = r.scopes /\ to.admitted = r.admitted /\ to.todo = r.todo
          /\ to.data = r.data /\ to.answer = r.answer /\ to.reply = r.reply
          /\ to.checked = {grants}
      BY <1>1, <3>1 DEF Server!Updated, CallHolds, CallFields
    <3>4. CallHolds(to) /\ Runs(to) /\ Runs(r)
      BY <1>1, <2>1, <2>2, <3>3, SameRequest DEF CallHolds, Runs
    <3> QED
      BY <3>2, <3>4, WorkerGoes
  <2> QED
    BY <2>1, <2>2, WorkerEnds DEF Runs
<1>3. ASSUME Server!FinishWork(c) PROVE McpInv'
  <2>1. r.at = "looked" /\ Runs(r)
    BY <1>3 DEF Server!FinishWork, Runs
  <2>2. CASE ~Server!Delivers(c)
    BY <1>3, <2>1, <2>2, WorkerEnds DEF Server!FinishWork
  <2>3. CASE Server!Delivers(c)
    <3>1. PICK answer \in {"result", "response_too_large"} :
             Server!Set(c, [at |-> "ended", answer |-> {answer}]) /\ workers' = workers + 1
      BY <1>3, <2>3 DEF Server!FinishWork
    <3>2. PICK to : to = Server!Updated(r, [at |-> "ended", answer |-> {answer}])
      OBVIOUS
    <3>3. call' = [call EXCEPT ![c] = to]
      BY <3>1, <3>2 DEF Server!Set
    <3>4. /\ DOMAIN to = CallFields /\ to.at = "ended" /\ to.request = r.request
          /\ to.scopes = r.scopes /\ to.admitted = r.admitted /\ to.todo = r.todo
          /\ to.data = r.data /\ to.answer = {answer} /\ to.reply = r.reply
          /\ to.checked = r.checked
      BY <1>1, <3>2 DEF Server!Updated, CallHolds, CallFields
    <3>5. CallHolds(to) /\ ~Runs(to)
      BY <1>1, <2>1, <3>1, <3>4, SameRequest DEF CallHolds, Runs
    <3> QED
      BY <2>1, <3>1, <3>3, <3>5, OneCallMoves
  <2> QED
    BY <2>2, <2>3
<1> QED
  BY <1>2, <1>3

LEMMA McpSteps == ASSUME McpInv, Server!McpNext PROVE McpInv'
<1>1. ASSUME Server!EditGrants \/ Server!PublishOne PROVE McpInv'
  <2>1. UNCHANGED <<workers, call>>
    BY <1>1 DEF Server!EditGrants, Server!PublishOne
  <2> QED
    BY <2>1 DEF McpInv, Running
<1> QED
  BY <1>1, CallerSteps, OpenAndListSteps, ReadSteps, LookSteps DEF Server!McpNext

(* However calls, cancellations, deadlines, publications and edits of the
   grants interleave, for any number of calls, permits and configurations: a
   result that is replied holds nothing but what was granted when its worker
   last looked, which were the rights it opened with, unless it answers a
   question; and every worker that runs holds one of the permits
   (mcp/server/operations.rs, knowledge/operations/search.rs, kernel.rs
   refresh_scopes). *)
THEOREM RepliesAreCurrentHolds == ServerSpec => []RepliesAreCurrent
<1> DEFINE I == part = "mcp" => McpInv
<1>1. ServerInit => I
  BY McpInits DEF ServerInit
<1>2. I /\ [ServerNext]_serverVars => I'
  <2>1. ASSUME I, ServerNext PROVE I'
    BY <2>1, StepsOfParts, McpSteps
  <2>2. ASSUME I, UNCHANGED serverVars PROVE I'
    BY <2>2 DEF serverVars, partVars, serverPartsVars, mcpVars, McpInv, Running
  <2> QED
    BY <2>1, <2>2
<1>3. I => RepliesAreCurrent
  <2> SUFFICES ASSUME McpInv PROVE Server!RepliesAreCurrent
    BY DEF RepliesAreCurrent
  <2>1. ASSUME NEW c \in ServerCalls, call[c].reply = {"result"}
        PROVE  /\ call[c].checked = {call[c].scopes}
               /\ Server!Tool(c) # "ask" =>
                     \A item \in call[c].data : item[1] \in Server!The(call[c].checked)
    <3>1. CallHolds(call[c]) /\ call[c].checked = {call[c].scopes}
      BY <2>1 DEF McpInv, CallHolds
    <3>2. Server!The(call[c].checked) = call[c].scopes
      BY <3>1 DEF Server!The
    <3> QED
      BY <3>1, <3>2 DEF CallHolds, ToolOf, Server!Tool
  <2>2. Running = {c \in ServerCalls : call[c].at \notin {"idle", "ended"}}
    BY DEF Running, Runs
  <2> QED
    BY <2>1, <2>2, SameCardinality DEF McpInv, Server!RepliesAreCurrent
<1> QED
  BY <1>1, <1>2, <1>3, PTL DEF ServerSpec, serverVars

-----------------------------------------------------------------------------
(* The client of the model gateway. *)

CardNames == DOMAIN ModelWork
ModelCalls ==
    [at : {"idle", "props", "send", "done"}, card : Options(CardNames),
     kind : {"none", "embed", "rerank", "chat", "tokenize", "prepare"},
     outcome : {"none", "wrong_role", "answer", "card_mismatch"} \cup Models!Broken,
     answer : Seq(Nat)]

(* What holds of one call, given the cards that passed: it is of one card and
   of a role that may make it until it has an outcome; what it sends passed,
   and what it answers is in place. *)
ModelCallHolds(r, ok) ==
    /\ r \in ModelCalls
    /\ r.at \in {"props", "send"} =>
         /\ r.outcome = "none"
         /\ \E card \in CardNames : r.card = {card} /\ ModelWork[card].role \in Models!Needs[r.kind]
    /\ r.at = "send" => r.kind # "prepare" /\ r.card \subseteq ok
    /\ r.outcome = "answer" =>
         /\ \A i \in DOMAIN r.answer : r.answer[i] = i
         /\ r.kind \in {"embed", "rerank"} =>
              \E card \in CardNames : r.card = {card} /\ Len(r.answer) = ModelWork[card].inputs

GatewayInv ==
    /\ checked \subseteq passed
    /\ DOMAIN calls = ModelClients
    /\ \A c \in ModelClients : ModelCallHolds(calls[c], passed)

LEMMA GatewayInits == ASSUME Models!GatewayInit PROVE GatewayInv
<1>1. Models!NoCall \in ModelCalls
  BY DEF Models!NoCall, ModelCalls, Options
<1>2. ModelCallHolds(Models!NoCall, passed)
  BY <1>1 DEF ModelCallHolds, Models!NoCall
<1> QED
  BY <1>2 DEF Models!GatewayInit, GatewayInv

(* One call moves; the cards that passed only grow. *)
LEMMA OneModelCallMoves ==
    ASSUME GatewayInv, NEW c \in ModelClients, NEW to, ModelCallHolds(to, passed'),
           calls' = [calls EXCEPT ![c] = to], passed \subseteq passed', checked' \subseteq passed'
    PROVE  GatewayInv'
<1>1. DOMAIN calls' = ModelClients /\ calls'[c] = to /\ \A d \in ModelClients \ {c} : calls'[d] = calls[d]
  BY DEF GatewayInv
<1>2. ASSUME NEW d \in ModelClients \ {c} PROVE ModelCallHolds(calls'[d], passed')
  <2>1. ModelCallHolds(calls[d], passed) /\ calls'[d] = calls[d]
    BY <1>1 DEF GatewayInv
  <2> QED
    BY <2>1 DEF ModelCallHolds
<1> QED
  BY <1>1, <1>2 DEF GatewayInv

(* A call that ends without an answer, or with an empty one that no input asked. *)
LEMMA ModelCallEnds ==
    ASSUME GatewayInv, NEW c \in ModelClients, calls[c].at \in {"props", "send"},
           NEW outcome \in {"answer", "card_mismatch"} \cup Models!Broken,
           outcome = "answer" => calls[c].kind \notin {"embed", "rerank"},
           Models!Ends(c, outcome, << >>), passed \subseteq passed', checked' \subseteq passed'
    PROVE  GatewayInv'
<1>1. PICK to : to = [calls[c] EXCEPT !.at = "done", !.outcome = outcome, !.answer = << >>]
  OBVIOUS
<1>2. calls' = [calls EXCEPT ![c] = to]
  BY <1>1 DEF Models!Ends
<1>3. ModelCallHolds(calls[c], passed) /\ calls[c] \in ModelCalls
  BY DEF GatewayInv, ModelCallHolds
<1>4. to.at = "done" /\ to.outcome = outcome /\ to.answer = << >> /\ to.kind = calls[c].kind
  BY <1>1, <1>3 DEF ModelCalls
<1>5. << >> \in Seq(Nat)
  OBVIOUS
<1>6. to \in ModelCalls
  BY <1>1, <1>3, <1>5 DEF ModelCalls
<1>7. ModelCallHolds(to, passed')
  BY <1>4, <1>6 DEF ModelCallHolds
<1> QED
  BY <1>2, <1>7, OneModelCallMoves

LEMMA StartCallSteps == ASSUME GatewayInv, NEW c \in ModelClients, Models!StartCall(c) PROVE GatewayInv'
<1>1. PICK card \in CardNames, kind \in DOMAIN Models!Needs :
        calls' = [calls EXCEPT ![c] =
          LET new == [Models!NoCall EXCEPT !.card = {card}, !.kind = kind] IN
          IF ModelWork[card].role \notin Models!Needs[kind]
          THEN [new EXCEPT !.at = "done", !.outcome = "wrong_role"]
          ELSE IF ModelWork[card].inputs = 0 /\ kind \in {"embed", "rerank"}
          THEN [new EXCEPT !.at = "done", !.outcome = "answer"]
          ELSE [new EXCEPT !.at = IF card \in checked /\ kind # "prepare" THEN "send" ELSE "props"]]
  BY DEF Models!StartCall, CardNames, Models!Cards
<1>2. UNCHANGED <<checked, passed>>
  BY DEF Models!StartCall
<1>3. PICK new : new = [Models!NoCall EXCEPT !.card = {card}, !.kind = kind]
  OBVIOUS
<1>4. new \in ModelCalls /\ new.card = {card} /\ new.kind = kind /\ new.answer = << >> /\ new.outcome = "none"
  <2>1. DOMAIN Models!Needs = {"embed", "rerank", "chat", "tokenize", "prepare"}
    BY DEF Models!Needs
  <2>2. {card} \in Options(CardNames) /\ << >> \in Seq(Nat)
    BY DEF Options
  <2> QED
    BY <1>3, <2>1, <2>2 DEF Models!NoCall, ModelCalls
<1>5. PICK to :
        /\ calls' = [calls EXCEPT ![c] = to]
        /\ to = IF ModelWork[card].role \notin Models!Needs[kind]
                THEN [new EXCEPT !.at = "done", !.outcome = "wrong_role"]
                ELSE IF ModelWork[card].inputs = 0 /\ kind \in {"embed", "rerank"}
                THEN [new EXCEPT !.at = "done", !.outcome = "answer"]
                ELSE [new EXCEPT !.at = IF card \in checked /\ kind # "prepare" THEN "send" ELSE "props"]
  BY <1>1, <1>3
<1>6. /\ to.card = {card} /\ to.kind = kind /\ to.answer = << >>
      /\ \/ to.at = "done" /\ to.outcome = "wrong_role"
         \/ to.at = "done" /\ to.outcome = "answer" /\ ModelWork[card].inputs = 0
         \/ /\ to.at = "send" /\ to.outcome = "none" /\ card \in checked /\ kind # "prepare"
            /\ ModelWork[card].role \in Models!Needs[kind]
         \/ to.at = "props" /\ to.outcome = "none" /\ ModelWork[card].role \in Models!Needs[kind]
  BY <1>4, <1>5 DEF ModelCalls
<1>7. to \in ModelCalls
  BY <1>4, <1>5 DEF ModelCalls
<1>8. ModelCallHolds(to, passed)
  BY <1>6, <1>7 DEF ModelCallHolds, GatewayInv
<1> QED
  BY <1>2, <1>5, <1>8, OneModelCallMoves DEF GatewayInv

(* by_index puts the answer to each input in its place, whatever order the
   items come in. *)
LEMMA ByIndexPlaces ==
    ASSUME NEW count \in Nat, NEW items \in Models!Items(count), NEW p \in Models!ByIndex(count, items)
    PROVE  p \in Seq(Nat) /\ Len(p) = count /\ \A i \in 1 .. count : p[i] = i
<1> DEFINE at(i) == {k \in DOMAIN items : items[k].index = i}
           pick(i) == CHOOSE k \in at(i) : TRUE
<1>1. \A k \in DOMAIN items : items[k].of = items[k].index
  BY DEF Models!Items
<1>2. /\ p = [i \in 1 .. count |-> items[pick(i)].of]
      /\ \A i \in 1 .. count : Cardinality(at(i)) = 1
  BY SameCardinality DEF Models!ByIndex
<1>3. ASSUME NEW i \in 1 .. count PROVE items[pick(i)].of = i
  <2>1. at(i) # {}
    BY <1>2, <1>3, FS_EmptySet
  <2>2. pick(i) \in at(i)
    BY <2>1
  <2> QED
    BY <1>1, <2>2
<1> HIDE DEF at, pick
<1>4. \A i \in 1 .. count : p[i] = i
  BY <1>2, <1>3
<1>5. p \in [1 .. count -> Nat]
  BY <1>2, <1>3
<1> QED
  BY <1>4, <1>5

LEMMA AnswerSteps == ASSUME GatewayInv, NEW c \in ModelClients, Models!Answer(c) PROVE GatewayInv'
<1> DEFINE r == calls[c]
<1>1. ModelCallHolds(r, passed)
  BY DEF GatewayInv
<1>2. /\ r.at = "send" /\ r.kind \in {"embed", "rerank"} /\ UNCHANGED <<checked, passed>>
  BY DEF Models!Answer
<1>3. PICK card \in CardNames : r.card = {card}
  BY <1>1, <1>2 DEF ModelCallHolds
<1>4. Models!CardOf(c) = card
  BY <1>3 DEF Models!CardOf
<1>5. PICK items \in Models!Items(ModelWork[card].inputs) :
        \/ Models!Ends(c, "invalid_answer", << >>)
        \/ /\ Models!ByIndex(ModelWork[card].inputs, items) # {}
           /\ Models!Ends(c, "answer", CHOOSE p \in Models!ByIndex(ModelWork[card].inputs, items) : TRUE)
  BY <1>4 DEF Models!Answer
<1>6. CASE Models!Ends(c, "invalid_answer", << >>)
  <2>1. "invalid_answer" \in Models!Broken
    BY DEF Models!Broken
  <2> QED
    BY <1>2, <1>6, <2>1, ModelCallEnds DEF GatewayInv
<1>7. ASSUME NEW p \in Models!ByIndex(ModelWork[card].inputs, items), Models!Ends(c, "answer", p)
      PROVE  GatewayInv'
  <2>1. p \in Seq(Nat) /\ Len(p) = ModelWork[card].inputs /\ \A i \in 1 .. ModelWork[card].inputs : p[i] = i
    BY InputsAreCounted, ByIndexPlaces DEF CardNames
  <2>2. PICK to : to = [r EXCEPT !.at = "done", !.outcome = "answer", !.answer = p]
    OBVIOUS
  <2>3. calls' = [calls EXCEPT ![c] = to]
    BY <1>7, <2>2 DEF Models!Ends
  <2>4. r \in ModelCalls
    BY <1>1 DEF ModelCallHolds
  <2>5. to.at = "done" /\ to.outcome = "answer" /\ to.answer = p /\ to.card = {card}
    BY <1>3, <2>2, <2>4 DEF ModelCalls
  <2>6. to \in ModelCalls
    BY <2>1, <2>2, <2>4 DEF ModelCalls
  <2>7. ModelCallHolds(to, passed)
    BY <2>1, <2>5, <2>6 DEF ModelCallHolds
  <2> QED
    BY <1>2, <2>3, <2>7, OneModelCallMoves DEF GatewayInv
<1> QED
  BY <1>5, <1>6, <1>7

LEMMA SendFailsSteps == ASSUME GatewayInv, NEW c \in ModelClients, Models!SendFails(c) PROVE GatewayInv'
<1>1. PICK error \in Models!Broken : Models!Ends(c, error, << >>)
  BY DEF Models!SendFails
<1>2. error # "answer"
  BY DEF Models!Broken, Models!Refusal
<1>3. calls[c].at \in {"props", "send"} /\ UNCHANGED <<checked, passed>>
  BY DEF Models!SendFails
<1> QED
  BY <1>1, <1>2, <1>3, ModelCallEnds DEF GatewayInv

LEMMA CheckPropsSteps == ASSUME GatewayInv, NEW c \in ModelClients, Models!CheckProps(c) PROVE GatewayInv'
<1> DEFINE r == calls[c]
<1>1. ModelCallHolds(r, passed) /\ r.at = "props" /\ checked \subseteq passed
  BY DEF GatewayInv, Models!CheckProps
<1>2. PICK card \in CardNames : r.card = {card} /\ ModelWork[card].role \in Models!Needs[r.kind]
  BY <1>1 DEF ModelCallHolds
<1>3. Models!CardOf(c) = card
  BY <1>2 DEF Models!CardOf
<1>4. \/ /\ checked' = checked \cup {card} /\ passed' = passed \cup {card} /\ r.kind = "prepare"
         /\ Models!Ends(c, "answer", << >>)
      \/ /\ checked' = checked \cup {card} /\ passed' = passed \cup {card} /\ r.kind # "prepare"
         /\ calls' = [calls EXCEPT ![c].at = "send"]
      \/ Models!Ends(c, "card_mismatch", << >>) /\ UNCHANGED <<checked, passed>>
  BY <1>3 DEF Models!CheckProps
<1>5. passed \subseteq passed' /\ checked' \subseteq passed'
  BY <1>1, <1>4
<1>6. CASE r.kind = "prepare" /\ Models!Ends(c, "answer", << >>)
  BY <1>1, <1>5, <1>6, ModelCallEnds
<1>7. CASE Models!Ends(c, "card_mismatch", << >>)
  BY <1>1, <1>5, <1>7, ModelCallEnds
<1>8. CASE /\ passed' = passed \cup {card} /\ r.kind # "prepare"
           /\ calls' = [calls EXCEPT ![c].at = "send"]
  <2>1. PICK to : to = [r EXCEPT !.at = "send"]
    OBVIOUS
  <2>2. calls' = [calls EXCEPT ![c] = to]
    BY <1>8, <2>1
  <2>3. r \in ModelCalls
    BY <1>1 DEF ModelCallHolds
  <2>4. /\ to.at = "send" /\ to.outcome = r.outcome /\ to.kind = r.kind /\ to.card = {card}
        /\ to \in ModelCalls
    BY <1>2, <2>1, <2>3 DEF ModelCalls
  <2>5. ModelCallHolds(to, passed')
    BY <1>1, <1>2, <1>8, <2>4 DEF ModelCallHolds
  <2> QED
    BY <1>5, <2>2, <2>5, OneModelCallMoves
<1> QED
  BY <1>4, <1>6, <1>7, <1>8

LEMMA ReplySteps == ASSUME GatewayInv, NEW c \in ModelClients, Models!Reply(c) PROVE GatewayInv'
<1>1. /\ calls[c].at = "send" /\ calls[c].kind \in {"chat", "tokenize"}
      /\ UNCHANGED <<checked, passed>>
  BY DEF Models!Reply
<1>2. Models!Ends(c, "answer", << >>) \/ Models!Ends(c, "invalid_answer", << >>)
  BY DEF Models!Reply
<1>3. "invalid_answer" \in Models!Broken
  BY DEF Models!Broken
<1> QED
  BY <1>1, <1>2, <1>3, ModelCallEnds DEF GatewayInv

LEMMA GatewaySteps == ASSUME GatewayInv, Models!GatewayNext PROVE GatewayInv'
<1>1. CASE Models!ServerReplaced
  BY <1>1 DEF Models!ServerReplaced, GatewayInv
<1> QED
  BY <1>1, StartCallSteps, SendFailsSteps, CheckPropsSteps, AnswerSteps, ReplySteps DEF Models!GatewayNext

LEMMA GatewayAnswers == ASSUME GatewayInv PROVE Models!AnswersAreInPlace
<1> SUFFICES ASSUME NEW c \in ModelClients
             PROVE  /\ calls[c].outcome = "answer" =>
                         \A i \in DOMAIN calls[c].answer : calls[c].answer[i] = i
                    /\ calls[c].at = "send" =>
                         /\ Models!CardOf(c) \in passed
                         /\ ModelWork[Models!CardOf(c)].role \in Models!Needs[calls[c].kind]
                    /\ calls[c].outcome = "answer" /\ calls[c].kind \in {"embed", "rerank"} =>
                         Len(calls[c].answer) = ModelWork[Models!CardOf(c)].inputs
  BY DEF Models!AnswersAreInPlace
<1>1. ModelCallHolds(calls[c], passed)
  BY DEF GatewayInv
<1>2. \A card : calls[c].card = {card} => Models!CardOf(c) = card
  BY DEF Models!CardOf
<1> QED
  BY <1>1, <1>2 DEF ModelCallHolds

(* The cards.  An edit of a typed card is typed, as often as it is edited. *)
CardInv ==
    /\ edits \in 0 .. 2 /\ TypedCard(input)
    /\ edits = 0 => input \in InputsOf("cards")
    /\ edits = 1 => \E c \in InputsOf("cards") : input \in EditCard(c)

LEMMA CardSteps ==
    ASSUME CardInv, edits < 2, edits' = edits + 1, input' \in EditCard(input)
    PROVE  CardInv'
<1>1. edits = 0 \/ edits = 1
  BY DEF CardInv
<1>2. CASE edits = 0
  BY <1>2, CardsAreTyped DEF CardInv
<1>3. CASE edits = 1
  <2>1. PICK c \in InputsOf("cards") : input \in EditCard(c)
    BY <1>3 DEF CardInv
  <2>2. TypedCard(input')
    BY SMTT(30), <2>1, CardsAreTyped
  <2> QED
    BY <1>3, <2>2 DEF CardInv
<1> QED
  BY <1>1, <1>2, <1>3

(* The reply cap is at least one token, and no more than the card declares
   or any chat may ask. *)
Limits(option) == \E n \in Nat : n >= 1 /\ option \in {{}, {n}}

LEMMA ReplyCapFits ==
    ASSUME NEW card, NEW requested, Limits(requested), Limits(card.output)
    PROVE  /\ Identity!ReplyCap(card, requested) \in 1 .. 2048
           /\ \A limit \in card.output : Identity!ReplyCap(card, requested) <= limit
<1>0. PICK n \in Nat, m \in Nat :
        /\ n >= 1 /\ requested \in {{}, {n}}
        /\ m >= 1 /\ card.output \in {{}, {m}}
  BY DEF Limits
<1> DEFINE lesser(a, b) == IF a < b THEN a ELSE b
           wanted == IF requested # {} THEN n ELSE IF card.output # {} THEN m ELSE 1024
           cap == lesser(IF card.output = {} THEN wanted ELSE lesser(wanted, m), 2048)
<1>1. /\ requested # {} => (CHOOSE x \in requested : TRUE) = n
      /\ card.output # {} => (CHOOSE x \in card.output : TRUE) = m
  BY <1>0
<1>2. Identity!ReplyCap(card, requested) = cap
  <2> DEFINE first(option) == CHOOSE x \in option : TRUE
             asked == IF requested # {} THEN first(requested)
                      ELSE IF card.output # {} THEN first(card.output) ELSE 1024
  <2>0. Identity!ReplyCap(card, requested) =
          lesser(IF card.output = {} THEN asked ELSE lesser(asked, first(card.output)), 2048)
    BY DEF Identity!ReplyCap, Identity!MaxChatOutputTokens, Identity!DefaultChatOutputTokens
  <2>a. /\ requested # {} => first(requested) = n
        /\ card.output # {} => first(card.output) = m
    BY <1>1
  <2> HIDE DEF first
  <2>1. CASE requested = {} /\ card.output = {}
    BY <2>0, <2>1
  <2>2. CASE requested # {} /\ card.output = {}
    BY <1>0, <2>0, <2>a, <2>2
  <2>3. CASE requested = {} /\ card.output # {}
    BY <1>0, <2>0, <2>a, <2>3
  <2>4. CASE requested # {} /\ card.output # {}
    BY <1>0, <2>0, <2>a, <2>4
  <2> QED
    BY <2>1, <2>2, <2>3, <2>4
<1>3. cap \in 1 .. 2048 /\ (card.output # {} => cap <= m)
  <2>1. /\ n \in Nat /\ n >= 1 /\ m \in Nat /\ m >= 1
        /\ wanted \in Nat /\ wanted >= 1
    BY <1>0
  <2> HIDE DEF wanted
  <2>2. CASE card.output = {}
    <3>1. cap = lesser(wanted, 2048)
      BY <2>2
    <3> HIDE DEF cap
    <3> QED
      BY <2>1, <2>2, <3>1
  <2>3. CASE card.output # {}
    <3>1. cap = lesser(lesser(wanted, m), 2048)
      BY <2>3
    <3> HIDE DEF cap
    <3> QED
      BY <2>1, <2>3, <3>1
  <2> QED
    BY <2>2, <2>3
<1> QED
  BY <1>0, <1>2, <1>3

LEMMA TypedCardsAnswer == ASSUME NEW c, TypedCard(c) PROVE Identity!ValidCardsAnswer(c)
<1> SUFFICES ASSUME Identity!Validate(c) PROVE
      LET card == Identity!CardFields(c) IN
      /\ Identity!MayEmbed(card) <=> c.role = "embedder"
      /\ Identity!MayRerank(card) <=> c.role = "reranker"
      /\ \A requested \in {{}, {1}, {700}, {5000}} :
           Identity!MayChat(card, Identity!Controls(card), Identity!ReplyCap(card, requested))
             <=> c.role = "answerer" /\ c.invocation.reasoning # "not_applicable"
  BY DEF Identity!ValidCardsAnswer, Identity!NotApplicable
<1>0. Identity!ValidateRole(c)
  BY DEF Identity!Validate
<1>1. PICK card : card = Identity!CardFields(c)
  OBVIOUS
<1>2. /\ card.role = c.role /\ card.dimensions = c.invocation.dimensions
      /\ card.output = c.invocation.output /\ card.sampling = c.invocation.sampling
      /\ card.reasoning = c.invocation.reasoning
  BY <1>1 DEF Identity!CardFields
<1>3. /\ c.role = "embedder" => c.invocation.dimensions # {}
      /\ c.role = "answerer" => c.invocation.sampling = "configured"
  BY <1>0 DEF Identity!ValidateRole
<1>4. /\ Identity!MayEmbed(card) <=> c.role = "embedder"
      /\ Identity!MayRerank(card) <=> c.role = "reranker"
  BY <1>2, <1>3 DEF Identity!MayEmbed, Identity!MayRerank
<1>5. Limits(card.output)
  BY <1>2 DEF TypedCard, Limits
<1>6. ASSUME NEW requested \in {{}, {1}, {700}, {5000}}
      PROVE  Identity!MayChat(card, Identity!Controls(card), Identity!ReplyCap(card, requested))
               <=> c.role = "answerer" /\ c.invocation.reasoning # "not_applicable"
  <2>1. Limits(requested)
    BY DEF Limits
  <2>2. PICK cap : cap = Identity!ReplyCap(card, requested)
    OBVIOUS
  <2>3. cap \in 1 .. 2048 /\ \A limit \in card.output : cap <= limit
    <3>1. /\ Identity!ReplyCap(card, requested) \in 1 .. 2048
          /\ \A limit \in card.output : Identity!ReplyCap(card, requested) <= limit
      BY <1>5, <2>1, ReplyCapFits
    <3> QED
      BY <2>2, <3>1
  <2>4. Identity!MayChat(card, Identity!Controls(card), cap)
          <=> c.role = "answerer" /\ c.invocation.reasoning # "not_applicable"
    BY <1>2, <1>3, <2>3 DEF TypedCard, Identity!MayChat, Identity!Controls, Identity!MaxChatOutputTokens,
       Identity!Supported, Identity!NotApplicable
  <2> QED
    BY <2>2, <2>4
<1> QED
  BY <1>1, <1>4, <1>6

(* However the servers are replaced, and order, repeat or leave out what they
   answer, a call of the gateway answers each input in its place, and asks no
   model for a card of another role or that no server matched; and a card that
   passes its checks can do what its role is for (gateway/router.rs,
   gateway/card.rs). *)
THEOREM CallsAreAnsweredHolds == ServerSpec => []CallsAreAnswered
<1> DEFINE I == /\ part = "gateway" => GatewayInv
                /\ part = "cards" => CardInv
<1>1. ServerInit => I
  BY GatewayInits, CardsAreTyped DEF ServerInit, StartAs, CardInv
<1>2. I /\ [ServerNext]_serverVars => I'
  <2>1. ASSUME I, ServerNext PROVE I'
    BY <2>1, StepsOfParts, GatewaySteps, CardSteps
  <2>2. ASSUME I, UNCHANGED serverVars PROVE I'
    BY <2>2 DEF serverVars, partVars, serverPartsVars, gatewayVars, GatewayInv, CardInv
  <2> QED
    BY <2>1, <2>2
<1>3. I => CallsAreAnswered
  BY GatewayAnswers, TypedCardsAnswer DEF CallsAreAnswered, CardInv
<1> QED
  BY <1>1, <1>2, <1>3, PTL DEF ServerSpec, serverVars

-----------------------------------------------------------------------------
(* The preferences file.  A command changes it under the lock, so at most one
   is past the lock; what the history tells is what the file held before that
   command published, until it journals the change or leaves it untold. *)

Commands == DOMAIN SettingChanges
SettingKeys == DOMAIN SettingDescriptors
Values(text) == Preferences!The(Preferences!Layer(text))
Reads(text) == Preferences!Layer(text) # {}
(* What a command writes over a text, and when it has not told it yet. *)
Published(c, text) ==
    {Preferences!Texts(TRUE, Preferences!With(Values(text), SettingChanges[c].key, SettingChanges[c].value))}
Publishing(c) == settingsEdits[c].at \in {"journal", "undo"}

PastLock == {"edit", "kernel", "check", "copy", "replace", "journal", "keep", "undo", "confirm"}
EditSteps == PastLock \cup {"start", "lock"} \cup Preferences!Ended

EditsTyped ==
    /\ DOMAIN settingsEdits = Commands
    /\ \A c \in Commands : DOMAIN settingsEdits[c] = {"at", "before", "published", "old"}

(* One command holds the lock, and was allowed to set its key. *)
LockHeld(c) ==
    /\ settingsEdits[c].at \in PastLock => locked = {c}
    /\ settingsEdits[c].at \in PastLock \cup {"lock"} => Preferences!MaySet(c)

Explains(text) ==
    \A k \in SettingKeys \ untold : Preferences!Valued(Values(text), k) = Preferences!Told(k)

(* What the command that holds the lock knows of the file, while no other
   program wrote it. *)
CommandFile(c) ==
    LET e == settingsEdits[c] IN
    /\ e.at \in PastLock => Reads(e.before)
    /\ e.at \in {"edit", "kernel", "check", "copy", "replace", "confirm"} => file = e.before
    /\ e.at \in {"kernel", "check", "copy", "replace", "journal", "keep", "undo"} =>
         /\ e.published = Published(c, e.before)
         /\ e.old = Preferences!Valued(Values(e.before), SettingChanges[c].key)
    /\ e.at \in {"journal", "keep", "undo"} => file = e.published
    /\ e.at \in {"journal", "undo"} => Explains(e.before)

FileInv ==
    /\ Reads(file)
    /\ \A c \in Commands : CommandFile(c)
    /\ (\A c \in Commands : ~Publishing(c)) => Explains(file)

(* A change tells what the change before it left. *)
Chain ==
    \A i, j \in DOMAIN history :
       /\ i < j /\ history[i].key = history[j].key /\ history[j].key \notin untold
       /\ \A m \in i+1 .. j-1 : history[m].key # history[j].key
       => history[j].old = history[i].new

HistoryTyped ==
    /\ \E S : history \in Seq(S)
    /\ \A i \in DOMAIN history : history[i].key \in SettingKeys

SettingsInv ==
    /\ EditsTyped /\ HistoryTyped /\ rewrites \in Nat /\ untold \subseteq SettingKeys
    /\ rewrites > 0 => untold = SettingKeys
    /\ \A c \in Commands : LockHeld(c)
    /\ rewrites = 0 => FileInv
    /\ Chain

(* The values of a text that can be read are unlocked and of their kinds. *)
LEMMA ValuesAreAccepted ==
    ASSUME NEW text, Reads(text)
    PROVE  /\ Preferences!Layer(text) = {Values(text)}
           /\ \A k \in DOMAIN Values(text) :
                 /\ SettingDescriptors[k].class # "locked"
                 /\ Preferences!Accepts(SettingDescriptors[k].kind, Values(text)[k])
<1>1. CASE text = {}
  BY <1>1 DEF Reads, Values, Preferences!Layer, Preferences!None, Preferences!Some, Preferences!The, Preferences!Empty
<1>2. CASE text # {}
  <2> DEFINE t == Preferences!The(text)
  <2>1. /\ Preferences!Layer(text) = {t.values}
        /\ \A k \in DOMAIN t.values : /\ SettingDescriptors[k].class # "locked"
                                       /\ Preferences!Accepts(SettingDescriptors[k].kind, t.values[k])
    BY <1>2 DEF Reads, Preferences!Layer, Preferences!None, Preferences!Some, Preferences!ParsesAs
  <2>2. Values(text) = t.values
    BY <2>1 DEF Values, Preferences!The
  <2> QED
    BY <2>1, <2>2
<1> QED
  BY <1>1, <1>2

(* The text a change publishes: it can be read, holds the new value of its
   key, and the old one of every other. *)
LEMMA ChangePublishes ==
    ASSUME NEW c \in Commands, NEW text, Reads(text), Preferences!MaySet(c),
           NEW new, new = Published(c, text)
    PROVE  /\ Reads(new)
           /\ Preferences!Valued(Values(new), SettingChanges[c].key) = SettingChanges[c].value
           /\ \A k \in SettingKeys \ {SettingChanges[c].key} :
                 Preferences!Valued(Values(new), k) = Preferences!Valued(Values(text), k)
<1> DEFINE key == SettingChanges[c].key
           value == SettingChanges[c].value
           layer == Values(text)
<1>1. PICK w : w = Preferences!With(layer, key, value)
  OBVIOUS
<1>2. \A v \in value : value = {v} /\ Preferences!The(value) = v
  BY SettingsAreRegistered DEF Preferences!The, Commands
<1>3. /\ DOMAIN w = (DOMAIN layer \ {key}) \cup {j \in {key} : value # {}}
      /\ \A k \in DOMAIN w : w[k] = IF k = key THEN Preferences!The(value) ELSE layer[k]
  BY <1>1 DEF Preferences!With, Preferences!None
<1>4. ASSUME NEW k \in DOMAIN w
      PROVE  SettingDescriptors[k].class # "locked" /\ Preferences!Accepts(SettingDescriptors[k].kind, w[k])
  <2>1. CASE k = key
    <3>1. PICK v \in value : w[k] = v
      BY <1>2, <1>3, <2>1
    <3> QED
      BY <2>1, <3>1 DEF Preferences!MaySet, Preferences!KeyOf
  <2>2. CASE k # key
    <3>1. k \in DOMAIN layer /\ w[k] = layer[k]
      BY <1>3, <2>2
    <3> QED
      BY <3>1, ValuesAreAccepted
  <2> QED
    BY <2>1, <2>2
<1>5. Preferences!Layer(new) = {w}
  <2>1. new # {} /\ Preferences!The(new) = Preferences!Texts(TRUE, w)
    BY <1>1 DEF Published, Preferences!The
  <2>2. PICK t : t = Preferences!Texts(TRUE, w)
    OBVIOUS
  <2>3. t.valid /\ t.values = w
    BY <2>2 DEF Preferences!Texts
  <2>4. Preferences!ParsesAs(t) = {w}
    BY <1>4, <2>3 DEF Preferences!ParsesAs, Preferences!Some
  <2> QED
    BY <2>1, <2>2, <2>4 DEF Preferences!Layer, Preferences!None
<1>6. Reads(new) /\ Values(new) = w
  BY <1>5 DEF Reads, Values, Preferences!The
<1>7. Preferences!Valued(w, key) = value
  <2>1. CASE value = {}
    BY <1>3, <2>1 DEF Preferences!Valued, Preferences!None
  <2>2. CASE value # {}
    BY <1>2, <1>3, <2>2 DEF Preferences!Valued, Preferences!Some
  <2> QED
    BY <2>1, <2>2
<1>8. \A k : k # key => Preferences!Valued(w, k) = Preferences!Valued(layer, k)
  BY <1>3 DEF Preferences!Valued
<1> QED
  BY <1>6, <1>7, <1>8

(* A command goes to another step; the others stay. *)
LEMMA EditGoes ==
    ASSUME EditsTyped, NEW c \in Commands, NEW step, Preferences!Goes(c, step)
    PROVE  /\ EditsTyped' /\ settingsEdits'[c].at = step
           /\ settingsEdits'[c].before = settingsEdits[c].before
           /\ settingsEdits'[c].published = settingsEdits[c].published
           /\ settingsEdits'[c].old = settingsEdits[c].old
           /\ \A d \in Commands \ {c} : settingsEdits'[d] = settingsEdits[d]
  BY DEF EditsTyped, Preferences!Goes

(* A step that leaves the file, the history and what is untold. *)
LEMMA QuietStep ==
    ASSUME SettingsInv, NEW c \in Commands, EditsTyped',
           \A d \in Commands \ {c} : settingsEdits'[d] = settingsEdits[d],
           UNCHANGED <<file, history, untold, rewrites>>,
           LockHeld(c)', locked' \in {locked, locked \ {c}} \/ locked = {},
           rewrites = 0 => CommandFile(c)', Publishing(c)' <=> Publishing(c)
    PROVE  SettingsInv'
<1>1. EditsTyped' /\ HistoryTyped' /\ rewrites' \in Nat /\ (untold \subseteq SettingKeys)' /\ Chain'
  BY DEF SettingsInv, HistoryTyped, Chain
<1>2. (rewrites > 0 => untold = SettingKeys)'
  BY DEF SettingsInv
<1>3. ASSUME NEW d \in Commands PROVE LockHeld(d)'
  <2>1. CASE d = c
    BY <2>1
  <2>2. CASE d # c
    <3>1. LockHeld(d) /\ settingsEdits'[d] = settingsEdits[d]
      BY <2>2 DEF SettingsInv
    <3>2. settingsEdits[d].at \in PastLock => locked' = {d}
      BY <2>2, <3>1 DEF LockHeld
    <3> QED
      BY <3>1, <3>2 DEF LockHeld, Preferences!MaySet, Preferences!KeyOf
  <2> QED
    BY <2>1, <2>2
<1>4. ASSUME rewrites' = 0 PROVE FileInv'
  <2>1. FileInv
    BY <1>4 DEF SettingsInv
  <2>2. \A text : Explains(text)' <=> Explains(text)
    BY DEF Explains, Preferences!Told
  <2>3. \A d \in Commands : CommandFile(d)'
    BY <1>4, <2>1, <2>2 DEF FileInv, CommandFile
  <2>4. \A d \in Commands : Publishing(d)' <=> Publishing(d)
    BY DEF Publishing
  <2> QED
    BY <2>1, <2>2, <2>3, <2>4 DEF FileInv, Reads
<1> QED
  BY <1>1, <1>2, <1>3, <1>4 DEF SettingsInv

(* A command ends and releases the lock, having changed nothing. *)
LEMMA QuietEnd ==
    ASSUME SettingsInv, NEW c \in Commands, NEW outcome \in Preferences!Ended,
           Preferences!EndsAs(c, outcome), ~Publishing(c), UNCHANGED <<file, history, untold, rewrites>>
    PROVE  SettingsInv'
<1>1. Preferences!Goes(c, outcome) /\ locked' = locked \ {c} /\ EditsTyped
  BY DEF Preferences!EndsAs, SettingsInv
<1>2. outcome \notin PastLock \cup {"lock"}
  BY DEF Preferences!Ended, PastLock
<1>3. /\ EditsTyped' /\ settingsEdits'[c].at = outcome
      /\ \A d \in Commands \ {c} : settingsEdits'[d] = settingsEdits[d]
  BY <1>1, EditGoes
<1>4. LockHeld(c)' /\ CommandFile(c)' /\ ~Publishing(c)'
  BY <1>2, <1>3 DEF LockHeld, CommandFile, PastLock, Publishing
<1> QED
  BY <1>1, <1>3, <1>4, QuietStep

(* A command that holds the lock goes on, having changed nothing. *)
LEMMA QuietGo ==
    ASSUME SettingsInv, NEW c \in Commands, NEW step, settingsEdits[c].at \in PastLock, step \in PastLock,
           Preferences!Goes(c, step), UNCHANGED <<locked, file, history, untold, rewrites>>,
           <<settingsEdits[c].at, step>> \in
              {<<"kernel", "check">>, <<"check", "copy">>, <<"copy", "replace">>, <<"journal", "undo">>}
    PROVE  SettingsInv'
<1>1. /\ EditsTyped' /\ settingsEdits'[c].at = step
      /\ settingsEdits'[c].before = settingsEdits[c].before
      /\ settingsEdits'[c].published = settingsEdits[c].published
      /\ settingsEdits'[c].old = settingsEdits[c].old
      /\ \A d \in Commands \ {c} : settingsEdits'[d] = settingsEdits[d]
  BY EditGoes DEF SettingsInv
<1>2. LockHeld(c)'
  BY <1>1 DEF SettingsInv, LockHeld, Preferences!MaySet, Preferences!KeyOf
<1>3. ASSUME rewrites = 0 PROVE CommandFile(c)'
  <2>1. CommandFile(c)
    BY <1>3 DEF SettingsInv, FileInv
  <2>2. \A text : /\ Explains(text)' <=> Explains(text)
                  /\ Reads(text)' <=> Reads(text)
    BY DEF Explains, Preferences!Told, Reads
  <2> QED
    BY <1>1, <2>1, <2>2 DEF CommandFile, PastLock
<1>4. Publishing(c)' <=> Publishing(c)
  BY <1>1 DEF Publishing
<1> QED
  BY <1>1, <1>2, <1>3, <1>4, QuietStep

LEMMA BeginSteps == ASSUME SettingsInv, NEW c \in Commands, Preferences!Begin(c) PROVE SettingsInv'
<1>1. settingsEdits[c].at = "start" /\ UNCHANGED <<file, history, untold, rewrites>>
  BY DEF Preferences!Begin
<1>2. ASSUME NEW outcome \in {"refused", "unchanged"}, Preferences!EndsAs(c, outcome) PROVE SettingsInv'
  BY <1>1, <1>2, QuietEnd DEF Preferences!Ended, Publishing
<1>3. CASE Preferences!MaySet(c) /\ Preferences!Goes(c, "lock") /\ locked' = locked
  <2>1. /\ EditsTyped' /\ settingsEdits'[c].at = "lock"
        /\ \A d \in Commands \ {c} : settingsEdits'[d] = settingsEdits[d]
    BY <1>3, EditGoes DEF SettingsInv
  <2>2. LockHeld(c)' /\ CommandFile(c)' /\ (Publishing(c)' <=> Publishing(c))
    BY <1>1, <1>3, <2>1 DEF LockHeld, CommandFile, Publishing, PastLock, Preferences!MaySet, Preferences!KeyOf
  <2> QED
    BY <1>1, <1>3, <2>1, <2>2, QuietStep
<1> QED
  BY <1>2, <1>3 DEF Preferences!Begin

LEMMA TakeLockSteps == ASSUME SettingsInv, NEW c \in Commands, Preferences!TakeLock(c) PROVE SettingsInv'
<1>1. settingsEdits[c].at = "lock" /\ UNCHANGED <<file, history, untold, rewrites>>
  BY DEF Preferences!TakeLock
<1>2. CASE Preferences!EndsAs(c, "refused")
  BY <1>1, <1>2, QuietEnd DEF Preferences!Ended, Publishing
<1>3. CASE /\ locked = {} /\ locked' = {c}
           /\ settingsEdits' = [settingsEdits EXCEPT ![c].at = "edit", ![c].before = file]
  <2>1. /\ EditsTyped' /\ settingsEdits'[c].at = "edit" /\ settingsEdits'[c].before = file
        /\ \A d \in Commands \ {c} : settingsEdits'[d] = settingsEdits[d]
    BY <1>3 DEF SettingsInv, EditsTyped
  <2>2. LockHeld(c)' /\ (Publishing(c)' <=> Publishing(c))
    BY <1>1, <1>3, <2>1 DEF SettingsInv, LockHeld, Publishing, PastLock, Preferences!MaySet, Preferences!KeyOf
  <2>3. ASSUME rewrites = 0 PROVE CommandFile(c)'
    <3>1. Reads(file)'
      BY <1>1, <2>3 DEF SettingsInv, FileInv, Reads
    <3> QED
      BY <1>1, <2>1, <3>1 DEF CommandFile, PastLock, Reads
  <2> QED
    BY <1>1, <1>3, <2>1, <2>2, <2>3, QuietStep
<1> QED
  BY <1>2, <1>3 DEF Preferences!TakeLock, Preferences!None, Preferences!Some

LEMMA EditTextSteps == ASSUME SettingsInv, NEW c \in Commands, Preferences!EditText(c) PROVE SettingsInv'
<1> DEFINE e == settingsEdits[c]
<1>1. e.at = "edit" /\ UNCHANGED <<file, history, untold, rewrites>>
  BY DEF Preferences!EditText
<1>2. ASSUME NEW outcome \in {"refused", "unchanged"}, Preferences!EndsAs(c, outcome) PROVE SettingsInv'
  BY <1>1, <1>2, QuietEnd DEF Preferences!Ended, Publishing
<1>3. CASE /\ settingsEdits' = [settingsEdits EXCEPT ![c].at = "kernel",
                ![c].old = Preferences!Valued(Values(e.before), SettingChanges[c].key),
                ![c].published = Published(c, e.before)]
           /\ UNCHANGED locked
  <2>1. /\ EditsTyped' /\ settingsEdits'[c].at = "kernel" /\ settingsEdits'[c].before = e.before
        /\ settingsEdits'[c].old = Preferences!Valued(Values(e.before), SettingChanges[c].key)
        /\ settingsEdits'[c].published = Published(c, e.before)
        /\ \A d \in Commands \ {c} : settingsEdits'[d] = settingsEdits[d]
    BY <1>3 DEF SettingsInv, EditsTyped
  <2>2. LockHeld(c)' /\ (Publishing(c)' <=> Publishing(c))
    BY <1>1, <1>3, <2>1 DEF SettingsInv, LockHeld, Publishing, PastLock, Preferences!MaySet, Preferences!KeyOf
  <2>3. ASSUME rewrites = 0 PROVE CommandFile(c)'
    <3>1. CommandFile(c)
      BY <2>3 DEF SettingsInv, FileInv
    <3> QED
      BY <1>1, <2>1, <3>1 DEF CommandFile, PastLock, Reads, Values, Published
  <2> QED
    BY <1>1, <1>3, <2>1, <2>2, <2>3, QuietStep
<1> QED
  BY <1>2, <1>3 DEF Preferences!EditText, Values, Published, Preferences!KeyOf, Preferences!Some

(* The steps before the file is replaced, and after the change is told. *)
LEMMA QuietCommandSteps ==
    ASSUME SettingsInv, NEW c \in Commands,
           \/ Preferences!OpenKernel(c) \/ Preferences!CheckUnchanged(c) \/ Preferences!KeepRecovery(c)
           \/ Preferences!Keep(c) \/ Preferences!Confirm(c)
    PROVE  SettingsInv'
<1>1. UNCHANGED <<file, history, untold, rewrites>>
  BY DEF Preferences!OpenKernel, Preferences!CheckUnchanged, Preferences!KeepRecovery, Preferences!Keep,
     Preferences!Confirm
<1>2. settingsEdits[c].at \in {"kernel", "check", "copy", "keep", "confirm"}
  BY DEF Preferences!OpenKernel, Preferences!CheckUnchanged, Preferences!KeepRecovery, Preferences!Keep,
     Preferences!Confirm
<1>3. ASSUME NEW outcome \in Preferences!Ended, Preferences!EndsAs(c, outcome) PROVE SettingsInv'
  BY <1>1, <1>2, <1>3, QuietEnd DEF Publishing
<1>4. ASSUME NEW step, Preferences!Goes(c, step), UNCHANGED locked,
             <<settingsEdits[c].at, step>> \in {<<"kernel", "check">>, <<"check", "copy">>, <<"copy", "replace">>}
      PROVE  SettingsInv'
  BY <1>1, <1>4, QuietGo DEF PastLock
<1>5. \/ \E outcome \in Preferences!Ended : Preferences!EndsAs(c, outcome)
      \/ \E step : /\ Preferences!Goes(c, step) /\ UNCHANGED locked
                   /\ <<settingsEdits[c].at, step>> \in
                         {<<"kernel", "check">>, <<"check", "copy">>, <<"copy", "replace">>}
  <2> USE DEF Preferences!Ended
  <2>1. CASE Preferences!OpenKernel(c)
    BY <2>1 DEF Preferences!OpenKernel
  <2>2. CASE Preferences!CheckUnchanged(c)
    BY <2>2 DEF Preferences!CheckUnchanged
  <2>3. CASE Preferences!KeepRecovery(c)
    BY <2>3 DEF Preferences!KeepRecovery
  <2>4. CASE Preferences!Keep(c) \/ Preferences!Confirm(c)
    BY <2>4 DEF Preferences!Keep, Preferences!Confirm
  <2> QED
    BY <2>1, <2>2, <2>3, <2>4
<1> QED
  BY <1>3, <1>4, <1>5

(* The last change of a key in a history. *)
ChangesOf(h, key) == {i \in DOMAIN h : h[i].key = key}
LastIn(S) == CHOOSE i \in S : \A j \in S : j <= i

LEMMA LastExists ==
    ASSUME NEW n \in Nat, NEW S \in SUBSET (1 .. n), S # {}
    PROVE  /\ LastIn(S) \in S
           /\ \A j \in S : j <= LastIn(S)
<1> DEFINE T == {n - i : i \in S}
<1>0. \A i \in S : n - i \in T /\ n - i \in Nat
  OBVIOUS
<1>1. T \subseteq Nat /\ T # {}
  <2>1. PICK i : i \in S
    OBVIOUS
  <2> QED
    BY <1>0, <2>1
<1>2. PICK m \in T : \A k \in T : ~(<<k, m>> \in OpToRel(<, Nat))
  BY <1>1, NatLessThanWellFounded, WFMin
<1>3. PICK i \in S : m = n - i
  OBVIOUS
<1>4. ASSUME NEW j \in S PROVE j <= i
  <2>1. n - j \in T /\ n - j \in Nat /\ m \in Nat
    BY <1>1
  <2>2. ~(n - j < m)
    BY <1>2, <2>1 DEF OpToRel
  <2> QED
    BY <1>3, <2>2
<1> QED
  BY <1>4 DEF LastIn

LEMMA LastIs ==
    ASSUME NEW S \in SUBSET Nat, NEW i \in S, \A j \in S : j <= i
    PROVE  LastIn(S) = i
<1>1. LastIn(S) \in S /\ \A j \in S : j <= LastIn(S)
  BY DEF LastIn
<1>2. LastIn(S) <= i /\ i <= LastIn(S) /\ LastIn(S) \in Nat /\ i \in Nat
  BY <1>1
<1> QED
  BY <1>2

LEMMA ToldIs ==
    ASSUME NEW key
    PROVE  Preferences!Told(key) =
             IF ChangesOf(history, key) = {} THEN {} ELSE history[LastIn(ChangesOf(history, key))].new
  BY DEF Preferences!Told, ChangesOf, LastIn, Preferences!None

LEMMA ToldIsNext ==
    ASSUME NEW key
    PROVE  Preferences!Told(key)' =
             IF ChangesOf(history', key) = {} THEN {} ELSE history'[LastIn(ChangesOf(history', key))].new
  BY DEF Preferences!Told, ChangesOf, LastIn, Preferences!None

(* A journaled change is what the history now tells of its key, and the
   history tells of the others what it told. *)
LEMMA AppendTells ==
    ASSUME HistoryTyped, NEW r, history' = Append(history, r)
    PROVE  /\ Preferences!Told(r.key)' = r.new
           /\ \A k : k # r.key => Preferences!Told(k)' = Preferences!Told(k)
<1>1. PICK n \in Nat : n = Len(history)
  BY DEF HistoryTyped
<1>2. /\ DOMAIN history = 1 .. n /\ DOMAIN history' = 1 .. n + 1 /\ history'[n + 1] = r
      /\ \A i \in 1 .. n : history'[i] = history[i]
  <2>1. PICK S : history \in Seq(S)
    BY DEF HistoryTyped
  <2>2. history \in Seq(S \cup {r})
    BY <2>1
  <2> QED
    BY <1>1, <2>2
<1>3. Preferences!Told(r.key)' = r.new
  <2> DEFINE S == ChangesOf(history', r.key)
  <2>1. n + 1 \in S /\ S \in SUBSET (1 .. n + 1)
    BY <1>2 DEF ChangesOf
  <2>2. LastIn(S) = n + 1
    <3>1. S \in SUBSET Nat /\ \A j \in S : j <= n + 1
      BY <2>1
    <3> HIDE DEF S
    <3> QED
      BY <2>1, <3>1, LastIs
  <2> QED
    BY <1>2, <2>1, <2>2, ToldIsNext
<1>4. ASSUME NEW k, k # r.key PROVE Preferences!Told(k)' = Preferences!Told(k)
  <2>1. ChangesOf(history', k) = ChangesOf(history, k)
    BY <1>2, <1>4 DEF ChangesOf
  <2>2. PICK S : S = ChangesOf(history, k)
    OBVIOUS
  <2>3. S \in SUBSET (1 .. n)
    BY <1>2, <2>2 DEF ChangesOf
  <2>4. S # {} => LastIn(S) \in 1 .. n
    BY <2>3, LastExists
  <2> QED
    BY <1>2, <2>1, <2>2, <2>4, ToldIs, ToldIsNext
<1> QED
  BY <1>3, <1>4

(* A step of the command that holds the lock, which may change the file. *)
LEMMA HolderStep ==
    ASSUME SettingsInv, NEW c \in Commands, settingsEdits[c].at \in PastLock, EditsTyped',
           \A d \in Commands \ {c} : settingsEdits'[d] = settingsEdits[d],
           locked' \in {locked, locked \ {c}}, rewrites' = rewrites,
           untold' \in {untold, untold \cup {SettingChanges[c].key}},
           HistoryTyped', Chain', LockHeld(c)',
           rewrites = 0 => Reads(file)' /\ CommandFile(c)' /\ (~Publishing(c)' => Explains(file)')
    PROVE  SettingsInv'
<1>1. ASSUME NEW d \in Commands \ {c} PROVE settingsEdits[d].at \notin PastLock
  <2>1. locked = {c} /\ LockHeld(d)
    BY DEF SettingsInv, LockHeld
  <2> QED
    BY <2>1 DEF LockHeld
<1>2. SettingChanges[c].key \in SettingKeys
  BY SettingsAreRegistered DEF Commands, SettingKeys
<1>3. rewrites' \in Nat /\ (untold \subseteq SettingKeys)' /\ (rewrites > 0 => untold = SettingKeys)'
  BY <1>2 DEF SettingsInv
<1>4. ASSUME NEW d \in Commands \ {c} PROVE LockHeld(d)'
  BY <1>1, <1>4 DEF SettingsInv, LockHeld, Preferences!MaySet, Preferences!KeyOf
<1>5. ASSUME rewrites' = 0 PROVE FileInv'
  <2>1. ASSUME NEW d \in Commands \ {c} PROVE CommandFile(d)'
    BY <1>1, <2>1 DEF CommandFile, PastLock
  <2> QED
    BY <1>5, <2>1 DEF FileInv
<1> QED
  BY <1>3, <1>4, <1>5 DEF SettingsInv

(* A change left untold: the history still explains every other key, whether
   the file holds the change or not. *)
LEMMA UntoldExplains ==
    ASSUME NEW c \in Commands, NEW old, NEW new, Reads(old), Preferences!MaySet(c), Explains(old),
           new = Published(c, old),
           untold' = untold \cup {SettingChanges[c].key}, history' = history
    PROVE  Explains(old)' /\ Explains(new)'
<1>1. \A k : Preferences!Told(k)' = Preferences!Told(k)
  BY DEF Preferences!Told
<1>2. \A k \in SettingKeys \ untold' : Preferences!Valued(Values(old), k) = Preferences!Told(k)
  BY DEF Explains
<1>3. \A k \in SettingKeys \ untold' : Preferences!Valued(Values(new), k) = Preferences!Valued(Values(old), k)
  <2>1. /\ Reads(new)
        /\ Preferences!Valued(Values(new), SettingChanges[c].key) = SettingChanges[c].value
        /\ \A k \in SettingKeys \ {SettingChanges[c].key} :
              Preferences!Valued(Values(new), k) = Preferences!Valued(Values(old), k)
    BY ChangePublishes
  <2> QED
    BY <2>1
<1> QED
  BY <1>1, <1>2, <1>3 DEF Explains

(* A change left untold: nothing is between publishing and journaling. *)
LEMMA UntoldEnd ==
    ASSUME SettingsInv, NEW c \in Commands, NEW outcome \in Preferences!Ended, Preferences!EndsAs(c, outcome),
           settingsEdits[c].at \in {"replace", "journal", "undo"},
           file' \in {file, settingsEdits[c].before, settingsEdits[c].published},
           untold' = untold \cup {SettingChanges[c].key}, UNCHANGED <<history, rewrites>>
    PROVE  SettingsInv'
<1> DEFINE e == settingsEdits[c]
<1>1. Preferences!Goes(c, outcome) /\ locked' = locked \ {c} /\ EditsTyped
  BY DEF Preferences!EndsAs, SettingsInv
<1>2. outcome \notin PastLock \cup {"lock"} /\ e.at \in PastLock
  BY DEF Preferences!Ended, PastLock
<1>3. /\ EditsTyped' /\ settingsEdits'[c].at = outcome
      /\ \A d \in Commands \ {c} : settingsEdits'[d] = settingsEdits[d]
  BY <1>1, EditGoes
<1>4. LockHeld(c)' /\ CommandFile(c)' /\ HistoryTyped' /\ Chain'
  <2>1. LockHeld(c)' /\ CommandFile(c)'
    BY <1>2, <1>3 DEF LockHeld, CommandFile, PastLock
  <2>2. HistoryTyped'
    BY DEF SettingsInv, HistoryTyped
  <2>3. Chain'
    <3> DEFINE linked(i, j) == /\ i < j /\ history[i].key = history[j].key
                               /\ \A m \in i+1 .. j-1 : history[m].key # history[j].key
    <3>1. \A i, j \in DOMAIN history :
            linked(i, j) /\ history[j].key \notin untold => history[j].old = history[i].new
      BY DEF SettingsInv, Chain
    <3>2. (Chain <=> \A i, j \in DOMAIN history :
            linked(i, j) /\ history[j].key \notin untold => history[j].old = history[i].new)'
      BY DEF Chain
    <3> HIDE DEF linked
    <3>3. \A i, j \in DOMAIN history :
            linked(i, j) /\ history[j].key \notin untold' => history[j].old = history[i].new
      BY <3>1
    <3> USE DEF linked
    <3> QED
      BY <3>2, <3>3
  <2> QED
    BY <2>1, <2>2, <2>3
<1>5. ASSUME rewrites = 0 PROVE Reads(file)' /\ Explains(file)'
  <2>1. FileInv /\ CommandFile(c)
    BY <1>5 DEF SettingsInv, FileInv
  <2>2. PICK old : old = e.before
    OBVIOUS
  <2>3. PICK new : new = e.published
    OBVIOUS
  <2>4. /\ Reads(old) /\ file \in {old, new} /\ Preferences!MaySet(c)
        /\ new = Published(c, old)
    BY <1>2, <2>1, <2>2, <2>3 DEF CommandFile, SettingsInv, LockHeld
  <2>5. Explains(old)
    <3>1. CASE e.at = "replace"
      <4>1. \A d \in Commands : ~Publishing(d)
        BY <1>2, <3>1 DEF SettingsInv, LockHeld, Publishing, PastLock
      <4>2. file = old
        BY <2>1, <2>2, <3>1 DEF CommandFile
      <4> QED
        BY <2>1, <4>1, <4>2 DEF FileInv
    <3>2. CASE e.at \in {"journal", "undo"}
      BY <2>1, <2>2, <3>2 DEF CommandFile
    <3> QED
      BY <3>1, <3>2
  <2>6. Explains(old)' /\ Explains(new)'
    BY <2>4, <2>5, UntoldExplains
  <2>7. Reads(old) /\ Reads(new)
    BY <2>4, ChangePublishes
  <2>8. file' = old \/ file' = new
    BY <2>2, <2>3, <2>4
  <2> QED
    BY <2>6, <2>7, <2>8 DEF Explains, Reads
<1> QED
  BY <1>1, <1>2, <1>3, <1>4, <1>5, HolderStep

LEMMA ReplaceSteps == ASSUME SettingsInv, NEW c \in Commands, Preferences!Replace(c) PROVE SettingsInv'
<1> DEFINE e == settingsEdits[c]
<1>1. e.at = "replace" /\ UNCHANGED <<history, rewrites>>
  BY DEF Preferences!Replace
<1>2. CASE Preferences!EndsAs(c, "failed") /\ UNCHANGED <<file, untold>>
  BY <1>1, <1>2, QuietEnd DEF Preferences!Ended, Publishing
<1>3. CASE /\ file' = e.published /\ Preferences!EndsAs(c, "failed")
           /\ untold' = untold \cup {SettingChanges[c].key}
  BY <1>1, <1>3, UntoldEnd DEF Preferences!Ended
<1>4. CASE file' = e.published /\ Preferences!Goes(c, "journal") /\ UNCHANGED <<locked, untold>>
  <2>1. /\ EditsTyped' /\ settingsEdits'[c].at = "journal" /\ settingsEdits'[c].before = e.before
        /\ settingsEdits'[c].published = e.published /\ settingsEdits'[c].old = e.old
        /\ \A d \in Commands \ {c} : settingsEdits'[d] = settingsEdits[d]
    BY <1>4, EditGoes DEF SettingsInv
  <2>2. LockHeld(c)' /\ e.at \in PastLock
    BY <1>1, <1>4, <2>1 DEF SettingsInv, LockHeld, PastLock, Preferences!MaySet, Preferences!KeyOf
  <2>3. HistoryTyped' /\ Chain' /\ Publishing(c)'
    BY <1>1, <1>4, <2>1 DEF SettingsInv, HistoryTyped, Chain, Publishing
  <2>4. ASSUME rewrites = 0 PROVE Reads(file)' /\ CommandFile(c)'
    <3>1. FileInv /\ CommandFile(c) /\ Preferences!MaySet(c)
      BY <2>2, <2>4 DEF SettingsInv, FileInv, LockHeld
    <3>2. \A d \in Commands : ~Publishing(d)
      BY <1>1, <2>2 DEF SettingsInv, LockHeld, Publishing, PastLock
    <3>3. PICK old : old = e.before
      OBVIOUS
    <3>4. Reads(old) /\ Explains(old)
      BY <1>1, <3>1, <3>2, <3>3 DEF FileInv, CommandFile, PastLock
    <3>5. Explains(old)' /\ Reads(old)'
      BY <1>1, <1>4, <3>4 DEF Explains, Preferences!Told, Reads
    <3>6. PICK new : new = e.published
      OBVIOUS
    <3>7. new = Published(c, old)
      BY <1>1, <3>1, <3>3, <3>6 DEF CommandFile
    <3>8. Reads(new)
      BY <3>1, <3>4, <3>7, ChangePublishes
    <3>9. CommandFile(c)'
      <4>1. e.published = Published(c, e.before) /\ e.old = Preferences!Valued(Values(e.before), SettingChanges[c].key)
        BY <1>1, <3>1 DEF CommandFile
      <4>2. Explains(settingsEdits[c].before)' /\ Reads(settingsEdits[c].before)'
        BY <2>1, <3>3, <3>5 DEF Explains, Reads
      <4> QED
        BY <1>4, <2>1, <4>1, <4>2 DEF CommandFile, PastLock, Published, Values
    <3> QED
      BY <1>4, <3>6, <3>8, <3>9 DEF Reads
  <2> QED
    BY <1>1, <1>4, <2>1, <2>2, <2>3, <2>4, HolderStep
<1> QED
  BY <1>2, <1>3, <1>4 DEF Preferences!Replace, Preferences!KeyOf

LEMMA JournalSteps == ASSUME SettingsInv, NEW c \in Commands, Preferences!JournalChange(c) PROVE SettingsInv'
<1> DEFINE e == settingsEdits[c]
           key == SettingChanges[c].key
<1>1. e.at = "journal" /\ UNCHANGED <<file, rewrites, untold, locked>>
  BY DEF Preferences!JournalChange
<1>2. CASE Preferences!Goes(c, "undo") /\ UNCHANGED history
  BY <1>1, <1>2, QuietGo DEF PastLock
<1>3. CASE history' = Append(history, Preferences!Record(c)) /\ Preferences!Goes(c, "keep")
  <2>1. /\ EditsTyped' /\ settingsEdits'[c].at = "keep" /\ settingsEdits'[c].before = e.before
        /\ settingsEdits'[c].published = e.published /\ settingsEdits'[c].old = e.old
        /\ \A d \in Commands \ {c} : settingsEdits'[d] = settingsEdits[d]
    BY <1>3, EditGoes DEF SettingsInv
  <2>2. LockHeld(c)' /\ e.at \in PastLock
    BY <1>1, <2>1 DEF SettingsInv, LockHeld, PastLock, Preferences!MaySet, Preferences!KeyOf
  <2>3. PICK r : r = Preferences!Record(c)
    OBVIOUS
  <2>4. r.key = key /\ r.old = e.old /\ r.new = SettingChanges[c].value
    BY <2>3 DEF Preferences!Record, Preferences!KeyOf
  <2>5. key \in SettingKeys
    BY SettingsAreRegistered DEF Commands, SettingKeys
  <2>6. PICK S : history \in Seq(S)
    BY DEF SettingsInv, HistoryTyped
  <2>7. history \in Seq(S \cup {r})
    BY <2>6
  <2>8. PICK n \in Nat : n = Len(history)
    BY <2>6
  <2>9. /\ DOMAIN history = 1 .. n /\ DOMAIN history' = 1 .. n + 1 /\ history'[n + 1] = r
        /\ \A i \in 1 .. n : history'[i] = history[i]
        /\ history' \in Seq(S \cup {r})
    BY <1>3, <2>3, <2>7, <2>8
  <2>10. HistoryTyped'
    <3>1. \A i \in DOMAIN history' : history'[i].key \in SettingKeys
      BY <2>4, <2>5, <2>9 DEF SettingsInv, HistoryTyped
    <3> QED
      BY <2>9, <3>1 DEF HistoryTyped
  <2>11. ASSUME rewrites = 0 PROVE Reads(file)' /\ CommandFile(c)' /\ Explains(file)'
    <3>1. FileInv /\ CommandFile(c) /\ Preferences!MaySet(c)
      BY <2>2, <2>11 DEF SettingsInv, FileInv, LockHeld
    <3>2. PICK old : old = e.before
      OBVIOUS
    <3>3. Reads(old) /\ Explains(old) /\ file = Published(c, old)
      BY <1>1, <3>1, <3>2 DEF CommandFile, PastLock
    <3>4. PICK new : new = file
      OBVIOUS
    <3>5. /\ Reads(new)
          /\ Preferences!Valued(Values(new), key) = SettingChanges[c].value
          /\ \A k \in SettingKeys \ {key} : Preferences!Valued(Values(new), k) = Preferences!Valued(Values(old), k)
      BY <3>1, <3>3, <3>4, ChangePublishes
    <3>6. /\ Preferences!Told(key)' = SettingChanges[c].value
          /\ \A k : k # key => Preferences!Told(k)' = Preferences!Told(k)
      BY <1>3, <2>3, <2>4, AppendTells DEF SettingsInv
    <3>7. \A k \in SettingKeys \ untold : Preferences!Valued(Values(new), k) = Preferences!Told(k)'
      BY <3>3, <3>5, <3>6 DEF Explains
    <3>8. Explains(file)'
      BY <1>1, <3>4, <3>7 DEF Explains, Values
    <3>9. CommandFile(c)'
      <4>1. /\ Reads(e.before) /\ file = e.published /\ e.published = Published(c, e.before)
            /\ e.old = Preferences!Valued(Values(e.before), key)
        BY <1>1, <3>1 DEF CommandFile, PastLock
      <4> QED
        BY <1>1, <2>1, <4>1 DEF CommandFile, PastLock, Published, Values, Reads
    <3> QED
      BY <1>1, <3>4, <3>5, <3>8, <3>9 DEF Reads
  <2>12. Chain'
    <3> SUFFICES ASSUME NEW i \in 1 .. n + 1, NEW j \in 1 .. n + 1, i < j,
                        history'[i].key = history'[j].key, history'[j].key \notin untold,
                        \A m \in i+1 .. j-1 : history'[m].key # history'[j].key
                 PROVE  history'[j].old = history'[i].new
      BY <1>1, <2>9 DEF Chain
    <3>1. i \in 1 .. n /\ history'[i] = history[i]
      BY <2>9
    <3>2. CASE j \in 1 .. n
      <4>1. history'[j] = history[j] /\ \A m \in i+1 .. j-1 : history'[m] = history[m]
        BY <2>9, <3>2
      <4> QED
        BY <2>9, <3>1, <3>2, <4>1 DEF SettingsInv, Chain
    <3>3. CASE j = n + 1
      <4>1. history'[j] = r /\ key \notin untold
        BY <2>4, <2>9, <3>3
      <4>2. rewrites = 0
        BY <2>5, <4>1 DEF SettingsInv
      <4>3. e.old = Preferences!Told(key)
        <5>1. CommandFile(c)
          BY <4>2 DEF SettingsInv, FileInv
        <5>2. /\ e.old = Preferences!Valued(Values(e.before), key)
              /\ Explains(e.before)
          BY <1>1, <5>1 DEF CommandFile
        <5> QED
          BY <2>5, <4>1, <5>2 DEF Explains
      <4>4. i \in ChangesOf(history, key) /\ ChangesOf(history, key) \in SUBSET (1 .. n)
        BY <2>4, <2>9, <3>1, <4>1 DEF ChangesOf
      <4>5. ASSUME NEW m \in ChangesOf(history, key) PROVE m <= i
        <5>1. m \in 1 .. n /\ history'[m].key = key
          BY <2>9, <4>5 DEF ChangesOf
        <5> QED
          BY <2>4, <3>3, <4>1, <5>1
      <4>6. LastIn(ChangesOf(history, key)) = i
        <5>1. ChangesOf(history, key) \in SUBSET Nat
          BY <4>4
        <5> QED
          BY <4>4, <4>5, <5>1, LastIs
      <4>7. Preferences!Told(key) = history[i].new
        BY <4>4, <4>6, ToldIs
      <4> QED
        BY <2>4, <3>1, <4>1, <4>3, <4>7
    <3> QED
      BY <3>2, <3>3
  <2> QED
    BY <1>1, <2>1, <2>2, <2>10, <2>11, <2>12, HolderStep
<1> QED
  BY <1>2, <1>3 DEF Preferences!JournalChange

LEMMA UndoSteps == ASSUME SettingsInv, NEW c \in Commands, Preferences!Undo(c) PROVE SettingsInv'
<1> DEFINE e == settingsEdits[c]
<1>1. e.at = "undo" /\ UNCHANGED <<history, rewrites>>
  BY DEF Preferences!Undo
<1>2. CASE /\ Preferences!EndsAs(c, "not restored") /\ file' \in {file, e.before}
           /\ untold' = untold \cup {SettingChanges[c].key}
  BY <1>1, <1>2, UntoldEnd DEF Preferences!Ended
<1>3. CASE file' = e.before /\ Preferences!Goes(c, "confirm") /\ UNCHANGED <<locked, untold>>
  <2>1. /\ EditsTyped' /\ settingsEdits'[c].at = "confirm" /\ settingsEdits'[c].before = e.before
        /\ \A d \in Commands \ {c} : settingsEdits'[d] = settingsEdits[d]
    BY <1>3, EditGoes DEF SettingsInv
  <2>2. LockHeld(c)' /\ e.at \in PastLock
    BY <1>1, <1>3, <2>1 DEF SettingsInv, LockHeld, PastLock, Preferences!MaySet, Preferences!KeyOf
  <2>3. HistoryTyped' /\ Chain'
    BY <1>1, <1>3 DEF SettingsInv, HistoryTyped, Chain
  <2>4. ASSUME rewrites = 0 PROVE Reads(file)' /\ CommandFile(c)' /\ Explains(file)'
    <3>1. CommandFile(c)
      BY <2>4 DEF SettingsInv, FileInv
    <3>2. PICK old : old = e.before
      OBVIOUS
    <3>3. Reads(old) /\ Explains(old)
      BY <1>1, <3>1, <3>2 DEF CommandFile, PastLock
    <3>4. Explains(old)' /\ Reads(old)'
      BY <1>1, <1>3, <3>3 DEF Explains, Preferences!Told, Reads
    <3>5. file' = old /\ settingsEdits'[c].before = old
      BY <1>3, <2>1, <3>2
    <3> QED
      BY <2>1, <3>4, <3>5 DEF CommandFile, PastLock, Explains, Reads
  <2> QED
    BY <1>1, <1>3, <2>1, <2>2, <2>3, <2>4, HolderStep
<1> QED
  BY <1>2, <1>3 DEF Preferences!Undo, Preferences!KeyOf

LEMMA DieSteps == ASSUME SettingsInv, NEW c \in Commands, Preferences!Die(c) PROVE SettingsInv'
<1>1. Preferences!EndsAs(c, "dead") /\ "dead" \in Preferences!Ended /\ UNCHANGED <<file, history, rewrites>>
  BY DEF Preferences!Die, Preferences!Ended
<1>2. CASE settingsEdits[c].at \in {"journal", "undo"}
  <2>1. untold' = untold \cup {SettingChanges[c].key}
    BY <1>2 DEF Preferences!Die, Preferences!KeyOf
  <2> QED
    BY <1>1, <1>2, <2>1, UntoldEnd
<1>3. CASE settingsEdits[c].at \notin {"journal", "undo"}
  <2>1. untold' = untold
    BY <1>3 DEF Preferences!Die
  <2> QED
    BY <1>1, <1>3, <2>1, QuietEnd DEF Publishing
<1> QED
  BY <1>2, <1>3

LEMMA RewriteSteps == ASSUME SettingsInv, NEW text, Preferences!Rewrite(text) PROVE SettingsInv'
<1>1. /\ rewrites' = rewrites + 1 /\ untold' = SettingKeys
      /\ UNCHANGED <<folder, previous, locked, settingsEdits, history>>
  BY DEF Preferences!Rewrite, Preferences!Keys, SettingKeys
<1>2. EditsTyped' /\ HistoryTyped' /\ rewrites' \in Nat /\ rewrites' > 0
  BY <1>1 DEF SettingsInv, EditsTyped, HistoryTyped
<1>3. \A c \in Commands : LockHeld(c)'
  BY <1>1 DEF SettingsInv, LockHeld, Preferences!MaySet, Preferences!KeyOf
<1>4. Chain'
  BY <1>1 DEF SettingsInv, HistoryTyped, Chain
<1> QED
  BY <1>1, <1>2, <1>3, <1>4 DEF SettingsInv

LEMMA SettingsSteps == ASSUME SettingsInv, Preferences!SettingsNext PROVE SettingsInv'
<1>1. ASSUME NEW c \in Commands,
             \/ Preferences!Begin(c) \/ Preferences!TakeLock(c) \/ Preferences!EditText(c)
             \/ Preferences!Replace(c) \/ Preferences!JournalChange(c) \/ Preferences!Undo(c)
             \/ Preferences!Die(c)
      PROVE  SettingsInv'
  BY <1>1, BeginSteps, TakeLockSteps, EditTextSteps, ReplaceSteps, JournalSteps, UndoSteps, DieSteps
<1> QED
  BY <1>1, QuietCommandSteps, RewriteSteps DEF Preferences!SettingsNext, Preferences!Commands, Commands

LEMMA SettingsInits == ASSUME Preferences!SettingsInit PROVE SettingsInv
<1>1. /\ file = {} /\ history = << >> /\ untold = {} /\ rewrites = 0
      /\ settingsEdits = [c \in Commands |-> Preferences!NewEdit]
  BY DEF Preferences!SettingsInit, Preferences!None, Preferences!Commands, Commands
<1>2. EditsTyped /\ \A c \in Commands : settingsEdits[c].at = "start"
  BY <1>1 DEF EditsTyped, Preferences!NewEdit
<1>3. HistoryTyped /\ Chain
  <2>1. history \in Seq({}) /\ DOMAIN history = {}
    BY <1>1
  <2> QED
    BY <2>1 DEF HistoryTyped, Chain
<1>4. \A c \in Commands : LockHeld(c) /\ CommandFile(c)
  BY <1>2 DEF LockHeld, CommandFile, PastLock
<1>5. Preferences!Layer(file) = {Preferences!Empty} /\ Values(file) = Preferences!Empty
  BY <1>1 DEF Values, Preferences!Layer, Preferences!None, Preferences!Some, Preferences!The
<1>6. Reads(file) /\ Explains(file)
  BY <1>1, <1>5 DEF Reads, Explains, Preferences!Valued, Preferences!Told, Preferences!Empty, Preferences!None
<1> QED
  BY <1>1, <1>2, <1>3, <1>4, <1>6 DEF SettingsInv, FileInv

(* What the invariant says of the file, key by key. *)
LEMMA HistoryExplains == ASSUME SettingsInv PROVE Preferences!HistoryExplainsFile
<1>1. ASSUME NEW k \in SettingKeys \ untold,
             \A c \in Commands : SettingChanges[c].key = k => ~Publishing(c)
      PROVE  Preferences!Valued(Values(file), k) = Preferences!Told(k)
  <2>1. FileInv
    BY <1>1 DEF SettingsInv
  <2>2. CASE \A c \in Commands : ~Publishing(c)
    BY <2>1, <2>2 DEF FileInv, Explains
  <2>3. ASSUME NEW c \in Commands, Publishing(c)
        PROVE  Preferences!Valued(Values(file), k) = Preferences!Told(k)
    <3>1. CommandFile(c) /\ LockHeld(c) /\ SettingChanges[c].key # k
      BY <1>1, <2>1, <2>3 DEF SettingsInv, FileInv
    <3>2. PICK old : old = settingsEdits[c].before
      OBVIOUS
    <3>3. PICK new : new = file
      OBVIOUS
    <3>4. /\ Reads(old) /\ Explains(old) /\ new = Published(c, old) /\ Preferences!MaySet(c)
      BY <2>3, <3>1, <3>2, <3>3 DEF CommandFile, LockHeld, PastLock, Publishing
    <3>5. \A j \in SettingKeys \ {SettingChanges[c].key} :
             Preferences!Valued(Values(new), j) = Preferences!Valued(Values(old), j)
      BY <3>4, ChangePublishes
    <3> QED
      BY <3>1, <3>3, <3>4, <3>5 DEF Explains
  <2> QED
    BY <2>2, <2>3
<1> QED
  BY <1>1 DEF Preferences!HistoryExplainsFile, SettingsInv, Chain, SettingKeys, Commands, Preferences!Keys,
     Preferences!Commands, Preferences!KeyOf, Publishing, Values, Preferences!None

(* What a session resolves is of its kind, whichever layer it comes from. *)
LEMMA ResolvedIsAccepted ==
    ASSUME NEW flags, Preferences!FlagsParse(flags), NEW text, Reads(text), NEW k \in SettingKeys
    PROVE  Preferences!Accepts(SettingDescriptors[k].kind,
                               Preferences!Resolve(k, flags, Preferences!Empty, Values(text))[2])
<1>1. k \notin DOMAIN Preferences!Empty
  BY DEF Preferences!Empty
<1>2. CASE k \in DOMAIN flags
  BY <1>2 DEF Preferences!Resolve, Preferences!FlagsParse
<1>3. CASE k \notin DOMAIN flags /\ k \in DOMAIN Values(text)
  BY <1>1, <1>3, ValuesAreAccepted DEF Preferences!Resolve
<1>4. CASE k \notin DOMAIN flags /\ k \notin DOMAIN Values(text)
  BY <1>1, <1>4, SettingsAreRegistered DEF Preferences!Resolve, Preferences!SoundDescriptor, SettingKeys
<1> QED
  BY <1>2, <1>3, <1>4

LEMMA KnowledgeSettingsHold ==
    ASSUME NEW resolved,
           \A k \in SettingKeys : Preferences!Accepts(SettingDescriptors[k].kind, resolved[k][2]),
           NEW settings \in Preferences!KnowledgeSettings(resolved)
    PROVE  /\ settings.depth <= settings.pool
           /\ resolved["models.compute"][2] = "off" => ~(settings.dense \/ settings.rerank \/ settings.intent)
<1>1. ASSUME NEW k \in {"search.rerank.depth", "search.fusion_pool"} PROVE resolved[k][2] \in Int
  BY SettingsAreRegistered DEF Preferences!Accepts, Preferences!Off, SettingKeys
<1> DEFINE models == resolved["models.compute"][2] = "gpu"
<1>2. /\ ~(resolved["search.rerank.depth"][2] > resolved["search.fusion_pool"][2])
      /\ settings = [depth |-> resolved["search.rerank.depth"][2], pool |-> resolved["search.fusion_pool"][2],
                     dense |-> models, rerank |-> models,
                     intent |-> models /\ resolved["search.intent.expansion"][2] # "off"]
  BY DEF Preferences!KnowledgeSettings, Preferences!None, Preferences!Some
<1>3. settings.depth <= settings.pool
  BY <1>1, <1>2
<1>4. /\ settings.dense = models /\ settings.rerank = models
      /\ settings.intent = (models /\ resolved["search.intent.expansion"][2] # "off")
  BY <1>2
<1> QED
  BY <1>3, <1>4

LEMMA SessionsRead == ASSUME SettingsInv PROVE Preferences!SessionsCanRead
<1> SUFFICES ASSUME NEW flags
             PROVE  LET session == Preferences!Session(flags, {Preferences!Empty}, Preferences!Layer(file)) IN
                    /\ rewrites = 0 /\ Preferences!FlagsParse(flags) => session # {}
                    /\ session # {} =>
                         /\ \A k \in SettingKeys :
                               Preferences!Accepts(SettingDescriptors[k].kind, Preferences!The(session)[k][2])
                         /\ \A settings \in Preferences!KnowledgeSettings(Preferences!The(session)) :
                               /\ settings.depth <= settings.pool
                               /\ Preferences!The(session)["models.compute"][2] = "off" =>
                                    ~(settings.dense \/ settings.rerank \/ settings.intent)
  BY DEF Preferences!SessionsCanRead, SettingKeys, Preferences!Keys, Preferences!None, Preferences!Some
<1>1. PICK session : session = Preferences!Session(flags, {Preferences!Empty}, Preferences!Layer(file))
  OBVIOUS
<1> DEFINE resolved == [k \in SettingKeys |-> Preferences!Resolve(k, flags, Preferences!Empty, Values(file))]
<1>2. /\ session # {} <=> Preferences!FlagsParse(flags) /\ Reads(file)
      /\ session # {} => session = {resolved}
  <2>1. Preferences!The({Preferences!Empty}) = Preferences!Empty
    BY DEF Preferences!The
  <2> QED
    BY <1>1, <2>1 DEF Preferences!Session, Preferences!None, Preferences!Some, Reads, Values, SettingKeys,
       Preferences!Keys
<1>3. rewrites = 0 /\ Preferences!FlagsParse(flags) => session # {}
  BY <1>2 DEF SettingsInv, FileInv
<1>4. ASSUME session # {}
      PROVE  /\ \A k \in SettingKeys :
                   Preferences!Accepts(SettingDescriptors[k].kind, Preferences!The(session)[k][2])
             /\ \A settings \in Preferences!KnowledgeSettings(Preferences!The(session)) :
                   /\ settings.depth <= settings.pool
                   /\ Preferences!The(session)["models.compute"][2] = "off" =>
                        ~(settings.dense \/ settings.rerank \/ settings.intent)
  <2>1. PICK it : it = Preferences!The(session)
    OBVIOUS
  <2>2. it = resolved
    BY <1>2, <1>4, <2>1 DEF Preferences!The
  <2>3. PICK text : text = file
    OBVIOUS
  <2>4. Reads(text) /\ Preferences!FlagsParse(flags)
    BY <1>2, <1>4, <2>3
  <2>5. \A k \in SettingKeys : Preferences!Accepts(SettingDescriptors[k].kind, it[k][2])
    BY <2>2, <2>3, <2>4, ResolvedIsAccepted
  <2> QED
    BY <2>1, <2>5, KnowledgeSettingsHold
<1> QED
  BY <1>1, <1>3, <1>4

(* However the commands that change the preferences file interleave, fail
   half-way, are undone or die: what the history tells of a key is what the
   file holds, every change tells the value the change before it left, and the
   file can be read, with every key of its kind and no model called while
   models are off (maestro, cli/config/change.rs; maestro-settings, edit and
   resolve.rs; the kernel's record_setting_change). *)
THEOREM SettingsHoldHolds == ServerSpec => []SettingsHold
<1> DEFINE I == part = "settings" => SettingsInv
<1>1. ServerInit => I
  BY SettingsInits DEF ServerInit
<1>2. I /\ [ServerNext]_serverVars => I'
  <2>1. ASSUME I, ServerNext PROVE I'
    BY <2>1, StepsOfParts, SettingsSteps
  <2>2. ASSUME I, UNCHANGED serverVars PROVE I'
    <3>1. UNCHANGED <<part, locked, file, settingsEdits, history, untold, rewrites>>
      BY <2>2 DEF serverVars, partVars, serverPartsVars, settingsVars
    <3>2. (EditsTyped <=> EditsTyped') /\ (HistoryTyped <=> HistoryTyped') /\ (Chain <=> Chain')
      BY <3>1 DEF EditsTyped, HistoryTyped, Chain
    <3>3. \A c : LockHeld(c) <=> LockHeld(c)'
      BY <3>1 DEF LockHeld, Preferences!MaySet, Preferences!KeyOf
    <3>4. \A text : Explains(text) <=> Explains(text)'
      BY <3>1 DEF Explains, Preferences!Told
    <3>5. \A c : CommandFile(c) => CommandFile(c)'
      BY <3>1, <3>4 DEF CommandFile, Reads
    <3>6. FileInv => FileInv'
      BY <3>1, <3>4, <3>5 DEF FileInv, Publishing, Reads
    <3> QED
      BY <2>2, <3>1, <3>2, <3>3, <3>6 DEF SettingsInv
  <2> QED
    BY <2>1, <2>2
<1>3. I => SettingsHold
  BY HistoryExplains, SessionsRead DEF SettingsHold
<1> QED
  BY <1>1, <1>2, <1>3, PTL DEF ServerSpec, serverVars

-----------------------------------------------------------------------------
(* The lines the client wrote.  Where the reader stands is what the bytes it
   has not read and those it holds leave of what was written; the frames are
   the lines that end before that place, and the reader is at the start of a
   line, or so far into one that the line is too long. *)

Bytes == {"x", "n", "r"}
Place == Len(written) - Len(unread) - Len(pending)
EndsBy(p) == {j \in Line!Ends : j <= p}
LinesBy(p) == [k \in 1 .. Cardinality(EndsBy(p)) |-> Line!Whole(Line!LineEnd(k))]

(* The line that a place is in starts after b. *)
StartsAfter(b, p) ==
    /\ b \in Nat /\ b <= p /\ (b = 0 \/ b \in Line!Ends)
    /\ \A j \in Line!Ends : ~(b < j /\ j <= p)

LineInv ==
    /\ written \in Seq(Bytes) /\ unread \in Seq(Bytes) /\ pending \in Seq(Bytes)
    /\ discarding \in BOOLEAN /\ eof \in BOOLEAN /\ closed \in BOOLEAN
    /\ Place \in Nat
    /\ \A i \in 1 .. Len(unread) : unread[i] = written[Len(written) - Len(unread) + i]
    /\ \A i \in 1 .. Len(pending) : pending[i] = written[Place + i]
    /\ eof => unread = << >>
    /\ ~closed => /\ frames = LinesBy(Place)
                  /\ \E b : /\ StartsAfter(b, Place)
                            /\ IF discarding THEN Place - b > LineLimit ELSE Place = b
    /\ closed => frames = Line!Reference
    /\ errors \in Nat /\ flushers \in Nat /\ (flushers = 0 => errors = 0)

LEMMA EndsAreFinite ==
    ASSUME written \in Seq(Bytes)
    PROVE  /\ Line!Ends \subseteq 1 .. Len(written) /\ Len(written) \in Nat /\ IsFiniteSet(Line!Ends)
           /\ \A p : IsFiniteSet(EndsBy(p)) /\ Cardinality(EndsBy(p)) \in Nat
<1>1. Line!Ends \subseteq 1 .. Len(written) /\ Len(written) \in Nat
  BY DEF Line!Ends
<1>2. IsFiniteSet(1 .. Len(written))
  BY <1>1, FS_Interval
<1>3. IsFiniteSet(Line!Ends)
  BY <1>1, <1>2, FS_Subset
<1>4. ASSUME NEW p PROVE IsFiniteSet(EndsBy(p)) /\ Cardinality(EndsBy(p)) \in Nat
  <2>1. EndsBy(p) \in SUBSET Line!Ends
    BY DEF EndsBy
  <2> QED
    BY <1>3, <2>1, FS_Subset, FS_CardinalityType
<1> QED
  BY <1>1, <1>3, <1>4

(* A line's end is told by how many ends there are up to it. *)
LEMMA LineEndIs ==
    ASSUME written \in Seq(Bytes), NEW i \in Line!Ends
    PROVE  Line!LineEnd(Cardinality(EndsBy(i))) = i
<1>1. ASSUME NEW m \in Line!Ends, NEW n \in Line!Ends, m < n
      PROVE  Cardinality(EndsBy(m)) # Cardinality(EndsBy(n))
  <2>1. m \in Nat /\ n \in Nat /\ \A j \in Line!Ends : j \in Nat
    BY EndsAreFinite
  <2>2. \A j \in Line!Ends : j <= m => j <= n
    BY <1>1, <2>1
  <2>3. n <= n /\ ~(n <= m)
    BY <1>1, <2>1
  <2>4. EndsBy(m) \in SUBSET EndsBy(n) /\ n \in EndsBy(n) /\ n \notin EndsBy(m)
    BY <2>2, <2>3 DEF EndsBy
  <2> QED
    BY <2>4, EndsAreFinite, FS_Subset
<1>2. \A m \in Line!Ends : Cardinality(EndsBy(m)) = Cardinality(EndsBy(i)) => m = i
  BY <1>1, EndsAreFinite
<1>3. Line!LineEnd(Cardinality(EndsBy(i))) =
        CHOOSE m \in Line!Ends : Cardinality(EndsBy(m)) = Cardinality(EndsBy(i))
  BY SameCardinality DEF Line!LineEnd, EndsBy
<1> QED
  BY <1>2, <1>3

LEMMA FromIs ==
    ASSUME written \in Seq(Bytes), NEW i \in Nat, NEW b, b < i, StartsAfter(b, i - 1)
    PROVE  Line!From(i) = b + 1
<1> DEFINE S == {0} \cup {j \in Line!Ends : j < i}
<1>1. S \subseteq Nat /\ b \in S /\ b \in Nat
  BY EndsAreFinite DEF StartsAfter
<1>2. \A y \in S : b >= y
  BY <1>1, EndsAreFinite DEF StartsAfter
<1>3. Line!Max(S) = b
  <2> HIDE DEF S
  <2>1. Line!Max(S) \in S /\ \A y \in S : Line!Max(S) >= y
    BY <1>1, <1>2 DEF Line!Max
  <2>2. Line!Max(S) \in Nat /\ Line!Max(S) >= b /\ b >= Line!Max(S)
    BY <1>1, <1>2, <2>1
  <2> QED
    BY <1>1, <2>2
<1> QED
  BY <1>3 DEF Line!From

(* No line ends between two places: the same lines end before them. *)
LEMMA LinesStay ==
    ASSUME written \in Seq(Bytes), NEW p \in Nat, NEW q \in Nat, p <= q,
           \A j \in Line!Ends : ~(p < j /\ j <= q)
    PROVE  LinesBy(q) = LinesBy(p)
<1>1. EndsBy(q) = EndsBy(p)
  BY EndsAreFinite DEF EndsBy
<1> QED
  BY <1>1 DEF LinesBy

(* The next line. *)
LEMMA LinesGrow ==
    ASSUME written \in Seq(Bytes), NEW p \in Nat, NEW i \in Line!Ends, p < i,
           \A j \in Line!Ends : ~(p < j /\ j < i)
    PROVE  LinesBy(i) = Append(LinesBy(p), Line!Whole(i))
<1>1. EndsBy(i) = EndsBy(p) \cup {i} /\ i \notin EndsBy(p)
  BY EndsAreFinite DEF EndsBy
<1>2. PICK n \in Nat : n = Cardinality(EndsBy(p))
  BY EndsAreFinite
<1>3. Cardinality(EndsBy(i)) = n + 1
  BY <1>1, <1>2, EndsAreFinite, FS_AddElement
<1>4. Line!LineEnd(n + 1) = i
  BY <1>3, LineEndIs
<1> DEFINE line(k) == Line!Whole(Line!LineEnd(k))
<1>5. LinesBy(p) = [k \in 1 .. n |-> line(k)] /\ LinesBy(i) = [k \in 1 .. n + 1 |-> line(k)]
  BY <1>2, <1>3 DEF LinesBy
<1>6. line(n + 1) = Line!Whole(i)
  BY <1>4
<1> HIDE DEF line
<1>7. [k \in 1 .. n + 1 |-> line(k)] = Append([k \in 1 .. n |-> line(k)], line(n + 1))
  OBVIOUS
<1> QED
  BY <1>5, <1>6, <1>7

(* What the lines are does not change. *)
LEMMA LinesKept ==
    ASSUME written' = written
    PROVE  /\ Line!Ends' = Line!Ends /\ Line!Reference' = Line!Reference
           /\ \A p : LinesBy(p)' = LinesBy(p)
           /\ \A b, p : StartsAfter(b, p)' <=> StartsAfter(b, p)
<1>1. Line!Ends' = Line!Ends
  BY DEF Line!Ends
<1>2. \A k : Line!Whole(k)' = Line!Whole(k) /\ Line!LineEnd(k)' = Line!LineEnd(k)
  BY <1>1 DEF Line!Whole, Line!LineEnd, Line!From
<1>3. \A p : LinesBy(p)' = LinesBy(p)
  BY <1>1, <1>2 DEF LinesBy, EndsBy
<1>4. Line!Reference' = Line!Reference
  BY <1>1, <1>2 DEF Line!Reference, Line!LastPart
<1>5. \A b, p : StartsAfter(b, p)' <=> StartsAfter(b, p)
  BY <1>1 DEF StartsAfter
<1> QED
  BY <1>1, <1>3, <1>4, <1>5

LEMMA LineInits == ASSUME Line!StdioInit PROVE LineInv
<1>1. /\ written \in Seq(Bytes) /\ unread = written /\ pending = << >> /\ discarding = FALSE /\ eof = FALSE
      /\ frames = << >> /\ errors = 0 /\ flushers = 0 /\ closed = FALSE
  BY LinesAreBytes DEF Line!StdioInit, Bytes
<1>2. Len(written) \in Nat /\ Len(pending) = 0 /\ Len(unread) = Len(written) /\ pending \in Seq(Bytes)
  BY <1>1
<1>3. Place = 0
  BY <1>2 DEF Place
<1>4. EndsBy(0) = {}
  BY <1>1, EndsAreFinite DEF EndsBy
<1>5. LinesBy(0) = << >>
  <2> DEFINE line(k) == Line!Whole(Line!LineEnd(k))
  <2>1. LinesBy(0) = [k \in 1 .. 0 |-> line(k)]
    BY <1>4, FS_EmptySet DEF LinesBy
  <2> HIDE DEF line
  <2>2. 1 .. 0 = {}
    OBVIOUS
  <2>3. [k \in 1 .. 0 |-> line(k)] = << >>
    BY <2>2
  <2> QED
    BY <2>1, <2>3
<1>6. StartsAfter(0, 0)
  BY <1>1, EndsAreFinite DEF StartsAfter
<1>7. \A i \in 1 .. Len(unread) : unread[i] = written[Len(written) - Len(unread) + i]
  BY <1>1, <1>2
<1>8. \A i \in 1 .. Len(pending) : pending[i] = written[Place + i]
  BY <1>2
<1>9. \E b : StartsAfter(b, Place) /\ IF discarding THEN Place - b > LineLimit ELSE Place = b
  BY <1>1, <1>3, <1>6
<1> QED
  BY <1>1, <1>2, <1>3, <1>5, <1>7, <1>8, <1>9 DEF LineInv

(* A nonempty set of naturals has a least element. *)
LEMMA LeastExists ==
    ASSUME NEW S \in SUBSET Nat, S # {}
    PROVE  Line!Min(S) \in S /\ \A y \in S : Line!Min(S) <= y
<1>1. PICK m \in S : \A k \in S : ~(<<k, m>> \in OpToRel(<, Nat))
  BY NatLessThanWellFounded, WFMin
<1>2. ASSUME NEW y \in S PROVE m <= y
  <2>1. y \in Nat /\ m \in Nat /\ ~(y < m)
    BY <1>1 DEF OpToRel
  <2> QED
    BY <2>1
<1> QED
  BY <1>2 DEF Line!Min

(* The bytes the reader holds end lines where they stand in what was written. *)
LEMMA HeldEnds ==
    ASSUME LineInv, NEW i \in 1 .. Len(pending)
    PROVE  Place + i \in Line!Ends <=> pending[i] = "n"
<1>1. /\ Len(pending) \in Nat /\ Len(unread) \in Nat /\ Len(written) \in Nat
      /\ DOMAIN written = 1 .. Len(written) /\ Place \in Nat
      /\ pending[i] = written[Place + i]
  BY DEF LineInv
<1>2. Place + i \in 1 .. Len(written)
  BY <1>1 DEF Place
<1> QED
  BY <1>1, <1>2 DEF Line!Ends

LEMMA NoNewlinesHeld ==
    ASSUME LineInv, Line!Newlines = {}
    PROVE  \A j \in Line!Ends : ~(Place < j /\ j <= Place + Len(pending))
<1> SUFFICES ASSUME NEW j \in Line!Ends, Place < j, j <= Place + Len(pending) PROVE FALSE
  OBVIOUS
<1>1. Place \in Nat /\ Len(pending) \in Nat /\ j \in Nat /\ DOMAIN pending = 1 .. Len(pending)
  BY EndsAreFinite DEF LineInv
<1>2. PICK i \in 1 .. Len(pending) : j = Place + i
  <2>1. j - Place \in 1 .. Len(pending) /\ j = Place + (j - Place)
    BY <1>1
  <2> QED
    BY <2>1
<1> QED
  BY <1>1, <1>2, HeldEnds DEF Line!Newlines

(* What the first newline the reader holds ends. *)
LEMMA NextLine ==
    ASSUME LineInv, ~closed, Line!Newlines # {}
    PROVE  LET i == Place + Line!Newline IN
           /\ Line!Newline \in 1 .. Len(pending) /\ i \in Line!Ends
           /\ LinesBy(i) = Append(frames, Line!Whole(i)) /\ StartsAfter(i, i)
           /\ Line!Whole(i) = IF Line!TooLong THEN Line!Refusal
                              ELSE Line!Line(SubSeq(pending, 1, Line!Newline - 1))
<1>1. /\ Len(pending) \in Nat /\ DOMAIN pending = 1 .. Len(pending) /\ Place \in Nat /\ written \in Seq(Bytes)
      /\ discarding \in BOOLEAN
  BY DEF LineInv
<1>2. PICK nl : nl = Line!Newline
  OBVIOUS
<1>3. nl \in Line!Newlines /\ \A y \in Line!Newlines : nl <= y
  <2>1. Line!Newlines \in SUBSET Nat
    BY <1>1 DEF Line!Newlines
  <2> QED
    BY <1>2, <2>1, LeastExists DEF Line!Newline
<1>4. nl \in 1 .. Len(pending) /\ pending[nl] = "n"
  BY <1>1, <1>3 DEF Line!Newlines
<1>5. PICK i \in Nat : i = Place + nl
  BY <1>1, <1>4
<1>6. i \in Line!Ends
  BY <1>4, <1>5, HeldEnds
<1>7. ASSUME NEW j \in Line!Ends, Place < j, j < i PROVE FALSE
  <2>1. j \in Nat
    BY <1>1, EndsAreFinite
  <2>2. PICK m \in 1 .. Len(pending) : j = Place + m /\ m < nl
    <3>1. j - Place \in 1 .. Len(pending) /\ j = Place + (j - Place) /\ j - Place < nl
      BY <1>1, <1>4, <1>5, <1>7, <2>1
    <3> QED
      BY <3>1
  <2>3. m \in Line!Newlines
    BY <1>1, <2>2, HeldEnds DEF Line!Newlines
  <2> QED
    BY <1>3, <1>4, <2>2, <2>3
<1>8. LinesBy(i) = Append(frames, Line!Whole(i))
  <2>1. Place < i /\ \A j \in Line!Ends : ~(Place < j /\ j < i)
    BY <1>1, <1>4, <1>5, <1>7
  <2>2. LinesBy(i) = Append(LinesBy(Place), Line!Whole(i))
    BY <1>1, <1>6, <2>1, LinesGrow
  <2> QED
    BY <2>2 DEF LineInv
<1>9. StartsAfter(i, i)
  BY <1>1, <1>6, EndsAreFinite DEF StartsAfter
<1>10. Line!Whole(i) = IF Line!TooLong THEN Line!Refusal ELSE Line!Line(SubSeq(pending, 1, nl - 1))
  <2>1. PICK b : /\ StartsAfter(b, Place)
                 /\ IF discarding THEN Place - b > LineLimit ELSE Place = b
    BY DEF LineInv
  <2>2. b \in Nat /\ b <= Place /\ b < i /\ i - 1 \in Nat
    BY <1>1, <1>4, <1>5, <2>1 DEF StartsAfter
  <2>3. StartsAfter(b, i - 1)
    <3>1. ASSUME NEW j \in Line!Ends PROVE ~(b < j /\ j <= i - 1)
      <4>1. j \in Nat /\ ~(b < j /\ j <= Place) /\ ~(Place < j /\ j < i)
        BY <1>1, <1>7, <2>1, EndsAreFinite DEF StartsAfter
      <4> QED
        BY <1>1, <2>2, <4>1
    <3> QED
      BY <2>1, <2>2, <3>1 DEF StartsAfter
  <2>4. Line!From(i) = b + 1
    BY <1>1, <2>2, <2>3, FromIs
  <2>5. (i - Line!From(i) >= LineLimit) <=> Line!TooLong
    BY <1>1, <1>2, <1>4, <1>5, <2>1, <2>2, <2>4, LinesAreBytes DEF Line!TooLong
  <2>6. CASE Line!TooLong
    BY <2>5, <2>6 DEF Line!Whole
  <2>7. CASE ~Line!TooLong
    <3>1. b = Place
      BY <1>1, <2>1, <2>7 DEF Line!TooLong
    <3>2. SubSeq(written, Place + 1, i - 1) = SubSeq(pending, 1, nl - 1)
      <4>1. \A k \in 1 .. nl - 1 : /\ pending[k] = written[Place + k] /\ pending[k] \in Bytes
                                   /\ Place + k \in 1 .. Len(written)
        <5>1. /\ \A k \in 1 .. nl - 1 : k \in 1 .. Len(pending)
              /\ \A k \in 1 .. Len(pending) : pending[k] = written[Place + k] /\ pending[k] \in Bytes
          BY <1>1, <1>4 DEF LineInv
        <5>2. Len(unread) \in Nat /\ Len(written) \in Nat
          BY DEF LineInv
        <5> QED
          BY <1>1, <5>1, <5>2 DEF Place
      <4>2. \A k \in Place + 1 .. i - 1 : written[k] \in Bytes
        <5>1. \A k \in Place + 1 .. i - 1 : k - Place \in 1 .. nl - 1 /\ k = Place + (k - Place)
          BY <1>1, <1>4, <1>5
        <5> QED
          BY <4>1, <5>1
      <4>3. Place + 1 \in Int /\ i - 1 \in Int /\ nl - 1 \in Int /\ nl - 1 \in Nat
        BY <1>1, <1>4
      <4>4. PICK u : u = SubSeq(written, Place + 1, i - 1)
        OBVIOUS
      <4>5. PICK v : v = SubSeq(pending, 1, nl - 1)
        OBVIOUS
      <4>6. /\ u \in Seq(Bytes) /\ Len(u) = nl - 1
            /\ \A k \in 1 .. nl - 1 : u[k] = written[Place + k]
        <5>1. /\ u \in Seq(Bytes)
              /\ Len(u) = IF Place + 1 <= i - 1 THEN (i - 1) - (Place + 1) + 1 ELSE 0
              /\ \A k \in 1 .. (i - 1) - (Place + 1) + 1 : u[k] = written[(Place + 1) + k - 1]
          BY <4>2, <4>3, <4>4, SubSeqProperties
        <5> QED
          BY SMTT(30), <1>1, <1>4, <1>5, <5>1
      <4>7. /\ v \in Seq(Bytes) /\ Len(v) = nl - 1
            /\ \A k \in 1 .. nl - 1 : v[k] = pending[k]
        <5>1. /\ v \in Seq(Bytes)
              /\ Len(v) = IF 1 <= nl - 1 THEN (nl - 1) - 1 + 1 ELSE 0
              /\ \A k \in 1 .. (nl - 1) - 1 + 1 : v[k] = pending[1 + k - 1]
          BY <4>1, <4>3, <4>5, SubSeqProperties
        <5> QED
          BY <1>4, <5>1
      <4> QED
        BY <4>1, <4>3, <4>4, <4>5, <4>6, <4>7, SeqEqual
    <3> QED
      BY <2>4, <2>5, <2>7, <3>1, <3>2 DEF Line!Whole
  <2> QED
    BY <2>6, <2>7
<1> QED
  BY <1>2, <1>4, <1>5, <1>6, <1>8, <1>9, <1>10

(* The refusals that wait are written by a task that is still to run. *)
RefusalsInv == errors \in Nat /\ flushers \in Nat /\ (flushers = 0 => errors = 0)

(* What the reader holds after a suffix of its bytes remains. *)
LEMMA SuffixHeld ==
    ASSUME NEW s \in Seq(Bytes), NEW n \in 0 .. Len(s)
    PROVE  /\ SubSeq(s, n + 1, Len(s)) \in Seq(Bytes)
           /\ Len(SubSeq(s, n + 1, Len(s))) = Len(s) - n
           /\ \A i \in 1 .. Len(s) - n : SubSeq(s, n + 1, Len(s))[i] = s[n + i]
<1>1. \A i \in n + 1 .. Len(s) : s[i] \in Bytes
  OBVIOUS
<1>2. PICK t : t = SubSeq(s, n + 1, Len(s))
  OBVIOUS
<1>3. /\ t \in Seq(Bytes)
      /\ Len(t) = IF n + 1 <= Len(s) THEN Len(s) - (n + 1) + 1 ELSE 0
      /\ \A i \in 1 .. Len(s) - (n + 1) + 1 : t[i] = s[(n + 1) + i - 1]
  <2>1. n + 1 \in Int /\ Len(s) \in Int
    OBVIOUS
  <2> QED
    BY <1>1, <1>2, <2>1, SubSeqProperties
<1>4. /\ Len(t) = Len(s) - n
      /\ \A i \in 1 .. Len(s) - n : t[i] = s[n + i]
  BY <1>3
<1> QED
  BY <1>2, <1>3, <1>4

LEMMA PrefixHeld ==
    ASSUME NEW s \in Seq(Bytes), NEW n \in 0 .. Len(s)
    PROVE  /\ SubSeq(s, 1, n) \in Seq(Bytes) /\ Len(SubSeq(s, 1, n)) = n
           /\ \A i \in 1 .. n : SubSeq(s, 1, n)[i] = s[i]
<1>1. \A i \in 1 .. n : s[i] \in Bytes
  OBVIOUS
<1>2. PICK t : t = SubSeq(s, 1, n)
  OBVIOUS
<1>3. /\ t \in Seq(Bytes)
      /\ Len(t) = IF 1 <= n THEN n - 1 + 1 ELSE 0
      /\ \A i \in 1 .. n - 1 + 1 : t[i] = s[1 + i - 1]
  <2>1. 1 \in Int /\ n \in Int
    OBVIOUS
  <2> QED
    BY <1>1, <1>2, <2>1, SubSeqProperties
<1>4. Len(t) = n /\ \A i \in 1 .. n : t[i] = s[i]
  BY <1>3
<1> QED
  BY <1>2, <1>3, <1>4

LEMMA ConcatHeld ==
    ASSUME NEW s \in Seq(Bytes), NEW t \in Seq(Bytes), NEW whole, whole = s \o t
    PROVE  /\ whole \in Seq(Bytes) /\ Len(whole) = Len(s) + Len(t)
           /\ \A i \in 1 .. Len(s) + Len(t) : whole[i] = IF i <= Len(s) THEN s[i] ELSE t[i - Len(s)]
<1>1. /\ s \o t \in Seq(Bytes) /\ Len(s \o t) = Len(s) + Len(t)
      /\ \A i \in 1 .. Len(s) + Len(t) : (s \o t)[i] = IF i <= Len(s) THEN s[i] ELSE t[i - Len(s)]
  BY ConcatProperties, Zenon
<1> QED
  BY <1>1

LEMMA CutLineSteps == ASSUME LineInv, Line!CutLine PROVE LineInv'
<1>1. ~closed /\ Line!Newlines # {} /\ UNCHANGED <<unread, written, eof, closed>>
  BY DEF Line!CutLine
<1>2. PICK nl : nl = Line!Newline
  OBVIOUS
<1>3. PICK i : i = Place + nl
  OBVIOUS
<1>4. /\ nl \in 1 .. Len(pending) /\ i \in Line!Ends
      /\ LinesBy(i) = Append(frames, Line!Whole(i)) /\ StartsAfter(i, i)
      /\ Line!Whole(i) = IF Line!TooLong THEN Line!Refusal ELSE Line!Line(SubSeq(pending, 1, nl - 1))
  BY <1>1, <1>2, <1>3, NextLine
<1>5. /\ pending \in Seq(Bytes) /\ Len(pending) \in Nat /\ Place \in Nat
      /\ Len(written) \in Nat /\ Len(unread) \in Nat
      /\ \A k \in 1 .. Len(pending) : pending[k] = written[Place + k]
  BY DEF LineInv
<1>6. pending' = SubSeq(pending, nl + 1, Len(pending))
  BY <1>2 DEF Line!CutLine, Line!AfterNewline
<1>7. /\ pending' \in Seq(Bytes) /\ Len(pending') = Len(pending) - nl
      /\ \A k \in 1 .. Len(pending) - nl : pending'[k] = pending[nl + k]
  <2>1. nl \in 0 .. Len(pending)
    BY <1>4
  <2> QED
    BY <1>5, <1>6, <2>1, SuffixHeld
<1>8. Place' = i /\ i \in Nat
  <2>1. Len(pending') = Len(pending) - nl /\ nl \in Nat
    BY <1>4, <1>7
  <2>2. Place' = Len(written) - Len(unread) - Len(pending')
    BY <1>1 DEF Place
  <2> QED
    BY <1>3, <1>5, <2>1, <2>2 DEF Place
<1>9. \A k \in 1 .. Len(pending') : pending'[k] = written[i + k]
  <2>1. \A k \in 1 .. Len(pending) - nl : nl + k \in 1 .. Len(pending) /\ i + k = Place + (nl + k)
    BY <1>3, <1>4, <1>5
  <2> QED
    BY <1>5, <1>7, <2>1
<1>10. frames' = LinesBy(i) /\ discarding' = FALSE
  <2>1. discarding \in BOOLEAN
    BY DEF LineInv
  <2> QED
    BY <1>2, <1>4, <2>1 DEF Line!CutLine, Line!Refuse, Line!TooLong
<1>11. RefusalsInv'
  BY DEF Line!CutLine, Line!Refuse, LineInv, RefusalsInv
<1>12. LinesBy(i)' = LinesBy(i) /\ StartsAfter(i, i)'
  BY <1>1, <1>4, LinesKept
<1>13. /\ (frames = LinesBy(Place))'
       /\ \E b : StartsAfter(b, Place)' /\ IF discarding' THEN Place' - b > LineLimit ELSE Place' = b
  BY <1>8, <1>10, <1>12 DEF LinesBy, StartsAfter, EndsBy
<1> QED
  BY <1>1, <1>7, <1>8, <1>9, <1>10, <1>11, <1>13 DEF LineInv, RefusalsInv

LEMMA EndOfInputSteps == ASSUME LineInv, Line!EndOfInput PROVE LineInv'
<1>1. /\ ~closed /\ closed' = TRUE /\ Line!Newlines = {} /\ eof
      /\ pending' = << >> /\ discarding' = FALSE /\ UNCHANGED <<unread, written, eof>>
  BY DEF Line!EndOfInput
<1>2. /\ written \in Seq(Bytes) /\ pending \in Seq(Bytes) /\ unread = << >> /\ Place \in Nat
      /\ Len(written) \in Nat /\ Len(pending) \in Nat /\ discarding \in BOOLEAN
      /\ \A k \in 1 .. Len(pending) : pending[k] = written[Place + k]
      /\ frames = LinesBy(Place)
  <2>1. /\ written \in Seq(Bytes) /\ pending \in Seq(Bytes) /\ Place \in Nat
        /\ discarding \in BOOLEAN
    BY DEF LineInv
  <2>2. Len(written) \in Nat /\ Len(pending) \in Nat
    BY <2>1
  <2>3. unread = << >>
    BY <1>1 DEF LineInv
  <2>4. \A k \in 1 .. Len(pending) : pending[k] = written[Place + k]
    BY DEF LineInv
  <2>5. frames = LinesBy(Place)
    BY <1>1 DEF LineInv
  <2> QED
    BY <2>1, <2>2, <2>3, <2>4, <2>5
<1>3. Len(unread) = 0 /\ Place + Len(pending) = Len(written)
  BY <1>2 DEF Place
<1>4. PICK b : /\ StartsAfter(b, Place)
               /\ IF discarding THEN Place - b > LineLimit ELSE Place = b
  BY <1>1 DEF LineInv
<1>5. b \in Nat /\ b <= Place
  BY <1>4 DEF StartsAfter
<1>6. \A j \in Line!Ends : j \in Nat /\ j <= Place /\ ~(b < j)
  BY <1>1, <1>2, <1>3, <1>4, NoNewlinesHeld, EndsAreFinite DEF StartsAfter
<1>7. EndsBy(Place) = Line!Ends
  BY <1>6 DEF EndsBy
<1> DEFINE lines == [k \in 1 .. Cardinality(Line!Ends) |-> Line!Whole(Line!LineEnd(k))]
<1>8. frames = lines
  BY <1>2, <1>7 DEF LinesBy
<1>9. Line!Max({0} \cup Line!Ends) = b
  <2>1. StartsAfter(b, Len(written))
    BY <1>2, <1>3, <1>4, <1>5, <1>6 DEF StartsAfter
  <2>2. Line!From(Len(written) + 1) = b + 1
    <3>1. Len(written) + 1 \in Nat /\ b < Len(written) + 1 /\ Len(written) + 1 - 1 = Len(written)
      BY <1>2, <1>3, <1>5
    <3> QED
      BY <1>2, <2>1, <3>1, FromIs
  <2>3. {j \in Line!Ends : j < Len(written) + 1} = Line!Ends
    BY <1>2, <1>3, <1>6
  <2>4. Line!Max({0} \cup Line!Ends) + 1 = b + 1
    BY <2>2, <2>3 DEF Line!From
  <2>5. Line!Max({0} \cup Line!Ends) \in Nat
    <3>1. b \in {0} \cup Line!Ends /\ \A y \in {0} \cup Line!Ends : b >= y
      BY <1>4, <1>5, <1>6 DEF StartsAfter
    <3>2. Line!Max({0} \cup Line!Ends) \in {0} \cup Line!Ends
      BY <3>1 DEF Line!Max
    <3> QED
      BY <1>6, <3>2
  <2> QED
    BY <1>5, <2>4, <2>5
<1>10. PICK last : last = Line!LastPart
  OBVIOUS
<1>11. /\ last \in Seq(Bytes) /\ Len(last) = Len(written) - b
       /\ \A k \in 1 .. Len(written) - b : last[k] = written[b + k]
  <2>1. last = SubSeq(written, b + 1, Len(written))
    BY <1>9, <1>10 DEF Line!LastPart
  <2>2. b \in 0 .. Len(written)
    BY <1>2, <1>3, <1>5
  <2> QED
    BY <1>2, <2>1, <2>2, SuffixHeld
<1>12. Line!Reference = IF last = << >> THEN frames
                        ELSE Append(frames, IF Len(last) > LineLimit THEN Line!Refusal ELSE last)
  BY <1>8, <1>10, SameCardinality DEF Line!Reference
<1>13. frames' = Line!Reference
  <2>1. CASE discarding
    <3>1. Len(last) > LineLimit /\ last # << >>
      BY <1>2, <1>3, <1>4, <1>5, <1>11, <2>1, LinesAreBytes
    <3> QED
      BY <1>12, <2>1, <3>1 DEF Line!EndOfInput, Line!Discards, Line!Refuse
  <2>2. CASE ~discarding
    <3>1. b = Place /\ Len(last) = Len(pending)
      BY <1>2, <1>3, <1>4, <1>11, <2>2
    <3>2. last = pending
      <4>1. \A k \in 1 .. Len(last) : last[k] = pending[k]
        BY <1>2, <1>3, <1>11, <3>1
      <4> QED
        BY <1>2, <1>11, <3>1, <4>1, SeqEqual
    <3>3. CASE Len(pending) > LineLimit
      <4>1. last # << >>
        BY <3>2, <3>3, LinesAreBytes
      <4> QED
        BY <1>12, <3>2, <3>3, <4>1 DEF Line!EndOfInput, Line!Discards, Line!Refuse
    <3>4. CASE ~(Len(pending) > LineLimit)
      BY <1>12, <2>2, <3>2, <3>4 DEF Line!EndOfInput, Line!Discards
    <3> QED
      BY <3>3, <3>4
  <2> QED
    BY <1>2, <2>1, <2>2
<1>14. RefusalsInv'
  BY DEF Line!EndOfInput, Line!Refuse, LineInv, RefusalsInv
<1>15. /\ (frames = Line!Reference)' /\ Place' = Len(written) /\ pending' \in Seq(Bytes)
       /\ Len(pending') = 0
  <2>1. Line!Reference' = Line!Reference
    BY <1>1, LinesKept
  <2>2. Len(pending') = 0 /\ pending' \in Seq(Bytes)
    BY <1>1
  <2>3. Place' = Len(written) - Len(unread) - Len(pending')
    BY <1>1 DEF Place
  <2> QED
    BY <1>2, <1>3, <1>13, <2>1, <2>2, <2>3
<1>16. /\ \A i \in 1 .. Len(unread) : unread[i] = written[Len(written) - Len(unread) + i]
       /\ \A i \in 1 .. Len(pending') : pending'[i] = written[Len(written) + i]
  BY <1>3, <1>15
<1> QED
  BY <1>1, <1>2, <1>14, <1>15, <1>16 DEF LineInv, RefusalsInv

LEMMA ReadMoreSteps == ASSUME LineInv, Line!ReadMore PROVE LineInv'
<1>1. /\ ~closed /\ Line!Newlines = {} /\ ~eof /\ UNCHANGED <<written, frames, errors, flushers, closed>>
      /\ discarding' = Line!Discards
  BY DEF Line!ReadMore
<1>2. /\ written \in Seq(Bytes) /\ pending \in Seq(Bytes) /\ unread \in Seq(Bytes) /\ Place \in Nat
      /\ Len(written) \in Nat /\ Len(pending) \in Nat /\ Len(unread) \in Nat /\ discarding \in BOOLEAN
      /\ \A k \in 1 .. Len(pending) : pending[k] = written[Place + k]
      /\ \A i \in 1 .. Len(unread) : unread[i] = written[Len(written) - Len(unread) + i]
      /\ frames = LinesBy(Place)
  <2>1. /\ written \in Seq(Bytes) /\ pending \in Seq(Bytes) /\ unread \in Seq(Bytes)
        /\ Place \in Nat /\ discarding \in BOOLEAN
    BY DEF LineInv
  <2>2. Len(written) \in Nat /\ Len(pending) \in Nat /\ Len(unread) \in Nat
    BY <2>1
  <2>3. \A k \in 1 .. Len(pending) : pending[k] = written[Place + k]
    BY DEF LineInv
  <2>4. \A i \in 1 .. Len(unread) : unread[i] = written[Len(written) - Len(unread) + i]
    BY DEF LineInv
  <2>5. frames = LinesBy(Place)
    BY <1>1 DEF LineInv
  <2> QED
    BY <2>1, <2>2, <2>3, <2>4, <2>5
<1> DEFINE kept == IF Line!Discards THEN << >> ELSE pending
<1>3. kept = IF Line!Discards THEN << >> ELSE pending
  OBVIOUS
<1> HIDE DEF kept
<1>4. kept \in Seq(Bytes) /\ Len(kept) = (IF Line!Discards THEN 0 ELSE Len(pending)) /\ Len(kept) \in Nat
  BY <1>2, <1>3
<1>5. PICK n \in 0 .. Len(unread) :
        /\ pending' \in Seq(Bytes) /\ Len(pending') = Len(kept) + n
        /\ \A k \in 1 .. Len(kept) : pending'[k] = kept[k]
        /\ \A k \in 1 .. n : pending'[Len(kept) + k] = unread[k]
        /\ unread' \in Seq(Bytes) /\ Len(unread') = Len(unread) - n
        /\ \A k \in 1 .. Len(unread) - n : unread'[k] = unread[n + k]
        /\ eof' \in BOOLEAN /\ (eof' => unread' = << >>)
  <2>1. CASE unread = << >>
    <3>1. pending' = kept /\ unread' = unread /\ eof' = TRUE /\ Len(unread) = 0
      BY <1>3, <2>1 DEF Line!ReadMore
    <3>2. Len(kept) = Len(kept) + 0 /\ Len(unread) - 0 = Len(unread) /\ 1 .. 0 = {}
      BY <1>2, <1>4
    <3>3. 0 \in 0 .. Len(unread)
      BY <1>2
    <3> WITNESS 0 \in 0 .. Len(unread)
    <3>4. /\ \A k \in 1 .. 0 : pending'[Len(kept) + k] = unread[k]
          /\ \A k \in 1 .. Len(unread) - 0 : unread'[k] = unread[0 + k]
      BY <3>1, <3>2
    <3> QED
      BY <1>2, <1>4, <2>1, <3>1, <3>2, <3>4
  <2>2. CASE unread # << >>
    <3>1. PICK n \in 1 .. Line!Min({LineReads, Len(unread)}) :
            /\ pending' = kept \o SubSeq(unread, 1, n)
            /\ unread' = SubSeq(unread, n + 1, Len(unread))
            /\ UNCHANGED eof
      BY <1>3, <2>2 DEF Line!ReadMore
    <3>2. n \in 0 .. Len(unread)
      <4>1. {LineReads, Len(unread)} \in SUBSET Nat /\ Len(unread) \in {LineReads, Len(unread)}
        BY <1>2, LinesAreBytes
      <4>2. /\ Line!Min({LineReads, Len(unread)}) <= Len(unread)
            /\ Line!Min({LineReads, Len(unread)}) \in {LineReads, Len(unread)}
        BY <4>1, LeastExists
      <4>3. Line!Min({LineReads, Len(unread)}) \in Nat
        BY <4>1, <4>2
      <4> QED
        BY <1>2, <3>1, <4>2, <4>3
    <3>3. PICK got : got = SubSeq(unread, 1, n)
      OBVIOUS
    <3>4. got \in Seq(Bytes) /\ Len(got) = n /\ \A i \in 1 .. n : got[i] = unread[i]
      BY <1>2, <3>2, <3>3, PrefixHeld
    <3>5. /\ pending' \in Seq(Bytes) /\ Len(pending') = Len(kept) + n
          /\ \A i \in 1 .. Len(kept) + n : pending'[i] = IF i <= Len(kept) THEN kept[i] ELSE got[i - Len(kept)]
      <4>1. PICK whole : whole = kept \o got
        OBVIOUS
      <4>2. /\ whole \in Seq(Bytes) /\ Len(whole) = Len(kept) + Len(got)
            /\ \A i \in 1 .. Len(kept) + Len(got) :
                  whole[i] = IF i <= Len(kept) THEN kept[i] ELSE got[i - Len(kept)]
        BY <1>4, <3>4, <4>1, ConcatHeld
      <4>3. pending' = whole
        BY <3>1, <3>3, <4>1
      <4> QED
        BY <3>4, <4>2, <4>3
    <3>6. /\ unread' \in Seq(Bytes) /\ Len(unread') = Len(unread) - n
          /\ \A k \in 1 .. Len(unread) - n : unread'[k] = unread[n + k]
      BY <1>2, <3>1, <3>2, SuffixHeld
    <3>7. /\ \A k \in 1 .. Len(kept) : pending'[k] = kept[k]
          /\ \A k \in 1 .. n : pending'[Len(kept) + k] = unread[k]
      <4>1. \A k \in 1 .. n : /\ Len(kept) + k \in 1 .. Len(kept) + n /\ ~(Len(kept) + k <= Len(kept))
                             /\ Len(kept) + k - Len(kept) = k
        BY <1>4, <3>2
      <4>2. \A k \in 1 .. Len(kept) : k \in 1 .. Len(kept) + n /\ k <= Len(kept)
        BY <1>4, <3>2
      <4> QED
        BY <3>4, <3>5, <4>1, <4>2
    <3>8. eof' = FALSE
      BY <1>1, <3>1 DEF LineInv
    <3> QED
      BY <3>2, <3>5, <3>6, <3>7, <3>8
  <2> QED
    BY <2>1, <2>2
<1>6. Place' = Place + Len(pending) - Len(kept) /\ Place' \in Nat
  <2>1. Place' = Len(written) - (Len(unread) - n) - (Len(kept) + n)
    BY <1>1, <1>5 DEF Place
  <2>2. Place = Len(written) - Len(unread) - Len(pending)
    BY DEF Place
  <2> QED
    BY <1>2, <1>4, <1>5, <2>1, <2>2
<1>7. \A i \in 1 .. Len(unread') : unread'[i] = written[Len(written) - Len(unread') + i]
  <2>1. \A i \in 1 .. Len(unread) - n :
           /\ n + i \in 1 .. Len(unread)
           /\ Len(written) - Len(unread) + (n + i) = Len(written) - (Len(unread) - n) + i
    BY <1>2, <1>5
  <2> QED
    BY <1>2, <1>5, <2>1
<1>8. \A k \in 1 .. Len(pending') : pending'[k] = written[Place' + k]
  <2>1. ASSUME NEW k \in 1 .. Len(kept) PROVE pending'[k] = written[Place' + k]
    <3>1. ~Line!Discards /\ kept = pending
      BY <1>3, <1>4, <2>1
    <3>2. Place' = Place
      BY <1>2, <1>6, <3>1
    <3> QED
      BY <1>2, <1>5, <2>1, <3>1, <3>2
  <2>2. ASSUME NEW k \in 1 .. n PROVE pending'[Len(kept) + k] = written[Place' + (Len(kept) + k)]
    <3>1. k \in 1 .. Len(unread) /\ Place' + (Len(kept) + k) = Len(written) - Len(unread) + k
      <4>1. Place = Len(written) - Len(unread) - Len(pending)
        BY DEF Place
      <4>2. k \in Nat /\ k \in 1 .. Len(unread)
        BY <1>2, <1>5, <2>2
      <4>3. Place' = Place + Len(pending) - Len(kept) /\ Len(kept) \in Nat
        BY <1>4, <1>6
      <4> QED
        BY <1>2, <4>1, <4>2, <4>3
    <3> QED
      BY <1>2, <1>5, <2>2, <3>1
  <2>3. \A k \in 1 .. Len(kept) + n : k \in 1 .. Len(kept) \/ \E m \in 1 .. n : k = Len(kept) + m
    <3> SUFFICES ASSUME NEW k \in 1 .. Len(kept) + n, k \notin 1 .. Len(kept)
                 PROVE  \E m \in 1 .. n : k = Len(kept) + m
      OBVIOUS
    <3>1. k - Len(kept) \in 1 .. n /\ k = Len(kept) + (k - Len(kept))
      BY <1>4, <1>5
    <3> QED
      BY <3>1
  <2>4. ASSUME NEW k \in 1 .. Len(kept) + n PROVE pending'[k] = written[Place' + k]
    BY <2>1, <2>2, <2>3
  <2> QED
    BY <1>5, <2>4
<1>9. PICK b : /\ StartsAfter(b, Place)
               /\ IF discarding THEN Place - b > LineLimit ELSE Place = b
  BY <1>1 DEF LineInv
<1>10. b \in Nat /\ b <= Place
  BY <1>9 DEF StartsAfter
<1>11. PICK q \in Nat : q = Place'
  BY <1>6
<1>12. /\ Place <= q /\ q <= Place + Len(pending)
       /\ \A j \in Line!Ends : j \in Nat /\ ~(Place < j /\ j <= q)
  <2>1. Place <= q /\ q <= Place + Len(pending)
    BY <1>2, <1>4, <1>6, <1>11
  <2>2. \A j \in Line!Ends : j \in Nat /\ ~(Place < j /\ j <= Place + Len(pending))
    BY <1>1, <1>2, NoNewlinesHeld, EndsAreFinite
  <2> QED
    BY <1>2, <2>1, <2>2
<1>13. LinesBy(q) = frames
  BY <1>2, <1>12, LinesStay
<1>14. StartsAfter(b, q)
  BY <1>2, <1>9, <1>10, <1>12 DEF StartsAfter
<1>15. IF Line!Discards THEN q - b > LineLimit ELSE q = b
  <2>1. CASE Line!Discards
    <3>1. q = Place + Len(pending)
      BY <1>2, <1>4, <1>6, <1>11, <2>1
    <3>2. discarding \/ Len(pending) > LineLimit
      BY <2>1 DEF Line!Discards
    <3>3. CASE discarding
      BY <1>2, <1>9, <1>10, <2>1, <3>1, <3>3, LinesAreBytes
    <3>4. CASE ~discarding
      BY <1>2, <1>9, <1>10, <2>1, <3>1, <3>2, <3>4, LinesAreBytes
    <3> QED
      BY <3>3, <3>4
  <2>2. CASE ~Line!Discards
    <3>1. q = Place /\ ~discarding
      BY <1>2, <1>4, <1>6, <1>11, <2>2 DEF Line!Discards
    <3> QED
      BY <1>9, <2>2, <3>1
  <2> QED
    BY <2>1, <2>2
<1>16. /\ (frames = LinesBy(Place))'
       /\ \E a : StartsAfter(a, Place)' /\ IF discarding' THEN Place' - a > LineLimit ELSE Place' = a
  <2>1. LinesBy(q)' = LinesBy(q) /\ StartsAfter(b, q)'
    BY <1>1, <1>14, LinesKept
  <2> QED
    BY <1>1, <1>11, <1>13, <1>15, <2>1 DEF LinesBy, StartsAfter, EndsBy
<1>17. discarding' \in BOOLEAN
  BY <1>1 DEF Line!Discards
<1> QED
  BY <1>1, <1>2, <1>5, <1>6, <1>7, <1>8, <1>16, <1>17 DEF LineInv

LEMMA LineSteps == ASSUME LineInv, Line!StdioNext PROVE LineInv'
<1>1. CASE Line!FlushErrors
  <2>1. UNCHANGED <<unread, written, pending, discarding, eof, frames, closed>>
    BY <1>1 DEF Line!FlushErrors, Line!lineVars
  <2>2. RefusalsInv'
    BY <1>1 DEF Line!FlushErrors, LineInv, RefusalsInv
  <2>3. Place' = Place
    BY <2>1 DEF Place
  <2>4. Line!Reference' = Line!Reference
    BY <2>1, LinesKept
  <2>5. LinesBy(Place)' = LinesBy(Place) /\ \A b : StartsAfter(b, Place)' <=> StartsAfter(b, Place)
    BY <2>1, <2>3 DEF LinesBy, StartsAfter, EndsBy, Line!Ends, Line!Whole, Line!LineEnd, Line!From
  <2> QED
    BY <2>1, <2>2, <2>3, <2>4, <2>5 DEF LineInv, RefusalsInv
<1> QED
  BY <1>1, CutLineSteps, EndOfInputSteps, ReadMoreSteps DEF Line!StdioNext

(* The lines that end before a place begin the reference. *)
LEMMA LinesArePrefix ==
    ASSUME written \in Seq(Bytes), NEW p
    PROVE  Line!IsPrefix(LinesBy(p), Line!Reference)
<1> DEFINE line(k) == Line!Whole(Line!LineEnd(k))
<1>1. PICK n \in Nat, m \in Nat : n = Cardinality(EndsBy(p)) /\ m = Cardinality(Line!Ends) /\ n <= m
  <2>1. EndsBy(p) \in SUBSET Line!Ends
    BY DEF EndsBy
  <2> QED
    BY <2>1, EndsAreFinite, FS_Subset, FS_CardinalityType
<1>2. PICK s : s = LinesBy(p)
  OBVIOUS
<1>3. PICK t : t = Line!Reference
  OBVIOUS
<1>4. s = [k \in 1 .. n |-> line(k)]
  BY <1>1, <1>2 DEF LinesBy
<1>5. PICK last : t = [k \in 1 .. m |-> line(k)] \/ t = Append([k \in 1 .. m |-> line(k)], last)
  BY <1>1, <1>3, SameCardinality DEF Line!Reference
<1> HIDE DEF line
<1>6. /\ Len(s) = n /\ Len(t) \in Nat /\ m <= Len(t)
      /\ \A k \in 1 .. n : s[k] = t[k]
  <2>1. Len(s) = n /\ \A k \in 1 .. n : s[k] = line(k)
    BY <1>4
  <2>2. PICK u : u = [k \in 1 .. m |-> line(k)]
    OBVIOUS
  <2>3. PICK S : u \in Seq(S) /\ last \in S
    <3>1. u \in Seq({line(k) : k \in 1 .. m} \cup {last})
      BY <2>2
    <3> QED
      BY <3>1
  <2>4. Len(u) = m /\ \A k \in 1 .. m : u[k] = line(k)
    BY <2>2
  <2>5. Len(t) \in Nat /\ m <= Len(t) /\ \A k \in 1 .. m : t[k] = line(k)
    <3>1. CASE t = u
      BY <2>4, <3>1
    <3>2. CASE t = Append(u, last)
      BY <2>3, <2>4, <3>2
    <3> QED
      BY <1>5, <2>2, <3>1, <3>2
  <2> QED
    BY <1>1, <2>1, <2>5
<1>7. SubSeq(s, 1, Len(s)) = SubSeq(t, 1, Len(s))
  BY <1>6
<1> QED
  BY <1>1, <1>2, <1>3, <1>6, <1>7 DEF Line!IsPrefix

LEMMA ReferenceIsOwnPrefix ==
    ASSUME written \in Seq(Bytes)
    PROVE  Line!IsPrefix(Line!Reference, Line!Reference)
<1>1. PICK t : t = Line!Reference
  OBVIOUS
<1>2. Len(t) \in Nat
  <2>1. PICK m \in Nat : m = Cardinality(Line!Ends)
    BY EndsAreFinite, FS_CardinalityType
  <2> DEFINE line(k) == Line!Whole(Line!LineEnd(k))
  <2>2. PICK last : t = [k \in 1 .. m |-> line(k)] \/ t = Append([k \in 1 .. m |-> line(k)], last)
    BY <1>1, <2>1, SameCardinality DEF Line!Reference
  <2> HIDE DEF line
  <2>3. PICK u : u = [k \in 1 .. m |-> line(k)]
    OBVIOUS
  <2>4. PICK S : u \in Seq(S) /\ last \in S
    <3>1. u \in Seq({line(k) : k \in 1 .. m} \cup {last})
      BY <2>3
    <3> QED
      BY <3>1
  <2> QED
    BY <2>2, <2>3, <2>4
<1>3. Len(t) <= Len(t)
  BY <1>2
<1> QED
  BY <1>1, <1>3 DEF Line!IsPrefix

(* However the reads cut what the client wrote, the lines the server hands on
   and the refusals are those of its lines, in their order, an oversized line
   is refused once, and no refusal waits without a task that writes it
   (mcp/transport.rs). *)
THEOREM FramesAreLinesHolds == ServerSpec => []FramesAreLines
<1> DEFINE I == part = "stdio" => LineInv
<1>1. ServerInit => I
  BY LineInits DEF ServerInit
<1>2. I /\ [ServerNext]_serverVars => I'
  <2>1. ASSUME I, ServerNext PROVE I'
    BY <2>1, StepsOfParts, LineSteps
  <2>2. ASSUME I, UNCHANGED serverVars PROVE I'
    <3>1. UNCHANGED <<part, unread, written, pending, discarding, eof, frames, errors, flushers, closed>>
      BY <2>2 DEF serverVars, partVars, serverPartsVars, stdioVars
    <3>2. /\ LinesBy(Place)' = LinesBy(Place) /\ (\A b : StartsAfter(b, Place)' <=> StartsAfter(b, Place))
          /\ Place' = Place /\ Line!Reference' = Line!Reference
      <4>1. Line!Reference' = Line!Reference
        BY <3>1, LinesKept
      <4> QED
        BY <3>1, <4>1 DEF LinesBy, StartsAfter, EndsBy, Line!Ends, Line!Whole, Line!LineEnd, Line!From, Place
    <3> QED
      BY <2>2, <3>1, <3>2 DEF LineInv
  <2> QED
    BY <2>1, <2>2
<1>3. I => FramesAreLines
  <2> SUFFICES ASSUME LineInv PROVE Line!FramesAreLines
    BY DEF FramesAreLines
  <2>1. Line!IsPrefix(frames, Line!Reference)
    BY LinesArePrefix, ReferenceIsOwnPrefix DEF LineInv
  <2> QED
    BY <2>1 DEF LineInv, Line!FramesAreLines
<1> QED
  BY <1>1, <1>2, <1>3, PTL DEF ServerSpec, serverVars

-----------------------------------------------------------------------------
(* The cut of a response.  What holds of a bundle after any number of
   reductions is stated against the bundle it was cut from. *)

BundleFields == {"passages", "trace", "conflicts", "gaps", "groups", "evidence", "dropped"}

(* A bundle as it is assembled: its passages are numbered without a gap, its
   groups are counted, and what it names is among its passages. *)
Whole(b) ==
    /\ DOMAIN b = BundleFields
    /\ b.passages \in Seq(Nat) /\ b.groups \in Nat
    /\ b.trace = DOMAIN b.passages /\ b.evidence = Server!SumFunction(b.passages)
    /\ \A x \in b.conflicts : x \subseteq DOMAIN b.passages
    /\ \A g \in DOMAIN b.gaps : b.gaps[g] \in {0} \cup DOMAIN b.passages
    /\ b.dropped = [passages |-> 0, groups |-> 0]

CutFrom(b, t) ==
    LET left == DOMAIN t.passages IN
    /\ DOMAIN t = BundleFields /\ DOMAIN t.dropped = {"passages", "groups"}
    /\ left \subseteq DOMAIN b.passages
    /\ t.passages = [n \in left |-> b.passages[n]] /\ t.evidence = Server!SumFunction(t.passages)
    /\ \A n \in left, m \in DOMAIN b.passages : m < n => m \in left
    /\ t.trace = left
    /\ \A x \in t.conflicts : x \subseteq left /\ \E y \in b.conflicts : x = y \cap left
    /\ \A x \in b.conflicts : Cardinality(x \cap left) > 1 => x \cap left \in t.conflicts
    /\ DOMAIN t.gaps \subseteq DOMAIN b.gaps
    /\ \A g \in DOMAIN t.gaps : t.gaps[g] = b.gaps[g] /\ t.gaps[g] \in {0} \cup left
    /\ \A g \in DOMAIN b.gaps : b.gaps[g] \in {0} \cup left => g \in DOMAIN t.gaps
    /\ t.dropped.passages \in Nat /\ t.dropped.passages = Cardinality(DOMAIN b.passages \ left)
    /\ t.groups \in Int /\ t.dropped.groups \in Nat /\ t.groups + t.dropped.groups = b.groups
    /\ t.dropped.groups > 0 => left = {}

LEMMA PartsOfWholes ==
    ASSUME NEW b, Whole(b), NEW S \in SUBSET DOMAIN b.passages
    PROVE  IsFiniteSet(S) /\ Cardinality(S) \in Nat
<1>1. DOMAIN b.passages = 1 .. Len(b.passages) /\ Len(b.passages) \in Nat
  BY DEF Whole
<1>2. IsFiniteSet(1 .. Len(b.passages))
  BY <1>1, FS_Interval
<1> QED
  BY <1>1, <1>2, FS_Subset, FS_CardinalityType

LEMMA WholesAreUncut ==
    ASSUME NEW b, Whole(b)
    PROVE  CutFrom(b, b)
<1> DEFINE left == DOMAIN b.passages
<1>1. /\ DOMAIN b = BundleFields /\ DOMAIN b.dropped = {"passages", "groups"}
      /\ b.dropped.passages = 0 /\ b.dropped.groups = 0 /\ b.groups \in Nat
  BY DEF Whole
<1>2. b.passages = [n \in left |-> b.passages[n]]
  BY DEF Whole
<1>3. Cardinality(left \ left) = 0
  <2>1. left \ left = {}
    OBVIOUS
  <2> QED
    BY <2>1, FS_EmptySet
<1>4. /\ \A x \in b.conflicts : x \subseteq left /\ \E y \in b.conflicts : x = y \cap left
      /\ \A x \in b.conflicts : Cardinality(x \cap left) > 1 => x \cap left \in b.conflicts
  <2>1. \A x \in b.conflicts : x \subseteq left /\ x \cap left = x
    BY DEF Whole
  <2> QED
    BY <2>1
<1>5. /\ b.trace = left /\ b.evidence = Server!SumFunction(b.passages)
      /\ \A g \in DOMAIN b.gaps : b.gaps[g] \in {0} \cup left
  BY DEF Whole
<1>6. PICK u : u = b
  OBVIOUS
<1>7. /\ u.groups \in Int /\ u.dropped.groups \in Nat /\ u.groups + u.dropped.groups = b.groups
      /\ ~(u.dropped.groups > 0) /\ u.dropped.passages \in Nat
      /\ u.dropped.passages = Cardinality(left \ left)
  BY <1>1, <1>3, <1>6
<1>8. /\ DOMAIN u = BundleFields /\ DOMAIN u.dropped = {"passages", "groups"}
      /\ DOMAIN u.passages = left /\ u.passages = [n \in left |-> b.passages[n]] /\ u.trace = left
      /\ u.evidence = Server!SumFunction(u.passages)
      /\ \A x \in u.conflicts : x \subseteq left /\ \E y \in b.conflicts : x = y \cap left
      /\ \A x \in b.conflicts : Cardinality(x \cap left) > 1 => x \cap left \in u.conflicts
      /\ DOMAIN u.gaps \subseteq DOMAIN b.gaps
      /\ \A g \in DOMAIN u.gaps : u.gaps[g] = b.gaps[g] /\ u.gaps[g] \in {0} \cup left
      /\ \A g \in DOMAIN b.gaps : b.gaps[g] \in {0} \cup left => g \in DOMAIN u.gaps
  BY <1>1, <1>2, <1>4, <1>5, <1>6
<1>9. CutFrom(b, u)
  <2>1. \A n \in left, m \in DOMAIN b.passages : m < n => m \in left
    OBVIOUS
  <2> QED
    BY <1>7, <1>8, <2>1 DEF CutFrom
<1> QED
  BY <1>6, <1>9

(* The passage dropped is the last that is left. *)
LEMMA LastPassage ==
    ASSUME NEW b, Whole(b), NEW left \in SUBSET DOMAIN b.passages, left # {}
    PROVE  Server!Max(left) \in left /\ \A m \in left : m <= Server!Max(left)
<1>1. PICK n \in Nat : DOMAIN b.passages = 1 .. n
  BY DEF Whole
<1>2. LastIn(left) \in left /\ \A m \in left : m <= LastIn(left)
  BY <1>1, LastExists
<1>3. \A m \in left : m \in Nat
  BY <1>1
<1>4. \A m \in left : LastIn(left) >= m
  BY <1>2, <1>3
<1>5. Server!Max(left) \in left /\ \A m \in left : Server!Max(left) >= m
  BY <1>2, <1>4 DEF Server!Max
<1> QED
  BY <1>3, <1>5

LEMMA DropPassageCuts ==
    ASSUME NEW b, Whole(b), NEW t, CutFrom(b, t), DOMAIN t.passages # {}
    PROVE  CutFrom(b, Server!DropLowestPassage(t))
<1> DEFINE left == DOMAIN t.passages
           last == Server!Max(left)
           kept == left \ {last}
<1>1. /\ DOMAIN t = BundleFields /\ DOMAIN t.dropped = {"passages", "groups"}
      /\ left \subseteq DOMAIN b.passages /\ t.passages = [n \in left |-> b.passages[n]]
      /\ t.trace = left
  BY DEF CutFrom
<1>2. last \in left /\ \A m \in left : m <= last
  BY <1>1, LastPassage
<1>3. \A m \in DOMAIN b.passages : m \in Nat
  BY DEF Whole
<1> DEFINE cut == {x \ {last} : x \in t.conflicts}
           conflicts == {x \in cut : Cardinality(x) >= 2}
<1>4. PICK u :
        u = [t EXCEPT !.passages = Server!Restrict(t.passages, kept), !.trace = left \ {last},
                      !.conflicts = conflicts,
                      !.gaps = Server!Restrict(t.gaps, {g \in DOMAIN t.gaps : t.gaps[g] # last}),
                      !.evidence = Server!SumFunction(Server!Restrict(t.passages, kept)),
                      !.dropped.passages = t.dropped.passages + 1]
  OBVIOUS
<1>5. u = Server!DropLowestPassage(t)
  BY <1>1, <1>4, SameCardinality DEF Server!DropLowestPassage
<1> HIDE DEF last
<1>6. /\ DOMAIN u = BundleFields
      /\ u.passages = [n \in kept |-> t.passages[n]] /\ u.trace = kept /\ u.conflicts = conflicts
      /\ u.gaps = [g \in {g \in DOMAIN t.gaps : t.gaps[g] # last} |-> t.gaps[g]]
      /\ u.evidence = Server!SumFunction(u.passages) /\ u.groups = t.groups
      /\ u.dropped = [t.dropped EXCEPT !.passages = t.dropped.passages + 1]
  <2> DEFINE gaps == Server!Restrict(t.gaps, {g \in DOMAIN t.gaps : t.gaps[g] # last})
             passages == Server!Restrict(t.passages, kept)
             evidence == Server!SumFunction(passages)
  <2>1. /\ passages = [n \in kept |-> t.passages[n]]
        /\ gaps = [g \in {g \in DOMAIN t.gaps : t.gaps[g] # last} |-> t.gaps[g]]
    BY DEF Server!Restrict
  <2> HIDE DEF conflicts, gaps, passages, evidence
  <2>2. /\ DOMAIN u = BundleFields /\ u.passages = passages /\ u.trace = left \ {last}
        /\ u.conflicts = conflicts /\ u.gaps = gaps /\ u.evidence = evidence /\ u.groups = t.groups
        /\ u.dropped = [t.dropped EXCEPT !.passages = t.dropped.passages + 1]
    BY <1>1, <1>4 DEF gaps, passages, evidence, BundleFields
  <2>3. evidence = Server!SumFunction(passages)
    BY DEF evidence
  <2> QED
    BY <2>1, <2>2, <2>3
<1>7. /\ DOMAIN u.dropped = {"passages", "groups"} /\ u.dropped.passages = t.dropped.passages + 1
      /\ u.dropped.groups = t.dropped.groups
  BY <1>1, <1>6
<1>8. DOMAIN u.passages = kept /\ kept \subseteq DOMAIN b.passages /\ u.passages = [n \in kept |-> b.passages[n]]
  BY <1>1, <1>6
<1>9. \A n \in kept, m \in DOMAIN b.passages : m < n => m \in kept
  <2> SUFFICES ASSUME NEW n \in kept, NEW m \in DOMAIN b.passages, m < n PROVE m \in kept
    OBVIOUS
  <2>1. m \in left
    BY DEF CutFrom
  <2>2. n <= last /\ m \in Nat /\ n \in Nat /\ last \in Nat
    BY <1>1, <1>2, <1>3
  <2>3. m # last
    BY <2>2
  <2> QED
    BY <2>1, <2>3
<1>10. \A x \in u.conflicts : x \subseteq kept /\ \E y \in b.conflicts : x = y \cap kept
  <2> SUFFICES ASSUME NEW x \in u.conflicts PROVE x \subseteq kept /\ \E y \in b.conflicts : x = y \cap kept
    OBVIOUS
  <2>1. PICK z \in t.conflicts : x = z \ {last}
    BY <1>6
  <2>2. PICK y \in b.conflicts : z \subseteq left /\ z = y \cap left
    BY DEF CutFrom
  <2>3. x \subseteq kept /\ x = y \cap kept
    BY <2>1, <2>2
  <2> QED
    BY <2>3
<1>11. \A x \in b.conflicts : Cardinality(x \cap kept) > 1 => x \cap kept \in u.conflicts
  <2> SUFFICES ASSUME NEW x \in b.conflicts, Cardinality(x \cap kept) > 1 PROVE x \cap kept \in u.conflicts
    OBVIOUS
  <2>1. /\ IsFiniteSet(x \cap left) /\ Cardinality(x \cap left) \in Nat /\ Cardinality(x \cap kept) \in Nat
        /\ x \cap kept \in SUBSET (x \cap left)
    BY <1>1, PartsOfWholes
  <2>2. Cardinality(x \cap left) > 1
    BY <2>1, FS_Subset
  <2>3. x \cap left \in t.conflicts
    BY <2>2 DEF CutFrom
  <2>4. x \cap kept = (x \cap left) \ {last} /\ Cardinality(x \cap kept) >= 2
    BY <2>1
  <2> QED
    BY <1>6, <2>3, <2>4
<1>12. /\ DOMAIN u.gaps \subseteq DOMAIN b.gaps
       /\ \A g \in DOMAIN u.gaps : u.gaps[g] = b.gaps[g] /\ u.gaps[g] \in {0} \cup kept
       /\ \A g \in DOMAIN b.gaps : b.gaps[g] \in {0} \cup kept => g \in DOMAIN u.gaps
  <2>1. last # 0
    BY <1>1, <1>2 DEF Whole
  <2>2. /\ DOMAIN t.gaps \subseteq DOMAIN b.gaps
        /\ \A g \in DOMAIN t.gaps : t.gaps[g] = b.gaps[g] /\ t.gaps[g] \in {0} \cup left
        /\ \A g \in DOMAIN b.gaps : b.gaps[g] \in {0} \cup left => g \in DOMAIN t.gaps
    BY DEF CutFrom
  <2>3. /\ DOMAIN u.gaps = {g \in DOMAIN t.gaps : t.gaps[g] # last}
        /\ \A g \in DOMAIN u.gaps : u.gaps[g] = t.gaps[g]
    BY <1>6
  <2> QED
    BY <2>1, <2>2, <2>3
<1>13. u.dropped.passages \in Nat /\ u.dropped.passages = Cardinality(DOMAIN b.passages \ kept)
  <2>1. DOMAIN b.passages \ kept = (DOMAIN b.passages \ left) \cup {last} /\ last \notin DOMAIN b.passages \ left
    BY <1>1, <1>2
  <2>2. Cardinality(DOMAIN b.passages \ kept) = Cardinality(DOMAIN b.passages \ left) + 1
    <3>1. PICK gone : gone = DOMAIN b.passages \ left
      OBVIOUS
    <3>2. IsFiniteSet(gone) /\ last \notin gone
      BY <2>1, <3>1, PartsOfWholes
    <3>3. Cardinality(gone \cup {last}) = Cardinality(gone) + 1
      BY <3>2, FS_AddElement
    <3> QED
      BY <2>1, <3>1, <3>3
  <2> QED
    BY <1>7, <2>2 DEF CutFrom
<1>14. /\ u.groups \in Int /\ u.dropped.groups \in Nat /\ u.groups + u.dropped.groups = b.groups
       /\ ~(u.dropped.groups > 0)
  BY <1>2, <1>6, <1>7 DEF CutFrom
<1> HIDE DEF kept, conflicts
<1>15. CutFrom(b, u)
  BY <1>6, <1>7, <1>8, <1>9, <1>10, <1>11, <1>12, <1>13, <1>14 DEF CutFrom
<1> QED
  BY <1>5, <1>15

LEMMA DropInventoryCuts ==
    ASSUME NEW b, Whole(b), NEW t, CutFrom(b, t), DOMAIN t.passages = {}
    PROVE  CutFrom(b, Server!DropInventoryItem(t))
<1>1. PICK u : u = Server!DropInventoryItem(t)
  OBVIOUS
<1>2. /\ DOMAIN t = BundleFields /\ DOMAIN t.dropped = {"passages", "groups"}
      /\ t.groups \in Int /\ t.dropped.groups \in Nat /\ t.groups + t.dropped.groups = b.groups
  BY DEF CutFrom
<1>3. /\ DOMAIN u = BundleFields /\ u.passages = t.passages /\ u.trace = t.trace
      /\ u.conflicts = t.conflicts /\ u.gaps = t.gaps /\ u.evidence = t.evidence
      /\ u.groups = t.groups - 1 /\ DOMAIN u.dropped = {"passages", "groups"}
      /\ u.dropped.passages = t.dropped.passages /\ u.dropped.groups = t.dropped.groups + 1
  BY <1>1, <1>2 DEF Server!DropInventoryItem, BundleFields
<1>4. u.groups \in Int /\ u.dropped.groups \in Nat /\ u.groups + u.dropped.groups = b.groups
  BY <1>2, <1>3
<1>5. /\ u.dropped.passages \in Nat /\ u.dropped.passages = Cardinality(DOMAIN b.passages \ DOMAIN u.passages)
      /\ u.dropped.groups > 0 => DOMAIN u.passages = {}
  BY <1>3 DEF CutFrom
<1>6. CutFrom(b, u)
  BY <1>3, <1>4, <1>5 DEF CutFrom
<1> QED
  BY <1>1, <1>6

LEMMA ReducedCuts ==
    ASSUME NEW b, Whole(b), NEW t, CutFrom(b, t)
    PROVE  CutFrom(b, Server!Reduced(t))
  BY DropPassageCuts, DropInventoryCuts DEF Server!Reduced

(* A nonempty set of naturals has a least element, for the numbers of
   reductions. *)
LEMMA FewestExists ==
    ASSUME NEW S \in SUBSET Nat, S # {}
    PROVE  Server!Min(S) \in S /\ \A y \in S : Server!Min(S) <= y
<1>1. PICK m \in S : \A k \in S : ~(<<k, m>> \in OpToRel(<, Nat))
  BY NatLessThanWellFounded, WFMin
<1>2. ASSUME NEW y \in S PROVE m <= y
  <2>1. y \in Nat /\ m \in Nat /\ ~(y < m)
    BY <1>1 DEF OpToRel
  <2> QED
    BY <2>1
<1> QED
  BY <1>2 DEF Server!Min

(* What a function on 0 .. n that starts with b and reduces at each step is. *)
Reduces(f, b, n) ==
    /\ DOMAIN f = 0 .. n
    /\ f = [k \in 0 .. n |-> IF k = 0 THEN b ELSE Server!Reduced(f[k - 1])]

LEMMA ReductionsExist ==
    ASSUME NEW b, NEW n \in Nat
    PROVE  \E f : Reduces(f, b, n)
<1> DEFINE bad == {k \in Nat : ~ \E f : Reduces(f, b, k)}
<1> SUFFICES ASSUME bad # {} PROVE FALSE
  OBVIOUS
<1>1. PICK m \in bad : \A k \in bad : m <= k
  BY FewestExists
<1>2. m # 0
  <2>1. PICK f : f = [k \in 0 .. 0 |-> b]
    OBVIOUS
  <2>2. Reduces(f, b, 0)
    BY <2>1 DEF Reduces
  <2> QED
    BY <2>2
<1>3. m - 1 \in Nat /\ m - 1 \notin bad /\ m \in Nat
  BY <1>1, <1>2
<1>4. PICK f : Reduces(f, b, m - 1)
  BY <1>3
<1>5. PICK g : g = [k \in 0 .. m |-> IF k = m THEN Server!Reduced(f[m - 1]) ELSE f[k]]
  OBVIOUS
<1>6. \A k \in 0 .. m : g[k] = IF k = 0 THEN b ELSE Server!Reduced(g[k - 1])
  <2> SUFFICES ASSUME NEW k \in 0 .. m PROVE g[k] = IF k = 0 THEN b ELSE Server!Reduced(g[k - 1])
    OBVIOUS
  <2>1. CASE k = m
    BY <1>3, <1>5, <1>2, <2>1
  <2>2. CASE k # m
    <3>1. k \in 0 .. m - 1 /\ (k # 0 => k - 1 \in 0 .. m - 1 /\ k - 1 \in 0 .. m /\ k - 1 # m)
      BY <1>3, <2>2
    <3>2. g[k] = f[k] /\ (k # 0 => g[k - 1] = f[k - 1])
      BY <1>5, <2>2, <3>1
    <3>3. f[k] = IF k = 0 THEN b ELSE Server!Reduced(f[k - 1])
      BY <1>4, <3>1 DEF Reduces
    <3> QED
      BY <3>1, <3>2, <3>3
  <2> QED
    BY <2>1, <2>2
<1>7. Reduces(g, b, m)
  BY <1>5, <1>6 DEF Reduces
<1> QED
  BY <1>7

LEMMA ReductionsAreCounted ==
    ASSUME NEW b, Whole(b)
    PROVE  Server!Reductions(b) \in Nat
<1>1. Cardinality(DOMAIN b.passages) \in Nat /\ b.groups \in Nat
  BY PartsOfWholes DEF Whole
<1> QED
  BY <1>1, SameCardinality DEF Server!Reductions

LEMMA AfterReductionsReduces ==
    ASSUME NEW b, Whole(b)
    PROVE  Reduces(Server!AfterReductions(b), b, Server!Reductions(b))
<1>1. PICK n \in Nat : n = Server!Reductions(b)
  BY ReductionsAreCounted
<1>2. PICK f : Reduces(f, b, n)
  BY ReductionsExist
<1>3. Server!AfterReductions(b) =
        CHOOSE g : g = [k \in 0 .. n |-> IF k = 0 THEN b ELSE Server!Reduced(g[k - 1])]
  BY <1>1 DEF Server!AfterReductions
<1>4. f = [k \in 0 .. n |-> IF k = 0 THEN b ELSE Server!Reduced(f[k - 1])]
  BY <1>2 DEF Reduces
<1>5. PICK a : a = Server!AfterReductions(b)
  OBVIOUS
<1>6. a = [k \in 0 .. n |-> IF k = 0 THEN b ELSE Server!Reduced(a[k - 1])]
  BY <1>3, <1>4, <1>5
<1>7. Reduces(a, b, n)
  BY <1>6 DEF Reduces
<1> QED
  BY <1>1, <1>5, <1>7

(* However often it was reduced, a bundle is a cut of the whole. *)
LEMMA AfterReductionsCuts ==
    ASSUME NEW b, Whole(b), NEW k \in 0 .. Server!Reductions(b)
    PROVE  CutFrom(b, Server!AfterReductions(b)[k])
<1>1. PICK n \in Nat : n = Server!Reductions(b)
  BY ReductionsAreCounted
<1>2. PICK a : a = Server!AfterReductions(b)
  OBVIOUS
<1>3. \A i \in 0 .. n : a[i] = IF i = 0 THEN b ELSE Server!Reduced(a[i - 1])
  <2>1. a = [i \in 0 .. n |-> IF i = 0 THEN b ELSE Server!Reduced(a[i - 1])]
    BY <1>1, <1>2, AfterReductionsReduces DEF Reduces
  <2> QED
    BY <2>1
<1> DEFINE bad == {i \in 0 .. n : ~CutFrom(b, a[i])}
<1>4. ASSUME bad # {} PROVE FALSE
  <2>1. PICK m \in bad : \A i \in bad : m <= i
    <3>1. bad \in SUBSET Nat
      OBVIOUS
    <3> HIDE DEF bad
    <3> QED
      BY <1>4, <3>1, FewestExists
  <2>2. m \in 0 .. n /\ ~CutFrom(b, a[m])
    BY <2>1
  <2>3. m # 0
    BY <1>3, <2>2, WholesAreUncut
  <2>4. m - 1 \in 0 .. n /\ m - 1 \notin bad
    BY <2>1, <2>2, <2>3
  <2>5. CutFrom(b, a[m - 1]) /\ a[m] = Server!Reduced(a[m - 1])
    BY <1>3, <2>2, <2>3, <2>4
  <2> QED
    BY <2>2, <2>5, ReducedCuts
<1> QED
  BY <1>1, <1>2, <1>4

(* What is delivered is honest for every bundle whose parts are numbered. *)
LEMMA CutsAreHonest ==
    ASSUME NEW b, Whole(b), NEW limit
    PROVE  Server!TruncationIsHonest(b, limit)
<1> DEFINE fitting == {k \in 0 .. Server!Reductions(b) :
                         Server!SizeOf(Server!AfterReductions(b)[k]) <= limit}
<1> SUFFICES ASSUME NEW t \in Server!TruncateSearchBundle(b, limit)
             PROVE  LET left == DOMAIN t.passages
                        named == (UNION t.conflicts) \cup t.trace \cup (Server!Range(t.gaps) \ {0})
                    IN  /\ Server!SizeOf(t) <= limit
                        /\ left \subseteq DOMAIN b.passages
                        /\ \A n \in left, m \in DOMAIN b.passages : m < n => m \in left
                        /\ named \subseteq left
                        /\ \A x \in t.conflicts : \E y \in b.conflicts : x = y \cap left
                        /\ \A x \in b.conflicts : Server!Cardinality(x \cap left) > 1 => x \cap left \in t.conflicts
                        /\ t.evidence = Server!SumFunction(Server!Restrict(b.passages, left))
                        /\ t.dropped.passages = Server!Cardinality(DOMAIN b.passages \ left)
                        /\ t.groups + t.dropped.groups = b.groups
                        /\ t.dropped.groups > 0 => left = {}
                        /\ \A g \in DOMAIN b.gaps :
                             b.gaps[g] \in left \cup {0} => g \in DOMAIN t.gaps /\ t.gaps[g] = b.gaps[g]
                        /\ Server!SizeOf(b) <= limit => t = b
  BY DEF Server!TruncationIsHonest
<1>1. /\ fitting # {} /\ t = Server!AfterReductions(b)[Server!Min(fitting)]
  BY DEF Server!TruncateSearchBundle
<1>2. /\ Server!Min(fitting) \in fitting /\ \A k \in fitting : Server!Min(fitting) <= k
      /\ fitting \subseteq Nat
  <2>1. fitting \subseteq Nat
    OBVIOUS
  <2> QED
    BY <1>1, <2>1, FewestExists
<1>3. CutFrom(b, t) /\ Server!SizeOf(t) <= limit
  BY <1>1, <1>2, AfterReductionsCuts
<1>4. Server!SizeOf(b) <= limit => t = b
  <2> SUFFICES ASSUME Server!SizeOf(b) <= limit PROVE t = b
    OBVIOUS
  <2>1. PICK n \in Nat : n = Server!Reductions(b)
    BY ReductionsAreCounted
  <2>2. Server!AfterReductions(b)[0] = b
    <3>1. PICK a : a = Server!AfterReductions(b)
      OBVIOUS
    <3>2. a = [i \in 0 .. n |-> IF i = 0 THEN b ELSE Server!Reduced(a[i - 1])]
      BY <2>1, <3>1, AfterReductionsReduces DEF Reduces
    <3> QED
      BY <3>1, <3>2
  <2>3. 0 \in fitting
    BY <2>1, <2>2
  <2>4. Server!Min(fitting) = 0
    BY <1>2, <2>3
  <2> QED
    BY <1>1, <2>2, <2>4
<1>5. PICK left : left = DOMAIN t.passages
  OBVIOUS
<1>6. t.evidence = Server!SumFunction(Server!Restrict(b.passages, left))
  BY <1>3, <1>5 DEF CutFrom, Server!Restrict
<1>7. (UNION t.conflicts) \cup t.trace \cup (Server!Range(t.gaps) \ {0}) \subseteq left
  <2>1. /\ t.trace = left /\ \A x \in t.conflicts : x \subseteq left
        /\ \A g \in DOMAIN t.gaps : t.gaps[g] \in {0} \cup left
    BY <1>3, <1>5 DEF CutFrom
  <2> QED
    BY <2>1 DEF Server!Range
<1>8. /\ left \subseteq DOMAIN b.passages
      /\ \A n \in left, m \in DOMAIN b.passages : m < n => m \in left
      /\ \A x \in t.conflicts : \E y \in b.conflicts : x = y \cap left
      /\ \A x \in b.conflicts : Server!Cardinality(x \cap left) > 1 => x \cap left \in t.conflicts
      /\ t.dropped.passages = Server!Cardinality(DOMAIN b.passages \ left)
      /\ t.groups + t.dropped.groups = b.groups
      /\ t.dropped.groups > 0 => left = {}
      /\ \A g \in DOMAIN b.gaps :
           b.gaps[g] \in left \cup {0} => g \in DOMAIN t.gaps /\ t.gaps[g] = b.gaps[g]
  BY <1>3, <1>5, SameCardinality DEF CutFrom
<1> HIDE DEF fitting
<1> QED
  BY <1>3, <1>4, <1>5, <1>6, <1>7, <1>8

LEMMA BundlesAreWhole ==
    ASSUME input \in InputsOf("truncation")
    PROVE  Whole(Server!Bundle(input.passages, input.conflicts, input.gaps, input.groups))
<1>1. PICK i \in InputsOf("truncation") : i = input
  OBVIOUS
<1>2. /\ i.passages \in Seq(Nat) /\ i.groups \in Nat
      /\ \A x \in i.conflicts : x \subseteq DOMAIN i.passages
      /\ \A g \in DOMAIN i.gaps : i.gaps[g] \in {0} \cup DOMAIN i.passages
  BY BundlesAreNumbered DEF Range
<1>3. PICK b : b = Server!Bundle(i.passages, i.conflicts, i.gaps, i.groups)
  OBVIOUS
<1>4. /\ DOMAIN b = BundleFields /\ b.passages = i.passages /\ b.groups = i.groups
      /\ b.trace = DOMAIN i.passages /\ b.evidence = Server!SumFunction(i.passages)
      /\ b.conflicts = i.conflicts /\ b.gaps = i.gaps /\ b.dropped = [passages |-> 0, groups |-> 0]
  BY <1>3 DEF Server!Bundle, BundleFields
<1>5. Whole(b)
  BY <1>2, <1>4 DEF Whole
<1> QED
  BY <1>1, <1>3, <1>5

(* A response that is cut to fit keeps the best-ranked passages, tells what it
   lost, names nothing that is gone and drops nothing that would have fitted
   (knowledge/output/policy.rs, mcp/server/response.rs). *)
THEOREM TruncationIsHonestHolds == ServerSpec => []TruncationIsHonest
<1> DEFINE I == part = "truncation" => input \in InputsOf("truncation")
<1>1. ServerInit => I
  BY DEF ServerInit, StartAs
<1>2. I /\ [ServerNext]_serverVars => I'
  <2>1. ASSUME I, ServerNext PROVE I'
    BY <2>1, StepsOfParts
  <2>2. ASSUME I, UNCHANGED serverVars PROVE I'
    BY <2>2 DEF serverVars, partVars
  <2> QED
    BY <2>1, <2>2
<1>3. I => TruncationIsHonest
  BY BundlesAreWhole, CutsAreHonest DEF TruncationIsHonest
<1> QED
  BY <1>1, <1>2, <1>3, PTL DEF ServerSpec, serverVars

=============================================================================
