----------------------------- MODULE Retrieval -----------------------------
(***************************************************************************)
(* The search derivatives of a chunk set in the kernel (maestro-kernel,    *)
(* retrieval/), how a publication records and verifies them                *)
(* (maestro-knowledge, index/search_inputs.rs, index/batches.rs), and the  *)
(* identifier route that reads them (search/routes/identifier.rs).         *)
(*                                                                         *)
(* The derivatives belong to the chunk set and the marker that tells them  *)
(* ready to one generation: builders of this build and rows an earlier     *)
(* build left share them.  An identifier is a value, a chunk a number, as  *)
(* chunks are read in the order of their ids.                              *)
(***************************************************************************)
EXTENDS Integers, Sequences, FiniteSets, FiniteSetsExt, SequencesExt, Functions

CONSTANTS
    LastChunk,   \* the chunks are 1 .. LastChunk
    Extract,     \* chunk -> the identifiers this build extracts from its text
    Leftovers,   \* what earlier builds may have recorded: chunk -> [input, identifiers]
    OwnerOf,     \* chunk -> the revision it is cut from
    Documents,   \* revision -> [document, set, granted, eligible]
    MemberLists, \* what the manifest may say: revision -> representative
    Builders,    \* processes that build the generation
    Batch,       \* chunks written at once (64 in the code)
    Page,        \* points of one page of the payload scroll
    HitLimit,    \* the limit of the route
    MaxGroups,   \* groups an inventory may hold (1000 in the code)
    Asks         \* the identifiers a query may hold: sequences

VARIABLES
    rows,        \* chunk -> [input: recorded, identifiers]
    memberRows,  \* what is recorded of the members: revision -> representative
    listed,      \* what the manifest of the set says
    marker,      \* generation -> no marker, or its profile and readiness
    gens,        \* generation -> its state
    payloads,    \* chunks with a point in the collection of the new generation
    builder,     \* builder -> [step, at]
    route,       \* one identifier search
    inventory    \* one inventory read

retrievalVars == <<rows, memberRows, listed, marker, gens, payloads, builder, route, inventory>>
writes == <<rows, memberRows, listed, marker, gens, payloads, builder>>

ChunkIds == 1 .. LastChunk
Owners == {OwnerOf[c] : c \in ChunkIds}
Nothing == {}
Sole(option) == CHOOSE x \in option : TRUE

(* The generation an earlier build published, and the one being built. *)
Generations == {"old", "new"}
Profile == 2
Marker(profile, ready) == {[profile |-> profile, ready |-> ready]}

RetrievalInit ==
    /\ rows \in Leftovers /\ listed \in MemberLists
    /\ memberRows \in {<< >>, listed}
    /\ marker = [g \in Generations |-> IF g = "old" THEN Marker(1, TRUE) ELSE Nothing]
    /\ gens = [g \in Generations |-> IF g = "old" THEN "published" ELSE "building"]
    /\ payloads = {} /\ builder = [b \in Builders |-> [step |-> "begin", at |-> 0]]
    /\ route = [step |-> "idle"] /\ inventory = [step |-> "idle"]

-----------------------------------------------------------------------------
(* Writes. *)

(* Mutant: an input that is recorded already keeps the identifiers it has. *)
MutIdentifiers(old, c) ==
    IF old.input THEN {old.identifiers}
    ELSE IF old.identifiers \in {{}, Extract[c]} THEN {Extract[c]} ELSE Nothing

(* record_identifiers: the identifiers of an input, if they may be recorded:
   rows without any are filled, and rows with others are a conflict. *)
Identifiers(old, c) ==
    IF old.identifiers \in {{}, Extract[c]} THEN {Extract[c]} ELSE Nothing

(* record_inputs: one transaction for the whole batch. *)
Conflicts(batch) == \E c \in batch : Identifiers(rows[c], c) = Nothing
Recorded(batch) ==
    [c \in ChunkIds |-> IF c \in batch THEN [input |-> TRUE, identifiers |-> Sole(Identifiers(rows[c], c))]
                        ELSE rows[c]]

(* validate_members: one revision for each document, representatives that
   represent themselves and own chunks, and every owner among them. *)
ValidMembers(m) ==
    /\ \A r, s \in DOMAIN m : Documents[r].document = Documents[s].document => r = s
    /\ \A r \in DOMAIN m : m[r] \in DOMAIN m /\ m[m[r]] = m[r] /\ m[r] \in Owners
    /\ \A o \in Owners : o \in DOMAIN m /\ m[o] = o

(* record_members: once, or the same again. *)
MembersTaken == ValidMembers(listed) /\ memberRows \in {<< >>, listed}

Moves(b, step, at) == builder' = [builder EXCEPT ![b] = [step |-> step, at |-> at]]

(* begin_search, for a Building generation only *)
Begin(b) ==
    /\ builder[b].step = "begin"
    /\ IF gens["new"] # "building" \/ marker["new"] \notin {Nothing, Marker(Profile, FALSE), Marker(Profile, TRUE)}
       THEN Moves(b, "failed", 0) /\ UNCHANGED marker
       ELSE /\ Moves(b, "members", 0)
            /\ marker' = IF marker["new"] = Nothing THEN [marker EXCEPT !["new"] = Marker(Profile, FALSE)]
                         ELSE marker
    /\ UNCHANGED <<rows, memberRows, listed, gens, payloads, route, inventory>>

RecordMembers(b) ==
    /\ builder[b].step = "members"
    /\ IF MembersTaken THEN memberRows' = listed /\ Moves(b, "write", 0)
       ELSE Moves(b, "failed", 0) /\ UNCHANGED memberRows
    /\ UNCHANGED <<rows, listed, marker, gens, payloads, route, inventory>>

NextBatch(at) == (at + 1) .. Min({at + Batch, LastChunk})

(* index: the inputs of a batch, *)
RecordBatch(b) ==
    LET batch == NextBatch(builder[b].at) IN
    /\ builder[b].step = "write"
    /\ IF batch = {} THEN Moves(b, "verify_members", 0) /\ UNCHANGED rows
       ELSE IF Conflicts(batch) THEN Moves(b, "failed", 0) /\ UNCHANGED rows
       ELSE rows' = Recorded(batch) /\ Moves(b, "upsert", builder[b].at)
    /\ UNCHANGED <<memberRows, listed, marker, gens, payloads, route, inventory>>

(* then its points. *)
Upsert(b) ==
    LET batch == NextBatch(builder[b].at) IN
    /\ builder[b].step = "upsert"
    /\ payloads' = payloads \cup batch
    /\ Moves(b, "write", Max(batch))
    /\ UNCHANGED <<rows, memberRows, listed, marker, gens, route, inventory>>

(* The publication resumes from what another builder told of its progress. *)
ResumeAfter(b) ==
    /\ builder[b].step = "write" /\ builder[b].at = 0
    /\ \E at \in {builder[o].at : o \in Builders \ {b}} :
         at > 0 /\ 1 .. at \subseteq payloads /\ Moves(b, "write", at)
    /\ UNCHANGED <<rows, memberRows, listed, marker, gens, payloads, route, inventory>>

(* verify_search: the members again, *)
VerifyMembers(b) ==
    /\ builder[b].step = "verify_members"
    /\ IF MembersTaken THEN memberRows' = listed /\ Moves(b, "verify", 0) /\ UNCHANGED gens
       ELSE /\ Moves(b, "failed", 0) /\ UNCHANGED memberRows
            /\ gens' = [gens EXCEPT !["new"] = IF @ = "building" THEN "failed" ELSE @]
    /\ UNCHANGED <<rows, listed, marker, payloads, route, inventory>>

(* and every batch, with the payload of its points; *)
VerifyBatch(b) ==
    LET batch == NextBatch(builder[b].at)
        fails == Conflicts(batch) \/ ~ batch \subseteq payloads
    IN
    /\ builder[b].step = "verify" /\ batch # {}
    /\ IF fails THEN Moves(b, "failed", 0) /\ gens' = [gens EXCEPT !["new"] = IF @ = "building" THEN "failed" ELSE @]
       ELSE Moves(b, "verify", Max(batch)) /\ UNCHANGED gens
    /\ rows' = IF Conflicts(batch) THEN rows ELSE Recorded(batch)
    /\ UNCHANGED <<memberRows, listed, marker, payloads, route, inventory>>

(* complete_search, while the generation is Building. *)
Complete(b) ==
    /\ builder[b].step = "verify" /\ builder[b].at = LastChunk
    /\ IF gens["new"] # "building" THEN Moves(b, "failed", 0) /\ UNCHANGED marker
       ELSE marker' = [marker EXCEPT !["new"] = Marker(Profile, TRUE)] /\ Moves(b, "done", 0)
    /\ UNCHANGED <<rows, memberRows, listed, gens, payloads, route, inventory>>

(* The builder's process dies, and is started again. *)
Restart(b) ==
    /\ builder[b].step \in {"upsert", "verify"}
    /\ Moves(b, "begin", 0)
    /\ UNCHANGED <<rows, memberRows, listed, marker, gens, payloads, route, inventory>>

(* Module Publication: a ready generation is published and the old one retired. *)
PublishNew ==
    /\ gens["new"] = "building" /\ marker["new"] = Marker(Profile, TRUE)
    /\ gens' = [old |-> "retired", new |-> "published"]
    /\ UNCHANGED <<rows, memberRows, listed, marker, payloads, builder, route, inventory>>

-----------------------------------------------------------------------------
(* Reads. *)

Ready(g) == marker[g] = Marker(Profile, TRUE)
Granted(c) == Documents[OwnerOf[c]].granted
EligibleChunk(c) == Documents[OwnerOf[c]].eligible

Matching(id) == {c \in ChunkIds : id \in rows[c].identifiers}

(* too_common_identifiers counts before any filter. *)
TooCommon(ids) == {id \in ids : Cardinality(Matching(id)) > HitLimit}

(* The chunks of a set in the order of their ids. *)
InOrder(chunks) ==
    [i \in 1 .. Cardinality(chunks) |->
        CHOOSE c \in chunks : Cardinality({d \in chunks : d < c}) = i - 1]

FirstOf(list, n) == SubSeq(list, 1, Min({Len(list), n}))

ScopedRows(id) == FirstOf(InOrder({c \in Matching(id) : Granted(c) /\ EligibleChunk(c)}), HitLimit)

(* One row of an identifier: the greatest chunk gives way when there are too
   many, and no later row can be taken once the limit is reached below it. *)
TakeRow(state, c) ==
    LET more == state.hits \cup {c}
        kept == IF Cardinality(more) > HitLimit THEN more \ {Max(more)} ELSE more
    IN  IF state.ended THEN state
        ELSE [hits |-> kept, ended |-> Cardinality(kept) = HitLimit /\ c >= Max(kept)]

WithRows(hits, list) ==
    LET state[n \in 0 .. Len(list)] ==
            IF n = 0 THEN [hits |-> hits, ended |-> FALSE] ELSE TakeRow(state[n - 1], list[n])
    IN  state[Len(list)].hits

(* indexed_hits: the scoped, eligible chunks of each identifier that is not
   too common, merged in the order of their ids and cut at the limit as they
   come. *)
IndexedHits(ids, common) ==
    LET hits[n \in 0 .. Len(ids)] ==
            IF n = 0 THEN {}
            ELSE IF ids[n] \in common THEN hits[n - 1] ELSE WithRows(hits[n - 1], ScopedRows(ids[n]))
    IN  hits[Len(ids)]

Hit(hits) == [ok |-> TRUE, hits |-> hits, common |-> {}]
Miss(why) == [ok |-> FALSE, why |-> why]

(* search_identifiers_as: what is refused before either leg. *)
StartRoute(g, ids, mode) ==
    /\ route.step = "idle" /\ gens[g] \in {"published", "retired"}
    /\ route' = IF ~ Ready(g) THEN [step |-> "done", gen |-> g, status |-> "unavailable", hits |-> << >>, ids |-> ids]
                ELSE [step |-> "legs", gen |-> g, ids |-> ids, mode |-> mode, after |-> 0, found |-> << >>,
                      payload |-> Nothing, kernel |-> Nothing]
    /\ UNCHANGED <<writes, inventory>>

(* identifier_hits, in one transaction; it may run out of time. *)
KernelLeg(answers) ==
    LET common == TooCommon(Range(route.ids)) IN
    /\ route.step = "legs" /\ route.kernel = Nothing
    /\ route' = [route EXCEPT !.kernel =
         {IF answers THEN [ok |-> TRUE, hits |-> InOrder(IndexedHits(route.ids, common)), common |-> common]
          ELSE Miss("deadline")}]
    /\ UNCHANGED <<writes, inventory>>

(* What the payload leg asks for: guarded, the kernel leg goes first and takes
   out what is too common. *)
PayloadIds ==
    IF route.mode = "guarded" /\ Sole(route.kernel).ok
    THEN Range(route.ids) \ Sole(route.kernel).common ELSE Range(route.ids)

PayloadMatches == {c \in payloads : Granted(c) /\ Extract[c] \cap PayloadIds # {}}

(* payload_leg: a page after the cursor, until the last page or twice the
   limit. *)
PayloadPage(answers) ==
    LET rest == InOrder({c \in PayloadMatches : c > route.after})
        page == FirstOf(rest, Page)
        found == route.found \o page
        ended == Len(found) >= 2 * HitLimit \/ Len(rest) <= Page
    IN
    /\ route.step = "legs" /\ route.payload = Nothing
    /\ route.mode = "guarded" => route.kernel # Nothing
    /\ route' = IF ~ answers THEN [route EXCEPT !.payload = {Miss("deadline")}]
                ELSE IF ended THEN [route EXCEPT !.payload = {Hit(FirstOf(FirstOf(found, 2 * HitLimit), HitLimit))}]
                ELSE [route EXCEPT !.after = Last(page), !.found = found]
    /\ UNCHANGED <<writes, inventory>>

(* extend_unique: payload first, up to the limit *)
Extended(hits, more) ==
    LET list[n \in 0 .. Len(more)] ==
            IF n = 0 THEN hits
            ELSE IF Len(list[n - 1]) >= HitLimit \/ more[n] \in Range(list[n - 1]) THEN list[n - 1]
            ELSE Append(list[n - 1], more[n])
    IN  list[Len(more)]

(* merged *)
Merged ==
    LET p == Sole(route.payload)
        k == Sole(route.kernel)
        hits == Extended(IF p.ok THEN Extended(<< >>, p.hits) ELSE << >>, IF k.ok THEN k.hits ELSE << >>)
        common == k.ok /\ IF route.mode = "guarded" THEN k.common = Range(route.ids) ELSE k.common # {}
    IN  [step |-> "done", gen |-> route.gen, ids |-> route.ids, hits |-> hits,
         status |-> IF p.ok /\ k.ok /\ ~ common THEN "ok" ELSE "unavailable",
         dropped |-> IF k.ok /\ route.mode = "guarded" THEN k.common ELSE {}]

EndRoute ==
    /\ route.step = "legs" /\ route.payload # Nothing /\ route.kernel # Nothing
    /\ route' = Merged
    /\ UNCHANGED <<writes, inventory>>

(* inventory: the members by the set their metadata names, each document once,
   in one transaction. *)
Selected(set) ==
    {r \in DOMAIN memberRows :
        /\ Documents[r].granted /\ Documents[r].eligible
        /\ set # Nothing => Documents[r].set = set}

(* total_documents, groups, and supports: the first chunk of each *)
Total(selected) == Cardinality(selected)
Counts(selected) ==
    [v \in {Documents[r].set : r \in selected} |-> Cardinality({r \in selected : Documents[r].set = v})]
Supports(selected) == {Min({c \in ChunkIds : OwnerOf[c] = r}) : r \in selected \cap Owners}

Inventory(g, set) ==
    LET selected == Selected(set) IN
    /\ inventory.step = "idle" /\ gens[g] \in {"published", "retired"}
    /\ inventory' = IF ~ Ready(g) THEN [step |-> "missing"]
                    ELSE IF Cardinality(DOMAIN Counts(selected)) > MaxGroups THEN [step |-> "too_large"]
                    ELSE [step |-> "told", set |-> set, total |-> Total(selected),
                          counts |-> Counts(selected), supports |-> Supports(selected)]
    /\ UNCHANGED <<writes, route>>

RetrievalNext ==
    \/ \E b \in Builders :
         \/ Begin(b) \/ RecordMembers(b) \/ RecordBatch(b) \/ Upsert(b) \/ ResumeAfter(b)
         \/ VerifyMembers(b) \/ VerifyBatch(b) \/ Complete(b) \/ Restart(b)
    \/ PublishNew
    \/ \E g \in Generations :
         \/ \E ids \in Asks, mode \in {"on", "guarded"} : StartRoute(g, ids, mode)
         \/ \E set \in {Nothing} \cup {Documents[r].set : r \in DOMAIN Documents} : Inventory(g, set)
    \/ (\E answers \in BOOLEAN : KernelLeg(answers) \/ PayloadPage(answers)) \/ EndRoute

-----------------------------------------------------------------------------
(* PROPERTIES *)

(* What this build extracts one of the identifiers from. *)
Wanted(ids) == {c \in ChunkIds : Granted(c) /\ Extract[c] \cap ids # {}}

(* Whatever an earlier build left in the rows of the set, whoever filled them
   and whichever leg answered first: the kernel leg skips the identifiers that
   really are too common and of the others tells the first granted, eligible
   chunks that this build extracts one from, up to the limit; and a route that
   reports ok tells no other chunk, and all of these unless it is full. *)
RouteIsExact ==
    /\ route.step = "legs" /\ route.kernel # Nothing /\ Sole(route.kernel).ok =>
         LET common == {id \in Range(route.ids) : Cardinality({c \in ChunkIds : id \in Extract[c]}) > HitLimit}
             wanted == {c \in Wanted(Range(route.ids) \ common) : EligibleChunk(c)}
         IN  /\ Sole(route.kernel).common = common
             /\ Range(Sole(route.kernel).hits) =
                  {c \in wanted : Cardinality({d \in wanted : d < c}) < HitLimit}
    /\ route.step = "done" /\ route.status = "ok" =>
         LET kept == Range(route.ids) \ route.dropped IN
         /\ Range(route.hits) \subseteq Wanted(kept)
         /\ Len(route.hits) < HitLimit => {c \in Wanted(kept) : EligibleChunk(c)} \subseteq Range(route.hits)

=============================================================================
