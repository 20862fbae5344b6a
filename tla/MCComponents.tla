---------------------------- MODULE MCComponents ----------------------------
(***************************************************************************)
(* The parts that do not share state with each other, side by side: a      *)
(* behaviour is one of a single part of a single group.  The parameters of *)
(* every part are constants of its group; here are their small bounds, and *)
(* the inputs of the algorithms.                                           *)
(***************************************************************************)
EXTENDS ServerParts, KernelParts, SearchParts

Init ==
    \/ ServerInit /\ KernelPartsIdle /\ SearchPartsIdle
    \/ KernelInit /\ ServerPartsIdle /\ SearchPartsIdle
    \/ SearchInit /\ ServerPartsIdle /\ KernelPartsIdle

ServerAlone == UNCHANGED <<kernelPartsVars, searchPartsVars>>
KernelAlone == UNCHANGED <<serverPartsVars, searchPartsVars>>
SearchAlone == UNCHANGED <<serverPartsVars, kernelPartsVars>>

(* A step of one group beside the idle others, part by part. *)
Next ==
    \/ StdioStep /\ ServerAlone
    \/ McpStep /\ ServerAlone
    \/ GatewayStep /\ ServerAlone
    \/ SettingsStep /\ ServerAlone
    \/ EditCards /\ ServerAlone
    \/ RegistryStep /\ KernelAlone
    \/ OpeningStep /\ KernelAlone
    \/ BackupStep /\ KernelAlone
    \/ RetrievalStep /\ KernelAlone
    \/ EvidenceStep /\ SearchAlone
    \/ SourcesStep /\ SearchAlone
    \/ RepStep /\ SearchAlone
    \/ AnsweringStep /\ SearchAlone
    \/ LadderStep /\ SearchAlone
    \/ ChunkJoin /\ SearchAlone
    \/ ChunkBreakIdea /\ SearchAlone
    \/ ChunkStart /\ SearchAlone
    \/ ChunkRefineAtom /\ SearchAlone
    \/ ChunkSplitAtom /\ SearchAlone
    \/ ChunkFinishDrafts /\ SearchAlone
    \/ ChunkReplay /\ SearchAlone
    \/ EditGraphs /\ SearchAlone

-----------------------------------------------------------------------------
(* Around the kernel: the MCP server, the gateway and its cards, the model
   registry, the settings, the opening of the database, and backups. *)


-----------------------------------------------------------------------------
(* Stdio: every text of five bytes with both line endings and of seven with
   newlines alone, over a limit of two. *)
MCLineInputs == (UNION {[1 .. n -> {"x", "n", "r"}] : n \in 0 .. 5})
               \cup (UNION {[1 .. n -> {"x", "n"}] : n \in 6 .. 7})

(* Mcp: a call of any other tool beside an ask, with one worker; the
   collection they name is granted, or not, or taken back and given again,
   while the chunk asked for may be in the other too. *)
McpCall(tool, collection, generation) ==
    [tool |-> tool, collection |-> collection, generation |-> generation]
MCServerRequests ==
    [c1 |-> {McpCall("collections", None, None), McpCall("get", None, None),
             McpCall("get", {"a"}, {1}), McpCall("search", {"a"}, None),
             McpCall("unknown", None, None)},
     c2 |-> {McpCall("ask", {"a"}, None)}]
MCServerConfigs == {{"b"}, {"a", "b"}}
MCServerHolding == {<<"a", 1>>, <<"a", 2>>, <<"b", 1>>}

(* Responses: bundles of up to three passages, with the limits they are cut
   to. *)
TruncationInputs ==
    {b \in [passages : UNION {[1 .. n -> {1, 2}] : n \in 1 .. 3},
             conflicts : {x \in SUBSET {{1, 2}, {2, 3}, {1, 2, 3}} : Cardinality(x) <= 2},
             gaps : {<< >>, <<0>>, <<3>>, <<2, 0, 3>>},
             groups : 0 .. 2,
             limit : 0 .. 7] :
        (UNION b.conflicts) \cup ToSet(b.gaps) \subseteq {0} \cup DOMAIN b.passages}

(* Gateway: a card of each role, one of whose servers may change. *)
MCModelWork == [e |-> [role |-> "embedder", inputs |-> 2, build |-> "b1"],
                r |-> [role |-> "reranker", inputs |-> 0, build |-> "b1"],
                a |-> [role |-> "answerer", inputs |-> 1, build |-> "b2"]]

(* Registry: a reranker whose evidence is an artifact, and an embedder. *)
MCRegistryCards == [r1 |-> [role |-> "reranker", evidence |-> {"q"},
                          method |-> "native_runtime", valid |-> TRUE],
                  e1 |-> [role |-> "embedder", evidence |-> {},
                          method |-> "native_tokenizer", valid |-> TRUE]]

-----------------------------------------------------------------------------
(* Cards: a valid identity of each role, and what one edit makes of it. *)

CardOf(role) ==
    [role |-> role, entry |-> "m",
     weights |-> [model |-> "plain", url |-> "public", gguf |-> "w",
                  assets |-> {[name |-> "plain", digest |-> "d"]}],
     formats |-> [tokenizer |-> "w", derivation |-> "gguf_embedded", template |-> {},
                  document |-> IF role = "embedder" THEN "supported" ELSE "not_applicable",
                  query |-> IF role = "embedder" THEN "supported" ELSE "not_applicable",
                  embedding |-> IF role = "embedder" THEN "supported" ELSE "not_applicable"],
     invocation |-> [context |-> 4096, output |-> IF role = "answerer" THEN {900} ELSE None,
                     dimensions |-> IF role = "embedder" THEN {8} ELSE None,
                     sampling |-> IF role = "answerer" THEN "configured" ELSE "not_applicable",
                     reasoning |-> IF role = "answerer" THEN "supported" ELSE "not_applicable",
                     build |-> "plain", backend |-> "cuda", flags |-> << >>],
     resources |-> [offload |-> "automatic", devices |-> {}, batch |-> 8, microBatch |-> 4,
                    note |-> "plain"],
     provenance |-> [method |-> "native_runtime", tools |-> {"plain"}, artifacts |-> {}]]

Flag(kind, value) == [kind |-> kind, name |-> "plain", value |-> value]

MCEditCard(c) ==
    UNION {{[c EXCEPT !.role = x] : x \in {"embedder", "reranker", "answerer"}},
           {[c EXCEPT !.weights.model = x] : x \in {"blank", "path"}},
           {[c EXCEPT !.formats.derivation = "separate", !.formats.tokenizer = "t"]},
           {[c EXCEPT !.formats.embedding = x] : x \in {"supported", "not_applicable"}},
           {[c EXCEPT !.formats.document = x, !.formats.query = x] :
                x \in {"supported", "not_applicable"}},
           {[c EXCEPT !.invocation.dimensions = x] : x \in {None, {8}}},
           {[c EXCEPT !.invocation.output = x] : x \in {None, {1}, {900}, {4000}}},
           {[c EXCEPT !.invocation.sampling = x] : x \in {"configured", "not_applicable"}},
           {[c EXCEPT !.invocation.reasoning = x] :
                x \in {"supported", "unsupported", "not_applicable"}},
           {[c EXCEPT !.invocation.flags = x] :
                x \in {[f \in {"--ctx-size"} |-> Flag("number", 4096)],
                       [f \in {"--ctx-size"} |-> Flag("number", 1)]}},
           {[c EXCEPT !.resources.microBatch = 9]},
           {[c EXCEPT !.resources.offload = "explicit_devices", !.resources.devices = x] :
                x \in {{}, {"plain"}}}}

-----------------------------------------------------------------------------
(* Settings: two commands that change the depth and one that sets a pool
   out of range, beside a program that writes the file itself. *)
Integer(low, high, default) ==
    [kind |-> [type |-> "integer", min |-> low, max |-> high, off |-> FALSE, values |-> {}],
     class |-> "free", default |-> default]
Choice(values, default) ==
    [kind |-> [type |-> "choice", min |-> 0, max |-> 0, off |-> FALSE, values |-> values],
     class |-> "free", default |-> default]
MCSettingDescriptors ==
    LET keys == <<"models.compute", "search.intent.expansion", "search.rerank.depth",
                  "search.fusion_pool">>
        kinds == <<Choice({"gpu", "off"}, "gpu"), Choice({"off", "hyde"}, "hyde"),
                   Integer(1, 2, 1), Integer(1, 2, 2)>>
    IN  [k \in ToSet(keys) |-> kinds[CHOOSE i \in DOMAIN keys : keys[i] = k]]
MCSettingChanges == [a |-> [key |-> "search.rerank.depth", value |-> {2}],
          c |-> [key |-> "search.rerank.depth", value |-> None],
          d |-> [key |-> "search.fusion_pool", value |-> {3}]]

(* Opening: a program that lacks a migration beside one that has it, and
   configurations that grant, regrant, are no TOML, and are refused. *)
Workspace == <<"workspace", "default">>
Collection(name) == <<Workspace, <<"collection", name>>>>
MCOpeners == [old |-> {1, 3}, new |-> {1, 2, 3}]
MCOpenConfigs == <<[toml |-> TRUE, scopes |-> {Collection("a")}],
                    [toml |-> TRUE, scopes |-> {<<Workspace>>, Collection("a")}],
                    [toml |-> FALSE, scopes |-> {}],
                    [toml |-> TRUE, scopes |-> {<<<<"collection", "a">>>>}],
                    [toml |-> TRUE, scopes |-> {Collection("b")}]>>

-----------------------------------------------------------------------------
(* A search: evidence, its sources, the retrieval store, representations and
   unit graphs, ranking, the generated answer, and its evaluation. *)

-----------------------------------------------------------------------------
(* Evidence: two revisions whose tables disagree, agree, or are of versions
   that do not overlap, and candidates whose expansions overlap. *)

Section(path, text, extent, siblings) ==
    [path |-> path, text |-> text, extent |-> extent, siblings |-> siblings]

Units(cuts) == [i \in 1 .. Len(cuts) - 1 |-> <<cuts[i], cuts[i + 1]>>]

LongRevision(x, version) ==
    [document |-> "d1", near |-> {"g"}, version |-> version,
     sections |-> {Section("p0", "a", <<0, 7>>, Units(<<0, 1, 2, 3, 6, 7>>)),
                   Section("p1", "t", <<2, 7>>, Units(<<2, 3, 6, 7>>)),
                   Section("p2", "b", <<7, 9>>, Units(<<7, 8, 9>>))},
     preamble |-> Section("root", "", <<0, 0>>, << >>),
     content |-> Section("root", "", <<0, 9>>, Units(<<0, 1, 2, 3, 6, 7, 8, 9>>)),
     tables |-> {[span |-> <<3, 6>>, head |-> <<3, 4>>, rows |-> {<<4, 5>>, <<5, 6>>},
                  facts |-> {[key |-> "x", value |-> x], [key |-> "y", value |-> 1]}]}]

ShortRevision(x, version, text) ==
    [document |-> "d2", near |-> {"g"}, version |-> version,
     sections |-> {Section("p1", text, <<1, 5>>, Units(<<1, 2, 4, 5>>))},
     preamble |-> Section("root", "", <<0, 1>>, Units(<<0, 1>>)),
     content |-> Section("root", "", <<0, 5>>, Units(<<0, 1, 2, 4, 5>>)),
     tables |-> {[span |-> <<2, 4>>, head |-> <<2, 3>>, rows |-> {<<3, 4>>},
                  facts |-> {[key |-> "x", value |-> x]}]}]

MCEvidenceWorlds ==
    {[r |-> LongRevision(1, {2}), q |-> ShortRevision(2, {1}, "u")],
     [r |-> LongRevision(1, {2}), q |-> ShortRevision(1, {1}, "t")],
     [r |-> LongRevision(1, {2}), q |-> ShortRevision(1, {}, "t")]}

At(revision, span, section) == [revision |-> revision, span |-> span, section |-> section]
MCEvidenceChunks ==
    [c1 |-> At("r", <<0, 2>>, TRUE), c2 |-> At("r", <<2, 5>>, TRUE),
     c3 |-> At("r", <<5, 7>>, TRUE), c4 |-> At("q", <<1, 3>>, TRUE),
     c5 |-> At("q", <<4, 5>>, TRUE), c6 |-> At("r", <<8, 9>>, TRUE),
     c7 |-> At("q", <<0, 1>>, FALSE)]
MCEvidenceRequests ==
    [chunks : {{"c1", "c3", "c4"}, {"c2", "c4", "c6"}, {"c3", "c5", "c7"}, {"c3", "c4", "c5"}},
     mode : {"parent_chain", "relevant_blocks", "full_section"}, largest : BOOLEAN,
     k : {2, 3}, bytes : {5, 9, 14}, collapse : {TRUE}]

-----------------------------------------------------------------------------
(* Sources: revisions accepted, warned of, held and with a broken document,
   and hand-offs of each kind. *)

Record(disposition, version, document, sections) ==
    [outcome |-> disposition, version |-> version, document |-> document, sections |-> sections]
MCSourceRecords == [r1 |-> Record("accepted", {1}, "whole", {"s", "t"}),
                  r2 |-> Record("warned", {2}, "whole", {"s"}),
                  r3 |-> Record("held", {1}, "whole", {}),
                  r4 |-> Record("accepted", {1}, "broken", {"u"})]
MCSourceChunks == [c1 |-> "r1", c2 |-> "r2", c3 |-> "r1", c4 |-> "r4", c5 |-> "r3"]
Handoff(uses, ranked, version) ==
    [uses |-> uses, ranked |-> ranked, version |-> version, limits |-> TRUE]
MCSourceHandoffs == {Handoff("section", << >>, {}), Handoff("assembly", <<"c1", "c2", "c3">>, {}),
                   Handoff("assembly", <<"c1", "c5">>, {1}),
                   Handoff("enrichment", <<"c1", "c4">>, {}),
                   Handoff("assembly", <<"c1", "c1">>, {}), Handoff("assembly", <<"c4">>, {})}
SetManifest(revisions, duplicates, named) ==
    [identity |-> TRUE, revisions |-> revisions, duplicates |-> duplicates, groups |-> named]
MCSourceManifests == {SetManifest(<<"r1", "r2", "r4">>, << >>, <<"g">>),
                    SetManifest(<<"r1", "r2">>, [r2 |-> "r1"], << >>),
                    SetManifest(<<"r1", "r2", "r4">>, [r2 |-> "r4", r4 |-> "r1"], << >>)}
MCSourceGroups == <<[group |-> "g", revision |-> "r1"], [group |-> "h", revision |-> "r2"]>>

-----------------------------------------------------------------------------
(* Retrieval: two builders over four chunks, of which an earlier build left
   nothing, inputs without identifiers, or some of both. *)

Row(present, identifiers) == [input |-> present, identifiers |-> identifiers]
MCStoreExtract == <<{"x"}, {"x", "y"}, {"w"}, {"x", "z"}>>
MCStoreLeftovers ==
    {<<Row(FALSE, {}), Row(FALSE, {}), Row(FALSE, {}), Row(FALSE, {})>>,
     <<Row(TRUE, {}), Row(TRUE, {}), Row(TRUE, {}), Row(FALSE, {})>>,
     <<Row(TRUE, {}), Row(TRUE, {"y"}), Row(TRUE, {}), Row(FALSE, {})>>}
MCStoreOwners == <<"a", "b", "b", "c">>
Owned(document, set, visible) ==
    [document |-> document, set |-> set, granted |-> visible, eligible |-> TRUE]
MCStoreDocuments == [a |-> Owned("da", {"s1"}, TRUE), b |-> Owned("db", {"s2"}, TRUE),
                       c |-> Owned("dc", {}, FALSE), d |-> Owned("dd", {"s1"}, TRUE),
                       e |-> Owned("da", {"s1"}, TRUE)]
MCStoreMembers == {[r \in revisions |-> IF r = "d" THEN "a" ELSE r] :
                        revisions \in {{"a", "b", "c", "d"}, {"a", "b", "c", "d", "e"}}}
MCStoreAsks == {<<"x", "y">>, <<"w", "y">>, <<"z", "y">>}

-----------------------------------------------------------------------------
(* Representations: graphs of two revisions, one of them twice, and of a third
   that failed, and shards of two sets, one with the members of another
   graph. *)

MCRepChunks == [r1 |-> {"c1", "c2"}, r2 |-> {"c3"}, r3 |-> {"c4"}]
Graph(revision, profile, cut) ==
    [revision |-> revision, profile |-> profile, chunks |-> cut, valid |-> TRUE]
Half == Graph("r1", "p", {"c1"})
Full == Graph("r1", "p", {"c1", "c2"})
Second == Graph("r2", "p", {"c3"})
MCRepGraphs == {Half, Full, Second, Graph("r2", "q", {"c3"}), Graph("r3", "p", {"c4"})}
Shard(set, graph, members) ==
    [set |-> set, revision |-> graph.revision, graph |-> graph, members |-> members]
MCRepShards == {Shard("s", Half, Half), Shard("s", Full, Full), Shard("s", Second, Second),
              Shard("s", Full, Half), Shard("t", Second, Second)}
MCRepSpecs == [s |-> [profile |-> "p", embedding |-> "e"],
             t |-> [profile |-> "q", embedding |-> "e"]]
MCRepGenerations == <<"e", "f">>

-----------------------------------------------------------------------------
(* UnitGraph: a page with a heading and a table, and a section with a code
   group and its lead-in; two edits of either. *)

Part(id, ranges) == [id |-> id, ranges |-> ranges]
Unit(id, kind, parent, parts) ==
    [id |-> id, kind |-> kind, parent |-> parent, parts |-> parts, split |-> << >>]
Group(id, kind, parent, children, parts, heading, context) ==
    [id |-> id, kind |-> kind, parent |-> parent, children |-> children, parts |-> parts,
     heading |-> heading, context |-> context]
Context(kind, of) == [kind |-> kind, part |-> of]
Member(unit, parts) == [unit |-> unit, parts |-> parts]
View(id, members) == [id |-> id, chunk |-> id, members |-> members]

TableGraph ==
    [size |-> 5, ledger |-> <<<<0, 1>>, <<1, 2>>, <<2, 3>>, <<4, 5>>>>,
     exclusions |-> <<<<3, 4>>>>,
     parts |-> <<Part(1, <<<<0, 1>>>>), Part(2, <<<<1, 2>>>>), Part(3, <<<<2, 3>>>>),
                 Part(4, <<<<4, 5>>>>)>>,
     units |-> <<Unit(11, "row", {22}, <<3>>), Unit(12, "block", {21}, <<4>>)>>,
     groups |-> <<Group(21, "page", {}, <<22, 12>>, <<1>>, {1}, << >>),
                  Group(22, "table", {21}, <<11>>, <<2>>, {}, <<Context("header", 2)>>)>>,
     views |-> <<View(31, <<Member(11, <<3>>), Member(12, <<4>>)>>)>>]

CodeGraph ==
    [size |-> 3, ledger |-> <<<<0, 1>>, <<1, 2>>, <<2, 3>>>>, exclusions |-> << >>,
     parts |-> <<Part(1, <<<<0, 1>>>>), Part(2, <<<<1, 2>>>>), Part(3, <<<<2, 3>>>>)>>,
     units |-> <<Unit(11, "code", {23}, <<3>>)>>,
     groups |-> <<Group(21, "page", {}, <<22>>, << >>, {}, << >>),
                  Group(22, "section", {21}, <<23>>, <<1>>, {1}, << >>),
                  Group(23, "code", {22}, <<11>>, <<2>>, {}, <<Context("lead_in", 2)>>)>>,
     views |-> <<View(31, <<Member(11, <<3>>)>>)>>]

Parents == {{}, {21}, {22}, {23}, {11}, {99}}
ChildLists == {<< >>, <<11>>, <<12>>, <<22>>, <<23>>, <<11, 12>>, <<22, 12>>, <<22, 11>>,
               <<12, 22>>, <<11, 11>>, <<21>>}
PartLists == {<< >>, <<1>>, <<2>>, <<3>>, <<4>>, <<2, 3>>, <<3, 2>>, <<3, 3>>, <<1, 2>>}
Tiles == {<< >>, <<<<0, 1>>>>, <<<<1, 2>>>>, <<<<1, 3>>>>, <<<<2, 3>>>>, <<<<3, 4>>>>,
          <<<<3, 5>>>>, <<<<0, 1>>, <<3, 4>>>>, <<<<1, 1>>>>, <<<<4, 6>>>>}
GroupKinds == {"row", "table", "section", "code", "procedure", "page", "paragraphs"}
Contexts == {<< >>, <<Context("lead_in", 1)>>, <<Context("lead_in", 2)>>,
             <<Context("header", 2), Context("caption", 1)>>}
MemberLists == {<< >>, <<Member(12, <<4>>), Member(11, <<3>>)>>, <<Member(11, <<3>>)>>,
                <<Member(11, <<2, 3>>)>>, <<Member(11, <<3, 2>>)>>, <<Member(99, <<3>>)>>,
                <<Member(11, << >>)>>}

EditedUnits(g, i) ==
    {[g EXCEPT !.units[i].parent = x] : x \in Parents}
    \cup {[g EXCEPT !.units[i].parts = x] : x \in PartLists}
    \cup {[g EXCEPT !.units[i].kind = x] : x \in {"code", "block"}}
    \cup {[g EXCEPT !.units[i].split = x] : x \in {<<0, 2>>, <<2, 2>>, <<0, 1>>}}
    \cup {[g EXCEPT !.units[i].id = x] : x \in {12, 22}}

EditedGroups(g, i) ==
    {[g EXCEPT !.groups[i].parent = x] : x \in Parents}
    \cup {[g EXCEPT !.groups[i].children = x] : x \in ChildLists}
    \cup {[g EXCEPT !.groups[i].parts = x] : x \in PartLists}
    \cup {[g EXCEPT !.groups[i].heading = x] : x \in {{}, {1}, {2}}}
    \cup {[g EXCEPT !.groups[i].kind = x] : x \in GroupKinds}
    \cup {[g EXCEPT !.groups[i].context = x] : x \in Contexts}
    \cup {[g EXCEPT !.groups[1] = g.groups[i], !.groups[i] = g.groups[1]]}

EditedParts(g, i) ==
    {[g EXCEPT !.parts[i].ranges = x,
               !.ledger = IF Len(x) = 1 THEN [@ EXCEPT ![i] = x[1]] ELSE @] :
        x \in Tiles \ {<< >>}}

MCEditGraph(g) ==
    UNION {{[g EXCEPT !.exclusions = x] : x \in Tiles},
           {[g EXCEPT !.ledger = x] : x \in {Tail(g.ledger), Reverse(g.ledger)}},
           UNION {EditedParts(g, i) : i \in DOMAIN g.parts \cap DOMAIN g.ledger},
           UNION {EditedUnits(g, i) : i \in DOMAIN g.units},
           UNION {EditedGroups(g, i) : i \in DOMAIN g.groups},
           {[g EXCEPT !.views[1].members = x] : x \in MemberLists},
           {[g EXCEPT !.views = <<g.views[1], [g.views[1] EXCEPT !.id = x]>>] :
                x \in {30, 31, 32}}}

-----------------------------------------------------------------------------
(* Ranking: every order a rerank may give four chunks, under every policy;
   and texts of four characters, whose tokenizer may count fewer tokens of
   a longer window. *)

Prior(ids, multiplier) == [ids |-> ids, multiplier |-> multiplier]
RankingInputs ==
    [fused : {<<1, 2, 3, 4>>},
     ranked : {p \in [1 .. 4 -> 1 .. 4] : Cardinality({p[i] : i \in 1 .. 4}) = 4},
     section : {Prior(ids, {50}) : ids \in SUBSET {1, 2, 4}},
     source : {Prior({}, {}), Prior({1}, {25})},
     blend : {{}, {50}}, cap : {{}, {0}, {1}}, k : {1}]

WindowInputs ==
    [length : {4}, blank : SUBSET (1 .. 4), budget : {2, 3}, weights : [1 .. 4 -> {1, 2}],
     dips : SUBSET (2 .. 4)]

-----------------------------------------------------------------------------
(* Answering: models that think aloud, cite in lists, and write literals,
   over bundles that are whole, inherited, repeated, or refused at once. *)

Token(kind, n) == [kind |-> kind, n |-> n]
Brackets == {Token("open", 0), Token("close", 0), Token("number", 1), Token("word", 0)}
MCAnswerVocabularies == {Brackets \cup {Token("think", 0), Token("unthink", 0)},
                       Brackets \cup {Token("number", 2), Token("comma", 0)},
                       Brackets \cup {Token("literal", 8)}}
Passage(n, revision) == [n |-> n, revision |-> revision]
Traced(n, own, parents) == [n |-> n, chunks |-> own, parents |-> parents]
Bundle(passages, trace, supported) ==
    [passages |-> passages, trace |-> trace, conflicts |-> << >>, held |-> 1, limit |-> 1,
     k |-> 2, supported |-> supported]
One == Bundle(<<Passage(1, "r")>>, <<Traced(1, <<"c">>, << >>)>>, {2})
MCAnswerBundles ==
    {One, [One EXCEPT !.held = 2], [One EXCEPT !.conflicts = <<{1, 2}>>],
     Bundle(<<Passage(1, "r"), Passage(2, "s")>>,
            <<Traced(1, <<"c">>, << >>), Traced(2, << >>, <<"c">>)>>, {}),
     Bundle(<<Passage(1, "r"), Passage(2, "r")>>,
            <<Traced(1, << >>, <<"c">>), Traced(2, <<"c">>, << >>)>>, {8}),
     Bundle(<<Passage(1, "r"), Passage(1, "r")>>, <<Traced(1, <<"c">>, << >>)>>, {}),
     Bundle(<<Passage(1, "r")>>, << >>, {}), Bundle(<< >>, << >>, {})}

-----------------------------------------------------------------------------
(* Ladder: two rungs that search by other routes, that ask with another
   answerer, and that have no route at all. *)

Rung(name, asks, routes, answerer) ==
    [name |-> name, routes |-> routes, depth |-> 1, pool |-> 2, asks |-> asks,
     searchOnly |-> FALSE, intent |-> "off", intentCard |-> FALSE, answerer |-> answerer,
     reranker |-> {}]
MCLadderSuite == [q1 |-> TRUE, q2 |-> FALSE]
MCLadderManifests == {<<Rung("a", TRUE, {"dense"}, {}), Rung("b", FALSE, {"lexical"}, {})>>,
            <<Rung("a", TRUE, {"dense"}, {}), Rung("c", TRUE, {"dense"}, {1})>>,
            <<Rung("a", TRUE, {}, {}), Rung("b", FALSE, {"lexical"}, {})>>}
MCLadderEmbedders == <<{"e"}, {"e"}, {}>>
Outcome(search, ask, askTime, delivered) ==
    [id |-> "", generation |-> 0, search |-> search, searchTime |-> "fast", ask |-> ask,
     askTime |-> askTime, invented |-> FALSE, delivered |-> delivered]
MCLadderOutcomes == {Outcome("first", "right", "fast", "whole"),
                   Outcome("other", "wrong", "fast", "none"),
                   Outcome("failed", "failed", "slow", "none")}

Span == {s \in (0 .. 5) \X (0 .. 5) : s[1] <= s[2]}
CoverageInputs == [extent : {<<2, 4>>, <<1, 5>>}, 
                   anchors : {{a, b, c} : a \in Span, b \in Span, c \in Span}]

(* Attempts: two or three reports of one or two questions under a plan. *)
AttemptMetas == [attempt : 1 .. 3, repetition : 0 .. 2, retry : {{}, {1}, {2}},
                 warm : BOOLEAN, seed : {1}]
AttemptRows == {[q1 |-> {1}, q2 |-> {}], [q1 |-> {2}, q2 |-> {1}]}
Plans == [repetitions : 0 .. 2, warmUps : 0 .. 1]

-----------------------------------------------------------------------------
(* The documents that are cut into chunks: prose with inline delimiters under
   two headings, steps with a substep and code, a table with an empty cell,
   definitions, and page chrome; with texts of several lengths, limits tight
   enough that ideas are broken, rows are refined and units are cut, and a
   tokenizer that merges neighbours or does not. *)

Words(n) == [i \in 1 .. n |-> "word"]
Sentence(n) == Words(n) \o <<"stop", "blank">>

Block(type, parent, section, children) ==
    [type |-> type, parent |-> parent, section |-> section, children |-> children, says |-> "text"]
Says(block, what) == [block EXCEPT !.says = what]
TextUnit(block, text) ==
    [block |-> block, primary |-> TRUE, field |-> "text", text |-> text, envelopes |-> {},
     before |-> Len(text)]
Aside(block, field, text) == [TextUnit(block, text) EXCEPT !.primary = FALSE, !.field = field]
Wrapped(unit, envelopes) == [unit EXCEPT !.envelopes = envelopes]
Envelope(a, b, c, d) == [opening |-> <<a, b>>, closing |-> <<c, d>>]

(* Two headings; a paragraph of two units, a long one, and one that starts
   with a deletion of an emphasis. *)
Prose(n, m) ==
    [blocks |-> <<Block("heading", 0, 0, << >>), Block("paragraph", 0, 1, << >>),
                  Block("paragraph", 0, 1, << >>), Block("heading", 0, 1, << >>),
                  Block("paragraph", 0, 4, << >>)>>,
     units |-> <<TextUnit(1, Words(1)), TextUnit(2, Words(n)), TextUnit(2, Sentence(1)),
                 TextUnit(3, Sentence(m) \o Words(n) \o <<"blank">> \o Words(m)),
                 TextUnit(4, Words(1)),
                 Wrapped(TextUnit(5, Words(2 + n) \o <<"blank">> \o Words(3 + m)),
                         {Envelope(0, 1, 4 + n, 5 + n), Envelope(1, 2, 3 + n, 4 + n)})>>]

(* A paragraph, a step with a substep, a step with a task marker, and code. *)
Steps(n, m) ==
    [blocks |-> <<Block("heading", 0, 0, << >>), Block("paragraph", 0, 1, << >>),
                  Block("list", 0, 1, <<4, 9>>), Block("item", 3, 1, <<5, 6>>),
                  Block("paragraph", 4, 1, << >>), Block("list", 4, 1, <<7>>),
                  Block("item", 6, 1, <<8>>), Block("paragraph", 7, 1, << >>),
                  Block("item", 3, 1, <<10>>), Block("paragraph", 9, 1, << >>),
                  Block("code", 0, 1, << >>)>>,
     units |-> <<TextUnit(1, Words(1)), TextUnit(2, Words(n)), Aside(4, "marker", <<"stop">>),
                 TextUnit(5, Words(1)), Aside(7, "marker", <<"stop">>), TextUnit(8, Words(m)),
                 Aside(9, "marker", <<"stop">>), Aside(10, "task", <<"stop">>),
                 TextUnit(10, Words(n)), Aside(11, "attribute", Words(1)),
                 TextUnit(11, Words(n) \o <<"line">> \o Words(m) \o <<"line">>)>>]

(* A table of two columns with an empty cell, and a paragraph after it. *)
Table(n, m, h) ==
    [blocks |-> <<Block("heading", 0, 0, << >>), Block("table", 0, 1, <<3, 6, 9>>),
                  Block("head", 2, 1, <<4, 5>>), Block("cell", 3, 1, << >>),
                  Block("cell", 3, 1, << >>), Block("row", 2, 1, <<7, 8>>),
                  Block("cell", 6, 1, << >>), Block("cell", 6, 1, << >>),
                  Block("row", 2, 1, <<10, 11>>), Block("cell", 9, 1, << >>),
                  Block("cell", 9, 1, << >>), Block("paragraph", 0, 1, << >>)>>,
     units |-> <<TextUnit(4, Words(1)), TextUnit(5, Words(h)), TextUnit(7, Words(n)),
                 TextUnit(10, Words(m)), TextUnit(11, Words(n)), TextUnit(12, Words(1))>>]

(* A heading and paragraphs with the labels of an HTML export, an image, and
   a definition. *)
ExportedPage(n, m) ==
    [blocks |-> <<Block("heading", 0, 0, << >>), Says(Block("paragraph", 0, 1, << >>), "state"),
                  Says(Block("html", 0, 1, << >>), "image"), Block("paragraph", 0, 1, << >>),
                  Block("definitions", 0, 1, <<6, 7>>), Block("term", 5, 1, << >>),
                  Block("description", 5, 1, <<8, 9>>), Block("paragraph", 7, 1, << >>),
                  Block("paragraph", 7, 1, << >>)>>,
     units |-> <<[TextUnit(1, Words(2) \o <<"blank">> \o Words(1)) EXCEPT !.before = 2],
                 TextUnit(2, Words(1)), TextUnit(3, Words(1)),
                 TextUnit(4, Sentence(n)), [TextUnit(4, <<"blank">> \o Words(1)) EXCEPT !.before = 1],
                 TextUnit(6, Words(1)), TextUnit(8, Words(m)), TextUnit(9, Words(n))>>]

Profiled(pages, limits) ==
    {[blocks |-> p.blocks, units |-> p.units, packing |-> IF ideas THEN "section" ELSE "container",
      min |-> IF ideas THEN l.target \div 2 ELSE 0, chrome |-> ideas,
      target |-> l.target, max |-> l.max,
      weight |-> [word |-> 2, stop |-> 1, blank |-> 0, line |-> 0], merged |-> merged] :
        p \in pages, l \in limits, ideas \in BOOLEAN,
        merged \in {{}, {<<"word", "stop">>, <<"word", "blank">>}}}
Limits == {[target |-> 8, max |-> 10], [target |-> 8, max |-> 14], [target |-> 16, max |-> 20]}

MCChunkDocuments ==
    Profiled({Prose(n, m) : n \in 1 .. 3, m \in 1 .. 3}
             \cup {Steps(n, m) : n \in 1 .. 4, m \in 1 .. 3}
             \cup {ExportedPage(n, m) : n \in 1 .. 3, m \in {1, 3, 5}}, Limits)
    \cup Profiled({Table(n, m, h) : n \in 1 .. 3, m \in 1 .. 4, h \in {1, 4}},
                  Limits \cup {[target |-> 12, max |-> 14]})

-----------------------------------------------------------------------------

(* Attempts: reports of two attempts, and of a third that repeats one. *)

Reports ==
    {Merge!Attempt(meta, row, 1) : meta \in AttemptMetas, row \in AttemptRows}
OfAttempt(n) == {r \in Reports : r.attempt = n}
Pairs == {<<r, s>> : r \in OfAttempt(1), s \in OfAttempt(2)}
Triples ==
    {<<t, r, s>> : t \in {x \in OfAttempt(3) : x.retry # {}}, r \in {x \in OfAttempt(1) : x.retry = {}},
                   s \in {x \in OfAttempt(2) : x.retry = {}}}
MergeInputs == [reports : Pairs \cup Triples, plan : Plans]

MCAlgorithmInputs ==
    [truncation |-> TruncationInputs,
     cards |-> {CardOf(role) : role \in {"embedder", "reranker", "answerer"}},
     ranking |-> RankingInputs,
     windows |-> WindowInputs,
     graphs |-> {TableGraph, CodeGraph},
     coverage |-> CoverageInputs,
     attempts |-> MergeInputs]

=============================================================================
