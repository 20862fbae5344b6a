-------------------------------- MODULE Cards --------------------------------
(***************************************************************************)
(* Model cards (maestro-kernel, gateway/card*.rs, card_v2, and the chat    *)
(* requests of gateway/port.rs): what an identity must satisfy to be       *)
(* recorded, and what the calls later ask of its card.                     *)
(*                                                                         *)
(* A text is "blank", "plain", a "rooted" path of one part, a "path" of    *)
(* several, or "relative" with several.  A digest is a model value or a    *)
(* string.  Optional values are sets of at most one element.               *)
(***************************************************************************)
EXTENDS Integers, FiniteSets

MaxChatOutputTokens == 2048
DefaultChatOutputTokens == 1024

NotApplicable == "not_applicable"
Supported == "supported"

(* gateway/card_v2/paths.rs *)
IsAbsoluteMachinePath(text) == text \in {"rooted", "path"}
ContainsMachinePath(text) == text = "path"
IsMachinePath(text) == text \in {"rooted", "path", "relative"}
PathFree(text) == text # "blank" /\ ~ContainsMachinePath(text)

(* The parts of an identity; all that no check looks at is left out. *)
Weights(model, url, gguf, assets) ==
    [model |-> model, url |-> url, gguf |-> gguf, assets |-> assets]
Formats(tokenizer, derivation, template, text, embedding) ==
    [tokenizer |-> tokenizer, derivation |-> derivation, template |-> template,
     document |-> text, query |-> text, embedding |-> embedding]
Invocation(context, output, dimensions, sampling, reasoning, build, backend, flags) ==
    [context |-> context, output |-> output, dimensions |-> dimensions,
     sampling |-> sampling, reasoning |-> reasoning, build |-> build,
     backend |-> backend, flags |-> flags]
Resources(offload, devices, batch, microBatch, note) ==
    [offload |-> offload, devices |-> devices, batch |-> batch,
     microBatch |-> microBatch, note |-> note]
Provenance(method, tools, artifacts) ==
    [method |-> method, tools |-> tools, artifacts |-> artifacts]
Identity(role, entry, weights, formats, invocation, resources, provenance) ==
    [role |-> role, entry |-> entry, weights |-> weights, formats |-> formats,
     invocation |-> invocation, resources |-> resources, provenance |-> provenance]

AssetName(name) == name = "plain"

ValidateWeights(w) ==
    /\ w.model # "blank" /\ ~IsAbsoluteMachinePath(w.model)
    /\ w.url = "public"
    /\ \A asset \in w.assets : AssetName(asset.name)

ValidateFormats(f, w) == f.derivation = "gguf_embedded" => f.tokenizer = w.gguf

(* A flag is a long option with a value; one that names a file is an asset
   bound to a digest. *)
ValidateInvocation(i) ==
    /\ i.build # "blank"
    /\ \A flag \in DOMAIN i.flags :
         /\ flag # "-m"
         /\ i.flags[flag].kind = "asset" => AssetName(i.flags[flag].name)
         /\ i.flags[flag].kind = "text" =>
              flag # "--model" /\ ~IsMachinePath(i.flags[flag].value)
    /\ i.sampling \in {"configured", NotApplicable}

ValidateResources(r, backend) ==
    /\ PathFree(r.note)
    /\ r.microBatch <= r.batch
    /\ r.offload \in {"automatic", "cpu_only"} => r.devices = {}
    /\ r.offload = "explicit_devices" => r.devices # {} /\ backend # "cpu"
    /\ \A device \in r.devices : device # "blank" /\ ~IsMachinePath(device)

ValidateProvenance(p) ==
    /\ \A tool \in p.tools : tool # "blank" /\ ~IsAbsoluteMachinePath(tool)
    /\ \A artifact \in p.artifacts : AssetName(artifact.name)

NoEmbeddingProfile(c) ==
    /\ c.invocation.dimensions = {}
    /\ c.formats.embedding = NotApplicable
    /\ c.formats.document = NotApplicable /\ c.formats.query = NotApplicable

ValidateRole(c) ==
    CASE c.role = "embedder" ->
           /\ c.invocation.dimensions # {} /\ c.formats.embedding = Supported
           /\ c.formats.document = Supported /\ c.formats.query = Supported
           /\ c.invocation.sampling = NotApplicable
           /\ c.invocation.reasoning = NotApplicable /\ c.invocation.output = {}
      [] c.role = "reranker" ->
           /\ NoEmbeddingProfile(c) /\ c.invocation.sampling = NotApplicable
           /\ c.invocation.reasoning = NotApplicable /\ c.invocation.output = {}
      [] OTHER ->
           /\ NoEmbeddingProfile(c) /\ c.invocation.sampling = "configured"
           /\ c.invocation.output # {}

(* A flag that repeats a typed value says the same. *)
ValidateRuntimeFlags(c) ==
    LET flags == c.invocation.flags
        agrees(flag, value) == flag \in DOMAIN flags => flags[flag].value = value
    IN  /\ "--model" \in DOMAIN flags =>
             flags["--model"].kind = "asset" /\ flags["--model"].value = c.weights.gguf
        /\ agrees("--ctx-size", c.invocation.context)
        /\ agrees("--batch-size", c.resources.batch)
        /\ agrees("--ubatch-size", c.resources.microBatch)

Validate(c) ==
    /\ ValidateWeights(c.weights) /\ ValidateFormats(c.formats, c.weights)
    /\ ValidateInvocation(c.invocation)
    /\ ValidateResources(c.resources, c.invocation.backend)
    /\ ValidateProvenance(c.provenance)
    /\ ValidateRole(c) /\ ValidateRuntimeFlags(c)

(* What the registration must find and pins: no weights. *)
ArtifactDigests(c) ==
    LET weights == {c.weights.gguf} \cup {asset.digest : asset \in c.weights.assets}
        flags == c.invocation.flags
    IN  {"qualification"}
        \cup (IF c.formats.derivation = "gguf_embedded" THEN {} ELSE {c.formats.tokenizer})
        \cup c.formats.template
        \cup {artifact.digest : artifact \in c.provenance.artifacts}
        \cup ({flags[f].value : f \in {f \in DOMAIN flags : flags[f].kind = "asset"}} \ weights)

(* legacy_fields: what the calls look at. *)
CardFields(c) ==
    [role |-> c.role, entry |-> c.entry, build |-> c.invocation.build,
     template |-> c.formats.template, dimensions |-> c.invocation.dimensions,
     context |-> c.invocation.context, output |-> c.invocation.output,
     sampling |-> c.invocation.sampling, reasoning |-> c.invocation.reasoning]

(* require, embedder_dimensions and ChatRequest::validate. *)
MayEmbed(card) == card.role = "embedder" /\ card.dimensions # {}
MayRerank(card) == card.role = "reranker"

ReplyCap(card, requested) ==
    LET smaller(a, b) == IF a < b THEN a ELSE b
        declared == card.output
        wanted == IF requested # {} THEN CHOOSE x \in requested : TRUE
                  ELSE IF declared # {} THEN CHOOSE x \in declared : TRUE
                  ELSE DefaultChatOutputTokens
    IN  smaller(IF declared = {} THEN wanted
                ELSE smaller(wanted, CHOOSE x \in declared : TRUE), MaxChatOutputTokens)

MayChat(card, controls, tokens) ==
    /\ card.role = "answerer"
    /\ card.sampling # NotApplicable
    /\ tokens \in 1 .. MaxChatOutputTokens
    /\ \A limit \in card.output : tokens <= limit
    /\ CASE card.reasoning = Supported -> controls = "the card's"
         [] card.reasoning = "unsupported" -> controls = "none"
         [] OTHER -> FALSE

(* The controls answer/prompt.rs and search/hyde.rs send. *)
Controls(card) == IF card.reasoning = Supported THEN "the card's" ELSE "none"

-----------------------------------------------------------------------------
(* A card that was let in can do the one thing its role is for, and nothing
   else: an embedder embeds, a reranker reranks, and an answerer may chat
   with the controls of its card and the reply cap computed for any request,
   unless its reasoning says not_applicable, which no check refuses and with
   which every chat is refused. *)
ValidCardsAnswer(c) ==
    Validate(c) =>
      LET card == CardFields(c) IN
      /\ MayEmbed(card) <=> c.role = "embedder"
      /\ MayRerank(card) <=> c.role = "reranker"
      /\ \A requested \in {{}, {1}, {700}, {5000}} :
           MayChat(card, Controls(card), ReplyCap(card, requested))
             <=> c.role = "answerer" /\ c.invocation.reasoning # NotApplicable
=============================================================================
