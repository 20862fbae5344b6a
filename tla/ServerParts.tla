---------------------------- MODULE ServerParts -----------------------------
(***************************************************************************)
(* The parts around the server: the framing of its lines, its calls, the   *)
(* cut of a response, the client of the model gateway and the cards it     *)
(* checks, and the edits of the settings. A behaviour is one of a single   *)
(* part; the variables of the others stay idle.                            *)
(***************************************************************************)
EXTENDS Parts, Integers, Sequences, FiniteSets, SequencesExt, FiniteSetsExt, Functions, TLC

CONSTANTS
    LineInputs, LineLimit, LineReads,                               \* Stdio
    ServerCalls, ServerCollections, ServerHolding, ServerRequests,
    ServerConfigs, ServerWorkers, ServerGenerations, ServerGrants,  \* Mcp
    ModelClients, ModelWork, ModelBuilds,                           \* Gateway
    SettingDescriptors, SettingChanges, SettingRewrites,            \* Settings
    EditCard(_)     \* what an edit may make of a card

(* What a client writes is bytes, of which a read returns some. *)
ASSUME LinesAreBytes ==
    LineInputs \subseteq Seq({"x", "n", "r"}) /\ LineLimit \in Nat /\ LineReads \in Nat \ {0}

(* The calls in flight are finitely many, and so are the permits. *)
ASSUME CallsAreFinite == IsFiniteSet(ServerCalls) /\ ServerWorkers \in Nat

(* A request to a model has a number of inputs. *)
ASSUME InputsAreCounted == \A card \in DOMAIN ModelWork : ModelWork[card].inputs \in Nat

VARIABLES
    unread, written, pending, discarding, eof, frames, errors, flushers,
    closed,
    grants, granted, published, workers, call,
    reported, checked, passed, calls,
    folder, file, previous, locked, settingsEdits, history, untold, rewrites

Line == INSTANCE Stdio WITH
    Inputs <- LineInputs, LimitBytes <- LineLimit, MaxRead <- LineReads
Server == INSTANCE Mcp WITH
    Calls <- ServerCalls, Collections <- ServerCollections,
    Holding <- ServerHolding, Requests <- ServerRequests,
    Configs <- ServerConfigs, WorkerLimit <- ServerWorkers, MaxGeneration <- ServerGenerations,
    MaxGrants <- ServerGrants
Models == INSTANCE Gateway WITH
    Clients <- ModelClients, Work <- ModelWork, Builds <- ModelBuilds
Preferences == INSTANCE Settings WITH
    Descriptors <- SettingDescriptors, Changes <- SettingChanges,
    MaxRewrites <- SettingRewrites,
    edits <- settingsEdits
Identity == INSTANCE Cards

(* The registry checked its descriptors, the keys a session reads by name are
   registered, two of them as ranges of integers, and a command changes one
   registered key to one value or to none. *)
ASSUME SettingsAreRegistered ==
    /\ \A k \in DOMAIN SettingDescriptors : Preferences!SoundDescriptor(SettingDescriptors[k])
    /\ {"models.compute", "search.intent.expansion"} \subseteq DOMAIN SettingDescriptors
    /\ \A k \in {"search.rerank.depth", "search.fusion_pool"} :
         /\ k \in DOMAIN SettingDescriptors /\ SettingDescriptors[k].kind.type = "integer"
         /\ SettingDescriptors[k].kind.min \in Int /\ SettingDescriptors[k].kind.max \in Int
    /\ \A c \in DOMAIN SettingChanges :
         /\ SettingChanges[c].key \in DOMAIN SettingDescriptors
         /\ \A x, y \in SettingChanges[c].value : x = y

(* A bundle numbers its passages from one, and what it names is one of them. *)
ASSUME BundlesAreNumbered ==
    \A b \in InputsOf("truncation") :
       /\ b.passages \in Seq(Nat) /\ b.groups \in Nat
       /\ \A x \in b.conflicts : x \subseteq DOMAIN b.passages
       /\ Range(b.gaps) \subseteq {0} \cup DOMAIN b.passages

(* An identity is of its types, and stays so through an edit: its reply limit
   is absent or not zero, and its reasoning one of three. *)
TypedCard(c) ==
    /\ c.invocation.output = {} \/ \E n \in c.invocation.output : n >= 1 /\ c.invocation.output = {n}
    /\ c.invocation.output \subseteq Nat
    /\ c.invocation.reasoning \in {"supported", "unsupported", "not_applicable"}
ASSUME CardsAreTyped ==
    \A c \in InputsOf("cards") : /\ TypedCard(c)
                                 /\ \A d \in EditCard(c) : TypedCard(d) /\ \A e \in EditCard(d) : TypedCard(e)

stdioVars ==
    <<unread, written, pending, discarding, eof, frames, errors, flushers,
      closed>>
mcpVars ==
    <<grants, granted, published, workers, call>>
gatewayVars ==
    <<reported, checked, passed, calls>>
settingsVars ==
    <<folder, file, previous, locked, settingsEdits, history, untold, rewrites>>
serverPartsVars ==
    <<stdioVars, mcpVars, gatewayVars, settingsVars>>

-----------------------------------------------------------------------------
(* An idle part. *)
LineIdle ==
    unread = 0 /\ written = 0 /\ pending = 0 /\ discarding = 0 /\ eof = 0 /\
    frames = 0 /\ errors = 0 /\ flushers = 0 /\ closed = 0
ServerIdle ==
    grants = 0 /\ granted = 0 /\ published = 0 /\ workers = 0 /\ call = 0
ModelsIdle ==
    reported = 0 /\ checked = 0 /\ passed = 0 /\ calls = 0
PreferencesIdle ==
    folder = 0 /\ file = 0 /\ previous = 0 /\ locked = 0 /\ settingsEdits =
    0 /\ history = 0 /\ untold = 0 /\ rewrites = 0
ServerPartsIdle == LineIdle /\ ServerIdle /\ ModelsIdle /\ PreferencesIdle

ServerPartNames ==
    {"stdio", "mcp", "gateway", "settings", "truncation", "cards"}

ServerInit ==
    /\ StartAs(ServerPartNames)
    /\ IF part = "stdio" THEN Line!StdioInit ELSE LineIdle
    /\ IF part = "mcp" THEN Server!McpInit ELSE ServerIdle
    /\ IF part = "gateway" THEN Models!GatewayInit ELSE ModelsIdle
    /\ IF part = "settings" THEN Preferences!SettingsInit ELSE PreferencesIdle

(* The variables of the other parts stay. *)
ServerOthersIdle ==
    /\ UNCHANGED part
    /\ part # "cards" => UNCHANGED <<input, edits>>
    /\ part # "stdio" => UNCHANGED stdioVars
    /\ part # "mcp" => UNCHANGED mcpVars
    /\ part # "gateway" => UNCHANGED gatewayVars
    /\ part # "settings" => UNCHANGED settingsVars

(* Two edits of a card. *)
EditCards ==
    /\ part = "cards" /\ edits < 2 /\ edits' = edits + 1
    /\ input' \in EditCard(input) /\ ServerOthersIdle

StdioStep == part = "stdio" /\ ServerOthersIdle /\ Line!StdioNext
McpStep == part = "mcp" /\ ServerOthersIdle /\ Server!McpNext
GatewayStep == part = "gateway" /\ ServerOthersIdle /\ Models!GatewayNext
SettingsStep == part = "settings" /\ ServerOthersIdle /\ Preferences!SettingsNext

ServerNext ==
    StdioStep \/ McpStep \/ GatewayStep \/ SettingsStep \/ EditCards

ServerSpec == ServerInit /\ [][ServerNext]_<<partVars, serverPartsVars>>

-----------------------------------------------------------------------------
(* Properties, each of one part. *)

(* What the client wrote is handed on line by line, whatever the reads
   return and wherever a line is too long. *)
FramesAreLines == part = "stdio" => Line!FramesAreLines

(* What the server replies is of one kernel's scopes, the same again when its
   worker last looked, though other calls, publications and grants go on; the
   data of an answer are excepted, and Mcp says why. *)
RepliesAreCurrent == part = "mcp" => Server!RepliesAreCurrent

(* A response that is cut to fit tells exactly what it lost. *)
TruncationIsHonest ==
    part = "truncation" =>
        Server!TruncationIsHonest(
            Server!Bundle(input.passages, input.conflicts, input.gaps, input.groups),
            input.limit)

(* What the gateway answers is in the place of its input and from a server
   that passed the check of its card; and a card that was let in can do what
   its role is for. *)
CallsAreAnswered == /\ part = "gateway" => Models!AnswersAreInPlace
                    /\ part = "cards" => Identity!ValidCardsAnswer(input)

(* The preferences file is what the history says, and no accepted change
   leaves a file no session can read. *)
SettingsHold ==
    part = "settings" => Preferences!HistoryExplainsFile /\ Preferences!SessionsCanRead

=============================================================================
