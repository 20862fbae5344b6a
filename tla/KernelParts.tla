---------------------------- MODULE KernelParts -----------------------------
(***************************************************************************)
(* The parts that keep rows and files: the model registry, the opening and *)
(* migrating of the database, backup and restore, and the identifier rows. *)
(* A behaviour is one of a single part; the variables of the others stay   *)
(* idle.                                                                   *)
(***************************************************************************)
EXTENDS Parts, Integers, Sequences, FiniteSets, SequencesExt, FiniteSetsExt, Functions, TLC

CONSTANTS
    RegistryProcesses, RegistryCards, RegistryEvaluations,
    RegistrySelections,                                             \* Registry
    Openers, OpenConfigs, OpenConsumers, OpenReconciled,            \* Opening
    CopyArtifacts, CopyRestores, CopyChanges, CopyDamages,          \* Backup
    StoreLast, StoreExtract, StoreLeftovers, StoreOwners,
    StoreDocuments, StoreMembers, StoreBuilders, StoreBatch,
    StorePage, StoreHits, StoreGroups, StoreAsks                    \* Retrieval

(* A migration is known by its number. *)
ASSUME MigrationsAreNumbered == \A p \in DOMAIN Openers : Openers[p] \subseteq Nat

(* config.toml has a first version, and lists the scopes it grants. *)
ASSUME ConfigsAreLists ==
    /\ Len(OpenConfigs) \in Nat \ {0} /\ DOMAIN OpenConfigs = 1 .. Len(OpenConfigs)
    /\ \A v \in DOMAIN OpenConfigs : IsFiniteSet(OpenConfigs[v].scopes)

(* Chunks are numbered in the order of their ids, the limits of the code are
   above 0 (a batch is 64 chunks, a page is the points of one scroll, a route
   without a limit reads nothing), and a query is a list of identifiers. *)
ASSUME RetrievalIsBounded ==
    /\ StoreLast \in Nat /\ {StoreBatch, StorePage, StoreHits} \subseteq Nat \ {0}
    /\ \A ids \in StoreAsks : ids \in Seq({ids[i] : i \in DOMAIN ids})

VARIABLES
    stored, holds, cards, evaluations, selections, stream, command,
    database, config, writer, opening, openingGrants, reconciled, principal,
    cursors,
    kernel, backup, writing, target, restoring, changes, damages,
    rows, memberRows, listed, marker, gens, payloads, builder, route,
    inventory

Registered == INSTANCE Registry WITH
    Processes <- RegistryProcesses, CardSet <- RegistryCards,
    MaxEvaluations <- RegistryEvaluations, MaxSelections <- RegistrySelections,
    recorded <- stored, pins <- holds
Open == INSTANCE Opening WITH
    Configs <- OpenConfigs, Consumers <- OpenConsumers,
    MaxReconciled <- OpenReconciled,
    grants <- openingGrants
Copy == INSTANCE Backup WITH
    ArtifactIds <- CopyArtifacts, Restores <- CopyRestores,
    MaxChanges <- CopyChanges, MaxDamages <- CopyDamages
Store == INSTANCE Retrieval WITH
    LastChunk <- StoreLast, Extract <- StoreExtract,
    Leftovers <- StoreLeftovers, OwnerOf <- StoreOwners,
    Documents <- StoreDocuments, MemberLists <- StoreMembers,
    Builders <- StoreBuilders, Batch <- StoreBatch, Page <- StorePage,
    HitLimit <- StoreHits, MaxGroups <- StoreGroups, Asks <- StoreAsks

registryVars ==
    <<stored, holds, cards, evaluations, selections, stream, command>>
openingVars ==
    <<database, config, writer, opening, openingGrants, reconciled, principal,
      cursors>>
backupVars ==
    <<kernel, backup, writing, target, restoring, changes, damages>>
retrievalVars ==
    <<rows, memberRows, listed, marker, gens, payloads, builder, route,
      inventory>>
kernelPartsVars ==
    <<registryVars, openingVars, backupVars, retrievalVars>>

-----------------------------------------------------------------------------
(* An idle part. *)
RegisteredIdle ==
    stored = 0 /\ holds = 0 /\ cards = 0 /\ evaluations = 0 /\ selections =
    0 /\ stream = 0 /\ command = 0
OpenIdle ==
    database = 0 /\ config = 0 /\ writer = 0 /\ opening = 0 /\ openingGrants
    = 0 /\ reconciled = 0 /\ principal = 0 /\ cursors = 0
CopyIdle ==
    kernel = 0 /\ backup = 0 /\ writing = 0 /\ target = 0 /\ restoring = 0
    /\ changes = 0 /\ damages = 0
StoreIdle ==
    rows = 0 /\ memberRows = 0 /\ listed = 0 /\ marker = 0 /\ gens = 0 /\
    payloads = 0 /\ builder = 0 /\ route = 0 /\ inventory = 0
KernelPartsIdle == RegisteredIdle /\ OpenIdle /\ CopyIdle /\ StoreIdle

KernelPartNames ==
    {"registry", "opening", "backup", "retrieval"}

KernelInit ==
    /\ StartAs(KernelPartNames)
    /\ IF part = "registry" THEN Registered!RegistryInit ELSE RegisteredIdle
    /\ IF part = "opening" THEN Open!OpeningInit ELSE OpenIdle
    /\ IF part = "backup" THEN Copy!BackupInit ELSE CopyIdle
    /\ IF part = "retrieval" THEN Store!RetrievalInit ELSE StoreIdle

(* The variables of the other parts stay. *)
KernelOthersIdle ==
    /\ UNCHANGED part
    /\ UNCHANGED <<input, edits>>
    /\ part # "registry" => UNCHANGED registryVars
    /\ part # "opening" => UNCHANGED openingVars
    /\ part # "backup" => UNCHANGED backupVars
    /\ part # "retrieval" => UNCHANGED retrievalVars

RegistryStep == part = "registry" /\ KernelOthersIdle /\ Registered!RegistryNext
OpeningStep == part = "opening" /\ KernelOthersIdle /\ Open!OpeningNext
BackupStep == part = "backup" /\ KernelOthersIdle /\ Copy!BackupNext
RetrievalStep == part = "retrieval" /\ KernelOthersIdle /\ Store!RetrievalNext

KernelNext ==
    RegistryStep \/ OpeningStep \/ BackupStep \/ RetrievalStep

KernelSpec == KernelInit /\ [][KernelNext]_<<partVars, kernelPartsVars>>

-----------------------------------------------------------------------------
(* Properties, each of one part. *)

(* A selected model has a recorded evaluation that earned it, over artifacts
   that are still there. *)
SelectionsAreEarned == part = "registry" => Registered!SelectionsAreEarned

(* Programs that open one database apply each migration once, and the grants
   are those of a configuration that was there. *)
OpeningsHold == part = "opening" => Open!MigratedOnce /\ Open!GrantsFollowConfig

(* A restored kernel has the files its rows name. *)
RestoredIsWhole == part = "backup" => Copy!RestoredIsWhole

(* The identifier route finds the chunks that hold the identifier. *)
RouteIsExact == part = "retrieval" => Store!RouteIsExact

=============================================================================
