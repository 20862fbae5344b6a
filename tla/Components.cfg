CONSTANTS
    LineInputs <- MCLineInputs
    LineLimit = 2
    LineReads = 3
    ServerCalls = {"c1", "c2"}
    ServerCollections = {"a", "b"}
    ServerHolding <- MCServerHolding
    ServerRequests <- MCServerRequests
    ServerConfigs <- MCServerConfigs
    ServerWorkers = 1
    ServerGenerations = 1
    ServerGrants = 2
    ModelClients = {"m", "n"}
    ModelWork <- MCModelWork
    ModelBuilds = {"b1", "b2"}
    RegistryProcesses = {"p", "q"}
    RegistryCards <- MCRegistryCards
    RegistryEvaluations = 2
    RegistrySelections = 2
    SettingDescriptors <- MCSettingDescriptors
    SettingChanges <- MCSettingChanges
    SettingRewrites = 1
    Openers <- MCOpeners
    OpenConfigs <- MCOpenConfigs
    OpenConsumers = {"k"}
    OpenReconciled = 3
    CopyArtifacts = {"x", "y"}
    CopyRestores = {"r", "s"}
    CopyChanges = 2
    CopyDamages = 1
    EvidenceWorlds <- MCEvidenceWorlds
    EvidenceChunks <- MCEvidenceChunks
    EvidenceRequests <- MCEvidenceRequests
    SourceRecords <- MCSourceRecords
    SourceHandoffs <- MCSourceHandoffs
    SourceFailures = {"r1", "r2"}
    SourceChunks <- MCSourceChunks
    SourceManifests <- MCSourceManifests
    SourceGroups <- MCSourceGroups
    SourceLoaders = {"w1", "w2"}
    SourceDeadline = 1
    StoreLast = 4
    StoreExtract <- MCStoreExtract
    StoreLeftovers <- MCStoreLeftovers
    StoreOwners <- MCStoreOwners
    StoreDocuments <- MCStoreDocuments
    StoreMembers <- MCStoreMembers
    StoreBuilders = {"b1", "b2"}
    StoreBatch = 2
    StorePage = 1
    StoreHits = 2
    StoreGroups = 1
    StoreAsks <- MCStoreAsks
    RepChunks <- MCRepChunks
    RepFailed = {"r3"}
    RepGraphs <- MCRepGraphs
    RepShards <- MCRepShards
    RepSpecs <- MCRepSpecs
    RepGenerations <- MCRepGenerations
    RepWorkers = {"w1", "w2"}
    AnswerBundles <- MCAnswerBundles
    AnswerVocabularies <- MCAnswerVocabularies
    AnswerTokens = 5
    AnswerWords = 1
    LadderSuite <- MCLadderSuite
    LadderManifests <- MCLadderManifests
    LadderWarmUps = 1
    LadderEmbedders <- MCLadderEmbedders
    LadderOutcomes <- MCLadderOutcomes
    LadderCards = 2
    ChunkDocuments <- MCChunkDocuments
    AlgorithmInputs <- MCAlgorithmInputs
    EditGraph <- MCEditGraph
    EditCard <- MCEditCard
INIT Init
NEXT Next
INVARIANTS
    FramesAreLines RepliesAreCurrent TruncationIsHonest CallsAreAnswered
    SelectionsAreEarned SettingsHold OpeningsHold RestoredIsWhole
    ConflictsAreWhole BundleWasEligible RouteIsExact RepresentationsAreWhole
    RankingHolds AnswerIsSupported RungsCompareLikeWithLike MeasuresAddUp
CHECK_DEADLOCK FALSE
