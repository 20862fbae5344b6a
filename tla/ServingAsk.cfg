SPECIFICATION Spec
CONSTANTS
    Scope <- TwoScopes
    Generation <- TwoGenerations
    Chunk <- ThreeChunks
    GenerationOf <- Generations
    ScopeOf <- Scopes
    ProfileOf <- Profiles
    OriginalRoutes <- Originals
    IntentRoutes <- Intents
    HitLists <- Lists
    Model <- Scores
    Requests <- Asked
    BudgetMs = 1
    MaxEdits = 2
INVARIANT AnswerIsGranted
