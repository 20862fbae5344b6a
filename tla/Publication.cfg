SPECIFICATION Spec
CONSTANTS
    c = c  s1 = s1  s2 = s2  p1 = p1  p2 = p2  p3 = p3  n1 = n1  n2 = n2
    Collection <- OneCollection
    ChunkSet <- TwoSets
    MaxGeneration = 3
    Process <- ThreeProcesses
    Chunks = 2
    Again <- TwoNonces
    Requests <- Mixed
    MaxFaults = 2
    MaxStalls = 1
SYMMETRY PublicationSymmetry
INVARIANTS PublishedIsComplete FailsOnlyWhatWasLost AliasFollows StreamTellsPublished
PROPERTIES SuccessIsPublished
CHECK_DEADLOCK FALSE
