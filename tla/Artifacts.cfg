SPECIFICATION FairSpec
CONSTANTS
    p1 = p1  p2 = p2  p3 = p3  d1 = d1  m1 = m1  m2 = m2
    Process <- ThreeProcesses
    Digest <- OneDigest
    Media <- TwoMedia
    MaxPins = 2
    Faults <- AllFaults
INVARIANTS RecordedHasFile
PROPERTIES PinnedArtifactStays RecordedGetsItsFile
