SPECIFICATION Spec
CONSTANTS
    p1 = p1  p2 = p2  p3 = p3  d1 = d1  m1 = m1  m2 = m2
    Process <- TwoProcesses
    Digest <- OneDigest
    Media <- OneMedia
    MaxPins = 1
    Faults <- OnlyCrash
INVARIANT CrashLeavesAtWorstAFile
