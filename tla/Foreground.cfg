SPECIFICATION Spec
CONSTANTS
    j1 = j1  j2 = j2  j3 = j3  k1 = k1  k2 = k2  r1 = r1  none = none
    c1 = c1  c2 = c2  c3 = c3  w1 = w1
    JobId <- ThreeJobs
    Key <- TwoKeys
    Resource <- OneResource
    NoResource = none
    Time <- Origin
    Term = 3
    MaxLease = 3
    MaxEvents = 7
    Command <- ThreeCommands
    Waiter <- Nobody
    KeyOf <- Keys
    ResourceOf <- Resources
    Mortal <- Nobody
    Beat = 1
    MaxMissed = 1
    MaxSteps = 1
SYMMETRY SafetySymmetry
INVARIANTS FollowerSawTheEnd ExitTellsOutcome WorkerKeepsItsJob AttemptsInOrder StreamTellsRow
PROPERTIES LogSpec
