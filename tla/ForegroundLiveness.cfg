SPECIFICATION FairSpec
CONSTANTS
    j1 = j1  j2 = j2  j3 = j3  k1 = k1  k2 = k2  r1 = r1  none = none
    c1 = c1  c2 = c2  c3 = c3  w1 = w1
    JobId <- TwoJobs
    Key <- TwoKeys
    Resource <- OneResource
    NoResource = none
    Time <- Origin
    Term = 2
    MaxLease = 2
    MaxEvents = 5
    Command <- TwoCommands
    Waiter <- OneWaiter
    KeyOf <- Keys
    ResourceOf <- Resources
    Mortal <- OneDies
    Beat = 1
    MaxMissed = 0
    MaxSteps = 0
PROPERTIES EveryoneReturns
