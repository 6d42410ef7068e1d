SPECIFICATION FairSpec
CONSTANTS
    p1 = p1
    Patches <- OnePatch
    MaxRuns = 2
    MaxTime = 1
    MaxFaults = 1
    ClaimAge = 1
    IsPR = TRUE
INVARIANT
    IInv
PROPERTIES
    EmbargoHolds
    ReleaseIsComplete
    ReleasedEventually
CHECK_DEADLOCK FALSE
