SPECIFICATION Spec
CONSTANTS
    p1 = p1
    Patches <- OnePatch
    MaxRuns = 1
    MaxTime = 1
    MaxFaults = 1
    ClaimAge = 1
    IsPR = TRUE
INVARIANT
    ReleasedIsPublished
CHECK_DEADLOCK FALSE
