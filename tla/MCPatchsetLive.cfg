SPECIFICATION FairSpec
CONSTANTS
    p1 = p1
    Patches <- OnePatch
    MaxRuns = 2
    MaxReviews = 2
    MaxRetries = 0
    WritesFail = FALSE
    TasksPanic = FALSE
PROPERTIES
    MovesAsAgreed
    EventuallyDecided
    ClaimsEnd
CHECK_DEADLOCK FALSE
