SPECIFICATION Spec
CONSTANTS
    p1 = p1
    Patches <- OnePatch
    MaxRuns = 2
    MaxReviews = 2
    MaxRetries = 1
    WritesFail = TRUE
    TasksPanic = TRUE
INVARIANTS
    IInv
    MailReportsReview
    CancelledIsQuiet
CONSTRAINTS LastTaskLives WaitsInOneWay
PROPERTIES
    LostForGood
    IdsAreNeverReused
CHECK_DEADLOCK FALSE
