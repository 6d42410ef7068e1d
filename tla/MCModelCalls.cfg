SPECIFICATION FairSpec
CONSTANTS
    r1 = r1
    c1 = c1
    c2 = c2
    Calls = {c1, c2}
    Reviews = {r1}
    ReviewOf <- OneReview
    Permits = {1, 2}
    Timeout = 1
    MaxAttempts = 2
    LimitSets <- NoneOrBoth
    Timings = {TRUE, FALSE}
    MaxTime = 2
    MaxErrors = 2
INVARIANTS IInv CreditIsIdleTime
PROPERTIES SlotsAreNotShared EveryCallEnds
CHECK_DEADLOCK FALSE
