CONSTANTS
    b1 = b1
    b2 = b2
    b3 = b3
    r1 = r1
    r2 = r2
    Bugs = {b1}
    Reviews = {r1}
    ReviewOf <- OneReview
    NoBug = NoBug
    MaxAttempts = 3
    TTL = 3

SPECIFICATION FairSpec
PROPERTIES
    EveryBugIsAnExclusiveJob
    EventuallySettled
