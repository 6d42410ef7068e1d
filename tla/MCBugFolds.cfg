CONSTANTS
    b1 = b1
    b2 = b2
    b3 = b3
    r1 = r1
    r2 = r2
    Bugs = {b1, b2}
    Reviews = {r1}
    ReviewOf <- OneReview
    NoBug = NoBug
    MaxAttempts = 2
    TTL = 2

SPECIFICATION Spec
SYMMETRY Symmetric
CONSTRAINT OneRetriedBug
INVARIANTS
    IInv
    TriageSurvives
    NeverStranded
    Acyclic
PROPERTIES
    WritersNeverRegress
    LeaseIsHonoured
    LinksFollowFolds
    MovesAsAgreed
