CONSTANTS
    b1 = b1
    b2 = b2
    w1 = w1
    w2 = w2
    Bugs = {b1, b2}
    Workers = {w1, w2}
    Touching <- SecondTouchesOne
    MaxHead = 2
    BatchSize = 1
    ChunkSize = 2
    MaxChunks = 2
    TTL = 2
    Cooldown = 1
    PromptTimers = TRUE
    MaxFaults = 1
SPECIFICATION Spec
SYMMETRY Symmetric
CONSTRAINT OneOfInterest
INVARIANTS
    IInv
    
    SessionsUndisturbed
PROPERTIES
    MovesAsAgreed
CHECK_DEADLOCK FALSE
