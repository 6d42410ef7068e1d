SPECIFICATION FairSpec
CONSTANTS
    a1 = a1
    h1 = h1
    Articles <- OneArticle
    Hooks <- OneHook
    Poller = poller
    N = 2
    MaxRetries = 2
    Capacity = 3
    MaxFaults = 1
INVARIANTS
    IInv
PROPERTIES
    DecidedStays
    MovesAsAgreed
    
