CONSTANTS
    b1 = b1
    b2 = b2
    b3 = b3
    daemon = daemon
    scan = scan
    Bugs = {b1, b2, b3}
    Procs = {daemon, scan}
    ProcOf <- DaemonAndScan
    DefectOf <- OneDefect
    NoBug = NoBug
    MaxAttempts = 2
    TTL = 3
    PromptTimers = TRUE
    PromptCalls = TRUE

SPECIFICATION FairSpec
INVARIANTS
    IInv
PROPERTIES
    DecidedOneByOne
    AttemptsEnd
