CONSTANTS
    i1 = i1
    i2 = i2
    Kinds = {"mail", "patchwork", "forge"}
    Items = {i1, i2}
    MaxTexts = 2
    MaxFaults = 1
    MaxRetries = 2
    RerunInFlight = FALSE
SPECIFICATION FairSpec
INVARIANTS IInv
PROPERTIES MovesAsAgreed NothingIsStuck
CHECK_DEADLOCK FALSE
