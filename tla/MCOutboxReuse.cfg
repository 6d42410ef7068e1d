CONSTANTS
    i1 = i1
    i2 = i2
    Kinds = {"forge"}
    Items = {i1, i2}
    MaxTexts = 3
    MaxFaults = 0
    MaxRetries = 2
    RerunInFlight = TRUE
SPECIFICATION Spec
INVARIANT SentMeansPosted
CHECK_DEADLOCK FALSE
