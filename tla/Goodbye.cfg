SPECIFICATION Spec
CONSTANTS
    Clients = {c1}
    Paths = {public}
    Tokens = {t1}
    NoToken = NoToken
    Byte <- MCByte
    Registered <- ShortLast
    Punches = 1
    Duplicating = TRUE
    LossyKinds = {}
    MaxLosses = 0
    Faults = {"lookup"}
    PayloadSize = 2
    Served <- MCUnedited
    MaxRuns = 1
    MaxRetries = 3
    Prompt = FALSE
    t1 = t1
    t2 = t2
    t3 = t3
INVARIANTS
    GoodbyeMeansReported
CHECK_DEADLOCK FALSE
