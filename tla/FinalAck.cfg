SPECIFICATION Spec
CONSTANTS
    Clients = {c1}
    Paths = {public}
    Tokens = {t1}
    NoToken = NoToken
    Byte <- MCByte
    Registered <- ShortLast
    Punches = 1
    Duplicating = FALSE
    LossyKinds = {"done"}
    MaxLosses = 1
    Faults = {}
    PayloadSize = 2
    Served <- MCUnedited
    MaxRuns = 1
    MaxRetries = 3
    Prompt = TRUE
    t1 = t1
    t2 = t2
    t3 = t3
INVARIANTS
    FinalAckMeansComplete
CHECK_DEADLOCK FALSE
