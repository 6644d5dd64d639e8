SPECIFICATION ClientFairSpec
CONSTANTS
    Clients = {c1}
    Paths = {public, local}
    Tokens = {t1}
    NoToken = NoToken
    Byte <- MCByte
    Registered <- ShortLast
    Punches = 1
    Duplicating = FALSE
    LossyKinds = {}
    MaxLosses = 0
    Faults = {"lookup", "open", "disk", "terminate"}
    PayloadSize = 2
    Served <- MCUnedited
    MaxRuns = 1
    MaxRetries = 3
    Prompt = FALSE
    t1 = t1
    t2 = t2
    t3 = t3
INVARIANTS
    AckedByPeer

    
CHECK_DEADLOCK FALSE
