SPECIFICATION Spec
CONSTANTS
    Clients = {c1, c2}
    Paths = {public}
    Tokens = {t1, t2}
    NoToken = NoToken
    Byte <- MCByte
    Registered <- TwoFiles
    Punches = 1
    Duplicating = TRUE
    LossyKinds = {}
    MaxLosses = 0
    Faults = {"disk", "terminate"}
    PayloadSize = 2
    Served <- EachEdited
    MaxRuns = 2
    MaxRetries = 3
    Prompt = FALSE
    t1 = t1
    t2 = t2
    t3 = t3
INVARIANTS
    
    OutputIsPrefix
    IntactFileNeverMismatches
    OneChunkInFlight
    
    ReportMeansAllTaken
SYMMETRY Receivers
CHECK_DEADLOCK FALSE
