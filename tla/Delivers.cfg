SPECIFICATION Spec
CONSTANTS
    Clients = {c1, c2}
    Paths = {public, local}
    Tokens = {t1, t2, t3}
    NoToken = NoToken
    Byte <- MCByte
    Registered <- Boundaries
    Punches = 2
    Duplicating = TRUE
    LossyKinds = {}
    MaxLosses = 0
    Faults = {"lookup", "open", "disk", "terminate"}
    PayloadSize = 2
    Served <- MCEdited
    MaxRuns = 1
    MaxRetries = 5
    Prompt = FALSE
    t1 = t1
    t2 = t2
    t3 = t3
INVARIANTS
    TypeOK
    CompleteMeansIntact
    OutputIsPrefix
    IntactFileNeverMismatches
    OneChunkInFlight
    PeerFilterKeepsChunks
    ReportMeansAllTaken
PROPERTIES
    Delivers
CHECK_DEADLOCK FALSE
