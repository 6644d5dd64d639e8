SPECIFICATION FairSpec
CONSTANTS
    Clients = {c1}
    Paths = {public, local}
    Tokens = {t1, t2, t3}
    NoToken = NoToken
    Byte <- MCByte
    Registered <- Boundaries
    Punches = 1
    Duplicating = FALSE
    LossyKinds = {"punch", "client_hello", "get", "ack", "data"}
    MaxLosses = 2
    Faults = {}
    PayloadSize = 2
    Served <- MCUnedited
    MaxRuns = 1
    MaxRetries = 5
    Prompt = TRUE
    t1 = t1
    t2 = t2
    t3 = t3
PROPERTIES
    TransferCompletes
    SenderExits
CHECK_DEADLOCK FALSE
