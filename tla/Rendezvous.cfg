SPECIFICATION RendezvousFairSpec
CONSTANTS
    Senders = {s1}
    Receivers = {r1, r2}
    NoSecret = NoSecret
    MaxPolls = 2
    Callers <- MCCallers
    Nobody = Nobody
    Threads = {w1}
    Ids = {s1}
    Contents <- MCCallers
    NoRow = NoRow
    NoSignal = NoSignal
    Kinds <- MCKinds
    MaxJobs = 1
    Failures = {"restart", "caller"}
    Racing = FALSE
INVARIANTS
    RendezvousTypeOK
    FoundItsReceiver
PROPERTIES
    Meets
    
    ReceiverProceeds
    SignalIsFound
CHECK_DEADLOCK FALSE
