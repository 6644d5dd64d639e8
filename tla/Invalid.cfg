SPECIFICATION RendezvousSpec
CONSTANTS
    Senders = {s1}
    Receivers = {r1, r2}
    NoSecret = NoSecret
    MaxPolls = 2
    Callers <- MCCallers
    Nobody = Nobody
    Threads = {w1, w2}
    Ids = {s1}
    Contents <- MCCallers
    NoRow = NoRow
    NoSignal = NoSignal
    Kinds <- MCKinds
    MaxJobs = 2
    Failures = {}
    Racing = FALSE
INVARIANTS
    InvalidMeansUnknown
SYMMETRY MCSymmetry
CHECK_DEADLOCK FALSE
