SPECIFICATION CentralSpec
CONSTANTS
    Callers = {p1, p2}
    Nobody = Nobody
    Threads = {w1, w2}
    Ids = {t1}
    Contents = {a}
    NoRow = NoRow
    NoSignal = NoSignal
    Kinds = {"lookup", "register"}
    MaxJobs = 2
    Failures = {}
    Racing = TRUE
INVARIANTS
    CreatedMeansStored
SYMMETRY MCSymmetry
CHECK_DEADLOCK FALSE
