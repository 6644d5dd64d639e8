SPECIFICATION CentralFairSpec
CONSTANTS
    Callers = {p1}
    Nobody = Nobody
    Threads = {w1, w2}
    Ids = {t1}
    Contents = {a, b}
    NoRow = NoRow
    NoSignal = NoSignal
    Kinds = {"lookup", "getfile", "register", "post_signal", "get_signal"}
    MaxJobs = 1
    Failures = {"database", "restart", "caller"}
    Racing = FALSE
INVARIANTS
    CentralTypeOK
    NoLeftovers
    NoCallForgotten
    CreatedMeansStored
    TrueMeansStored
    MetadataMeansClaimed
PROPERTIES
    RowsStay
    EveryCallAnswered
CHECK_DEADLOCK FALSE
