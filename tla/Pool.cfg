SPECIFICATION PoolFairSpec
CONSTANTS
    Threads = {w1, w2, w3}
    MaxQueued <- MCMaxQueued
    MaxConnections <- MCMaxConnections
INVARIANTS
    PoolTypeOK
    NoLostWakeup
    JoinedMeansServed
    NoSleepAfterShutdown
PROPERTIES
    PoolIsQueue
    EveryJobRuns
    ShutdownEnds
CHECK_DEADLOCK FALSE
