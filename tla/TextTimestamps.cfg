SPECIFICATION Spec
CONSTANTS
    w1 = w1
    w2 = w2
    w3 = w3
    j1 = j1
    j2 = j2
    NoJob = NoJob
    Jobs = {j1}
    Workers = {w1, w2}
    Inline = {}
    LeaseTTL <- MCSecondTTL
    Skew <- MCNoSkew
    RetryDelay = 4
    Second = 4
    FractionRank <- MCTextOrder
    MaxClock = 12
    LastPage = 0
    PageRows <- MCFullPages
    Stalls = {}
SYMMETRY MCWorkerSymmetry
PROPERTIES
    LiveLeaseKept
    BackoffKept
CHECK_DEADLOCK FALSE
