SPECIFICATION Spec
CONSTANTS
    w1 = w1
    w2 = w2
    w3 = w3
    j1 = j1
    j2 = j2
    NoJob = NoJob
    Jobs = {j1}
    Workers = {w1, w2, w3}
    Inline = {w3}
    LeaseTTL <- MCLeaseTTL
    Skew <- MCSkew
    RetryDelay = 1
    Second = 1
    FractionRank <- MCExactOrder
    MaxClock = 5
    LastPage = 2
    PageRows <- MCPageRows
    Stalls = {1, 2}
SYMMETRY MCPollerSymmetry
INVARIANTS
    ChunksContiguous
    OrderedDespiteStalls
    FenceUnique
PROPERTIES
    AttemptsCounted
    LiveLeaseKept
    EndedIsFinal
CHECK_DEADLOCK FALSE
