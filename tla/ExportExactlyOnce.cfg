SPECIFICATION Spec
CONSTANTS
    w1 = w1
    w2 = w2
    w3 = w3
    j1 = j1
    j2 = j2
    NoJob = NoJob
    Jobs = {j1}
    Workers = {w1, w2}
    Inline = {}
    LeaseTTL <- MCLeaseTTL
    Skew <- MCNoSkew
    RetryDelay = 1
    Second = 1
    FractionRank <- MCExactOrder
    MaxClock = 7
    LastPage = 3
    PageRows <- MCPageRows
    Stalls = {}
SYMMETRY MCWorkerSymmetry
INVARIANTS
    TypeOK
    ExactlyOnce
    ArtifactIdentity
    CompletionsAgree
PROPERTIES
    ProgressKept
    KeepsPromise
CHECK_DEADLOCK FALSE
