SPECIFICATION ArtifactSpec
CONSTANTS
    w1 = w1
    w2 = w2
    j1 = j1
    NoJob = NoJob
    Jobs = {j1}
    Workers = {w1, w2}
    Inline = {}
    LeaseTTL <- MCLeaseTTL
    Skew <- MCNoSkew
    RetryDelay = 1
    Second = 1
    FractionRank <- MCExactOrder
    MaxClock = 5
    Builds <- MCBuilds
    ChunkSize = 2
SYMMETRY MCWorkerSymmetry
INVARIANTS
    ArtifactTypeOK
    PublishedIsABuild
    CursorTruthful
CHECK_DEADLOCK FALSE
