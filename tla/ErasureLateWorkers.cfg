SPECIFICATION DownloadSpec
CONSTANTS
    w1 = w1
    w2 = w2
    j1 = j1
    s1 = s1
    s2 = s2
    q1 = q1
    q2 = q2
    q3 = q3
    d1 = d1
    NoJob = NoJob
    NoRequest = NoRequest
    Jobs = {j1}
    Workers = {w1, w2}
    Inline = {}
    LeaseTTL <- MCLeaseTTL
    Skew <- MCNoSkew
    RetryDelay = 1
    Second = 1
    FractionRank <- MCExactOrder
    MaxClock = 4
    LastPage = 1
    PageRows <- MCPageRows
    Stalls = {}
    Subjects = {s1, s2}
    SubjectOf <- MCSubjectOf
    Requests = {q1, q2, q3}
    OnHold = {q3}
    Readers = {d1}
SYMMETRY MCSymmetry
INVARIANTS
    ErasedStaysErased
    InventoryExact
    DownloadWhole
CHECK_DEADLOCK FALSE
