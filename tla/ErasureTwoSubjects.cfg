SPECIFICATION ErasureSpec
CONSTANTS
    w1 = w1
    w2 = w2
    j1 = j1
    j2 = j2
    s1 = s1
    s2 = s2
    q1 = q1
    q2 = q2
    NoJob = NoJob
    NoRequest = NoRequest
    Jobs = {j1, j2}
    Workers = {w1}
    Inline = {}
    LeaseTTL <- MCLeaseTTL
    Skew <- MCNoSkew
    RetryDelay = 1
    Second = 1
    FractionRank <- MCExactOrder
    MaxClock = 3
    LastPage = 1
    PageRows <- MCPageRows
    Stalls = {}
    Subjects = {s1, s2}
    SubjectOf <- MCSubjectOf
    Requests = {q1, q2}
    OnHold = {}
INVARIANTS
    ErasureTypeOK
    FencedSubjectIdle
PROPERTIES
    OthersUntouched
CHECK_DEADLOCK FALSE
