SPECIFICATION Spec
CONSTANTS
    p1 = p1
    p2 = p2
    a1 = a1
    a2 = a2
    b1 = b1
    A = A
    B = B
    NoJob = NoJob
    NoPoller = NoPoller
    Jobs = {a1, b1}
    Workspaces = {A, B}
    WorkspaceOf <- MCWorkspaceOf
    Pollers = {p1, p2}
    Closing = {p2}
    BatchSize <- MCBatchSize
    MaxAttempts = 2
    MaxFaults = 1
INVARIANTS
    TypeOK
    ShutdownReturnsJobs
PROPERTIES
    EveryJobEnds
    CloseStops
