CONSTANTS
    Queues = {q1}
    Jobs = {j1, j2}
    Runs = {r1, r2, r3}
    None = None
    MaxAttempts = 2
    MaxLimit = 2
    MaxDef = 0
    Blocking = {j1, j2}
    JobType <- AllCli
    TypeLimit <- OneEach
    Requests <- LifecycleRequests
SYMMETRY AllSymmetric
SPECIFICATION ScopedSpec
INVARIANTS
    TypeOK
    RestartIsAccepted
    ExecutionMatchesStore
    SuspensionIsExact
    AttemptsWithinLimit
PROPERTIES
    CancellationIsHonoured
    HistoryIsImmutable
    WithinLimits
