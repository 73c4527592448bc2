CONSTANTS
    Queues = {q1, q2}
    Jobs = {j1}
    Runs = {r1, r2}
    None = None
    MaxAttempts = 2
    MaxLimit = 1
    MaxDef = 0
    Blocking = {j1}
    JobType <- AllCli
    TypeLimit <- OneEach
    Requests <- MoveRequests
SYMMETRY AllSymmetric
SPECIFICATION Spec
INVARIANTS QueueSuspensionIsExact
