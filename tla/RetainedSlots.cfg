CONSTANTS
    Queues = {q1}
    Jobs = {j1, j2}
    Runs = {r1, r2, r3}
    None = None
    MaxAttempts = 2
    MaxLimit = 1
    MaxDef = 0
    Blocking = {j1, j2}
    JobType <- AllCli
    TypeLimit <- TwoEach
    Requests <- CapacityRequests
SYMMETRY AllSymmetric
SPECIFICATION Spec
PROPERTIES StartsWithinLimit
