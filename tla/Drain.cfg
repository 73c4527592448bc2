CONSTANTS
    Queues = {q1}
    Jobs = {j1}
    Runs = {r1, r2, r3}
    None = None
    MaxAttempts = 2
    MaxLimit = 1
    MaxDef = 0
    Blocking = {j1}
    JobType <- AllCli
    TypeLimit <- OneEach
    Requests <- DrainRequests
SPECIFICATION FairSpec
PROPERTIES
    RequestsEnd
