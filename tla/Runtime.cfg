CONSTANTS
    Channels = {1, 2}
    Budget = 1
    MaxUnread = 2
    HasTimeout = TRUE
    HasGrace = TRUE
    Queues = {1, 2}
    Jobs = {1}
    Runs = {1, 2}
    None = None
    MaxAttempts = 1
    MaxLimit = 1
    MaxDef = 0
    Blocking = {}
    JobType <- MCJobType
    TypeLimit <- MCTypeLimit
    Keys = {k}
    NoKey = NoKey
    BatchSize = 1
    MaxStops = 1
    Connections = {1, 2}
    Units = {1, 2}
    MaxDbFaults = 3
    Params = 2
    ResultRows = 2
    BindValues = {1, 2}
SPECIFICATION RuntimeSpec
INVARIANTS
    RunIsSound
    ReplayIsConsistent
    TransactionsAreSafe
    
PROPERTIES
    StoppingIsOrderly
    
CHECK_DEADLOCK FALSE
