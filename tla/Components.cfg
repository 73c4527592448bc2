CONSTANTS
    Shares = {1, 2, 3}
    Weights = {1, 2}
    Threads = {t1, t2}
    NoThread = NoThread
    Objects = {1, 2}
    ParentOf <- MCParentOf
    MaxPosts = 3
    TimedRuns = {1, 2}
    ManualRuns = {2}
    Threshold = 1
    CheckBatch = 1
    MaxTick = 3
    MaxEpochs = 2
    Origins <- MCOrigins
    MaxRedirects = 2
    HeaderBytes = 3
    HttpIds = {1, 2}
    TimeoutOf <- MCTimeoutOf
    Horizon = 3
    MaxLegs = 1
    MaxHttpFaults = 1
SPECIFICATION ComponentsSpec
INVARIANTS
    SharesAreFair
    LoopKeepsPromises
    WaitIsTrue
    
    TransfersAccounted
CHECK_DEADLOCK FALSE
