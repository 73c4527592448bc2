SPECIFICATION Spec
CONSTANTS
    Sessions = {1, 2}
    Calls = {1, 2}
    Mutations = {1, 2}
    MaxPending = 2
    OutLimit = 1
    MaxConnections = 1
    MaxFaults = 1
    Plans <- MCPlans
    NoKey = ""
INVARIANT CancelIsConservative
CHECK_DEADLOCK FALSE
