CONSTANTS
    I32Max = 3
    U32Max = 5
    I64Max = 7
    U64Max = 15
    PageMax = 2
    SliceMax = 3
    SecretMax = 3
    Bytes = {0, 65, 255}
    Symbols = {0, 1, 16, 63, 64}
    MaxWorld = 2
    MaxWrong = 1
    MaxTries = 3
    MaxOthers = 1
    MaxMeddling = 1
    ListIds = {1, 2, 3, 4}
    MaxEntries = 2
    Lifetime = 2
    Budget = 2
    Retained = 2
    MaxTrouble = 2
SPECIFICATION ClientsSpec
INVARIANTS
    WireAgrees
    
    SessionTellsTruth
    
    
CHECK_DEADLOCK FALSE
