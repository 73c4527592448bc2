CONSTANTS
    Runs = {r1, r2}
    Horizon = 2
    Recheck = 1
    Limit = 1
    Page = 1
    Events = 3
    Workers = {w1, w2}
    Owner = owner
    MaxSignals = 3
    MaxSigFaults = 2
    MonthStarts <- MCMonthStarts
    LeapEvery = 2
    WeekLength = 3
    DayHours = 3
    HourMinutes = 2
    MinuteTicks = 2
    LastYear = 7
    SearchYears = 3
    MinOffset <- MCMinOffset
    MaxOffset = 6
    ZoneFiles <- MCZoneFiles
    Expressions <- MCExpressions
    Bounds <- MCBounds
    Policies <- MCPolicies
    FractionOf <- MCFractionOf
    Transfers <- MCTransfers
    Exits <- MCExits
    Chunks = {1, 4}
    MaxWrites = 2
    MaxCounted = 7
    MaxCode = 4
    MaxStatus = 4
    HintStatuses = {3}
    SecondTicks = 2
    MaxClock = 10
    MaxTime = 12
SPECIFICATION MCSpec
INVARIANTS
    WakeIsExact
    RelayIsClean
    NextIsFirst
    RetriesFollowPolicy
PROPERTIES
    SchedulerProgress
    RelayProgress
CHECK_DEADLOCK FALSE
