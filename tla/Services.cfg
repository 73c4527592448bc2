CONSTANTS
    Keys = {c1, c2, h1}
    Cli = {c1, c2}
    Ids = {i1, i2, i3, i4}
    None = None
    Daemons = {d1, d2}
    NoDaemon = NoDaemon
    MaxBoots = 2
    MaxDaemonFaults = 1
    MaxReplaced = 1
SPECIFICATION ServicesSpec
INVARIANTS
    ExecutorsAgree
    DaemonIsExclusive
PROPERTIES
    KeepsContract
    StopEnds
CHECK_DEADLOCK FALSE
