SPECIFICATION FairService
CONSTANTS
    Nil = Nil
    Clients = {r1, r2}
    Snapshots = {s}
    MaxConcurrent = 1
    MaxStarts = 2
INVARIANTS
    SlotsExact
    Recoverable
    CleanExit
PROPERTIES
    OverloadIsReal
    Stops
CHECK_DEADLOCK FALSE
