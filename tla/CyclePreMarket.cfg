SPECIFICATION Spec
CONSTANTS
    Background = bg
    Requests = {}
    Tickers = {1, 2}
    Offsets <- AroundZero
    StartTime = 478
    MaxTime = 481
    MaxCycles = 3
    Faults = {"sync", "db", "scan", "stop"}
INVARIANT ScannedOnce
PROPERTY CycleEnds
CHECK_DEADLOCK FALSE
