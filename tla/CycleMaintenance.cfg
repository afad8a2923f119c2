SPECIFICATION Spec
CONSTANTS
    Background = bg
    Requests = {api}
    Tickers = {1}
    Offsets = {0}
    StartTime = 959
    MaxTime = 961
    MaxCycles = 4
    Faults = {"loopA", "db", "scan", "stop", "operator"}
INVARIANTS MarkedIsScanned MaintainedOnce FailureStaysHalted
CHECK_DEADLOCK FALSE
