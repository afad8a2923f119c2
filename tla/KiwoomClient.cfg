SPECIFICATION KiwoomSpec
CONSTANTS
    Callers = {d1, d2, o1}
    OrderCallers = {o1}
    Attempts = 2
    Margin = 1
    Lifetime = 3
    Jobs <- KiwoomJobs
    Orders <- KiwoomOrders
    MinInterval = 2
    MaxTime = 2
    MaxRefreshers = 2
    MaxFaults = 2
INVARIANTS SpacedAfterSuccess QueueOrder TokensMoveForward
PROPERTY EveryPostEnds
CHECK_DEADLOCK FALSE
