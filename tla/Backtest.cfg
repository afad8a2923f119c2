SPECIFICATION Spec
CONSTANTS
    MaxJobs = 2
    MaxStarts = 3
    MaxSignals = 2
    Polls = 1
    ApiSignals = {0}
    DashboardSignals = {0}
    LastDay = 2
    Enabled = TRUE
    Candles <- Bars
    MaxCandles = 4
    AtrPeriod = 2
    StopMult = 3
    TpMult = 4
    TrailMult = 3
    Slippage = 2
    Shapes <- FeedBars
    MaxStored = 5
    Recent = 3
    FastEma = 1
    MidEma = 2
    SlowEma = 3
    Lookback = 2
    Starts = {540, 561, 885}
    MaxLate = 1
INVARIANTS TableKeepsNewest ScheduledOncePerDay JobOutcomes SameSignalsSameExits
PROPERTIES RowsMoveForward EverythingEnds
CHECK_DEADLOCK FALSE
