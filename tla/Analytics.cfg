SPECIFICATION Spec
CONSTANTS
    s1 = s1
    s2 = s2
    c1 = c1
    c2 = c2
    Times = {1, 2, 4}
    Assets = {0, 5}
    Amounts = {3}
    Trades <- TradeKinds
    Thresholds = {3}
    Tolerance = 1
    DayLength = 2
    MinSignals = 2
    MinDays = 2
    Capital = 20
    Positions <- ClosedOnes
    MatchWithin = 0
    MaxSnaps = 3
    MaxFlows = 1
    MaxTrades = 3
    MaxRuns = 2
    MaxRows = 4
    Clients = {c1, c2}
    RingSize = 2
    ServerShift = 1
    HostShift = 0
    WeekLength = 2
    Span = 2
    MaxHalves = 3
    MaxIncidents = 3
    Stages = {"market", "post_market"}
    MaxCycles = 2
    MaxChecks = 2
INVARIANTS ChangesDetectedOnce CurveMatchesReport PaperReportsAreSound OperatorIsInformed
CHECK_DEADLOCK FALSE
