SPECIFICATION Spec
CONSTANTS
    x = x
    y = y
    BootKeys <- DailyThenMinutes
    FillKeys <- DailyOnly
    LoopKeys = {2}
    Retries = 1
    LastBar = 2
    Symbols = {x, y}
    Kospi200 = {x}
    Kosdaq150 = {y}
    Targets <- OneOfTwo
    Upserts <- PlainAndBlocked
    MaxCalls = 4
INVARIANTS NoGaps BlockIsKept RebalanceIsExact
PROPERTY CatchesUp
CHECK_DEADLOCK FALSE
