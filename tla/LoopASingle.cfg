SPECIFICATION FairSpec
CONSTANTS
    bg = bg
    api = api
    s1 = s1
    s2 = s2
    Runners = {bg}
    Signals = {s1, s2}
    Sides = {"buy"}
    Entry = 10
    Prices = {6, 10, 15, 18}
    Gaps = {3, 6, 12}
    Faults = {}
    Live = {TRUE, FALSE}
    MaxSold = 4
INVARIANT BookMatchesBroker
PROPERTIES StateMovesForward StopLossHappens TakeProfitHappens
CHECK_DEADLOCK FALSE
