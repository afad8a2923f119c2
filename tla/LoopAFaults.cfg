SPECIFICATION Spec
CONSTANTS
    bg = bg
    api = api
    s1 = s1
    s2 = s2
    Runners = {bg, api}
    Signals = {s1}
    Sides = {"buy", "sell"}
    Entry = 10
    Prices = {6, 10, 15}
    Gaps = {3, 6}
    Faults <- AllFaults
    Live = {TRUE, FALSE}
    MaxSold = 6
INVARIANTS RecordedIsSold PositionIsBacked EntryOnce
CHECK_DEADLOCK FALSE
