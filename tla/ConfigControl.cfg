SPECIFICATION Spec
CONSTANTS
    Threads = {t1, t2}
    Keys <- MCKeys
    Known <- MCKnown
    ReadOnly <- MCReadOnly
    ConfirmKeys <- MCConfirmKeys
    WebOnly <- MCWebOnly
    Threshold = "liquidity_threshold"
    Values = {0, 1, 2}
    Allowed <- MCAllowed
    Default <- MCDefault
    Symbols = {"low", "high"}
    Turnover <- MCTurnover
    MaxCalls = 3
    MaxFaults = 2
SYMMETRY Symmetry
INVARIANTS SettingsAgree StoredIsValid 
CHECK_DEADLOCK FALSE
