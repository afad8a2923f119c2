SPECIFICATION Spec
CONSTANTS
    Ips = {a}
    Codes = {c1, c2}
    SessionIds = {s1, s2}
    OtpTtl = 1
    Window = 3
    RequestLimit = 2
    LockTime = 4
    FailLimit = 2
    VerifyLock = 3
    SessionTtl = 1
    MaxTime = 7
    MaxIssues = 5
SYMMETRY Symmetry
INVARIANTS OneSessionPerCode BurstBounded FailuresSpaced
CHECK_DEADLOCK FALSE
