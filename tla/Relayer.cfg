CONSTANTS
    MaxCalls = 20
    Lag = 10
    HeightBits = 5
    MaxHeight = 14
    OverflowChecks = FALSE
SPECIFICATION Spec
CHECK_DEADLOCK FALSE
INVARIANTS
    RequestsBehindTip
