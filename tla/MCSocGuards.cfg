CONSTANTS
    Top = 4
    Hysteresis = 3
    Return = 2
    PackMargin = 1
    ChargeLimits = {3, 4}
    Reserves = {0, 1}
    None = None
    Misreads = TRUE
SPECIFICATION Spec
INVARIANTS LimitsAreKept
PROPERTIES StopsDoNotFlicker
