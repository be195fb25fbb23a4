CONSTANTS
    Surpluses <- AnySurplus
    Limits <- MCLimits
    NoReading = NoReading
    FallbackMax = 3
    CapMargin = 1
    Unknown = Unknown
    Deadband = 1
    HandbackTime = 2
    HandbackMax = 5
SPECIFICATION FairModeSpec
INVARIANTS TheWalkEnds NeedIsServedAtOnce
PROPERTIES SurplusIsExportedInTheEnd
