CONSTANTS
    None = None
    Power = 1
    Resolution = 0
    Tolerance = 0
    MinReads = 3
    MinRise = 1
    DayLength = 2
    HeldFor = 2
    Start = 4
    Wild = 40
    Targets = {0, 6}
    MaxTime = 5
    MaxEvents = 2
SPECIFICATION Spec
INVARIANTS HonestCounterIsShown TodayFollowsTheDevice TakenCountsOn
PROPERTIES NeverFallsByItself
CHECK_DEADLOCK FALSE
