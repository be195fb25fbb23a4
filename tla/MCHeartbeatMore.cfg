CONSTANTS
    Callers = {c1}
    Loop = Loop
    Free = Free
    Window = 9
    Interval = 2
    Jitter = 1
    Reuse = 1
    MinGap = 1
    UnsupportedRetry = 10
    RetryDelay = 1
    Retries = 1
    Timeout = 1
SPECIFICATION FairSpec
INVARIANTS TypeOK InControlIsGranted
PROPERTIES NoRedundantBeat OnlyCommandsBeatAfterStop
