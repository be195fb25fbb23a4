\* Failures hold after three polls and readings freeze after two units of the clock.
SPECIFICATION ChecksSpec
CONSTANTS
    Nothing = Nothing
    Frames <- MCFrames
    Damping = 3
    FrozenAfter = 2
    Margin = 5
    MaxTime = 7
INVARIANTS
    TheHeldFailureIsShown
    EventsAreTrue
    ADropToZeroIsDistrusted
    AnOutageOutlastsARestart
PROPERTIES
    SinceItBegan
CHECK_DEADLOCK FALSE
