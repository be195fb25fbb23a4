CONSTANTS
    r1 = r1
    r2 = r2
    r3 = r3
    o1 = o1
    o2 = o2
    o3 = o3
    derived = derived
    Unset = Unset
    Registers <- MCRegisters
    Optional <- MCOptional
    Address <- MCAddress
    Size <- MCSize
    Avoid = {4}
    MaxGap = 2
    MaxSpan = 4
    OwnKeys <- MCOwnKeys
    Contexts <- MCContexts
    StallsToDrop = 2
    Mixed = TRUE
    MaxFirmware = 1
    MaxFaults = 0
SPECIFICATION FairPlanSpec
PROPERTIES PollsGoOnSucceeding
