\* Three tests, at most two failures or cancellations in one run.
SPECIFICATION FairSpec
CONSTANTS
    None = None
    Default = Default
    ByBattery = ByBattery
    BySystem = BySystem
    BatteryPower = BatteryPower
    SystemPower = SystemPower
    Tests <- MCTests
    Keys <- MCKeys
    Power = 2
    MinPower = 2
    MaxPower = 3
    MinAchievable = 1
    Tolerance = 0
    Firmwares <- MCFirmwares
    Flows <- MCFlows
    Caps <- MCCaps
    Found <- MCFound
    Damping = 2
    Settle = 3
    MaxRuns = 1
    MaxFaults = 2
INVARIANTS
    ReleasedInTheEnd
    VerdictsAreEarned
PROPERTIES
    LeftAsFound
    CancelIsObeyed
    RunsEnd
CHECK_DEADLOCK FALSE
