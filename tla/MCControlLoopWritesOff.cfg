CONSTANTS
    BatteryCommands = {b1}
    FeedCommands = {f1}
    Automatic = Automatic
    None = None
    Overrides = {}
    Users = {u1}
    Poll = Poll
    Switch = Switch
    Troubles = {{}}
    Reports = FALSE
    DampingPolls = 2
    FollowResends = 1
SPECIFICATION Spec
PROPERTIES NothingIsWrittenWhenOff
