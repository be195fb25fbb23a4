CONSTANTS
    BatteryCommands = {b1}
    FeedCommands = {}
    Automatic = Automatic
    None = None
    Overrides = {}
    Users = {u1}
    Poll = Poll
    Switch = Switch
    Troubles = {{"lapse"}}
    Reports = TRUE
    DampingPolls = 2
    FollowResends = 1
SPECIFICATION FairSpec
PROPERTIES ItSettles UnfollowedIsNoticed
