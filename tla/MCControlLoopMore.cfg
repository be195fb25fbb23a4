CONSTANTS
    BatteryCommands = {b1, b2}
    FeedCommands = {f1}
    Automatic = Automatic
    None = None
    Overrides = {b2}
    Users = {u1}
    Poll = Poll
    Switch = Switch
    Troubles = {{}, {"overlap"}, {"undelivered", "unanswered", "lapse", "saver"}}
    Reports = FALSE
    DampingPolls = 2
    FollowResends = 1
SPECIFICATION Spec
INVARIANTS TypeOK
PROPERTIES OnlyTheWordSettles
