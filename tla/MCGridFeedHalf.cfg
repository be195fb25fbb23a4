CONSTANTS
    Caps = {0, 1, 2}
    None = None
    Races = {"half"}
SPECIFICATION Spec
INVARIANTS OwnSettingsAreNotLost
