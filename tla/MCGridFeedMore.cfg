CONSTANTS
    Caps = {0, 1, 2}
    None = None
    Races = {}
SPECIFICATION FairSpec
INVARIANTS TypeOK
PROPERTIES NewSettingsAreAdopted
