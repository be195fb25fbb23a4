CONSTANTS
    Inverters = {own, other, third}
    Entries = {own, None}
    None = None
    Writers = {w1, w2}
    FailedReads = TRUE
SPECIFICATION FairSpec
INVARIANTS TypeOK VerdictIsEnforced
