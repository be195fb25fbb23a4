CONSTANTS
    Inverters = {own, other}
    Entries = {own}
    None = None
    Writers = {w1}
    FailedReads = TRUE
SPECIFICATION Spec
PROPERTIES StrangersAreNotWritten
