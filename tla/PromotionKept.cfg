SPECIFICATION Spec
CONSTANTS
    added = added
    changed = changed
    deleted = deleted
    old = old
    new = new
    mine = mine
    missing = missing
    Missing = missing
    Order <- MCOrder
    Base <- MCBase
    Target <- MCTarget
    EditValues = {mine}
    Checkpoint = 2
    MaxJournals = 2
    MaxOps = 2
    MaxEdits = 1
    MaxStops = 2
    MaxFaults = 0
    MaxTears = 0
CHECK_DEADLOCK FALSE
PROPERTY DoneIsKept
