SPECIFICATION Spec
CONSTANTS
    MaxGap = 2
    MaxGen = 2
    MaxDoc = 2
    MaxData = 2
    MaxPushes = 1
CHECK_DEADLOCK FALSE
INVARIANT RosterAgrees
