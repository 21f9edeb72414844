SPECIFICATION Spec
CONSTANTS
  MaxItems = 4
  MaxBytes = 4
  MaxInFlight = 1
  MaxAttempts = 2
  MaxRecords = 3
  MaxBridges = 2
  MaxWatches = 3
  MaxCrashes = 1
  MaxReleases = 0
  MaxFails = 1
  MaxHolds = 1
  MaxFaults = 3
  MaxBacklog = 9
  HandlerMayFail = TRUE
  HasCursor = TRUE
CHECK_DEADLOCK FALSE
INVARIANTS RedeliveryWindow OwnerIsNotReplacedBack NoGhostState
PROPERTY HandledInOrder
