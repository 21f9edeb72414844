SPECIFICATION FairSpec
CONSTANTS
  MaxItems = 4
  MaxBytes = 4
  MaxInFlight = 1
  MaxAttempts = 2
  MaxRecords = 3
  MaxBridges = 2
  MaxWatches = 2
  MaxCrashes = 1
  MaxReleases = 1
  MaxFails = 1
  MaxHolds = 1
  MaxFaults = 1
  MaxBacklog = 9
  HandlerMayFail = TRUE
  HasCursor = FALSE
CHECK_DEADLOCK FALSE
INVARIANTS NothingSkipped RedeliveryWindow OwnerIsNotReplacedBack
PROPERTIES HandledInOrder Delivered
