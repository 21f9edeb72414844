SPECIFICATION FairSpec
CONSTANTS
  w1 = w1
  Waiters <- OneWaiter
  MaxItems = 3
  MaxBytes = 3
  MaxInFlight = 1
  MaxAttempts = 2
  MaxEvents = 4
CHECK_DEADLOCK FALSE
INVARIANTS NothingLost InOrder CoalescesWithinBoundary
PROPERTY DrainReturns
