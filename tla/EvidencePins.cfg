SPECIFICATION Spec
CONSTANTS
  Prompted <- JustA
  Inspected <- JustA
  States <- Eight
  MaxEdits <- NoEdit
  MaxAttempts = 0
  MaxPrompts = 1
  MaxDetails = 1
INVARIANTS UsedIsPinned
CHECK_DEADLOCK FALSE
