SPECIFICATION Spec
CONSTANTS
  Prompted <- JustA
  Inspected <- JustA
  States <- Eight
  MaxEdits <- NoEdit
  MaxAttempts = 0
  MaxPrompts = 1
  MaxDetails = 1
INVARIANTS NothingLeaks
CHECK_DEADLOCK FALSE
