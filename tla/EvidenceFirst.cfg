SPECIFICATION Spec
CONSTANTS
  Prompted <- JustA
  Inspected <- JustB
  States <- Eight
  MaxEdits <- EditBoth
  MaxAttempts = 1
  MaxPrompts = 1
  MaxDetails = 1
INVARIANTS FirstCheckedIsCurrent
CHECK_DEADLOCK FALSE
