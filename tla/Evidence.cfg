SPECIFICATION FairSpec
CONSTANTS
  Prompted <- JustA
  Inspected <- Both
  States <- Eight
  MaxEdits <- EditB
  MaxAttempts = 2
  MaxPrompts = 1
  MaxDetails = 1
INVARIANTS LastCheckedIsCurrent LeasesReturned
PROPERTIES NamedKeepsItsRef Ends
CHECK_DEADLOCK FALSE
