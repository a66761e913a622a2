SPECIFICATION Spec
CHECK_DEADLOCK FALSE
CONSTANTS
  Limit = 2
  MaxPages = 2
  None = None
  MaxSeq = 5
INVARIANTS
  NothingPassedOver
