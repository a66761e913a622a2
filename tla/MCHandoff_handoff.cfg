SPECIFICATION Spec
CHECK_DEADLOCK FALSE
CONSTANTS
  Facts = {f1}
  Namespaces = {n1}
  None = None
  Bad = Bad
  HeadTurns = 1
  TailTurns = 1
  MaxEntries = 4
  MaxMemories = 1
  Written = {"file", "decision", "next_action"}
  SectionItems = 1
  BriefItems = 2
  Start <- Begun
  MaxLines = 5
  MaxPrepares = 2
  MaxLocal = 1
  CopyWhileReading = FALSE
INVARIANTS
  AppliedOnce
  CoverageComplete
  BriefResolves
PROPERTIES
  RecordsComeWithLedger
  Received
