SPECIFICATION Spec
CHECK_DEADLOCK FALSE
CONSTANTS
  Facts = {f1}
  Namespaces = {n1, n2}
  None = None
  Bad = Bad
  HeadTurns = 1
  TailTurns = 1
  MaxEntries = 4
  MaxMemories = 1
  Written = {"file", "decision"}
  SectionItems = 1
  BriefItems = 1
  Start <- Begun
  MaxLines = 5
  MaxPrepares = 2
  MaxLocal = 1
  CopyWhileReading = FALSE
PROPERTIES
  ReceivedInNamespace
