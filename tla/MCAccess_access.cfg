SPECIFICATION Spec
CHECK_DEADLOCK FALSE
CONSTANTS
  owner = owner
  guest = guest
  s1 = s1
  s2 = s2
  n1 = n1
  None = None
  Callers = {owner, guest}
  ShareIds = {s1}
  Namespaces = {n1}
  Kinds = {"secret"}
  Sessions = {q1}
  Workers = {w1, w2}
  Managers = {m1}
  Pins = {n1}
  Files <- OneShare
  Defaults <- Redacted
  Kept <- NoRows
  MaxRows = 1
  MaxPolicies = 2
SYMMETRY WorkersAlike
INVARIANTS
  CountsCoverExport
PROPERTIES
  RevocationImmediate
  OwnSessions
