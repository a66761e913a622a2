SPECIFICATION Spec
CHECK_DEADLOCK FALSE
CONSTANTS
  owner = owner
  guest = guest
  s1 = s1
  s2 = s2
  n1 = n1
  None = None
  Callers = {owner, guest}
  ShareIds = {s1, s2}
  Namespaces = {n1}
  Kinds = {"plain", "secret"}
  Sessions = {q1}
  Workers = {w1}
  Managers = {m1, m2}
  Pins = {n1}
  Files <- TwoShares
  Defaults <- Redacted
  Kept <- NoRows
  MaxRows = 1
  MaxPolicies = 2
SYMMETRY WorkersAlike
PROPERTIES
  RevocationImmediate
