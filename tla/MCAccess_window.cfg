SPECIFICATION Spec
CHECK_DEADLOCK FALSE
CONSTANTS
  owner = owner
  guest = guest
  s1 = s1
  s2 = s2
  n1 = n1
  None = None
  Callers = {owner, guest}
  ShareIds = {s1}
  Namespaces = {n1}
  Kinds = {"plain", "secret"}
  Sessions = {q1}
  Workers = {w1}
  Managers = {m1}
  Pins = {None}
  Files <- OneShare
  Defaults <- Redacted
  Kept <- KeptRows
  MaxRows = 2
  MaxPolicies = 2
PROPERTIES
  RevokedShowsNothing
