SPECIFICATION Spec
CHECK_DEADLOCK FALSE
CONSTANTS
  Ids = {1, 2}
  Contents = {c1, c2}
  Metas = {m1}
  None = None
  Unusable = {}
  PackageDirs = {p}
  DeltaDirs = {d}
  Encoding <- GzDeltas
  MaxEdits = 3
  MaxLocal = 0
  MaxReleases = 3
  SourceDeletes = TRUE
  OverwriteInUse = FALSE
SYMMETRY SymContentsMetas
PROPERTY
  AppliesAtBase
