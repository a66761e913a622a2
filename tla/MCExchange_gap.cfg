SPECIFICATION Spec
CHECK_DEADLOCK FALSE
CONSTANTS
  Ids = {1, 2}
  Contents = {c1, c2}
  Metas = {m1}
  None = None
  Unusable = {}
  PackageDirs = {p}
  DeltaDirs = {d}
  Encoding <- GzDeltas
  MaxEdits = 2
  MaxLocal = 0
  MaxReleases = 4
  SourceDeletes = FALSE
  OverwriteInUse = FALSE
SYMMETRY SymContentsMetas
PROPERTY
  CheckpointIsState
