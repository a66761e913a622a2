SPECIFICATION Spec
CHECK_DEADLOCK FALSE
CONSTANTS
  Ids = {1, 2}
  Contents = {c1, c2}
  Metas = {m1, m2}
  None = None
  Unusable = {c2}
  PackageDirs = {p}
  DeltaDirs = {d}
  Encoding <- GzDeltas
  MaxEdits = 2
  MaxLocal = 1
  MaxReleases = 4
  SourceDeletes = TRUE
  OverwriteInUse = TRUE
SYMMETRY SymContentsMetas
INVARIANTS
  BasePlusDeltas
  CheckpointNamesPayload
PROPERTIES
  WholeDeltas
  ArtifactSurvives
