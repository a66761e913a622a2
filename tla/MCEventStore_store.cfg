SPECIFICATION Spec
CHECK_DEADLOCK FALSE
CONSTANTS
  Ids = {i1, i2}
  Namespaces = {n0, n1}
  DefaultNs = n0
  Hashes = {h1}
  Vals = {v1}
  Rels = {r0}
  NoRel = r0
  Keys = {k1}
  NoKey = NoKey
  None = None
  MaxSeq = 3
  MaxHist = 1
  KeepLast = 1
  Packaged <- HomeRows
SYMMETRY SymIds
INVARIANTS
  RetryNeverExecutes
  OneEventPerEntry
  TombstonesAreDead
  WatermarkCurrent
  LogExplainsRows
  DeadIdsKeepTombstone
  CursorWindowIntact
PROPERTIES
  StaleCursorStaysStale
