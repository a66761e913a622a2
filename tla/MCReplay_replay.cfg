SPECIFICATION ReplaySpec
CHECK_DEADLOCK FALSE
CONSTANTS
  Ids = {i1, i2}
  Namespaces = {n0, n1}
  DefaultNs = n0
  Hashes = {h1, h2}
  Vals = {v1}
  Rels = {r0}
  NoRel = r0
  Keys = {}
  NoKey = NoKey
  None = None
  MaxSeq = 3
  MaxHist = 0
  KeepLast = 9
  Packaged = {}
  PageSize = 2
  Budgets <- BudgetOne
  Scope = n0
  SharedBase = FALSE
  Preloaded <- AllRows
  MaxPackages = 0
  AnyCursor = TRUE
  DuringRun = {}
SYMMETRY SymIdsHashes
INVARIANTS
  CloneIsSourceState
  NoResurrection
  LocalWritesSurface
  ResumeNeverStuck
PROPERTIES
  IsFollower
