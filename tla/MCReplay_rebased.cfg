SPECIFICATION ReplaySpec
CHECK_DEADLOCK FALSE
CONSTANTS
  Ids = {i1, i2}
  Namespaces = {n0}
  DefaultNs = n0
  Hashes = {h1, h2}
  Vals = {v1}
  Rels = {r0}
  NoRel = r0
  Keys = {}
  NoKey = NoKey
  None = None
  MaxSeq = 4
  MaxHist = 0
  KeepLast = 9
  Packaged = {}
  PageSize = 2
  Budgets <- BudgetOne
  Scope = None
  SharedBase = FALSE
  Preloaded <- NoRows
  MaxPackages = 1
  AnyCursor = FALSE
  DuringRun = {}
SYMMETRY SymIdsHashes
INVARIANTS
  CloneIsSourceState
