SPECIFICATION Spec
CONSTANTS
  i1 = i1
  i2 = i2
  i3 = i3
  Ids = {i1, i2, i3}
  Kinds = {"active", "bare"}
  Matching = {i3}
  Scope = {i1, i2}
  Withheld = {i1}
  Enforced = TRUE
  Near <- NearOrder
  Score <- ScoreOrder
  TopK = 1
  Oversample = 2
  Pool = 2
  KeepsNewest = TRUE
  None = None
  MaxSeq = 4
  MaxRowid = 3
INVARIANTS
  FreshIsComplete
PROPERTIES
  NeverStarved
