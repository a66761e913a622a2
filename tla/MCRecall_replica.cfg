SPECIFICATION FollowerSpec
CONSTANTS
  i1 = i1
  i2 = i2
  i3 = i3
  Ids = {i1, i2, i3}
  Kinds = {"active"}
  Matching = {i3}
  Scope = {i1, i2, i3}
  Withheld = {}
  Enforced = FALSE
  Near <- NearOrder
  Score <- ScoreOrder
  TopK = 2
  Oversample = 3
  Pool = 0
  KeepsNewest = TRUE
  None = None
  MaxSeq = 2
  MaxRowid = 3
INVARIANTS
  FreshIsComplete
