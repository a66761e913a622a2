SPECIFICATION Spec
CONSTANTS
  x = x
  y = y
  z = z
  n = n
  c = c
  d = d
  i = i
  j = j
  t1 = t1
  t2 = t2
  Ids = {x, y, z}
  Namespaces = {n}
  NoNs = NoNs
  Contents = {c, d}
  Items = {i, j}
  Texts = {t1, t2}
  MaxItems = 1
  BatchSizes = {1, 2}
  None = None
  Envelopes <- Notes
  Files <- SomeFiles
INVARIANTS
  BatchesAlwaysInvisible
