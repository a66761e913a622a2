SPECIFICATION FairSpec
CONSTANTS
  p1 = p1
  p2 = p2
  w1 = w1
  w2 = w2
  r1 = r1
  Processes = {p1, p2}
  Runtimes = {r1, r2}
  Commands = {k1}
  Strays = {}
  Writers = {w1, w2}
  ProcOf <- ProcessOf
  RuntimeOf <- RuntimeOfWriter
  Careless = {}
  Importers = {w2}
  Eager = {k1}
  Conns = {c1, c2, c3, c4}
  SplitHandles = FALSE
  None = None
INVARIANTS
  OneWriter
  WholeWrites
  OwnerNamed
PROPERTIES
  SlotComesBack
  StaleLockNeverBlocks
