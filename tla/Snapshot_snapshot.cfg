CONSTANTS
  Rows = {a1, r1, r2}
  Attached = {a1}
  Invalid = {r2}
  None = None
  Torn = Torn
  Together = FALSE
  MaxExports = 3
SPECIFICATION Spec
INVARIANTS ImportIsWhole LineageIsLoaded
CHECK_DEADLOCK FALSE
