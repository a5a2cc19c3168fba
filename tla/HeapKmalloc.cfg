CONSTANTS
  Callers = {c1, c2}
  Sizes = {0, 7, 30, 130, 280}
  H = 12
  PAGE_SIZE = 24
  V_MM_START = 144
  MaxPages = 4
  UintMod = 288
SPECIFICATION Spec
INVARIANTS HeadersSafe Tiled
PROPERTIES Allocates Returns
CHECK_DEADLOCK FALSE
