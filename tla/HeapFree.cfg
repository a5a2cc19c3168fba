CONSTANTS
  Callers = {c1}
  Sizes = {50, 120}
  H = 12
  PAGE_SIZE = 4096
  V_MM_START = 8192
  MaxPages = 1
  UintMod = 65536
SPECIFICATION SpecF
INVARIANTS FreeFrees
CHECK_DEADLOCK FALSE
