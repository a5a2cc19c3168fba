CONSTANTS
  Callers = {c1, c2}
  FirstFrame = 1
  RamEnd = 4
  MaxFrames = 3
  Dirs = {d1}
  Slots = {s1, s2}
  UintMod = 8
SPECIFICATION Spec
INVARIANTS NeverEmptyPop
CHECK_DEADLOCK FALSE
