CONSTANTS
  Callers = {c1, c2}
  FirstFrame = 1
  RamEnd = 8
  MaxFrames = 4
  Dirs = {d1, d2}
  Slots = {s1, s2}
  UintMod = 16
SPECIFICATION Spec
SYMMETRY Symmetry
INVARIANTS TypeOK OneRole TlbSafe NoLeak TablesInReach
CHECK_DEADLOCK FALSE
