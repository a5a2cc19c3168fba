CONSTANTS
  WordMod = 16
  Writers = {w1, w2}
  Messages <- MCMessages
  COLS = 4
  ROWS = 2
  TAB = 2
  ByteMod = 6
  BufSize = 4
  MaxCalls = 2
SPECIFICATION Spec
INVARIANTS Window OnScreen ReadsInside
CHECK_DEADLOCK FALSE
