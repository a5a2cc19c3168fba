CONSTANTS
  Acts = {a1, a2}
  PerTest = 1
  MaxProc = 3
SPECIFICATION Spec
SYMMETRY Symmetry
INVARIANTS NoThreadLost
