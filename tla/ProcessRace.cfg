CONSTANTS
  Acts = {a1, a2}
  PerTest = 2
  MaxProc = 4
SPECIFICATION FairSpecR
INVARIANTS TypeOK OnOwnStack RingClosed OthersResumable PidsUnique
PROPERTIES  TakesTurns
