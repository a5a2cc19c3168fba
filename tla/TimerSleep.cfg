CONSTANTS
  N = 2
  Naps = {1, 3}
  Freqs = {5}
  TickMod = 6
  MaxPresses = 2
SPECIFICATION FairSpec
INVARIANTS OnTime
PROPERTIES SleepEnds
