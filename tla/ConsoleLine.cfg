CONSTANTS
  Readers = {r1, r2}
  Chars <- MCChars
  Texts <- MCTexts
  MAX_LENGTH = 4
  NUMLEN = 4
  WordMod = 128
  ShortMod = 16
  MaxTyped = 5
SPECIFICATION FairSpec
INVARIANTS LineExact LineFits ScanExact ScanRight ScanBack NumberRight
PROPERTIES NewlineEnds
CHECK_DEADLOCK FALSE
