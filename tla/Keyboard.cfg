CONSTANTS
  Keys = {"LShift", "RShift", "LCtrl", "RCtrl", "LAlt", "Caps", "Num", "Scroll", "Letter", "Digit", "Enter", "Del", "F2", "Pause", "RAlt"}
  Tests = {t1}
  MaxDown = 3
  MaxQueue = 0
SPECIFICATION Spec
INVARIANTS TypeOK ModeTracks LocksInStep
PROPERTIES CharRight RebootAsked
CHECK_DEADLOCK FALSE
