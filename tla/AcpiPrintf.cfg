SPECIFICATION Spec
CONSTANTS
  Plain = {"q"}
  NonZero = {"3"}
  StringLen = {0, 2, 2000}
  MaxFormat = 7
INVARIANTS OutputExact
CHECK_DEADLOCK FALSE
