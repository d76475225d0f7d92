SPECIFICATION Spec
CONSTANTS
  MaxNodes = 4
  BitsPerByte = 2
  Frames = {1, 2, 3}
INVARIANTS ListSound PagesInUse
CHECK_DEADLOCK FALSE
