SPECIFICATION FairSpec
CONSTANTS
  Char <- MCChar
  Width = 5
  Height = 2
  TabStop = 2
  Unknown <- MCUnknown
  LastGlyph = "z"
  U32Max = 999
  Records <- MCRecords
  MaxRecords = 3
  Archives <- MCArchives
  FontPath = "font"
  NodeSize = 4
  Stacks <- MCStacks
INVARIANTS
  ScreenIsWindow
  ScreenShown
  NoSelfDeadlock
PROPERTIES
  PanicHalts
CHECK_DEADLOCK FALSE
