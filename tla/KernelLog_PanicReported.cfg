SPECIFICATION OwnSpec
CONSTANTS
  Char <- MCChar
  Width = 5
  Height = 2
  TabStop = 2
  Unknown <- MCUnknown
  LastGlyph = "z"
  U32Max = 999
  Records <- MCRecords
  MaxRecords = 3
  Archives <- MCArchives
  FontPath = "font"
  NodeSize = 4
  Stacks <- MCStacks
INVARIANT PanicReported
CHECK_DEADLOCK FALSE
