SPECIFICATION Spec
CONSTANTS
  BitmapBits = 13
  Levels = 3
  Fanout = 2
  TotalPages = 13
  BootReserved = {0, 1, 3, 7, 8, 9, 10}
  BootTables <- MCBootTables
  Root = 1
  BootMaps <- MCBootMaps
  HeapMaps = 2
  HeapPages = {3, 4}
INVARIANTS FramesAccounted CheckFlagsExact
PROPERTY ImplementsAddressMap
CHECK_DEADLOCK FALSE
