SPECIFICATION MemorySpec
CONSTANTS
  BitmapBits = 16
  NumPages = 12
  PageSize = 2
  BitsPerByte = 4
  MaxPages = 12
  VirtualPages <- MCVirtualPages
  MemoryMaps <- MCMemoryMaps
INVARIANTS FreeCount Ownership OnlyUsable
PROPERTIES NoDoubleGrant StartsFromMap
CHECK_DEADLOCK FALSE
