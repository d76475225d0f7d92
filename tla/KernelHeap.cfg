SPECIFICATION Spec
CONSTANTS
  HeapStart = 8
  HeapLength = 32
  HeaderSize = 2
  PageSize = 8
  Sizes = {1, 4, 11}
  Aligns = {1, 4}
INVARIANTS Tiling Coalesced LiveBlocks AllocationsDisjoint
PROPERTIES OthersUndisturbed AllocationMapped
CHECK_DEADLOCK FALSE
