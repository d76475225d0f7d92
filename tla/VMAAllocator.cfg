SPECIFICATION AllocatorSpec
CONSTANT HighestUserAddress = 3
INVARIANTS
  SegmentsDisjoint
  TasksOwnSegments
CHECK_DEADLOCK FALSE
