SPECIFICATION FairSpec
CONSTANTS
  BitmapBits = 14
  Levels = 3
  Fanout = 2
  PageBytes = 2
  Root = 0
  Task = {1, 2}
  MapRanges <- MCMapRanges
  Buffers <- MCBuffers
  Elsewhere <- MCElsewhere
  MaxCalls = 4
INVARIANTS
  TablesSound
PROPERTIES
  TasksKeepOthers
  TaskEndsOrFails
CHECK_DEADLOCK FALSE
