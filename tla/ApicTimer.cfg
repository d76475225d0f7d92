SPECIFICATION FairSpec
CONSTANTS
  Irq = {1, 8}
  GroupSize = 5
  Handler = {rtc_handler, sleep_handler, other}
  RtcHandler = rtc_handler
  SleepHandler = sleep_handler
  None = None
  Madts <- MCMadts
  MaxCount = 16
  Period = 5
  MaxLag = 2
  MsRange = {0, 1}
  UsPerMs = 3
INVARIANTS MadtFollowed VectorsUnique RoutedToHandler UnmappedIsMasked NoStrayInterrupt NotLonger SleepNotShort
CHECK_DEADLOCK FALSE
PROPERTIES CalibrationEnds SleepEnds
