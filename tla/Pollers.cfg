SPECIFICATION FairSpec
CONSTANTS
  MaxStart = 3
  MaxEvent = 2
PROPERTIES
  StreamSpec
  StopReturns
CHECK_DEADLOCK FALSE
