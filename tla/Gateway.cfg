SPECIFICATION GatewayFairSpec
CONSTANTS
  Name = {a, b}
  MaxEntry = 2
  MaxSize = 1
  MaxItem = 2
INVARIANTS
  StaysTogether
  NothingOverwritten
  DoneIsWhole
PROPERTIES
  CancelEnds
CHECK_DEADLOCK FALSE
