SPECIFICATION FairSpec
CONSTANTS
  MaxInbox = 2
  MaxMsg = 1
  Tearing = TRUE
INVARIANTS
  ClosedByPhone
  EndIsFinal
PROPERTIES
  LossNoticed
  WatcherReturns
CHECK_DEADLOCK FALSE
