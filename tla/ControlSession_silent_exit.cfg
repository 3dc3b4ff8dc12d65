SPECIFICATION Spec
CONSTANTS
  MaxInbox = 2
  MaxMsg = 1
  Tearing = FALSE
INVARIANTS
  ExitsSayWhy
CHECK_DEADLOCK FALSE
