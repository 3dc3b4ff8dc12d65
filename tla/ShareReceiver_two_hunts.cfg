SPECIFICATION Spec
CONSTANTS
  MaxConn = 2
  MaxTask = 1
  MaxStart = 1
INVARIANT
  OneLiveSession
CHECK_DEADLOCK FALSE
