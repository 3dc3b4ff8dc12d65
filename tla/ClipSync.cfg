SPECIFICATION FairSpec
CONSTANTS
  Text = {t1, t2}
  Image = {i1}
  MaxCopy = 2
  MaxConn = 2
  MaxDrop = 1
  Pace = "window"
PROPERTIES
  NewestEverywhere
CHECK_DEADLOCK FALSE
