SPECIFICATION FairSpec
CONSTANTS
  MaxStream = 2
  Side = {"audio"}
  MaxTry = 2
  MaxFrame = 2
  FrameCap = 1
  CmdCap = 1
INVARIANTS
  VideoWhole
PROPERTIES
  PacketsRead
  StopEnds
  AskAnswered
CHECK_DEADLOCK FALSE
