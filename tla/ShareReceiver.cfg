SPECIFICATION FairSpec
CONSTANTS
  MaxConn = 2
  MaxTask = 1
  MaxStart = 2
INVARIANTS
  AnswerAfterSession
  DoneMeansSaved
  NoStalePartial
PROPERTIES
  CommittedStands
  EverySessionEnds
  StartedConcluded
CHECK_DEADLOCK FALSE
