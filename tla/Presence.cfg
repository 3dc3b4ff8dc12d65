SPECIFICATION FairSpec
CONSTANTS
  MaxAsk = 2
  MaxUpgrade = 2
INVARIANTS
  RideHasEnd
  AnswersOwn
PROPERTIES
  EndedReleases
CHECK_DEADLOCK FALSE
