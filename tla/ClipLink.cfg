SPECIFICATION FairSpec
CONSTANTS
  MaxResolver = 2
  MaxResend = 1
  MaxRelay = 2
  MaxBeside = 0
  EagerPhone = FALSE
INVARIANTS
  LinkShowsRelay
  ClipKeyStands
PROPERTIES
  PendingSettles
  LateAnswerCounts
  WaitingServed
  ResolveReturns
CHECK_DEADLOCK FALSE
