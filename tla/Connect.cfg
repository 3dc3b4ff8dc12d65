SPECIFICATION FairSpec
CONSTANTS
  MaxAttempt = 2
  MaxCancel = 2
  MaxPair = 2
INVARIANTS
  BeaconBounded
  ForwardsStand
PROPERTIES
  CancelReturns
CHECK_DEADLOCK FALSE
