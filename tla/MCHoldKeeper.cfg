SPECIFICATION FairSpec
CONSTANTS
  Leases <- MCLeases
  Second = 1
  MaxTime = 11
  MaxTries = 2
INVARIANTS
  LeaseNeverOutlasts
  LostMeansDead
  ReleasedUnlessExhausted
PROPERTIES
  StopAlwaysReturns
  DeadHoldIsNoticed
CHECK_DEADLOCK FALSE
