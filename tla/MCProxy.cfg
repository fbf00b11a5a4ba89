SPECIFICATION FairSpec
CONSTANTS
  Statuses <- MCStatuses
  MaxEdits = 1
INVARIANTS
  AccountedOnce
  SettledAsAnswered
  HangUpStillCharged
  RunsOnlyAsAllowed
PROPERTIES
  KeepsCredit
  EveryRequestEnds
CHECK_DEADLOCK FALSE
