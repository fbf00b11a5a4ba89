SPECIFICATION Spec
CONSTANTS
  Statuses <- MCStatuses
  maxInvalidTraceRetries = 2
  maxServerOverloadRetries = 1
CHECK_DEADLOCK FALSE
INVARIANTS RepeatsAreSafe
