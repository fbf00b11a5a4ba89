SPECIFICATION Spec
CONSTANTS
  Indexes = {0}
  Lines <- MCFewLines
  MaxLines = 3
  MaxComments = 0
INVARIANTS
  InterruptedMeansFailed
CHECK_DEADLOCK FALSE
