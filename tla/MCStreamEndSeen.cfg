SPECIFICATION Spec
CONSTANTS
  Indexes = {0}
  Lines <- MCFewLines
  MaxLines = 3
  MaxComments = 0
INVARIANTS
  EndSeen
CHECK_DEADLOCK FALSE
