SPECIFICATION Spec
CONSTANTS
  Indexes <- MCIndexes
  Lines <- MCLines
  MaxLines = 4
  MaxComments = 0
INVARIANTS
  RelayFaithful
  TextInOrder
CHECK_DEADLOCK FALSE
