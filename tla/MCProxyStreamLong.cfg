SPECIFICATION FairSpec
CONSTANTS
  Indexes = {0}
  Lines <- MCLongLines
  MaxLines = 4
  MaxComments = 1
INVARIANTS
  ReadToTheEnd
  EndMarked
  FramingKept
PROPERTIES
  AlwaysMetered
CHECK_DEADLOCK FALSE
