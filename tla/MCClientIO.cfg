SPECIFICATION FairSpec
CONSTANTS
  MaxFrame = 3
  MaxBody = 13
  Limit = 3
  Lengths <- MCLengths
  Sizes = {0, 2, 3, 4}
  Buffers = {1, 3, 5}
  Window = 2
  Burst = 3
  Chunks = {1, 2}
INVARIANTS
  BytesInOrder
  BodyBounded
  CleanEndIsWhole
  CutOnlyWhenSilent
PROPERTIES
  StalledClientEnds
CHECK_DEADLOCK FALSE
