SPECIFICATION FairConnSpec
CONSTANTS
  x1 = x1
  x2 = x2
  Conns = {x1, x2}
  Kinds <- MCKinds
  MaxConnections = 1
  MaxPieces = 1
INVARIANTS
  NothingCutShort
  SlotsCounted
PROPERTIES
  SlotsReturned
CHECK_DEADLOCK FALSE
