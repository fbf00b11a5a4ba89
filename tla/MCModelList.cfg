SPECIFICATION Spec
CONSTANTS
  c1 = c1
  c2 = c2
  c3 = c3
  Callers <- MCCallers
  TTL = 2
  RateTTL = 3
  MaxCall = 1
  MaxTime = 7
  MaxEdits = 1
SYMMETRY Symmetry
INVARIANTS
  ServedIsFresh
PROPERTIES
  RefreshOnlyWhenDue
CHECK_DEADLOCK FALSE
