SPECIFICATION Spec
CONSTANTS
  h1 = h1
  h2 = h2
  a1 = a1
  a2 = a2
  a3 = a3
  i1 = i1
  i2 = i2
  i3 = i3
  Handlers <- MCHandlers
  Accounts = {a1}
  Ids <- MCIds
  MaxAge = 0
  FutureSkew = 0
  TTL = 3
  Capacity = 2
  AccountLimit = 2
  MaxStall = 1
  MaxStep = 1
  MaxTime = 3
  MaxEpoch = 1
SYMMETRY Symmetry
CONSTRAINT FewAccepted
INVARIANTS
  NoReplay
  CacheConsistent
PROPERTIES
  EntriesLiveTheirTime
CHECK_DEADLOCK FALSE
