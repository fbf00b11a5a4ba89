SPECIFICATION Spec
CONSTANTS
  h1 = h1
  h2 = h2
  a1 = a1
  a2 = a2
  a3 = a3
  i1 = i1
  i2 = i2
  i3 = i3
  Handlers <- MCHandlers
  Accounts <- MCAccounts
  Ids = {i1, i2}
  MaxAge = 0
  FutureSkew = 0
  TTL = 2
  Capacity = 2
  AccountLimit = 1
  MaxStall = 1
  MaxStep = 0
  MaxTime = 3
  MaxEpoch = 0
SYMMETRY Symmetry
INVARIANTS
  CacheConsistent
PROPERTIES
  EntriesLiveTheirTime
CHECK_DEADLOCK FALSE
