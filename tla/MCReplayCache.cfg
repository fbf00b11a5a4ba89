SPECIFICATION Spec
CONSTANTS
  h1 = h1
  h2 = h2
  a1 = a1
  a2 = a2
  a3 = a3
  i1 = i1
  i2 = i2
  i3 = i3
  Handlers <- MCHandlers
  Accounts = {a1}
  Ids = {i1}
  MaxAge = 1
  FutureSkew = 1
  TTL = 5
  Capacity = 1
  AccountLimit = 1
  MaxStall = 1
  MaxStep = 1
  MaxTime = 7
  MaxEpoch = 1
SYMMETRY Symmetry
INVARIANTS
  NoReplay
CHECK_DEADLOCK FALSE
