SPECIFICATION Spec
CONSTANTS
  Requests <- MCRequests
  Symbols <- MCSymbols
  MaxAnswer = 5
INVARIANTS RoundTrip SplitsRestored
CHECK_DEADLOCK FALSE
