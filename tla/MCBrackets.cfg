SPECIFICATION Spec
CONSTANTS
  Requests <- BracketRequests
  Symbols <- MCSymbols
  MaxAnswer = 0
INVARIANT EchoRestored
CHECK_DEADLOCK FALSE
