SPECIFICATION Spec
CONSTANTS
  Requests <- OneRequest
  Symbols <- MCSymbols
  MaxAnswer = 3
INVARIANT WordsIntact
CHECK_DEADLOCK FALSE
