SPECIFICATION Spec
CONSTANTS
  Statuses = {400, 429, 500}
  MaxEdits = 0
INVARIANTS
  CallerErrorsKeepMeaning
CHECK_DEADLOCK FALSE
