SPECIFICATION FairGuardSpec
CONSTANTS
  Timeout = 2
  Callbacks = {c1, c2}
  Exchanges <- AllExchanges
PROPERTY ReportEnds
CHECK_DEADLOCK FALSE
