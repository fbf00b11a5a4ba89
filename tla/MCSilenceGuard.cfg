SPECIFICATION FairGuardSpec
CONSTANTS
  Timeout = 2
  Callbacks = {c1, c2}
  Exchanges <- AllExchanges
INVARIANTS TimeoutIsTold HeaderTimerSpares NothingLeftOpen
PROPERTIES OnlySilenceExpires SilenceEnds
CHECK_DEADLOCK FALSE
