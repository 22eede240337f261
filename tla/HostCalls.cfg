SPECIFICATION FairSpec
CONSTANTS
  MaxCalls = 3
  MaxSessions = 3
  Shutdown = shutdown
  None = none
  Others = {3}
INVARIANTS NoLostSession ShutdownIsLast
PROPERTIES CallsEnd StopEndsPolling
CHECK_DEADLOCK FALSE
