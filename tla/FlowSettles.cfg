CONSTANTS
  Devices = {d1}
  Rates = {0, 1}
  StartRate = 1
  Token = 1
  MinBucket = 1
  ChallengeDelay = 1
  PendingTimeout = 2
  DedupeCapacity = 2
  MaxEvents = 2
  MaxInjected = 1
  ModelAnswers = {"GRANT", "GRANT_READ_ONLY", "ERROR"}
  Faults = {"loss"}
  MaxFaults = 1
  MaxControls = 2
SPECIFICATION FairSpec
PROPERTIES EveryRequestSettles
CHECK_DEADLOCK FALSE
