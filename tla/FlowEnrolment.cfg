CONSTANTS
  Devices = {d1}
  Rates = {0, 1}
  StartRate = 1
  Token = 1
  MinBucket = 1
  ChallengeDelay = 1
  PendingTimeout = 2
  DedupeCapacity = 2
  MaxEvents = 2
  MaxInjected = 0
  ModelAnswers = {"GRANT", "DENY", "ERROR"}
  Faults = {"loss", "repeat", "restart"}
  MaxFaults = 1
  MaxControls = 1
SPECIFICATION Spec
INVARIANTS TypeOK AppliedOnce OneAnswerPerChallenge ResumedTasksWereChallenged TrustHasCleanGrounds
CHECK_DEADLOCK FALSE
