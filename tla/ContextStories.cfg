SPECIFICATION StorySpec
CONSTANTS
  d1 = d1  c1 = c1  c2 = c2  s1 = s1  s2 = s2  s3 = s3
  Devices = {d1}
  Customers = {c1, c2}
  SignalIds = {s1, s2, s3}
  SIGNALS_PER_DEVICE = 2
  Callers = {a1, a2}
  Caller = a1
  Absent = absent
  Nobody = nobody
  NoSeq = noseq
  NoTime = notime
  Produced <- AllRecords
  Unreadable = unreadable
  Control = control
  MinSeqs = {noseq, 2}
  StaleRetries = 1
  MaxLog = 4
  MaxFaults = 1
INVARIANTS IndexMatchesRows TableReflectsLog ReadyMeansCaughtUp NoMissedWakeup AnswersReproducible NewestSignals
PROPERTIES AnswersNeverGoBack BecomesReady LookupsEnd
CHECK_DEADLOCK FALSE
