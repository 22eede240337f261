SPECIFICATION FairSpec
CONSTANTS
  Configs <- AllContents
  Unread = unread
  Partitions = {p1}
  MaxLog = 2
  BatchSize = 2
  Kinds = {"reply"}
  StartPosition = "committed"
  StartValue <- AtZero
  HasPeer = FALSE
  MaxFaults = 1
  None = none
  Tombstone = tombstone
  MaxEdits = 2
CHECK_DEADLOCK FALSE
INVARIANTS PausedMatchesActive ConfirmedCardIsOnTopic
PROPERTIES NoNeedlessReprocessing RuntimeFollowsFile EveryRecordHandled
