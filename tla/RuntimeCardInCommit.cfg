SPECIFICATION Spec
CONSTANTS
  Configs <- OnOrTuned
  Unread = unread
  Partitions = {p1}
  MaxLog = 1
  BatchSize = 1
  Kinds = {"reply"}
  StartPosition = "committed"
  StartValue <- AtZero
  HasPeer = FALSE
  MaxFaults = 2
  None = none
  Tombstone = tombstone
  MaxEdits = 1
PROPERTY CardNeverFailsACommit
