SPECIFICATION Spec
CONSTANTS
  Configs <- JustOn
  Unread = unread
  Partitions = {p1}
  MaxLog = 2
  BatchSize = 1
  Kinds = {"reply"}
  StartPosition = "committed"
  StartValue <- AtZero
  HasPeer = FALSE
  MaxFaults = 2
  None = none
  Tombstone = tombstone
  MaxEdits = 0
INVARIANT FailedInputNotPassed
