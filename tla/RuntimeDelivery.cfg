SPECIFICATION Spec
CONSTANTS
  Configs <- JustOn
  Unread = unread
  Partitions = {p1, p2}
  MaxLog = 2
  BatchSize = 2
  Kinds = {"command"}
  StartPosition = "committed"
  StartValue <- AtZero
  HasPeer = TRUE
  MaxFaults = 2
  None = none
  Tombstone = tombstone
  MaxEdits = 0
SYMMETRY Symmetry
INVARIANT NoSkippedOutput
PROPERTIES CommittedNeverRegresses ImplementsAtLeastOnce
