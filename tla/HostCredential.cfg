SPECIFICATION FairSpec
CONSTANTS
  Session = {s}
  Slot = {r}
  Inodes = 4
  MaxWrites = 2
INVARIANTS RecordTellsTheFile
PROPERTY SessionsCatchUp
CHECK_DEADLOCK FALSE
