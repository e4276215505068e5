SPECIFICATION Spec
CONSTANTS
  Session = {s}
  Slot = {r}
  Inodes = 4
  MaxWrites = 3
INVARIANT LoginsLand
CHECK_DEADLOCK FALSE
