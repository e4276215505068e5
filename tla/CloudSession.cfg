SPECIFICATION FairSpec
CONSTANTS
  Machine = {a, b}
  Origin = a
  Clients = 2
  Pids = 2
  MaxId = 2
  MaxFence = 3
  MaxVersion = 2
  MaxCommands = 2
PROPERTIES PublishedUnderLease PulledIsCurrent HoldersSettle
CHECK_DEADLOCK FALSE
