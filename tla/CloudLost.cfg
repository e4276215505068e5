SPECIFICATION CloudSpec
CONSTANTS
  Machine = {a, b}
  Origin = a
  Clients = 1
  Pids = 2
  MaxId = 2
  MaxFence = 3
  MaxVersion = 2
  MaxCommands = 3
PROPERTY AlreadyLostIsTrue
CHECK_DEADLOCK FALSE
