SPECIFICATION CloudSpec
CONSTANTS
  Machine = {a, b}
  Origin = a
  Clients = 2
  Pids = 2
  MaxId = 2
  MaxFence = 2
  MaxVersion = 2
  MaxCommands = 4
PROPERTY StaleStaysStale
CHECK_DEADLOCK FALSE
