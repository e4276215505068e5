SPECIFICATION HostSpec
CONSTANTS
  Dir = {"d"}
  Addr = {"a", "b"}
  Pid = {p, q, r}
  None = none
  Env <- MCEnv
  Files <- MCFiles
  MaxBirth = 3
  MaxTurn = 1
INVARIANTS RecordFindsServer ChecksLeaveNothing
PROPERTIES StopAimsAtServer InstallOnlyCompletes
CHECK_DEADLOCK FALSE
SYMMETRY Symmetry
