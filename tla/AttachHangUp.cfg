SPECIFICATION AttachSpec
CONSTANTS
  MaxIn = 2
  MaxOut = 3
  FifoSize = 1
  ChannelSize = 1
  MaxPid = 2
CHECK_DEADLOCK FALSE
PROPERTY HangUpIsCleanedUp
