\* 4096 channel slots and the 4 KiB bufio buffer become two places each.
CONSTANTS
  e1 = e1  e2 = e2  e3 = e3  e4 = e4  e5 = e5
  Events <- FiveEvents
  Capacity = 2
  BufLines = 2
SPECIFICATION RecFairSpec
INVARIANTS RecTypeOK NothingLost SinkIsPrefix CleanCloseIsComplete
PROPERTIES ImplementsEventLog FullChannelDrains CloseTerminates
CHECK_DEADLOCK FALSE
