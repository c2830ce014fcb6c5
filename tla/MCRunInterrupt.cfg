\* An interrupt that the scheduler loop does not see does not invalidate the run.
CONSTANTS
  N = 2
  Offset <- PairOffsets
  MaxSlip = 1
  CancelItems <- NoItem
  Outcomes <- AllStatuses
  Capacity = 1
  BufLines = 1
  Horizon = 3
SPECIFICATION Spec
INVARIANT InterruptInvalidates
CHECK_DEADLOCK FALSE
