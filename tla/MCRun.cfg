\* Two items, every outcome status, a one-place channel: a Record blocks.
CONSTANTS
  N = 2
  Offset <- PairOffsets
  MaxSlip = 1
  CancelItems <- SecondItem
  Outcomes <- AllStatuses
  Capacity = 1
  BufLines = 1
  Horizon = 4
SPECIFICATION Spec
INVARIANTS TypeOK ValidMeansComplete ValidMeansOnSchedule OneLinePerRequest
  CloseFindsNoSender AbortHasEvidence CountersMatchOutcomes
PROPERTY UsesRecorder
CHECK_DEADLOCK FALSE
