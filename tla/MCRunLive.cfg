\* Three items, two of them due at once and each able to overrun, so that trips
\* meet on wireAbort; OpenLoop under the weakest fairness, Terminates under the
\* rest.
CONSTANTS
  N = 3
  Offset <- TripleOffsets
  MaxSlip = 0
  CancelItems <- NoItem
  Outcomes <- OkOnly
  Capacity = 1
  BufLines = 1
  Horizon = 2
SPECIFICATION SchedulerAloneSpec
INVARIANTS TripStopsDispatch
PROPERTIES OpenLoop Terminates
CHECK_DEADLOCK FALSE
