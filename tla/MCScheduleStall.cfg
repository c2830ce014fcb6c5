\* A walk that stands still at the end of a phase.
CONSTANTS
  None = None
  Workloads <- MCValid
  Resolution = 3
  MaxPlanned = 2
  MaxGap = 4
  MaxTime = 30
  Round <- MCRound
  Quot <- MCQuot
  Blur <- MCBlur
SPECIFICATION Spec
INVARIANT WalkAdvances
CHECK_DEADLOCK FALSE
