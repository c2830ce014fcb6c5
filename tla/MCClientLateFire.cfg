\* A timer that fires between a failed read and its classification.
CONSTANTS
  Threshold = 2
  MaxLines = 2
SPECIFICATION Spec
INVARIANT CancelAffectedRequest
CHECK_DEADLOCK FALSE
