\* A repetition that aborts after its first events.
CONSTANTS
  None = None
  Points = 2
  Repetitions = 2
  Planned = 3
  FactsRepetitions = 2
  MaxCampaigns = 2
SPECIFICATION Spec
INVARIANT AbortedNeverAccepted
CHECK_DEADLOCK FALSE
