\* Two points, two repetitions of three requests, started twice.
CONSTANTS
  None = None
  Points = 2
  Repetitions = 2
  Planned = 3
  FactsRepetitions = 2
  MaxCampaigns = 2
SPECIFICATION Spec
INVARIANTS FinishedCampaignLoads SummaryMatchesDirectories AcceptedIsOneExecution
CHECK_DEADLOCK FALSE
