\* Four lines are enough for two tokens, usage and [DONE] in any order.
CONSTANTS
  Threshold = 2
  MaxLines = 4
SPECIFICATION FairSpec
INVARIANTS TypeOK CompletionWins TokenCancelExact TimersExplainOutcome
PROPERTIES NoCancelAfterSettle ImplementsOutcome DoReturns
CHECK_DEADLOCK FALSE
