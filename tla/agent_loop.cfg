SPECIFICATION FairSpec
CONSTANTS
  Agents = {a1, a2}
  maxIterations = 3
  maxUsd = 3
  monthlyCapUsd = 3
  Costs <- MCCosts
  MaxCost = 2
  Models = 2
  MaxToolCalls = 2
  keepLast = 1
  Disturbed = {a1}
INVARIANTS JobBudgetHolds CallsAreBooked FallbacksAreFree TranscriptIsPaired MonthOvershootBound
PROPERTIES RunsEnd
CHECK_DEADLOCK FALSE
