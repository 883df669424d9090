SPECIFICATION Spec
CONSTANTS
  Runs = {r1}
  Crashes = FALSE
  MaxFaults = 0
INVARIANTS NoChangesMeansNone
CHECK_DEADLOCK FALSE
