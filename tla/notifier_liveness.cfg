SPECIFICATION FairSpec
CONSTANTS
  Jobs = {j1, j2}
  Workers = {w1}
  NoWorker = NoWorker
  Limit = 1
  Refusals = TRUE
  Hours = TRUE
  MaxEvents = 3
  MaxFaults = 0
PROPERTIES EveryEventSettles
CHECK_DEADLOCK FALSE
