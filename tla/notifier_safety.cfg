SPECIFICATION Spec
CONSTANTS
  Jobs = {j1, j2}
  Workers = {w1}
  NoWorker = NoWorker
  Limit = 2
  Refusals = TRUE
  Hours = FALSE
  MaxEvents = 5
  MaxFaults = 1
INVARIANTS DeliveredShows DuplicatesArePaid SettledInOrder
SYMMETRY JobSymmetry
CHECK_DEADLOCK FALSE
