SPECIFICATION FairSpec
CONSTANTS
  Runs = {r1}
  Crashes = TRUE
  MaxFaults = 2
INVARIANTS PublishedIsChecked ReadyIsEarned ResultIsTrue NothingLeft
PROPERTIES KeepsContract ContainersGo
CHECK_DEADLOCK FALSE
