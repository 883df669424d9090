SPECIFICATION Spec
CONSTANTS
  Tabs = {tabA, tabB}
  theTab = tabA
  NoTab = NoTab
  Aside = FALSE
  Jobs = {1, 2, 3}
  startStatus <- MCStart
  Filters = {"all", "succeeded"}
  pageSize = 1
  theJob = 3
  Reached = {"preparing", "running", "finalizing", "succeeded"}
  MaxLoads = 2
INVARIANTS SignInErrorsAreTrue ShownFitsTogether
PROPERTIES PagesCatchUp
CHECK_DEADLOCK FALSE
