SPECIFICATION Spec
CONSTANTS
  Items <- MCItems
  maxBytes = 4
  MAX_FAILURES = 2
  Repos <- MCRepos
  Truths <- MCTruths
  Changes <- MCChanges
  limits <- MCLimits
  MaxChanges = 2
INVARIANTS
  OutputKeepsEnds
  InstallIsTold
  ReportIsTrue
  PatchIsRead
  QuotedNamesAreJudged
CHECK_DEADLOCK FALSE
