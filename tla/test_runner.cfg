SPECIFICATION Spec
CONSTANTS
  Runs = {r1, r2}
  Crashes = TRUE
  MaxFaults = 0
  Explains = TRUE
SYMMETRY RunSymmetry
INVARIANTS VerdictIsTrue ReportsAgree OneComment
PROPERTIES KeepsContract
CHECK_DEADLOCK FALSE
