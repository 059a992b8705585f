SPECIFICATION Spec
CONSTANTS
  MaxWords = 8
  Last = 1
  NVars = 2
  SVars <- MCSVars
  ReqWords = 6
  Literal = {50, 51}
  HasERLSO = FALSE
INVARIANTS NeverPanics
CHECK_DEADLOCK FALSE
