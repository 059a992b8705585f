SPECIFICATION Spec
CONSTANTS
  MaxWords = 10
  Last = 1
  NVars = 2
  SVars <- MCSVars
  ReqWords = 3
  Literal = {50, 51}
  HasERLSO = TRUE
INVARIANTS TypeOK OverflowIsExact SystemVariablesIntact
PROPERTIES OnlyFreeWords ImplementsTwoStacks
CHECK_DEADLOCK FALSE
