SPECIFICATION Spec
CONSTANTS
  NOutputs = 1
  HasListing = FALSE
  S20Values = {0}
  S21Values = {}
  S22Values = {0}
  MaxText = 1
  Programs <- FullProgram
  DebugQuota = 1
  S12Values = {0, 1}
  S18Values <- Reports
  DebugWidth = 2
  ErrorText <- Error
  AbortedMessage <- Aborted
  OutputFaults = FALSE
  DebugFaults = FALSE
  CycleLimit = 3
INVARIANTS AbortedIs255
CHECK_DEADLOCK FALSE
