SPECIFICATION Spec
CONSTANTS
  Content <- ThreeStreams
  Rewindable = {1, 2}
  Faults = FALSE
  S10Values = {1, 2, 3, 101, 102, 103}
  S16Values = {"none"}
  S17 = "b"
  S23Values = {0, 1, 2, 3, 101, 102, 103, 4}
PROPERTIES EveryReadReturns
CHECK_DEADLOCK FALSE
