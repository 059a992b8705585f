SPECIFICATION Spec
CONSTANTS
  Content <- ThreeStreams
  Rewindable = {1, 2}
  Faults = TRUE
  S10Values = {0, 1, 2, 3, 101, 102, 105}
  S16Values = {"none", "a"}
  S17 = "b"
  S23Values = {0, 1, 2, 3, 101, 102, 4}
INVARIANTS TypeOK DeliveredIsNormal EndIsHonest
PROPERTIES OnlyRewindRepositions ReadReturns
CHECK_DEADLOCK FALSE
