SPECIFICATION Spec
CONSTANTS
  FileNames = {"x", "y", "a", "b", "c", "d", "missing", "-?"}
  Columns = {"0"}
  WordCounts = {"5000"}
  Capacity = 2
  Cases <- Tried
  S20Values = {0, 1, 2}
  S21Values <- Masks
  S22Values = {1}
INVARIANTS TypeOK NothingIsLost RefusalIsClean AtLineStartIsTrue FilesFollowMask ListingIsTrue
CHECK_DEADLOCK FALSE
