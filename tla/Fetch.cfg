SPECIFICATION Spec
CONSTANTS
  Process = {"first", "second"}
  Listed <- EngineAndSuite
  Engines = {1}
  Lwl = {2, 4}
  Strays = {4}
  HasCache = TRUE
  Embeds = TRUE
  Worlds <- AloneOrTogether
INVARIANTS TypeOK TargetsAreRight EnginesAreEmbedded
PROPERTIES OnlyVerifiedIsInstalled CommandEnds
CHECK_DEADLOCK FALSE
