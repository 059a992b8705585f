SPECIFICATION Spec
CONSTANTS
  Process = {"first"}
  Listed <- EngineOnly
  Engines = {1}
  Lwl = {2}
  Strays = {}
  HasCache = FALSE
  Embeds = FALSE
  Worlds <- JustTheEngine
INVARIANTS NeverHalfInstalled
CHECK_DEADLOCK FALSE
