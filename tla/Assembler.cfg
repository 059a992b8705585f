SPECIFICATION Spec
CONSTANTS
  Programs <- SmallPrograms
  Name <- Names
  Predefined <- Constants
  Text <- Texts
  HashName <- Hash
  LHV = 2
  MAX_WORDS = 22
INVARIANTS TypeOK QueuesAreFilled ReferencesMeanDefinitions ChainsAreExact AcceptableAssembles
CHECK_DEADLOCK FALSE
