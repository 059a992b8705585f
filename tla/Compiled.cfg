SPECIFICATION Spec
CONSTANTS
  Sources <- Written
  Memories <- Initial
  Declarations <- Vars
  Block <- Blocks
  DataLabel = {"TAB"}
  BlockName = {"OUT", "INN"}
  Atom <- Alphanumeric
  MarkBase = 1000
  Cycles = 300
  Table <- Tables
  Data <- Store
  CodeBase = 80
  LastWord = 300
  Character <- Names
  Seeded <- NumbersToAssembler
  NumberText = 45
  MaxNumberText = 3
  Longest = 100
INVARIANTS TypeOK StatementsFinish BuildsWhatIsChecked ReadsBackAsWritten NothingIsSwallowed
PROPERTY RunsAsL
CHECK_DEADLOCK FALSE
