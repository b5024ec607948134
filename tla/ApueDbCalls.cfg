SPECIFICATION CallsSpec
CONSTANTS
  Procs = {p}
  Keys = {"a", "b"}
  Vals = {"u", "v"}
  StoreFlags = {"insert", "replace", "store"}
  Mortal = {p}
  Scanners = {p}
  Chains = {"0", "1"}
  Hash <- MCApart
  KeyLen <- MCKeyLen
  DatLen <- MCDatLen
  PTR_MAX = 9
  Blank = " "
  MaxRec = 2
  MaxDat = 6
  DATLEN_MIN = 2
  DATLEN_MAX = 3
PROPERTY ImplementsCalls
CONSTRAINT Unspoiled
VIEW CallState
CHECK_DEADLOCK FALSE
