SPECIFICATION ScanSpec
CONSTANTS
  Keys = {"a", "b"}
  Vals = {"u", "v"}
  Chains = {0, 1}
  Hash <- MCApart
  KeyLen <- MCKeyLen
  DatLen <- MCDatLen
  DATLEN_MIN = 2
  DATLEN_MAX = 3
  PTR_MAX = 4
  Blank = " "
  MaxRec = 4
INVARIANTS LiveAtHead HangsOnDeleted ScanComplete
PROPERTIES IsMap ScanOnce
VIEW ScanState
CHECK_DEADLOCK FALSE
