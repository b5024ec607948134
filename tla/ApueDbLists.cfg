SPECIFICATION Spec
CONSTANTS
  Keys = {"a", "b", "cc"}
  Vals = {"", "u", "v"}
  Chains = {0, 1}
  Hash <- MCShared
  KeyLen <- MCKeyLen
  DatLen <- MCDatLen
  DATLEN_MIN = 2
  DATLEN_MAX = 3
  PTR_MAX = 4
  Blank = " "
  MaxRec = 4
INVARIANTS TypeOK OwnData ExactFit PtrsDistinct
VIEW ListState
CHECK_DEADLOCK FALSE
