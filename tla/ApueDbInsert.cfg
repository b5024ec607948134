SPECIFICATION SpecInsert
CONSTANTS
  Keys = {"a", "b", "cc"}
  Vals = {"", "u", "v"}
  Chains = {0, 1}
  Hash <- MCShared
  KeyLen <- MCKeyLen
  DatLen <- MCDatLen
  DATLEN_MIN = 2
  DATLEN_MAX = 3
  PTR_MAX = 3
  Blank = " "
  MaxRec = 5
INVARIANT Linked
CHECK_DEADLOCK FALSE
