SPECIFICATION Spec
CONSTANTS
  Procs = {p, q}
  Keys = {"a", "b"}
  Vals = {"u", "v"}
  StoreFlags = {"store"}
  Mortal = {p, q}
  Scanners = {p, q}
  Chains = {"0", "1"}
  Hash <- MCApart
  KeyLen <- MCKeyLen
  DatLen <- MCDatLen
  PTR_MAX = 9
  Blank = " "
  MaxRec = 2
  MaxDat = 5
INVARIANTS TypeOK LiveAtHead ListsApart OwnOrErased ReadsOwn IndexAppendsApart RefusedForLeak
PROPERTY ChangedByOwnCall
CONSTRAINT Unspoiled
VIEW StoreState
SYMMETRY Alike
CHECK_DEADLOCK FALSE
