SPECIFICATION Spec
CONSTANTS
  Clients = {1}
  Procs = {1, 2}
  Sizes = {1, 2}
  MaxLines = 1
  Missing = Missing
  Inputs <- MCInputs
  Mortal = {}
  LeftOver <- MCStale
INVARIANT WholeFile
CHECK_DEADLOCK FALSE
