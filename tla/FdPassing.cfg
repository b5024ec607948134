SPECIFICATION FairSpec
CONSTANTS
  Clients = {1, 2}
  Procs = {1, 2, 3, 4, 5}
  Sizes = {1, Missing}
  MaxLines = 2
  Missing = Missing
  Inputs <- MCInputs
  Mortal = {3, 4, 5}
  LeftOver <- MCEither
INVARIANTS TypeOK LinesOnce ChildrenTold ServerStays
PROPERTIES SoloServed NobodyStuck
CHECK_DEADLOCK FALSE
