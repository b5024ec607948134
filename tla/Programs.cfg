SPECIFICATION MCSpec
CONSTANTS
  Runs = {1, 2}
  MaxMsg = 1
  MaxKills = 1
  Executions = 2
  Interrupts = 1
  Clients = {1, 2}
  Pids = {p1, p2}
  None = None
  Users = {root, u}
  Root = root
  Qlen = 1
  MaxCrashes = 1
  MaxIn = 4
  MaxOut = 1
  Cap = 1
  MaxTerm = 1
INVARIANTS NotifiedInTime TestsExplained TakenForTheirOwn TerminalsLeftInOrder
PROPERTY AllEnd
CHECK_DEADLOCK FALSE
