SPECIFICATION Spec
CONSTANTS
  Executions = 1
  Interrupts = 0
INVARIANT FreeNameWillDo
CHECK_DEADLOCK FALSE
