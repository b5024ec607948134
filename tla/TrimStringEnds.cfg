SPECIFICATION Spec
CONSTANTS
  Letters = {"a", "b"}
  SP = " "
  NUL = "0"
  MaxLen = 5
INVARIANT NoSpaceAtEnds
CHECK_DEADLOCK FALSE
