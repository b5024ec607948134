SPECIFICATION MCSpec
CONSTANTS
  Letters = {"a", "b"}
  SP = " "
  NUL = "0"
  MaxLen = 7
  Given <- MCGiven
  DaySteps <- MCSteps
  Days <- MCDays
  Numbers <- MCNumbers
  Most = 6
  Timers = {t1, t2}
  Clocks = {k1, k2}
  None = None
  MaxMeddle = 1
  Names = {"x", "xy"}
  Begins <- MCBegins
  MaxNodes = 6
  MaxBuilt = 3
  Items = {1, 2}
  Sizes = {0, 1, 2}
  MaxSize = 4
  MaxPast = 1
  MaxMazes = 2
  MaxChanges = 1
INVARIANTS TrimmedRight NumbersRight ObjectsRight
CHECK_DEADLOCK FALSE
