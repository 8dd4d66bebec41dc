SPECIFICATION Spec
CONSTANTS
  Process = {p1, p2}
  p1 = p1
  p2 = p2
  MaxMade = 2
  MaxUsers = 4
  MaxFaults = 1
  LateErrors = FALSE
  None = None
PROPERTY SuccessorWins
CHECK_DEADLOCK FALSE
