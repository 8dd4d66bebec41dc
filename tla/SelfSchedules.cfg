SPECIFICATION FairSpec
CONSTANTS
  Process = {p1, p2}
  p1 = p1
  p2 = p2
  MaxMade = 2
  MaxUsers = 5
  MaxFaults = 1
  LateErrors = FALSE
  None = None
INVARIANTS RunsAreClaimed NothingIsForgotten
PROPERTY EveryScheduleEnds
CHECK_DEADLOCK FALSE
