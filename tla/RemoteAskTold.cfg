\* One ask, two processes, two faults, and fairness: one verdict, a row for every marker, and the room is told.
SPECIFICATION FairSpec
CONSTANTS
  Process = {p1, p2}
  Ask = {1}
  Answered = {1}
  MaxAge = 2
  MaxFaults = 2
  Prompt = TRUE
  SteadyHub = FALSE
  None = None
  Ended = Ended
CHECK_DEADLOCK FALSE
INVARIANTS
  OneVerdict
  RetryIsReplay
PROPERTIES
  MarkerIsFindable
  UnconfirmedIsTold
