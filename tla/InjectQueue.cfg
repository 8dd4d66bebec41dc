\* Two processes, a tell and two answers, a user, and any two faults.
SPECIFICATION Spec
CONSTANTS
  Process = {p1, p2}
  Inject = {a, r, s}
  Answers = {r, s}
  Threaded = {s}
  MaxUsers = 1
  MaxFaults = 2
  None = None
INVARIANTS
  AcceptedIsKept
PROPERTIES
  StoppedNeverStarts
  WakeUpIsKept
CHECK_DEADLOCK FALSE
