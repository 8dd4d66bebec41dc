\* Three asks of one room, two processes, the steps at the marker file one by one: safety.
SPECIFICATION Spec
CONSTANTS
  Process = {p1, p2}
  Ask = {r1, r2, r3}
  Answered = {r1}
  MaxAge = 1
  MaxFaults = 0
  Prompt = TRUE
  SteadyHub = TRUE
  None = None
  Ended = Ended
SYMMETRY MCSymmetry
VIEW MCView
CHECK_DEADLOCK FALSE
INVARIANT OneAskAtATime
