\* A failed turn is claimed again before it has settled.
SPECIFICATION Spec
CONSTANTS
  Process = {p1, p2}
  Actor = {a}
  Thread = {main}
  Main = main
  Interleaved = {}
  SlowSettle = TRUE
  MaxRequests = 1
  MaxEpoch = 0
  MaxInjects = 0
  MaxRetries = 0
  MaxCrashes = 0
  None = None
SYMMETRY Symmetry
CHECK_DEADLOCK FALSE
INVARIANTS
  TerminalOnce
