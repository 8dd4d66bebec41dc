\* Two messages, stops, compactions, an injected turn, a retry and a crash, other processes let in between a claim and its turn and before a retry: nothing is lost, and every message settles.
SPECIFICATION FairSpec
CONSTANTS
  Process = {p1, p2}
  Actor = {a}
  Thread = {main}
  Main = main
  Interleaved = {"claimed", "retry"}
  SlowSettle = FALSE
  MaxRequests = 2
  MaxEpoch = 2
  MaxInjects = 1
  MaxRetries = 1
  MaxCrashes = 1
  None = None
CHECK_DEADLOCK FALSE
INVARIANTS
  StoppedStaysStopped
  NoRowIsStranded
  NothingIsDropped
PROPERTY EveryMessageSettles
