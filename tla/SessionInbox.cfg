\* Two processes, elections, a slip of the heartbeat, failures and a delete.
SPECIFICATION FairSpec
CONSTANTS
  Process = {p1, p2}
  RoleStale = 1
  MaxDelay = 2
  WritesFail = TRUE
  None = None
  Message = {1, 2}
  Limit = 2
  MaxFaults = 1
INVARIANTS
  OneWorker
  InOrder
PROPERTIES
  LateWorkerIsHarmless
  QueueSpec
  EveryMessageIsHandled
CHECK_DEADLOCK FALSE
