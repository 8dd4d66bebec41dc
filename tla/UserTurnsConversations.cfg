\* Two people in two threads, three messages, a retry: placement, order, claims, and who may steer, without a stop.
SPECIFICATION Spec
CONSTANTS
  Process = {p1, p2}
  Actor = {a, b}
  Thread = {main, t1}
  Main = main
  Interleaved = {}
  SlowSettle = TRUE
  MaxRequests = 3
  MaxEpoch = 0
  MaxInjects = 0
  MaxRetries = 1
  MaxCrashes = 0
  None = None
SYMMETRY Symmetry
CHECK_DEADLOCK FALSE
INVARIANTS
  OnlyOwnFollowUpSteers
  ClaimsAreExclusive
  AnswersInThread
  ArrivalOrder
  SupersededIsReplaced
