\* Turn and fence heartbeats within their limits: the fence excludes turns.
SPECIFICATION FairSpec
CONSTANTS
  p1 = p1
  p2 = p2
  o1 = o1
  o2 = o2
  Process = {p1, p2, p3}
  Room = {r1}
  Query = {q1, q2}
  TurnStale = 1
  MaxDelay = 1
  None = None
  Op = {o1, o2}
  Home <- MCHome
  FenceStale = 2
  MaxFenceDelay = 2
  MaxEpoch = 2
INVARIANTS
  OneTurnPerRoom
  RunningIsVisible
  WorkIsExclusive
  OneMaintainer
PROPERTIES
  SlotSpec
  AbortIsDelivered
  FenceIsReleased
