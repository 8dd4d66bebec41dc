\* Both kinds of heartbeat may be later than their limits: leases and fences
\* are taken over from live owners.
SPECIFICATION FairSpec
CONSTANTS
  p1 = p1
  p2 = p2
  o1 = o1
  o2 = o2
  Process = {p1, p2}
  Room = {r1}
  Query = {q1}
  TurnStale = 0
  MaxDelay = 1
  None = None
  Op = {o1, o2}
  Home <- MCHome
  FenceStale = 0
  MaxFenceDelay = 1
  MaxEpoch = 2
INVARIANT NoOrphanLease
PROPERTIES
  FinishSparesReplacement
  LostTurnIsStopped
  LostHandleIsHarmless
