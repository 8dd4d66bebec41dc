SPECIFICATION FairSpec
CONSTANTS
  Job = {j1, j2}
  Script = {j2}
  MaxRuns = 2
  RotateEvery = 1
  MaxUsers = 2
  MaxFaults = 1
  None = None
  Other = Other
INVARIANTS RowsMatch NeverRunsTwice
PROPERTIES NoLooseWork EveryRunEnds
CHECK_DEADLOCK FALSE
