SPECIFICATION Spec
CONSTANTS
  bench = bench
  probe = probe
  Task = {bench, probe}
  Card = {1, 2}
  Slot = {100000}
  Free = Free
  PoolOf <- MCPoolOf
  Count <- MCCount
  Base <- MCLongBase
  Grace = 2
  Floor = 1
  Cost = 1
  LaneCapacity = 1
  StartDelay = 1
  Extra = 1
  MaxGrants = 0
  Session = 1
  FreshSession = {4}
  MaxResumes = 1
INVARIANT IronLaw
CHECK_DEADLOCK FALSE
