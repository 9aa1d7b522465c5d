SPECIFICATION FairSpec
CONSTANTS
  bench = bench
  probe = probe
  Task = {bench, probe}
  Card = {1, 2}
  Slot = {100000}
  Free = Free
  PoolOf <- MCPoolOf
  Count <- MCCount
  Base <- MCBase
  Grace = 2
  Floor = 1
  Cost = 1
  LaneCapacity = 1
  StartDelay = 1
  Extra = 1
  MaxGrants = 1
  Session = 2
  FreshSession = {}
  MaxResumes = 1
INVARIANTS TypeOK IronLaw NoHoard
PROPERTIES KeepsItsCards CardsComeBack
CHECK_DEADLOCK FALSE
