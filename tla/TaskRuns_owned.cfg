SPECIFICATION Spec
CONSTANTS
  bench = bench
  gpu = gpu
  build = build
  note = note
  Task = {bench}
  Lanes <- MCLanes
  Ttl <- MCTtl
  DefaultTtl = 2
  Unjoined = {}
  Inline = {}
  Exempt = {}
  Lane <- MCLane
  Conflicts <- MCConflicts
  Pid = {1, 2}
  CapacityChoice <- MCCapacityChoice
  Bound <- MCBound
  MaxTime = 1
  MaxBoots = 0
  NoRow = NoRow
INVARIANT RunningRowsAreOwned
