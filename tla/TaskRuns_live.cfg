SPECIFICATION FairSpec
CONSTANTS
  bench = bench
  gpu = gpu
  build = build
  note = note
  Task = {build}
  Lanes <- MCLanes
  Ttl <- MCTtl
  DefaultTtl = 2
  Unjoined = {build}
  Inline = {}
  Exempt = {}
  Lane <- MCLane
  Conflicts <- MCConflicts
  Pid = {1, 2}
  CapacityChoice <- MCCapacityChoice
  Bound <- MCBound
  MaxTime = 3
  MaxBoots = 1
  NoRow = NoRow
PROPERTIES RunningRowsEnd StopQuiets
