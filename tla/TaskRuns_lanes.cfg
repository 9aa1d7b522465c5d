SPECIFICATION Spec
CONSTANTS
  bench = bench
  gpu = gpu
  build = build
  note = note
  Task = {bench, gpu}
  Lanes <- MCLanes
  Ttl <- MCTtl
  DefaultTtl = 2
  Unjoined = {}
  Inline = {}
  Exempt = {gpu}
  Lane <- MCLane
  Conflicts <- MCConflicts
  Pid = {1, 2}
  CapacityChoice <- MCCapacityChoice
  Bound <- MCBound
  MaxTime = 2
  MaxBoots = 1
  NoRow = NoRow
INVARIANTS TypeOK JoinedRowsRun LeaseBacksRun SerialWithinLease
