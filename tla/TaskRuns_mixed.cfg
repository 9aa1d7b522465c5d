SPECIFICATION Spec
CONSTANTS
  bench = bench
  gpu = gpu
  build = build
  note = note
  Task = {build, note}
  Lanes <- MCLanes
  Ttl <- MCTtl
  DefaultTtl = 2
  Unjoined = {build}
  Inline = {note}
  Exempt = {}
  Lane <- MCLane
  Conflicts <- MCConflicts
  Pid = {1, 2}
  CapacityChoice <- MCCapacityChoice
  Bound <- MCBound
  MaxTime = 1
  MaxBoots = 0
  NoRow = NoRow
INVARIANTS OneBody PumpRunsReachable
PROPERTY OutcomeStands
