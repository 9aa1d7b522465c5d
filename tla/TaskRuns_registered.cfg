SPECIFICATION Spec
CONSTANTS
  bench = bench
  gpu = gpu
  build = build
  note = note
  Task = {note}
  Lanes <- MCLanes
  Ttl <- MCTtl
  DefaultTtl = 2
  Unjoined = {}
  Inline = {note}
  Exempt = {}
  Lane <- MCLane
  Conflicts <- MCConflicts
  Pid = {1, 2}
  CapacityChoice <- MCCapacityChoice
  Bound <- MCBound
  MaxTime = 1
  MaxBoots = 0
  NoRow = NoRow
INVARIANT RunsAreRegistered
