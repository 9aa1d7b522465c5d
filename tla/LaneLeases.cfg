SPECIFICATION FairSpec
CONSTANTS
  Lane <- MCLane
  Conflicts <- MCConflicts
  Requests <- MCRequests
  Holder = {h1, h2}
  Pid = {p1, p2}
  CapacityChoice <- MCCapacityChoice
  Bound <- MCBound
  Ttls = {1, 2}
  MaxTime = 3
  MaxBoots = 1
  NoRow = NoRow
  MaxDelay = 1
INVARIANTS TypeOK WithinBound ConflictSetWhole
PROPERTIES NoTheft GrantWithinCapacity ImplementsMutex OrphanRowsGo
