SPECIFICATION FairSpec
CONSTANTS
  MaxCycles = 3
  MaxLegs = 2
  MaxFaults = 1
  Optimize = TRUE
  Kernel = TRUE
INVARIANTS TypeOK EndedRight CycleIsEarned DoneIsThisLegs
PROPERTIES ClosingReportLives RunEnds
CHECK_DEADLOCK FALSE
