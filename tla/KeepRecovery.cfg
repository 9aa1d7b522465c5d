SPECIFICATION FairSpec
CONSTANTS
  MaxIteration = 4
  MaxCrashes = 3
  MaxFaults = 1
  NewFiles = TRUE
  None = None
INVARIANTS TypeOK SettledAtTop CountedOnce LogTellsTheTruth PublishedIsDurable AlwaysRecoverable
PROPERTIES FreshNumbers KeepSurvives
CHECK_DEADLOCK FALSE
