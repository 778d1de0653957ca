SPECIFICATION FairSpec
CONSTANTS
  Handler = {h1, h2}
  MaxLog = 3
  MaxRuns = 2
CHECK_DEADLOCK FALSE
INVARIANTS TypeOK NothingElseLost StopDrains ClosedDatabaseUnused
PROPERTY StopEnds
