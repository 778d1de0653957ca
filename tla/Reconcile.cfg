SPECIFICATION FairSpec
CONSTANTS
  r1 = r1
  r2 = r2
  RawHost <- MCRawHost
  Host <- MCHost
  NormalizeHost <- MCNormalizeHost
  Name <- MCName
  NoName <- MCNoName
  NumericId <- MCNumericId
  Ref <- MCRef
  Iid <- MCIid
  OwnIid <- MCOwnIid
  Req = {r1}
  Endpoint <- TwoHosts
  Intents <- PushElsewhere
  Window = 1
  MaxTime = 0
  MaxRows = 2
  MaxBatch = 1
CHECK_DEADLOCK FALSE
PROPERTIES UnlockMeansComplete ReconcileTouchesOneProject GuardUnlocks CountersConverge
