SPECIFICATION Spec
CONSTANTS
  r1 = r1
  r2 = r2
  RawHost <- MCRawHost
  Host <- MCHost
  NormalizeHost <- MCNormalizeHost
  Name <- MCName
  NoName <- MCNoName
  NumericId <- MCNumericId
  Ref <- MCRef
  Iid <- MCIid
  OwnIid <- MCOwnIid
  Req = {r1, r2}
  Endpoint <- TightHost
  Intents <- Notes
  Window = 1
  MaxTime = 2
  MaxRows = 3
  MaxBatch = 1
SYMMETRY ReqSymmetry
CHECK_DEADLOCK FALSE
INVARIANTS RecordedBeforeForwarded RateOvershootBounded LockedNeverSpends
PROPERTY RateForgetsOnlyByTime
