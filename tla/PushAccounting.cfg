SPECIFICATION Spec
CONSTANTS
  r1 = r1
  r2 = r2
  RawHost <- MCRawHost
  Host <- MCHost
  NormalizeHost <- MCNormalizeHost
  Name <- MCName
  NoName <- MCNoName
  NumericId <- MCNumericId
  Ref <- MCRef
  Iid <- MCIid
  OwnIid <- MCOwnIid
  Req = {r1, r2}
  Endpoint <- OneHost
  Intents <- Pushes
  Window = 1
  MaxTime = 0
  MaxRows = 4
  MaxBatch = 2
SYMMETRY ReqSymmetry
CHECK_DEADLOCK FALSE
INVARIANTS TypeOK RecordedBeforeForwarded
PROPERTIES PushWithinLimits KeepsLedger
