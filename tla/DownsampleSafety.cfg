CONSTANTS
  Bucket5m = 2
  Bucket1h = 4
  Skew = 2
  KeepRaw = 5
  Keep5m = 6
  Keep1h = 8
  MayFail = TRUE
  Start = 4
  MaxTime = 11
  MaxRows = 2
SPECIFICATION HistorySpec
INVARIANTS
  HistoryTypeOK
  NothingSkipped
  DeletedLeavesNothing
