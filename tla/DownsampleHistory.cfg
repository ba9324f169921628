CONSTANTS
  Bucket5m = 2
  Bucket1h = 4
  Skew = 2
  KeepRaw = 6
  Keep5m = 8
  Keep1h = 12
  MayFail = FALSE
  Start = 4
  MaxTime = 14
  MaxRows = 2
SPECIFICATION HistorySpec
INVARIANTS
  BucketsAreFull
