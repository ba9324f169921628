CONSTANTS
  None = None
  Hosts = {h1, h2}
  Short = 4
  Long = 8
  RawSpan = 4
  Bucket = 2
  MinGap = 1
  OfflineTimeout = 2
  Default = 1
  Start = 8
  End = 10
  MaxChanges = 1
SPECIFICATION Spec
INVARIANTS
  SettledIsMine
  StretchesAreGaps
