CONSTANTS
  None = None
  Hosts = {h1, h2}
  First = h1
  Cap = 2
  MaxLoads = 2
  MaxChanges = 3
SPECIFICATION MCSpec
INVARIANTS
  CleanAgrees
PROPERTIES
  InterruptionHeals
  ReportingIsShown
