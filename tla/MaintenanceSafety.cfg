CONSTANTS
  None = None
  Hosts = {h1}
  Tasks = {t1, t2}
  Requests = {r1, r2}
  Batch = 1
  MaxSeq = 4
  AgentLog = 4
  Willing = {TRUE, FALSE}
SPECIFICATION Spec
SYMMETRY Symmetry
INVARIANTS
  OneActiveTask
  ExpiredIsNeverExecuted
PROPERTIES
  KeepsPromise
