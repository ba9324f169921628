CONSTANTS
  None = None
  Hosts = {h1}
  Tasks = {t1}
  Requests = {r1}
  Batch = 2
  MaxSeq = 4
  AgentLog = 4
  Willing = {TRUE}
SPECIFICATION FairSpec
INVARIANTS
  StoredEvents
PROPERTIES
  ResultArrives
  OfferIsAnswered
