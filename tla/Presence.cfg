CONSTANTS
  None = None
  Hosts = {h1}
  Conns = {c1, c2}
  Timers = {t1, t2, t3}
SPECIFICATION FairSpec
INVARIANTS
  NoGhostSession
  DeletedIsOut
  DispatchIsCurrent
  PublishedIsPresence
  OfflineNotices
PROPERTIES
  DeadSessionsEnd
  OfflineIsAnnounced
