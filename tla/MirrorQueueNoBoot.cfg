\* Two unfinished attempts at one circular that has no gap.
SPECIFICATION FairSpec
CONSTANTS
  Ids = {c1}
  Backfills = {}
  Syncs = {s1, s2}
  Audits = {}
  None = None
  Request <- PoolRequest
  SyncWorkers = 2
  Clashing = {}
  Bound <- OneEach
CHECK_DEADLOCK FALSE
PROPERTIES
  RestartRecovers
