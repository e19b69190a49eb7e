\* A sync and a backfill whose transactions may fail, whose process may crash
\* and which the operator may shut out for maintenance: do they end?
SPECIFICATION FairSpec
CONSTANTS
  Ids = {c1, c2}
  Backfills = {b1}
  Syncs = {s1}
  Audits = {}
  None = None
  Request <- PoolRequest
  SyncWorkers = 2
  Clashing = {}
  Bound <- OneEach
CHECK_DEADLOCK FALSE
PROPERTIES
  JobsGiveTheLockBack
  ClaimsAreReleased
