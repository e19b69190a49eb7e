\* An ordinary sync killed while it fetches a circular the operator skipped.
SPECIFICATION Spec
CONSTANTS
  Ids = {c1}
  Backfills = {}
  Syncs = {s1}
  Audits = {a1}
  None = None
  Request <- PoolRequest
  SyncWorkers = 2
  Clashing = {}
  Bound <- Crashes
CHECK_DEADLOCK FALSE
PROPERTIES
  SkipIsPreserved
