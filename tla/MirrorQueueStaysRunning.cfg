\* A process killed during maintenance: what the next boot leaves.
SPECIFICATION Spec
CONSTANTS
  Ids = {c1}
  Backfills = {b1}
  Syncs = {s1}
  Audits = {a1}
  None = None
  Request <- PoolRequest
  SyncWorkers = 2
  Clashing = {}
  Bound <- Restarts
CHECK_DEADLOCK FALSE
INVARIANTS
  NothingStaysRunning
