\* An audit, a sync and a backfill in batches of one circular, in any order,
\* over two circulars whose rows may come to clash; the process may crash,
\* once, in maintenance or not.
SPECIFICATION Spec
CONSTANTS
  Ids = {c1, c2}
  Backfills = {b1}
  Syncs = {s1}
  Audits = {a1}
  None = None
  Request <- BatchRequest
  SyncWorkers = 2
  Clashing = {c1, c2}
  Bound <- Restarts
SYMMETRY Alike
CHECK_DEADLOCK FALSE
INVARIANTS
  TypeOK
  WorkOwnsItsClaim
  ClaimsAreReachable
  RunningIsClaimed
  ResolvedIsHeld
  NoDeadClaims
  RowsOfRecoveredServerRun
  SuccessMeansExhausted
PROPERTIES
  ClaimsAreDue
  JobsRespectSkips
  HeldStaysResolved
