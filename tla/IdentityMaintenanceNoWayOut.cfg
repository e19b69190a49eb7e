\* A failure that cannot be recorded either.
SPECIFICATION Spec
CONSTANTS
  Requests = {r1}
  Uploads = {}
  Job = job
  Mapped = {c1}
  Bound <- UnrecordedToo
CHECK_DEADLOCK FALSE
INVARIANTS
  MaintenanceHasAWayOut
