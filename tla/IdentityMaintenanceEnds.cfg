\* A crash, a failure, a timeout and a worker that does not start, all of
\* them recorded, and an operator who resumes.
SPECIFICATION FairSpec
CONSTANTS
  Requests = {r1}
  Uploads = {}
  Job = job
  Mapped = {c1, c2}
  Bound <- Once
CHECK_DEADLOCK FALSE
INVARIANTS
  MaintenanceHasAWayOut
PROPERTIES
  StartedOperationsEnd
