\* A law upload linked between the plan and the transaction.
SPECIFICATION FairSpec
CONSTANTS
  Requests = {r1}
  Uploads = {u1}
  Job = job
  Mapped = {c1}
  Bound <- NoDisturbance
CHECK_DEADLOCK FALSE
PROPERTIES
  StartedOperationsEnd
