\* A cancel request that writes after the job has ended.
SPECIFICATION Spec
CONSTANTS
  Jobs = {j1}
  Items = {i1}
  Clicks = {k1}
  None = None
  Bound <- NoDisturbance
CHECK_DEADLOCK FALSE
INVARIANTS
  SuccessShowsItsItems
