\* Two crashes and each other kind of fault once, two circulars to index, and
\* law uploads that come and go.
SPECIFICATION Spec
CONSTANTS
  Requests = {r1}
  Uploads = {u1}
  Job = job
  Mapped = {c1, c2}
  Bound <- TwoCrashes
CHECK_DEADLOCK FALSE
INVARIANTS
  TypeOK
  MaintenanceIsAlone
  ServedIsWhole
  StartedIsKnown
  ReferencesResolve
PROPERTIES
  ChangesAreBackedUp
  ChangeIsAtomic
