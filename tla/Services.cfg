\* Each part of the application in turn, with its events once or twice.
SPECIFICATION ServicesSpec
CONSTANTS
  None = None
  NoText = NoText
  NoEdition = NoEdition
  Nothing = Nothing
  Jobs = {j1}
  Items = {i1, i2}
  Clicks = {k1}
  Bound <- JobLimits
  Files = {file}
  Manual = manual
  Parts = {p1}
  Editions = {e1, e2}
  Dates = {1}
  LawBound <- LawLimits
  LawTotal = 2
  Bodies = {body}
  Annexes = {annex}
  Laws = {law1}
  Texts = {x1, x2}
  Indexers = {w1, w2}
  SameSize = FALSE
  IndexBound <- IndexLimits
  IndexTotal = 3
  Circulars = {c1, c2}
  Statutes = {act}
  Tasks = {t1, t2}
  Scopes <- Chosen
  Results <- Verdicts
  GenBound <- GenLimits
  GenTotal = 2
  Letters = {letter}
  Acts = {act}
  Chunks = 2
  Rounds = 3
  CallBound = 1
  Clips = FALSE
  Sessions = {s1}
  Turns = {q1, q2}
  Nobody = nobody
  ChatRounds = 1
  ChatBound = 1
  ChatTotal = 1
  Starters = {b1, b2}
  Moved = {m1, m2}
  Columns = {n1, n2}
  SetupBound = 1
  Fetches = {f1, f2}
  Hops = 2
  Attempts = 2
  Delay = 2
  Patience = 3
  ClockBound = 4
  Uploading <- LawRunsOf
  KindOf <- RunKinds
  FileOf <- RunFiles
  OnListing <- Listed
  MishapBound = 2
CHECK_DEADLOCK FALSE
INVARIANTS
  PartsTypeOK
  CompletedIsDone
  SuccessIsComplete
  StoreIsVouchedFor
  StatusFollowsEdges
  SavedIsShown
  RowsAreKept
PROPERTIES
  CancelledTakesNoOther
  LawsAreKept
  ReadingGoesOn
  RequestsKeepTheirDistance
  WorkEnds
