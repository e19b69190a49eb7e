\* Each part that reads documents in turn.
SPECIFICATION DocumentsSpec
CONSTANTS
  Listed = {a1, a2, a3, a4, a5, a6, a7, a8}
  PageSize = 2
  Baseline = 3
  ChangeBound = 3
  Hands = {h1, h2}
  Pages = 2
  HandBound = 1
  Errands <- ErrandsRun
  ErrandBound = 2
  Backfills = {"b1"}
  Outsiders = {"o1", "o2"}
  UpsetBound = 2
  Indexed = {i1, i2}
  Law = law
  Candidates = 2
  Reach = 3
  ArmLimit = 1
  Paragraphs = 5
  StoreBound = 4
  Shelf = 3
  Band = 1
  MostJudged = 2
  PerCall = 1
  Limits = {1, 2}
  Room = 2
  Holdings <- Kinds
  UnitBound = 2
  BlockSize = 2
  FewWords = 1
  Budget = 3
  Lineage = 3
  ChainMax = 3
  ItemBound = 2
  Folders = {w1, w2}
  FirstItems = {0, 1}
  ChainBound <- ChainLimits
  ChainTotal = 2
  PartOrder <- PartsByTitle
  Revised <- PartsReplaced
  Jobs = {j1}
  Commands = {k1}
  EditionBound = 2
  TroubleBound = 1
  SlugOf <- Slugs
  Related <- Joined
  MaxHold = 4
  Phrases = 2
  RoundBound = 2
  Callers = {c1, c2}
  MishapBound = 1
  Issued <- IssuedIn
  Title <- Titles
  Says <- Texts
  Textless <- NoText
  Plans <- PlansOf
  ShortlistLimit = 1
  ReviewLimit = 2
  ApplyLimit = 1
  AnnexureLimit = 2
  SlipBound = 1
CHECK_DEADLOCK FALSE
INVARIANTS
  DocumentsTypeOK
  NothingFoundIsLost
  DrawnFromTheirTexts
  AnswersAreTraced
PROPERTIES
  CopiesAreTrue
