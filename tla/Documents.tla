----------------------------- MODULE Documents ------------------------------
(***************************************************************************)
(* The parts of the application that find, keep and read documents: the    *)
(* crawl of SBP's listing, the store of pages and annexes, the row of a    *)
(* missing circular, the search of the corpus, the inventory of a subject, *)
(* and what is drawn from texts.                                           *)
(* None of them reads or writes the state of another, so that a behaviour  *)
(* of all is an interleaving of behaviours of each: here one part runs,    *)
(* and the others rest.                                                    *)
(***************************************************************************)
EXTENDS Naturals, FiniteSets, Sequences

CONSTANTS
  Listed, PageSize, Baseline, ChangeBound,                             \* ListingCrawl
  Hands, Pages, HandBound, Errands, ErrandBound,                       \* CircularStore
  Backfills, Outsiders, UpsetBound,                                    \* GapWriters
  Indexed, Law, Candidates, Reach, ArmLimit, Paragraphs, StoreBound,   \* CorpusSearch
  Shelf, Band, MostJudged, PerCall, Limits, Room, Holdings,            \* InventorySearch
  UnitBound, BlockSize, FewWords, Budget,                              \* Extraction
  Lineage, ChainMax, ItemBound, Folders, FirstItems, ChainBound, ChainTotal, \* AmendmentChains
  PartOrder, Revised, Jobs, Commands, EditionBound, TroubleBound,      \* LawAnalysis
  SlugOf, Related, MaxHold, Phrases, RoundBound,                       \* Citations
  Callers, MishapBound,                                                \* TraceLog
  Issued, Title, Says, Textless, Plans, ShortlistLimit, ReviewLimit, ApplyLimit, AnnexureLimit, SlipBound \* RelationGraph

ASSUME ListingAssumption ==
  /\ PageSize \in Nat \ {0}
  /\ IsFiniteSet(Listed) /\ ChangeBound \in Nat /\ ChangeBound <= Cardinality(Listed)
ASSUME StoreAssumption ==
  /\ Pages \in Nat \ {0} /\ HandBound \in Nat /\ ErrandBound \in Nat
  /\ Errands \subseteq {"sync", "lazy", "body", "fetch", "mend", "refresh", "view", "reload",
                  "reextract", "anew"}
ASSUME WriterAssumption ==
  /\ Backfills \intersect Outsiders = {} /\ "nobody" \notin Backfills \union Outsiders
  /\ UpsetBound \in Nat
\* The parts of a collection are laws; what runs is a job or a command.
ASSUME AnalysisAssumption ==
  /\ PartOrder \in Seq(STRING) /\ \A i \in DOMAIN PartOrder : PartOrder[i] # "whole"
  /\ Revised \subseteq {PartOrder[i] : i \in DOMAIN PartOrder}
  /\ Jobs \intersect Commands = {} /\ "none" \notin Jobs \union Commands
  /\ EditionBound \in Nat \ {0} /\ TroubleBound \in Nat
\* Circulars are numbered in the order of their dates.
ASSUME ChainAssumption ==
  /\ Lineage \in Nat \ {0} /\ ItemBound \in Nat /\ FirstItems \subseteq Nat
  /\ ChainBound \in [{"relate", "fold", "fail"} -> Nat]
\* A circular has a date, and says what it says of circulars there are; a plan is of such.
ASSUME GraphAssumption ==
  /\ IsFiniteSet(DOMAIN Issued) /\ Textless \subseteq DOMAIN Issued /\ SlipBound \in Nat
  /\ \A c \in DOMAIN Issued :
       /\ Issued[c] \in Nat /\ Says[c].annexed \subseteq DOMAIN Issued
       /\ Says[c].names \subseteq {"amends", "clarifies", "supersedes"} \X DOMAIN Issued
  /\ "nobody" \notin DOMAIN Plans
  /\ \A d \in DOMAIN Plans : \A p \in Plans[d] :
       p \in [mode : {"graph", "batch", "job"}, todo : Seq(DOMAIN Issued), depth : Nat, limit : Nat, refresh : BOOLEAN]
\* An index names finitely many circulars.
ASSUME SearchAssumption ==
  /\ IsFiniteSet(Indexed)
  /\ Candidates \in Nat /\ Reach \in Nat /\ ArmLimit \in Nat /\ Paragraphs \in Nat
\* So many documents are judged, so many at a time, and so many are shown.
ASSUME InventoryAssumption ==
  /\ Shelf \in Nat /\ MostJudged \in Nat /\ Limits \subseteq Nat /\ PerCall \in Nat \ {0}
  /\ Holdings \subseteq [says : {"query", "other", "nothing"}, permitted : BOOLEAN, embedded : BOOLEAN, takes : 1..2]
\* The threads that call the model are neither the one that opened the trace nor a server's.
ASSUME TraceAssumption ==
  /\ IsFiniteSet(Callers) /\ Callers \intersect {"owner", "boot", "free"} = {} /\ MishapBound \in Nat
\* There are finitely many documents, and a slug is made for each of them.
ASSUME CitationAssumption ==
  /\ IsFiniteSet(DOMAIN SlugOf) /\ \A d \in DOMAIN SlugOf : SlugOf[d] \in Seq(Nat)
  /\ MaxHold \in Nat /\ Phrases \in Nat /\ RoundBound \in Nat

VARIABLES
  part, \* the part that runs
  listing, withdrawn, advertised, changes, crawl,
  html, cache, disk, body, annex, scanned, fts, hand, stops, begun, slipped, behind,
  gap, stored, attempt, doing, server, click, upsets,
  question, answer,
  shelf, limit, inquiry,
  subject, work,
  amendments, blank, merged, folding, chainCount,
  current, sheet, rollup, edges, writer, runner, troubles,
  offer, read, draft, held, shown, spilt, cited,
  command, record, timeline, latch, emitter, stand, number, lost, mishaps,
  links, grasped, status, driver, keeper, told, foreign, reply, slips

crawlState  == <<listing, withdrawn, advertised, changes, crawl>>
storeState  == <<html, cache, disk, body, annex, scanned, fts, hand, stops, begun, slipped, behind>>
gapState    == <<gap, stored, attempt, doing, server, click, upsets>>
searchState == <<question, answer>>
askState    == <<shelf, limit, inquiry>>
readState   == <<subject, work>>
chainState  == <<amendments, blank, merged, folding, chainCount>>
lawState    == <<current, sheet, rollup, edges, writer, runner, troubles>>
citeState   == <<offer, read, draft, held, shown, spilt, cited>>
traceState  == <<command, record, timeline, latch, emitter, stand, number, lost, mishaps>>
graphState  == <<links, grasped, status, driver, keeper, told, foreign, reply, slips>>

Listings  == INSTANCE ListingCrawl
Store     == INSTANCE CircularStore
Queueing  == INSTANCE GapWriters
Searching == INSTANCE CorpusSearch
Inventory == INSTANCE InventorySearch
Reading   == INSTANCE Extraction
Merging   == INSTANCE AmendmentChains
Analysing == INSTANCE LawAnalysis
Citing    == INSTANCE Citations
Tracing   == INSTANCE TraceLog
Relating  == INSTANCE RelationGraph

PartNames == {"listing", "store", "queue", "search", "inventory", "extraction", "chains", "laws",
              "citations", "traces", "graph"}

\* The state of the part that runs has its type; the others are where they began.
DocumentsTypeOK ==
  /\ part \in PartNames
  /\ part = "listing" => Listings!CrawlTypeOK
  /\ part = "store" => Store!StoreTypeOK
  /\ part = "queue" => Queueing!GapTypeOK
  /\ part = "search" => Searching!SearchTypeOK
  /\ part = "inventory" => Inventory!InventoryTypeOK
  /\ part = "extraction" => Reading!ExtractionTypeOK
  /\ part = "chains" => Merging!ChainTypeOK
  /\ part = "laws" => Analysing!AnalysisTypeOK
  /\ part = "citations" => Citing!CitationTypeOK
  /\ part = "traces" => Tracing!TraceTypeOK
  /\ part = "graph" => Relating!GraphTypeOK

\* A part that rests is in one of its initial states.
Rests(p, idle) == IF part = p THEN TRUE ELSE idle

DocumentsInit ==
  /\ part \in PartNames
  /\ Listings!CrawlInit /\ Rests("listing", advertised)
  /\ Store!StoreInit /\ Rests("store", body = 0)
  /\ Queueing!GapInit /\ Rests("queue", ~gap.is)
  /\ Rests("inventory", /\ limit = (CHOOSE n \in Limits : TRUE)
                        /\ shelf = [d \in 1..Shelf |-> CHOOSE h \in Holdings : TRUE])
  /\ Inventory!InventoryInit
  /\ Reading!ExtractionInit
  /\ Rests("extraction", subject.units = <<>> /\ subject.wants = "values"
                         /\ ~subject.parted /\ ~subject.lacking)
  /\ Merging!ChainInit /\ Rests("chains", blank = {} /\ <<Lineage, 1>> \in amendments)
  /\ Analysing!AnalysisInit /\ Rests("laws", \A p \in Revised : current[p] = 0)
  /\ Citing!CitationInit /\ Rests("citations", read = {} /\ offer = <<>>)
  /\ Tracing!TraceInit /\ Rests("traces", command)
  /\ Relating!GraphInit
  /\ IF part = "search" THEN Searching!SearchInit
     ELSE /\ question = Searching!Asked("order", {}, {}, <<>>, <<>>, {}, <<1>>, {1})
          /\ answer = Searching!Open

Rest(p) ==
  /\ part = p /\ UNCHANGED part
  /\ IF p = "listing" THEN TRUE ELSE UNCHANGED crawlState
  /\ IF p = "store" THEN TRUE ELSE UNCHANGED storeState
  /\ IF p = "queue" THEN TRUE ELSE UNCHANGED gapState
  /\ IF p = "search" THEN TRUE ELSE UNCHANGED searchState
  /\ IF p = "inventory" THEN TRUE ELSE UNCHANGED askState
  /\ IF p = "extraction" THEN TRUE ELSE UNCHANGED readState
  /\ IF p = "chains" THEN TRUE ELSE UNCHANGED chainState
  /\ IF p = "laws" THEN TRUE ELSE UNCHANGED lawState
  /\ IF p = "citations" THEN TRUE ELSE UNCHANGED citeState
  /\ IF p = "traces" THEN TRUE ELSE UNCHANGED traceState
  /\ IF p = "graph" THEN TRUE ELSE UNCHANGED graphState

Crawling   == part = "listing" /\ Listings!CrawlNext /\ Rest("listing")
Storing    == part = "store" /\ Store!StoreNext /\ Rest("store")
Gapping    == part = "queue" /\ Queueing!GapNext /\ Rest("queue")
Finding    == part = "search" /\ Searching!SearchNext /\ Rest("search")
Surveying  == part = "inventory" /\ Inventory!InventoryNext /\ Rest("inventory")
Extracting == part = "extraction" /\ Reading!ExtractionNext /\ Rest("extraction")
Folding    == part = "chains" /\ Merging!ChainNext /\ Rest("chains")
Judging    == part = "laws" /\ Analysing!AnalysisNext /\ Rest("laws")
Answering  == part = "citations" /\ Citing!CitationNext /\ Rest("citations")
Recording  == part = "traces" /\ Tracing!TraceNext /\ Rest("traces")
Following  == part = "graph" /\ Relating!GraphNext /\ Rest("graph")

documentVars == <<part, crawlState, storeState, gapState, searchState, askState, readState,
                  chainState, lawState, citeState, traceState, graphState>>

DocumentsNext == Crawling \/ Storing \/ Gapping \/ Finding \/ Surveying \/ Extracting \/ Folding
                 \/ Judging \/ Answering \/ Recording \/ Following

DocumentsSpec == DocumentsInit /\ [][DocumentsNext]_documentVars

-----------------------------------------------------------------------------
(* Properties of the parts, under the names by which a run checks them.    *)

\* What is kept of SBP's site is what SBP published: a crawl that ends as a success has read the
\* listing as it was at one moment; the text of a row is a page; an annex without text is fetched
\* again; and the keyword index follows the text.  What the mirror says it lacks or holds is so,
\* whichever processes wrote it last, and what one of them left open another can close.
CopiesAreTrue ==
  /\ Listings!CaptureIsTheListing
  /\ [](Store!TextIsAPage /\ Store!NothingIsForgotten /\ Store!KeywordsFollowText)
  /\ [](Queueing!NothingIsStranded /\ Queueing!ResolvedIsHeld /\ Queueing!MissIsQueued)

\* What the retrievers found is not lost on the way to the reader: the best of it is in the answer,
\* every hit is on some page, whatever an inventory does not list is accounted for, and the
\* circulars that relate to one that was gone through are gone through too.
NothingFoundIsLost ==
  /\ Searching!NothingFoundIsLost
  /\ Inventory!TermsComeFirst /\ Inventory!EveryCandidateIsAccountedFor /\ Inventory!CompleteIsComplete
  /\ Relating!GraphIsCovered

\* What is drawn from texts is true of them: a checklist covers the document, or says which part of
\* it is missing; a consolidation that is shown as current is one of the chain as it is, and the
\* history of each of its items explains the value it shows; what is kept with an edition of a law
\* was drawn from it, its relationships are of one analysis, and the summary of a collection covers
\* the parts that were summarised before it; and of two circulars on a subject one replaces the other.
DrawnFromTheirTexts ==
  /\ part = "extraction" => Reading!ChecklistSaysWhatItLacks
  /\ part = "chains" => Merging!ShownIsCurrent /\ Merging!HistoryExplains
  /\ part = "laws" => Analysing!KeptWithItsEdition /\ Analysing!RollupSeesItsParts /\ Analysing!EdgesAreReplaced
  /\ part = "graph" => Relating!NoneReplacesItself

\* What the model said can be traced: the reader sees its answer whole, with links to what it was
\* shown, and a warning at what it did not read; and the trace of an operation has its events
\* numbered without gaps, whoever writes them, each call with the number of its request, and its
\* end.  An answer that cites a circular that was replaced says so, or is warned about.
AnswersAreTraced ==
  /\ Citing!HandlesAreAddresses /\ Citing!StreamIsTheAnswer /\ Citing!UnreadIsWarned
  /\ Tracing!EventsAreNumbered /\ Tracing!AttemptsAreNumbered /\ Tracing!EndIsOnRecord
  /\ Relating!ReplacedIsWarned

=============================================================================
