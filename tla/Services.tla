------------------------------ MODULE Services ------------------------------
(***************************************************************************)
(* The parts of the application that work on tables, files and stores of   *)
(* their own.  They run in one process, or in commands beside it, and no   *)
(* part reads or writes the state of another: a behaviour of all of them   *)
(* is an interleaving of the behaviours of each, and what is said of one   *)
(* of them holds in all if it holds when that part runs alone.  So a       *)
(* behaviour of this module lets one part run, and the others rest.        *)
(***************************************************************************)
EXTENDS MaintenanceJob, LawCatalogue, LawRuns, SemanticIndex, Generation, ChatEvidence, ChatTurn,
        SchemaSetup, RequestPacer

VARIABLE part \* the part that runs

PartNames == {"jobs", "laws", "index", "generation", "evidence", "chat", "setup", "pacer", "runs"}

PartsTypeOK ==
  /\ part \in PartNames
  /\ TypeOK /\ LawTypeOK /\ IndexTypeOK /\ GenTypeOK
  /\ EvidenceTypeOK /\ ChatTypeOK /\ SetupTypeOK /\ PacerTypeOK
  /\ RunTypeOK

\* A part that rests is in one of its initial states.
Rests(p, idle) == IF part = p THEN TRUE ELSE idle

ServicesInit ==
  /\ part \in PartNames
  /\ Init /\ Rests("jobs", due = Items)
  /\ LawInit /\ IndexInit /\ GenInit
  /\ EvidenceInit /\ ChatInit /\ PacerInit /\ RunInit
  /\ SetupInit /\ Rests("setup", stored = {} /\ columns = Columns)

Rest(p) ==
  /\ part = p /\ UNCHANGED part
  /\ IF p = "jobs" THEN TRUE ELSE UNCHANGED vars
  /\ IF p = "laws" THEN TRUE ELSE UNCHANGED lawVars
  /\ IF p = "index" THEN TRUE ELSE UNCHANGED indexVars
  /\ IF p = "generation" THEN TRUE ELSE UNCHANGED genVars
  /\ IF p = "evidence" THEN TRUE ELSE UNCHANGED evidenceVars
  /\ IF p = "chat" THEN TRUE ELSE UNCHANGED chatVars
  /\ IF p = "setup" THEN TRUE ELSE UNCHANGED setupVars
  /\ IF p = "pacer" THEN TRUE ELSE UNCHANGED pacerVars
  /\ IF p = "runs" THEN TRUE ELSE UNCHANGED runVars

Working    == part = "jobs" /\ Next /\ Rest("jobs")
Lawmaking  == part = "laws" /\ LawNext /\ Rest("laws")
Indexing   == part = "index" /\ IndexNext /\ Rest("index")
Generating == part = "generation" /\ GenNext /\ Rest("generation")
Showing    == part = "evidence" /\ EvidenceNext /\ Rest("evidence")
Chatting   == part = "chat" /\ ChatNext /\ Rest("chat")
Setting    == part = "setup" /\ SetupNext /\ Rest("setup")
Fetching   == part = "pacer" /\ PacerNext /\ Rest("pacer")
Bringing   == part = "runs" /\ RunNext /\ Rest("runs")

allVars == <<part, vars, lawVars, indexVars, genVars, evidenceVars, chatVars, setupVars,
             pacerVars, runVars>>

ServicesNext ==
  \/ Working \/ Lawmaking \/ Indexing \/ Generating \/ Showing \/ Chatting
  \/ Setting \/ Fetching \/ Bringing

ServicesFair ==
  /\ WF_vars(part = "jobs" /\ Owner) /\ WF_vars(part = "jobs" /\ Boot)
  /\ WF_pacerVars(part = "pacer" /\ Tick)
  /\ \A f \in Fetches : WF_pacerVars(part = "pacer" /\ Proceed(f))
  /\ WF_genVars(part = "generation" /\ BootServer)
  /\ \A j \in Tasks : WF_genVars(part = "generation" /\ JobSteps(j))

ServicesSpec == ServicesInit /\ [][ServicesNext]_allVars /\ ServicesFair

-----------------------------------------------------------------------------
(* Properties: those of MaintenanceJob, and those of the other parts under *)
(* the names by which a run checks them.                                   *)

\* What a law's page says of its earlier texts can be downloaded: the history of a law is on file.
\* No sync, upload or pin takes the last text in force away from a law that keeps a text without
\* a date, and a sync delists only what SBP's page, as it fetched it, no longer lists.  A run that
\* brings laws in shows how it ended, and a file that was accepted is indexed, on its way there, or
\* called failed.
LawsAreKept ==
  /\ []RunsSayHowTheyEnded /\ []AcceptedIsAccountedFor
  /\ []HistoryIsOnFile /\ KeepsATextInForce /\ DelistedIsUnlisted

\* What has begun ends: a fetch, with a page or an error; a corpus maintenance job, which gives the
\* job lock back; and a generation job, unless its failure could not be recorded.
WorkEnds == FetchesEnd /\ JobsGiveTheLockBack /\ TasksEnd

=============================================================================
