------------------------------- MODULE LawRuns -------------------------------
(***************************************************************************)
(* The runs that bring laws into the corpus, and the rows that show them:  *)
(* an upload to the server, which is finished by a thread of its own       *)
(* (main.py), an upload by a command and a sync (cli/commands.py), each    *)
(* with a row of sync_statuses.  A server that boots fails the rows of     *)
(* whatever it takes for interrupted, the commands' too.                   *)
(*                                                                         *)
(* What the catalogue makes of an edition is the matter of LawCatalogue,   *)
(* and the vectors that of SemanticIndex.                                  *)
(***************************************************************************)
EXTENDS FiniteSets, Naturals

CONSTANTS
  Uploading,   \* the runs
  KindOf,      \* of each: "web", "command" or "sync"
  FileOf,      \* the file of each upload
  OnListing,   \* the files that are editions of documents on SBP's listing
  MishapBound  \* how many things may go wrong

ASSUME MishapsAssumption == MishapBound \in Nat
ASSUME KindsAssumption == KindOf \in [Uploading -> {"web", "command", "sync"}]

VARIABLES
  runRow,     \* durable: the row of each run
  hand,       \* where each run is
  answered,   \* what whoever uploads a file was told
  kept,       \* durable: the files that are editions
  searchable, \* durable: those that are in the keyword index
  scanned,    \* durable: those that circulars were scanned for
  serving,    \* the server is up
  mishaps

runVars == <<runRow, hand, answered, kept, searchable, scanned, serving, mishaps>>

-----------------------------------------------------------------------------
NoRow  == [is |-> "none", error |-> "none", stamped |-> FALSE]
NoHand == [at |-> "off", dirty |-> FALSE, held |-> FALSE, result |-> "none"]
Uploads == {r \in Uploading : KindOf[r] # "sync"}
Webs    == {r \in Uploading : KindOf[r] = "web"}
Alive(r) == hand[r].at \notin {"off", "ended", "dead"}

RunStages == {"off", "check", "store", "row", "start", "begin", "index", "links", "end", "failing", "ended", "dead"}
RunRow    == [is: {"none", "queued", "running", "success", "failed"}, error: {"none", "own", "restart"},
              stamped: BOOLEAN]
RunHand   == [at: RunStages, dirty: BOOLEAN, held: BOOLEAN, result: {"none", "success", "failed"}]

RunTypeOK ==
  /\ runRow \in [Uploading -> RunRow] /\ hand \in [Uploading -> RunHand]
  /\ answered \in [Uploading -> {"nothing", "queued", "duplicate", "refused", "error"}]
  /\ searchable \subseteq kept /\ scanned \subseteq kept /\ serving \in BOOLEAN /\ mishaps \in 0..MishapBound

RunInit ==
  /\ runRow = [r \in Uploading |-> NoRow] /\ hand = [r \in Uploading |-> NoHand]
  /\ answered = [r \in Uploading |-> "nothing"]
  /\ kept = {} /\ searchable = {} /\ scanned = {} /\ serving = TRUE /\ mishaps = 0

Goes(r, place) == hand' = [hand EXCEPT ![r].at = place]
Tell(r, what) == answered' = [answered EXCEPT ![r] = what]
Shows(r, row)  == runRow' = [runRow EXCEPT ![r] = row]
Mishap == mishaps < MishapBound /\ mishaps' = mishaps + 1
corpusRuns == <<kept, searchable, scanned>>

\* A row at the end of its run, whatever it says by then.  A command's upload clears its error, too;
\* a sync leaves there what a server wrote that booted meanwhile.
\* Faulty variant: only a row that says running is ended.
SettledIfRunning(r, result) ==
  IF runRow[r].is # "running" THEN runRow[r] ELSE [is |-> result, error |-> "none", stamped |-> TRUE]
Settled(r, result) ==
  [is |-> result, stamped |-> TRUE,
   error |-> IF result = "failed" THEN "own" ELSE IF KindOf[r] = "command" THEN "none" ELSE runRow[r].error]
EndsWith(r, result) ==
  Shows(r, Settled(r, result)) /\ hand' = [hand EXCEPT ![r].at = "ended", ![r].result = result]

-----------------------------------------------------------------------------
(* A request has no row until its file is stored; a command has one first. *)

Receive(r) ==
  /\ KindOf[r] = "web" /\ hand[r].at = "off" /\ serving /\ Goes(r, "check")
  /\ UNCHANGED <<runRow, answered, corpusRuns, serving, mishaps>>

StartRun(r) ==
  /\ KindOf[r] # "web" /\ hand[r].at = "off"
  /\ Shows(r, [NoRow EXCEPT !.is = "running"])
  /\ Goes(r, IF KindOf[r] = "sync" THEN "index" ELSE "check")
  /\ UNCHANGED <<answered, corpusRuns, serving, mishaps>>

\* The file is refused, or held already: then there is nothing to do.  The server handles one
\* upload at a time serving to the start of its thread.
Check(r) ==
  /\ hand[r].at = "check"
  /\ r \in Webs => \A x \in Webs : hand[x].at \notin {"store", "row", "start"}
  /\ \/ /\ FileOf[r] \notin kept /\ Goes(r, "store") /\ UNCHANGED <<runRow, answered>>
     \/ /\ FileOf[r] \in kept
        /\ IF r \in Webs
           THEN /\ Tell(r, "duplicate") /\ hand' = [hand EXCEPT ![r].at = "ended", ![r].held = TRUE]
                /\ UNCHANGED runRow
           ELSE /\ Shows(r, Settled(r, "success")) /\ UNCHANGED answered
                /\ hand' = [hand EXCEPT ![r].at = "ended", ![r].held = TRUE, ![r].result = "success"]
     \/ IF r \in Webs THEN Tell(r, "refused") /\ Goes(r, "ended") /\ UNCHANGED runRow
        ELSE EndsWith(r, "failed") /\ UNCHANGED answered
  /\ UNCHANGED <<corpusRuns, serving, mishaps>>

\* What another has stored since cannot be stored again.
StoreFile(r) ==
  /\ hand[r].at = "store"
  /\ IF FileOf[r] \in kept
     THEN /\ IF r \in Webs THEN Tell(r, "error") /\ Goes(r, "ended") ELSE Goes(r, "failing") /\ UNCHANGED answered
          /\ UNCHANGED kept
     ELSE /\ kept' = kept \union {FileOf[r]} /\ UNCHANGED answered
          /\ Goes(r, IF r \in Webs THEN "row" ELSE "index")
  /\ UNCHANGED <<runRow, searchable, scanned, serving, mishaps>>

QueueRow(r) ==
  /\ hand[r].at = "row" /\ Shows(r, [NoRow EXCEPT !.is = "queued"]) /\ Goes(r, "start")
  /\ UNCHANGED <<answered, corpusRuns, serving, mishaps>>

StartThread(r) ==
  /\ hand[r].at = "start" /\ Goes(r, "begin") /\ Tell(r, "queued")
  /\ UNCHANGED <<runRow, corpusRuns, serving, mishaps>>

-----------------------------------------------------------------------------
(* finish_upload, by the thread or the command; and the end of a sync.     *)

BeginWork(r) ==
  /\ hand[r].at = "begin" /\ Shows(r, [runRow[r] EXCEPT !.is = "running"]) /\ Goes(r, "index")
  /\ UNCHANGED <<answered, corpusRuns, serving, mishaps>>

\* A sync stores what it captured, and indexes what is pending of the documents that are listed.
IndexText(r) ==
  /\ hand[r].at = "index"
  /\ searchable' = searchable \union (IF KindOf[r] = "sync" THEN kept \intersect OnListing ELSE {FileOf[r]})
  /\ Goes(r, IF KindOf[r] = "sync" THEN "end" ELSE "links")
  /\ UNCHANGED <<runRow, answered, kept, scanned, serving, mishaps>>

ScanCirculars(r) ==
  /\ hand[r].at = "links" /\ scanned' = scanned \union {FileOf[r]} /\ Goes(r, "end")
  /\ UNCHANGED <<runRow, answered, kept, searchable, serving, mishaps>>

EndRun(r) ==
  /\ hand[r].at = "end" /\ EndsWith(r, "success")
  /\ UNCHANGED <<answered, corpusRuns, serving, mishaps>>

\* Something fails, which may leave the session to be rolled back.  Only the command's upload
\* does that first, so that another run's failure is then not recorded.
WorkFails(r) == \E dirty \in BOOLEAN :
  /\ hand[r].at \in {"index", "links"} \/ (hand[r].at = "store" /\ r \notin Webs)
  /\ Mishap /\ hand' = [hand EXCEPT ![r].at = "failing", ![r].dirty = dirty]
  /\ UNCHANGED <<runRow, answered, corpusRuns, serving>>

RecordFailure(r) ==
  /\ hand[r].at = "failing"
  /\ IF hand[r].dirty /\ KindOf[r] # "command" THEN Goes(r, "dead") /\ UNCHANGED runRow ELSE EndsWith(r, "failed")
  /\ UNCHANGED <<answered, corpusRuns, serving, mishaps>>

\* A change of the row fails: a request is answered with an error; a thread or a sync is over; a
\* command that could not record its success records a failure.  Nor may the thread start.
RowFails(r) ==
  /\ Mishap
  /\ \/ hand[r].at \in {"store", "row", "start"} /\ r \in Webs /\ Tell(r, "error") /\ Goes(r, "ended")
     \/ hand[r].at \in {"begin", "failing"} /\ Goes(r, "dead") /\ UNCHANGED answered
     \/ hand[r].at = "end" /\ UNCHANGED answered
        /\ hand' = [hand EXCEPT ![r].at = IF KindOf[r] = "command" THEN "failing" ELSE "dead"]
  /\ UNCHANGED <<runRow, corpusRuns, serving>>

\* `laws reindex`, as far as it comes.
Reindex == \E some \in SUBSET kept :
  /\ searchable' = searchable \union some
  /\ UNCHANGED <<runRow, hand, answered, kept, scanned, serving, mishaps>>

-----------------------------------------------------------------------------
CommandDies(r) ==
  /\ KindOf[r] # "web" /\ Alive(r) /\ Mishap /\ Goes(r, "dead")
  /\ UNCHANGED <<runRow, answered, corpusRuns, serving>>

ServerDies ==
  /\ serving /\ serving' = FALSE /\ Mishap
  /\ hand' = [r \in Uploading |-> IF r \in Webs /\ Alive(r) THEN [hand[r] EXCEPT !.at = "dead"] ELSE hand[r]]
  /\ UNCHANGED <<runRow, answered, corpusRuns>>

\* fail_interrupted_sync_jobs: whatever is queued or running, whoever runs it.
RestartServer ==
  /\ ~serving /\ serving' = TRUE
  /\ runRow' = [r \in Uploading |-> IF runRow[r].is \in {"queued", "running"}
                                    THEN [runRow[r] EXCEPT !.is = "failed", !.error = "restart"] ELSE runRow[r]]
  /\ UNCHANGED <<hand, answered, corpusRuns, mishaps>>

RunNext ==
  \/ Reindex \/ ServerDies \/ RestartServer
  \/ \E r \in Uploading :
       \/ Receive(r) \/ StartRun(r) \/ Check(r) \/ StoreFile(r) \/ QueueRow(r) \/ StartThread(r) \/ BeginWork(r)
       \/ IndexText(r) \/ ScanCirculars(r) \/ EndRun(r) \/ WorkFails(r) \/ RecordFailure(r) \/ RowFails(r)
       \/ CommandDies(r)

RunSpec == RunInit /\ [][RunNext]_runVars

-----------------------------------------------------------------------------
(* Properties.                                                             *)

\* A run that came to an end, and recorded it, shows how it ended, although a server that booted
\* meanwhile may have called it interrupted (main.py:188).
RunsSayHowTheyEnded ==
  \A r \in Uploading : hand[r].result # "none" =>
    /\ runRow[r].is = hand[r].result /\ runRow[r].stamped
    /\ r \in Uploads /\ hand[r].result = "success" => runRow[r].error = "none"

\* A file that was stored, and is not in the keyword index or was not looked for in the circulars,
\* is in the hands of the run that stored it, or that run shows no success, or whoever uploaded
\* it was not told that it is queued.  That it is held already is no answer.
AcceptedIsAccountedFor ==
  \A f \in kept \ (searchable \intersect scanned) : \E r \in Uploads :
    /\ FileOf[r] = f /\ ~hand[r].held
    /\ Alive(r) \/ runRow[r].is \in {"queued", "running", "failed"} \/ (r \in Webs /\ answered[r] # "queued")
=============================================================================
