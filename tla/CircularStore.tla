--------------------------- MODULE CircularStore ----------------------------
(***************************************************************************)
(* How one circular and one annex of it come to be stored                  *)
(* (scraper/circulars.py): its page is cached on disk, its text kept in    *)
(* its row, its annex downloaded, extracted and indexed, and the rows'     *)
(* text copied to the keyword index.  Syncs, maintenance jobs, commands    *)
(* and readers do so side by side, in threads and processes that share     *)
(* neither a lock nor a transaction.                                       *)
(***************************************************************************)
EXTENDS Naturals, FiniteSets

CONSTANTS
  Hands,     \* threads and processes
  Pages,     \* how often the page is published anew: its editions are 1..Pages
  HandBound, \* how often one is killed
  Errands,   \* what they may be at
  ErrandBound \* how many they take on

VARIABLES
  html,    \* the edition on the site
  cache,   \* the cached page and the file it is first written to
  disk,    \* the annex on disk and the file it is first downloaded to
  body,    \* the text of the circular's row, an edition; 0: there is no row
  annex,   \* the row of the annex
  scanned, \* attachments_scanned_at is set
  fts,     \* the circular's row in the keyword index
  hand,    \* where each thread is
  stops,   \* how often one was killed
  begun,   \* how many errands they took on
  slipped, \* the index was left behind by one killed or overtaken
  behind   \* the row's text was read again since the index was written, by one that leaves the index alone

storeVars == <<html, cache, disk, body, annex, scanned, fts, hand, stops, begun, slipped, behind>>

-----------------------------------------------------------------------------
(* Files.  A download writes to a file of a fixed name beside the one it   *)
(* is for, and renames it.  Two downloads open the same one, and go on     *)
(* writing to what the other has renamed.                                  *)

Nothing == 0
Half == Pages + 1 \* what has been written in part
NoFile == [is |-> Nothing, by |-> {}]
Torn(h) == [is |-> Half, by |-> {h}] \* as h truncated it
Whole(e) == [is |-> e, by |-> {}]
Contents == 0..Half \* of the one edition of the annex, 1

Store == [part |-> NoFile, file |-> NoFile, where |-> [h \in Hands |-> "none"]]

Shift(where, from, to) == [h \in Hands |-> IF where[h] = from THEN to ELSE where[h]]

\* Open for writing: what is there is truncated.
Opened(s, h) == [s EXCEPT !.part = Torn(h), !.where[h] = "part"]

\* What h has opened holds all it was sent once h, the last to truncate it, has written it.
Written(s, h, content) ==
  LET f == s.where[h] IN
  IF f \in {"part", "file"} /\ s[f].by = {h} THEN [s EXCEPT ![f] = Whole(content)] ELSE s

\* Rename. What was at the name before lives on for those who write to it.
Renamed(s, h) ==
  [part |-> NoFile, file |-> s.part,
   where |-> [Shift(Shift(s.where, "file", "gone"), "part", "file") EXCEPT ![h] = "none"]]
Unlinked(s, h) ==
  [s EXCEPT !.part = NoFile, !.where = [Shift(s.where, "part", "gone") EXCEPT ![h] = "none"]]

-----------------------------------------------------------------------------
(* State.                                                                  *)

NoAnnex == [status |-> "none", text |-> Nothing, path |-> FALSE, indexed |-> FALSE]
NoRow   == [body |-> 0, annex |-> Nothing]
Complete == {"done"} \* complete_statuses: extracted, scanned or unsupported
At(h, step) == hand[h].at = step
Idle == [task |-> "none", at |-> "idle", page |-> 0, seen |-> NoRow, next |-> "idle"]
Tasks == {"none", "sync", "lazy", "body", "fetch", "mend", "refresh", "view", "reload", "reextract", "anew"}
Fetchings == {"fetch", "open", "write", "rename", "save"}
StepNames == {"idle", "fetch", "open", "write", "rename", "save", "keep", "row", "annex", "stream",
              "fill", "publish", "extract", "scanned", "vectors", "read", "index",
              "cached", "commit", "reindex"}

StoreTypeOK ==
  /\ html \in 1..Pages /\ body \in 0..Pages /\ {scanned, slipped, behind} \subseteq BOOLEAN
  /\ \A s \in {cache, disk} : s.part.is \in Contents /\ s.file.is \in Contents
  /\ annex.status \in {"none", "pending", "done", "error"} /\ annex.text \in Contents
  /\ fts.body \in 0..Pages /\ fts.annex \in Contents
  /\ \A h \in Hands : hand[h].task \in Tasks /\ hand[h].at \in StepNames
  /\ stops \in 0..HandBound /\ begun \in 0..ErrandBound

\* The circular is new, or it was synced before; a deployment brings the rows, and no files.
StoreInit ==
  /\ html = 1 /\ cache = Store
  /\ \/ /\ body = 0 /\ annex = NoAnnex /\ scanned = FALSE /\ fts = NoRow /\ disk = Store
     \/ /\ body = 1 /\ scanned = TRUE /\ fts = [body |-> 1, annex |-> 1]
        /\ annex = [status |-> "done", text |-> 1, path |-> TRUE, indexed |-> TRUE]
        /\ disk \in {Store, [Store EXCEPT !.file = Whole(1)]}
  /\ hand = [h \in Hands |-> Idle]
  /\ stops = 0 /\ begun = 0 /\ slipped = FALSE /\ behind = FALSE

Rows == [body |-> body, annex |-> annex.text]
Goes(h, step) == hand' = [hand EXCEPT ![h].at = step]
Ends(h) == hand' = [hand EXCEPT ![h] = Idle]
\* Whoever leaves off between the text and the index: the lazy indexing that follows a refresh has
\* the page to fetch again.
Owes(h) == hand[h].at \in {"read", "index", "reindex"} \/ (hand[h].task = "lazy" /\ hand[h].at \in Fetchings)
Leaves(h) == Ends(h) /\ slipped' = (slipped \/ Owes(h))
Forces(h) == hand[h].task \in {"body", "refresh"}

-----------------------------------------------------------------------------
(* What they do.                                                           *)

\* A sync or a lazy indexing, the body of a circular maintained, the annexes fetched by the
\* command or mended, a refresh by an administrator; a reader opens the annex, or reloads it; and
\* the text is read again from the files there are, with or without --reindex.
Entry(task) == CASE task \in {"view", "reload"} -> "annex"
                 [] task \in {"reextract", "anew"} -> "cached"
                 [] OTHER -> "fetch"
Start(h, task) ==
  /\ At(h, "idle") /\ begun < ErrandBound /\ begun' = begun + 1
  /\ task # "sync" /\ task \notin {"view", "reload"} => body # 0
  /\ task \in {"view", "reload"} => annex.status # "none"
  /\ hand' = [hand EXCEPT ![h] = [Idle EXCEPT !.task = task, !.at = Entry(task)]]
  /\ UNCHANGED <<html, cache, disk, body, annex, scanned, fts, stops, slipped, behind>>

Fetched(h) == CASE hand[h].task \in {"sync", "lazy", "body"} -> "save"
                [] hand[h].task = "refresh" -> "keep"
                [] OTHER -> "row"

Proceeds(h, page) ==
  hand' = [hand EXCEPT ![h].at = Fetched(h), ![h].page = IF Fetched(h) = "row" THEN 0 ELSE page]

\* The cached page is read only if it is one: a page that is empty is fetched again.
Valid(file) == file.is \in 1..Pages
\* Faulty variant: whatever is cached is read.
ValidIfThere(file) == file # NoFile

\* fetch_page_cached
ReadCached(h) ==
  /\ At(h, "fetch")
  /\ IF Valid(cache.file) /\ ~Forces(h)
     THEN Proceeds(h, IF cache.file.is = Half THEN Nothing ELSE cache.file.is)
     ELSE Goes(h, "open")
  /\ UNCHANGED <<html, cache, disk, body, annex, scanned, fts, stops, begun, slipped, behind>>

OpenPart(h) ==
  /\ At(h, "open")
  /\ hand' = [hand EXCEPT ![h].page = html, ![h].at = "write"]
  /\ cache' = Opened(cache, h)
  /\ UNCHANGED <<html, disk, body, annex, scanned, fts, stops, begun, slipped, behind>>

\* A page is one write at the start of the file, whoever truncated it last.
WritePart(h) ==
  LET f == cache.where[h] IN
  /\ At(h, "write") /\ Goes(h, "rename")
  /\ cache' = IF f \in {"part", "file"} THEN [cache EXCEPT ![f] = Whole(hand[h].page)] ELSE cache
  /\ UNCHANGED <<html, disk, body, annex, scanned, fts, stops, begun, slipped, behind>>

\* Another may have renamed the file: then there is nothing to rename, and the fetch has failed.
RenamePart(h) ==
  /\ At(h, "rename")
  /\ IF cache.part = NoFile
     THEN cache' = [cache EXCEPT !.where[h] = "none"] /\ Leaves(h)
     ELSE cache' = Renamed(cache, h) /\ Proceeds(h, hand[h].page) /\ UNCHANGED slipped
  /\ UNCHANGED <<html, disk, body, annex, scanned, fts, stops, begun, behind>>

\* The site does not answer, or not with a page.
FetchFails(h) ==
  /\ At(h, "open") /\ Leaves(h)
  /\ UNCHANGED <<html, cache, disk, body, annex, scanned, fts, stops, begun, behind>>

\* process_circular
Save(h) ==
  /\ At(h, "save")
  /\ body' = hand[h].page
  /\ hand' = [hand EXCEPT ![h].at = "read", ![h].page = 0,
                          ![h].next = IF hand[h].task = "body" THEN "vectors" ELSE "row"]
  /\ UNCHANGED <<html, cache, disk, annex, scanned, fts, stops, begun, slipped, behind>>

\* refresh_circular: what follows is the lazy indexing, from the cache.
Keep(h) ==
  /\ At(h, "keep")
  /\ body' = hand[h].page
  /\ hand' = [hand EXCEPT ![h] = [Idle EXCEPT !.task = "lazy", !.at = "fetch"]]
  /\ UNCHANGED <<html, cache, disk, annex, scanned, fts, stops, begun, slipped, behind>>

\* process_attachment: the row is there before the file is.
AddRow(h) ==
  /\ At(h, "row") /\ Goes(h, "annex")
  /\ annex' = IF annex.status = "none" THEN [NoAnnex EXCEPT !.status = "pending"] ELSE annex
  /\ UNCHANGED <<html, cache, disk, body, scanned, fts, stops, begun, slipped, behind>>

Present == annex.path /\ disk.file # NoFile

\* A view of a file that is there only serves it; a row that is complete is left alone; and a
\* file that is on disk is not downloaded again, but by a view and a reload.
Seek(h) ==
  /\ At(h, "annex")
  /\ IF hand[h].task = "view" /\ Present THEN Ends(h)
     ELSE Goes(h, CASE hand[h].task \in {"view", "reload"} -> "stream"
                    [] annex.status \in Complete /\ Present -> "scanned"
                    [] disk.file # NoFile -> "extract"
                    [] OTHER -> "stream")
  /\ UNCHANGED <<html, cache, disk, body, annex, scanned, fts, stops, begun, slipped, behind>>

\* download_attachment
Stream(h) ==
  /\ At(h, "stream") /\ Goes(h, "fill")
  /\ disk' = Opened(disk, h)
  /\ UNCHANGED <<html, cache, body, annex, scanned, fts, stops, begun, slipped, behind>>

Fill(h) ==
  /\ At(h, "fill") /\ Goes(h, "publish")
  /\ disk' = Written(disk, h, 1)
  /\ UNCHANGED <<html, cache, body, annex, scanned, fts, stops, begun, slipped, behind>>

\* What a failed download leaves of the row: a view nothing.
Failed(h) ==
  IF hand[h].task = "view" THEN Ends(h) /\ UNCHANGED annex
  ELSE /\ annex' = [annex EXCEPT !.status = "error"]
       /\ IF hand[h].task = "reload" THEN Ends(h) ELSE Goes(h, "scanned")

Publish(h) ==
  /\ At(h, "publish")
  /\ IF disk.part = NoFile
     THEN Failed(h) /\ disk' = [disk EXCEPT !.where[h] = "none"]
     ELSE /\ disk' = Renamed(disk, h)
          /\ IF hand[h].task = "view" THEN annex' = [annex EXCEPT !.path = TRUE] /\ Ends(h)
             ELSE Goes(h, "extract") /\ UNCHANGED annex
  /\ UNCHANGED <<html, cache, body, scanned, fts, stops, begun, slipped, behind>>

DownloadFails(h) ==
  /\ At(h, "fill") /\ Failed(h)
  /\ disk' = Unlinked(disk, h)
  /\ UNCHANGED <<html, cache, body, scanned, fts, stops, begun, slipped, behind>>

\* extract_document_text: half a file may be refused, or read as if it were all.
Read(content) == IF content = Half THEN {Nothing, Half} ELSE {content}
StatusOf(got) == IF got = Nothing THEN "error" ELSE "done"
\* Faulty variant: an annex is done whatever was read.
StatusDone(got) == "done"
Extract(h) ==
  /\ At(h, "extract")
  /\ \E got \in Read(disk.file.is) :
       annex' = [status |-> StatusOf(got), text |-> got, path |-> TRUE, indexed |-> FALSE]
  /\ IF hand[h].task = "reload" THEN Ends(h) ELSE Goes(h, "scanned")
  /\ UNCHANGED <<html, cache, disk, body, scanned, fts, stops, begun, slipped, behind>>

\* The command that fetches annexes ends here, and leaves it to another one to index them.
Scan(h) ==
  /\ At(h, "scanned") /\ scanned' = TRUE
  /\ CASE hand[h].task \in {"sync", "lazy"} -> Goes(h, "vectors")
       [] hand[h].task = "mend" -> hand' = [hand EXCEPT ![h].at = "read", ![h].next = "vectors"]
       [] OTHER -> Ends(h)
  /\ UNCHANGED <<html, cache, disk, body, annex, fts, stops, begun, slipped, behind>>

\* vectorize_attachment marks the row, and then brings the keyword index up to date.
Vectorize(h) ==
  /\ At(h, "vectors")
  /\ IF annex.text = Nothing \/ annex.indexed
     THEN /\ UNCHANGED annex
          /\ IF hand[h].task = "mend" THEN Ends(h)
             ELSE hand' = [hand EXCEPT ![h].at = "read", ![h].next = "idle"]
     ELSE /\ annex' = [annex EXCEPT !.indexed = TRUE]
          /\ hand' = [hand EXCEPT ![h].at = "read",
                                  ![h].next = IF hand[h].task = "mend" THEN "idle" ELSE "vectors"]
  /\ UNCHANGED <<html, cache, disk, body, scanned, fts, stops, begun, slipped, behind>>

\* The embedding of the annex fails: the row stays to be indexed.
VectorsFail(h) ==
  /\ At(h, "vectors") /\ annex.text # Nothing /\ ~annex.indexed
  /\ IF hand[h].task = "mend" THEN Ends(h)
     ELSE hand' = [hand EXCEPT ![h].at = "read", ![h].next = "idle"]
  /\ UNCHANGED <<html, cache, disk, body, annex, scanned, fts, stops, begun, slipped, behind>>

\* index_circular_fts reads the rows, and replaces the circular's row in the index.
ReadRows(h) ==
  /\ At(h, "read")
  /\ hand' = [hand EXCEPT ![h].seen = Rows, ![h].at = "index"]
  /\ UNCHANGED <<html, cache, disk, body, annex, scanned, fts, stops, begun, slipped, behind>>

\* Faulty variant: the annexes are left out of the index.
CopiedBody(h) == [body |-> hand[h].seen.body, annex |-> fts.annex]
Copied(h) == hand[h].seen

IndexRows(h) ==
  /\ At(h, "index")
  /\ fts' = Copied(h) /\ behind' = FALSE
  /\ slipped' = (slipped \/ hand[h].seen # Rows)
  /\ IF hand[h].next = "idle" THEN Ends(h)
     ELSE hand' = [hand EXCEPT ![h].at = hand[h].next, ![h].seen = NoRow, ![h].next = "idle"]
  /\ UNCHANGED <<html, cache, disk, body, annex, scanned, stops, begun>>

\* reextract_circular_from_cache.  The page that is cached, if it says anything else than the row;
\* then the annex on disk, a PDF: one that is not there loses its text.
Reread(h) ==
  /\ At(h, "cached")
  /\ hand' = [hand EXCEPT ![h].at = "commit",
                          ![h].page = IF Valid(cache.file) /\ cache.file.is # body THEN cache.file.is ELSE 0]
  /\ UNCHANGED <<html, cache, disk, body, annex, scanned, fts, stops, begun, slipped, behind>>

Reextracted(got) ==
  IF got = annex.text /\ StatusOf(got) = annex.status THEN annex
  ELSE [annex EXCEPT !.text = got, !.status = StatusOf(got), !.indexed = FALSE]

Recommit(h) ==
  LET new == hand[h].page # 0 /\ hand[h].page # body IN
  /\ At(h, "commit")
  /\ body' = IF new THEN hand[h].page ELSE body
  /\ IF annex.status = "none" THEN UNCHANGED annex
     ELSE \E got \in IF Present THEN Read(disk.file.is) ELSE {Nothing} : annex' = Reextracted(got)
  /\ IF hand[h].task = "anew"
     THEN hand' = [hand EXCEPT ![h].at = "reindex", ![h].page = 0] /\ UNCHANGED behind
     ELSE Ends(h) /\ behind' = (behind \/ new)
  /\ UNCHANGED <<html, cache, disk, scanned, fts, stops, begun, slipped>>

\* With --reindex: vectorize_attachment, which brings the keyword index up to date if it does not fail,
\* and then once more.
Reindex(h) ==
  /\ At(h, "reindex")
  /\ \/ /\ annex.status = "done" /\ annex.text # Nothing
        /\ annex' = [annex EXCEPT !.indexed = TRUE]
        /\ hand' = [hand EXCEPT ![h].at = "read", ![h].next = "read"]
     \/ /\ annex' = IF annex.status = "done" THEN [annex EXCEPT !.indexed = FALSE] ELSE annex
        /\ hand' = [hand EXCEPT ![h].at = "read", ![h].next = "idle"]
  /\ UNCHANGED <<html, cache, disk, body, scanned, fts, stops, begun, slipped, behind>>

-----------------------------------------------------------------------------
(* The environment.                                                        *)

Republish ==
  /\ html < Pages /\ html' = html + 1
  /\ UNCHANGED <<cache, disk, body, annex, scanned, fts, hand, stops, begun, slipped, behind>>

Stop(h) ==
  /\ ~At(h, "idle") /\ stops < HandBound /\ stops' = stops + 1
  /\ Leaves(h)
  /\ cache' = [cache EXCEPT !.where[h] = "none"] /\ disk' = [disk EXCEPT !.where[h] = "none"]
  /\ UNCHANGED <<html, body, annex, scanned, fts, begun, behind>>

StoreNext ==
  \/ Republish
  \/ \E h \in Hands :
       \/ \E task \in Errands : Start(h, task)
       \/ ReadCached(h) \/ OpenPart(h) \/ WritePart(h) \/ RenamePart(h) \/ FetchFails(h)
       \/ Save(h) \/ Keep(h) \/ AddRow(h) \/ Seek(h)
       \/ Stream(h) \/ Fill(h) \/ Publish(h) \/ DownloadFails(h) \/ Extract(h) \/ Scan(h)
       \/ Vectorize(h) \/ VectorsFail(h) \/ ReadRows(h) \/ IndexRows(h)
       \/ Reread(h) \/ Recommit(h) \/ Reindex(h) \/ Stop(h)

StoreSpec == StoreInit /\ [][StoreNext]_storeVars

-----------------------------------------------------------------------------
(* Properties.                                                             *)

\* The text that a circular's row holds was a page that SBP served, never what a thread has
\* begun to write to the cache, or died over.
TextIsAPage == (body # 0 \/ fts.body = 0) /\ \A h \in Hands : At(h, "save") => hand[h].page # 0

\* An annex that has no text, whatever failed or died over it, is one that the command
\* that fetches annexes selects.
Selected == ~scanned \/ annex.status \in {"pending", "error"} \/ ~Present
Fetching(h) == hand[h].at \in {"row", "annex", "stream", "fill", "publish", "extract", "scanned"}
NothingIsForgotten ==
  body # 0 /\ annex.text = Nothing /\ (\A h \in Hands : ~Fetching(h)) => Selected

\* When nobody is at work the keyword index holds what the rows hold, unless the annex is still
\* to be indexed, whoever was to bring it up to date was killed or overtaken, or the page's text was
\* read again without --reindex, which leaves the index alone until something else writes it.
KeywordsFollowText ==
  (\A h \in Hands : At(h, "idle")) /\ ~slipped /\ ~behind
  => fts.body = body /\ (annex.indexed => fts.annex = annex.text)

\* A file that has the name of the annex is the whole annex, as download_attachment says.
FilesAreWhole == disk.file.is # Half
=============================================================================
