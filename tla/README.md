# Verification of sbpeye

sbpeye is a web application over a corpus of State Bank of Pakistan circulars and laws. One web
process serves readers, crawls SBP's listings, fetches what it lacks, indexes and analyses it, and
re-keys its own corpus when identities change; CLI commands work on the same databases. This
directory holds TLA+ models of its coordination logic and of its algorithms, TLC instances that check
them, and TLAPS proofs. `PROJECT.json` maps every modelled definition to the lines it stands for.

## Inventory

Paths are under `src/src/sbpeye/`.

| Component | State | Operations | What is hard | What makes it correct | Module |
|---|---|---|---|---|---|
| Mirror gap queue (`circular_jobs.py`, `mirror_models.py`) | `mirror_gap` rows: status, eligibility, claim, counters; `mirror_attempt` rows | select, claim, attempt, record, skip, requeue, recover | thread pools, lost transactions, crashes between two commits, old selections | one worker per circular; every claim is released; resolved means present; skips are respected | `MirrorQueue`, `GapWriters` |
| Audit (`mirror.py`) | `mirror_audit` rows, listing captures | crawl, reconcile, publish | the listing changes while it is read; findings are old when published | a capture is the listing of one moment; publication never overrides a claim, a skip or presence | `ListingCrawl`, `MirrorQueue` |
| Ordinary sync (`main.py`, `scraper/circulars.py`) | `sync_status` rows, the corpus, cached files, the keyword index | discover, fetch, store, extract, index, record | files and rows without a common transaction, two threads at one file | text is a whole page; what lacks text is fetched again; the index follows | `MirrorQueue`, `CircularStore` |
| Job lock and boot (`main.py`) | `CIRCULAR_JOB_LOCK`, job rows, threads | dispatch, end, recover | rows and threads live and die apart | a lock is given back; a row that runs has a thread | `MirrorQueue` |
| Identity maintenance (`migration_console.py`, `identity_migration.py`, `identity_removal.py`, `maintenance.py`) | `state.json`, manifests, backups, the journal, two databases, the vector index, the request gate | prepare, review, apply, remove, cancel, recover | several stores, crashes between any two commits, draining | nothing else writes meanwhile; nobody is served a half-done change; it can be finished | `IdentityMaintenance`, `IdentityChange` |
| Corpus maintenance jobs (`admin_maintenance.py`) | items in `sync_status.progress` | create, run, cancel, recover | several writers of one JSON column | outcomes are kept, cancels are honoured | `MaintenanceJob` |
| HTTP pacing (`scraper/http.py`) | next start, deadline, cancel event | pace, retry, redirect | a lock held while waiting, nested bounds, threads that oversleep | spacing; every fetch ends | `RequestPacer` |
| Semantic index (`inventory/ledger.py`, `inventory/index.py`, `embeddings.py`, the indexing of both scrapers) | vectors, ledger rows, `is_vectorized` flags, a shared snapshot | index, mark, record, audit, repair, rebuild, snapshot | three stores written one after another by threads and commands | what is vouched for is in the store | `SemanticIndex` |
| Inventory (`inventory/`) | one inquiry | terms, retrieve, judge, cap, hand on | failures of the model, rows that go meanwhile, four bounds in a row | every candidate is accounted for; complete means complete | `InventorySearch` |
| Search (`search.py`) | two retrievers' hits | cut, fuse, page, order | indexes that are behind the database | the best hits survive; every hit is on some page | `CorpusSearch` |
| AI generation (`circular_ai.py`, `laws_ai.py`, `supersession.py`, `consolidation.py`) | generation jobs, relationships, statuses, consolidations | ask, run, persist, derive, fold, recover | duplicate jobs, sessions that read early and write late, commands beside jobs | statuses follow relationships; what is shown as current is | `Generation`, `RelationGraph`, `AmendmentChains`, `LawAnalysis` |
| Checklists (`checklist.py`, `ai.py`) | blocks and batches of one document | group, pack, retry, merge | budgets, failures of part of a batch | a checklist covers the document or says what it lacks | `Extraction` |
| Laws (`scraper/laws.py`, `laws_upload.py`, `laws_links.py`, `main.py`, `cli/commands.py`) | documents, versions, files, pins, run rows | sync, upload, pin, withdraw, restore, refetch, index | a sync of half an hour beside uploads; delisting; rows of processes that die | the archive is never lost; one text in force; accepted files are indexed | `LawCatalogue`, `LawRuns`, `LawAnalysis` |
| Chat (`ai.py`, `chat_*.py`, `answer_checks.py`, `citation_handles.py`) | sessions, messages, a turn's ledgers, streams | rounds, tools, stream, save, truncate, check | budgets, tool failures, readers that leave, tokens that break anywhere | rounds go on exactly while they hand something over; what is saved is what was shown; citations resolve | `ChatEvidence`, `ChatTurn`, `Citations` |
| Traces (`llm_debug.py`) | a trace row and its events | open, append, close, delete, recover | threads that number events, a server that boots beside a command | no gap, no duplicate, an end on record | `TraceLog` |
| Database set-up (`database.py`) | tables, columns, three files | relocate, add columns, backfill | processes that start side by side and are killed | no row is lost | `SchemaSetup` |
| Identities, authentication, news and economic data, serializers, frontend | | | | not modelled, see below | |

Components interact through the job lock (all circular jobs), the maintenance gate (all requests and
counted background work), the tables above, and the boot order of `main.py:377-401`: the console
recovers first, and the jobs only if it does not keep the application in maintenance. The modules
`MirrorQueue` and `IdentityMaintenance` each hold the whole of such an interaction: the three circular
jobs, the operators, the console and the boot on one queue; the console, the gate, the writers and both
databases. The other components meet only where one calls another and gets a result, and the result
is a nondeterministic choice in the module of the caller.

## Modules

| Module | What it is |
|---|---|
| `MirrorQueue` | the gap queue, its three kinds of job, operators, crashes and boots |
| `MCMirrorQueue` | its TLC instances; each `MirrorQueue*.cfg` is one run |
| `IdentityMaintenance` | the identity console, its worker, the gate, both databases, the search entries, crashes and boots |
| `IdentityChange` | the abstract specification it implements: a change that is saved, made at once, and never served half done |
| `MCIdentityMaintenance` | its TLC instances; each `IdentityMaintenance*.cfg` is one run |
| `MaintenanceJob` | a corpus maintenance job: its row, its thread, cancel requests, refusals, crashes and boots |
| `MCMaintenanceJob` | an instance of it alone, for finding 6 |
| `LawCatalogue`, `LawRuns`, `SemanticIndex`, `Generation`, `ChatEvidence`, `ChatTurn`, `SchemaSetup`, `RequestPacer` | the services, one component each |
| `Services`, `MCServices` | the composition of those and `MaintenanceJob`, and its instance |
| `ListingCrawl`, `CircularStore`, `GapWriters`, `CorpusSearch`, `InventorySearch`, `Extraction`, `AmendmentChains`, `LawAnalysis`, `Citations`, `TraceLog`, `RelationGraph` | what finds, keeps and reads documents, one component each |
| `Documents`, `MCDocuments` | their composition, and its instance |
| `MirrorQueue_proofs` | type correctness, the inductive invariant, claims; what the queue records: presence, skips, selections, successes, recoveries |
| `IdentityMaintenance_proofs` | type correctness, the inductive invariant, exclusion, consistency, backups, the refinement |
| `Jobs_proofs` | what runs in threads of the server: maintenance jobs, generation jobs, the pacer |
| `Laws_proofs` | the catalogue of laws and the runs that bring them in |
| `Services_proofs` | the vector store with its ledger and flags; the tables that move; a turn's ledgers; sessions, streams and what they save; the composition implements each part, and so has what is proved of the parts |
| `Drawn_proofs` | what is drawn from texts: analyses of laws, relationships, chains of amendments, checklists; and recursion over the numbers |
| `Found_proofs` | what finds documents: the search, the inventory, the graphs of relationships, the crawl of a listing |
| `Documents_proofs` | the store, the writers of a gap, citations and traces, and what follows of `Documents` |

### MirrorQueue

State: the `mirror_gap` row of each identity (`gap`), the outcome of each `mirror_attempt`
(`attempt`), the job rows (`job`), what local rows match (`corpus`, and `clash` where several or
incompatible rows match, so that presence is ambiguous), the flag of `state.json` (`paused`); and in
memory the job lock, the live threads, where each run is with each circular (`item`), why a backfill
stops, and an audit's unpublished report. Rows are durable; a crash resets the rest.

Each action is one transaction, or one step of a thread between two. `process_gap` is
`CheckGap`, `ClaimGap`, `Store`, `FinishGap`; `run_backfill` is `BeginBackfill`, `Submit`,
`NextBatch`, `EndBackfill`; an ordinary sync is `Discover`, `OrdinaryStart`, `Store`,
`OrdinaryFinish`, `EndOrdinary`; an audit is `Reconcile` and `PublishAudit`; operators `Skip`,
`Requeue`, `CancelBackfill`; the identity console appears as `EnterMaintenance`,
`LeaveMaintenance` and `RemoveLegacy`. Failures are `WorkerRaises` and `EndingLost` (a transaction
that does not commit), `RunnerRaises`, `SyncFails`, `AuditFails`, and `Crash` at any moment.
`Boot` recovers, unless it is spent in maintenance (`main.py:392`).

Abstracted: a listing is any set of circulars; which of several failing stages failed, apart from
whether a required one did; order within a selection; texts and times. A session is one step: in one
server no two workers hold the same circular, which `WorkOwnsItsClaim` itself shows, so interleaving
the statements of one session would show nothing new, and the compare-and-set is still a step of its
own after the check. `recover_jobs` and `fail_interrupted_sync_jobs` are one boot step: nothing runs
between them. The CLI's writers are left out (see the plan).

### IdentityMaintenance

State: what each durable store says. `corpus`, `app` and `vectors` hold the scheme circulars are known by
in the corpus database, the application database and the search entries of each mapped circular:
"old", "new" (re-keyed) or "gone" (removed). `journal` is the `identity_migration` row, `file` the two
manifests with their backups, `state` the console's `state.json` (status, maintenance, apply_started,
operation). `stray` is the set of writers that left a row referring to an identity that is no more. In memory: the
operation lock, the worker's task and position, the circular job lock, what the gate counts, the threads
that finish law uploads, and the scheme each writer read before it writes.

| Code | Actions |
|---|---|
| `MaintenanceMiddleware`, `start_thread` | `Enter`, `Leave` |
| circular jobs, law uploads | `StartJob`, `EndJob`, `StartUpload`, `EndUpload`, `Read`, `Write` |
| `prepare`, `review`, `apply`, `remove` up to the thread | `Start` (with a worker, without one, or without a record), `RecordLate` |
| `cancel` | `Cancel` |
| `drain`, the job lock and their timeouts | `Drain`, `TakeJobLock`, `GiveUp` |
| planning, the plan files and their submission | `Plan`, `WritePlan`, `Submit` |
| `apply_migration`, `apply_removal` | `Begin`, `Open`, `Copy`, `Copied`, `Log`, `Rekey`, `RekeyApp`, `Mark`, `Repair`, `Verified`, `Finish` |
| what follows in `apply` and `remove` | `Check`, `Close` |
| the end of the job lock, then of the operation | `FreeJobLock`, `Release` |
| exceptions | `Raise`, `Undo`, `Fail` |
| a kill, and `recover` at boot | `Crash`, `Boot` |

Each worker action is one commit, or the reading that a later one rests on, so a crash or an exception falls between any two.
The plans are made first and written afterwards, each by its own write, and `fresh` says which still describe the databases; a failure gives the
job lock back first (`FreeJobLock`), is recorded (`Fail`), and only then lets the operation go (`Release`). The console's requests
are atomic: what they check before the operation lock is checked again under it. Writing `state.json`
and pausing the gate are one step: the pause follows the write and cannot fail. All mapped circulars
change in one transaction, hence one scheme per database. A manifest's hash covers the time it was made, so
that each plan is a new `File` with no backups. Abstracted: what a plan finds (conflicts or none, any
outcome is allowed), the evidence of a review, which rows refer to what. Both job-lock and request
properties are those of one more writer, so a run has one request, one job and at most one upload.

`IdentityChange` is what a reader of the service may rely on. The mapping: the service is open when the
process is up and the gate is not paused; a change is saved when a journal row exists; the scheme is the
new one only when every store has it.

### MaintenanceJob

State: `due`, the items (a circular and what it lacks) with work outstanding; the rows of the jobs, each
with its status and its progress column (the items' outcomes and the cancel request in one JSON value); and
in memory the job lock, where the request or the thread that owns a job is (`pc`), the thread's copy of its
items (`mine`), the cancel events, and where each cancel request is and what it has read (`click`).

`create_job` is `Create` and `Register`, since its row is visible before its event is; the route continues
with `Admit` or `Refuse`; `run_job` is `Begin`, `TakeItem` (the check for a cancel request), `BeginItem` (the commit that shows the item as begun), `Perform`, `Record`, `NoneLeft`, `End`; the
cancel route is `CancelRead`, `CancelSet`, `CancelWrite`; `recover` is part of `Boot`. Each is one
transaction or one access to the table of events, and each transaction may fail. Sessions read in
autocommit mode until they write, so that a request's read and its write are two steps that others come
between. Abstracted: what is done for an item, which either completes or fails, done or not; batches, which
only number items; the order of the items; what makes work due again.

### Services and Documents

The other components keep tables, files and stores of their own: no one of these modules reads or writes
the state of another. A behaviour of all of them is therefore an interleaving of one behaviour of
each, and what is said of one holds in every interleaving if it holds when that part runs alone. So
`Services` and `Documents` let one part run per behaviour (`part`, chosen in the initial state) while the
others rest in one of their initial states (`Rests`). One TLC run then explores the sum of the parts'
states and not their product. A property with several conjuncts states one concern, named for it, of
several parts: each conjunct speaks of the variables of one part. `Services` extends its parts, so that the properties the
run checks are the ones the theorems name; `Documents` takes its parts with `INSTANCE`. That a part runs in the composition as it does alone
is itself a theorem (`PartsRunAsAlone`).

#### LawCatalogue: which edition of a law is in force

State: SBP's page (`site`), the rows of documents and of their versions, the files of the archive, and how
far a sync is. A sync of `scraper/laws.py` is `StartSync`, `DownloadRow`, `OpenManual`, `DownloadPart`, `LookUp`,
`Capture`, `WriteManifest`, `Select`, `Flush`: one step per commit, and one for each read that is acted on
after a download or an extraction. It commits only what differs from what its session had loaded (`Upserted`),
as SQLAlchemy does: what a failed download or manual page leaves of a document is the row as it was just loaded, so that a withdrawn
one that reappears on the page is listed again (`Refreshed`). `PinVersion`, `UnpinVersion`, `Withdraw`, `RestoreLaw`, `RequestRefetch` and `Refetch` are
requests of the web process, each holding the write lock from its first statement to its commit. An upload looks for a duplicate, puts the file into the
archive and adds the rows in three steps (`CheckUpload`, `StoreUpload`, `Upload`), so that another writer may have added the row by then (`Collides`). An unpinning that
finds no pin writes nothing until it has read and decided (`DecideUnpinned`, `WriteUnpinned`); `overtaken` marks the documents that
somebody else changed in between. A
version's text is a model value; a manifest is the function from the parts to their editions. A sync dies
anywhere (`Crash`), a download fails, a file is lost.

#### LawRuns: the rows of the runs that bring laws in

State: the `sync_statuses` row of each run, where its thread or command is, what the uploader was told, which
files are editions, which are in the keyword index and were scanned for. The upload route is `Receive`, `Check`, `StoreFile`,
`QueueRow`, `StartThread`; `finish_upload` is `BeginWork`, `IndexText`, `ScanCirculars`, `EndRun`; failures leave the
session clean or to be rolled back (`WorkFails`, `RecordFailure`, `RowFails`), and a boot fails every row that is queued or running,
the commands' too (`RestartServer`).

#### SemanticIndex: the vectors and what vouches for them

State: each source's text, the chunks that the vector store holds for it, the `is_vectorized` flag as the text it
was set for, the ledger's row per text, the threads (`indexer`), an audit, a rebuild, the shared snapshot.
Indexing is `IndexChanged`, `IndexPending` or `RepairStale`, then `Swap`, `MarkAnnex`, `RecordRow`, `MarkLaw`, in the order in which the code
writes the three stores, which differs between circulars, annexes and laws. `AuditRead` and `AuditWrite` are
`reconcile`; a command that reads texts again without indexing them is `BeginReread` and `CommitReread`, or `AbandonReread`, and a document's refresh, which reloads its annexes,
is `ReloadAnnex`; `unindexed` marks the sources whose text came in so. `ResetStore`, `AddBatch`, `FinishRebuild` are `reindex`. `torn` marks sources whose indexing was killed, or
overlapped an audit, or failed in the store and in the ledger: about those nothing is promised until they are indexed or audited again.
`SeemsStored` is what an audit can tell, which counts chunks (`SameSize`: the texts make equally many).

#### Generation: analyses and statuses

State: relationships, statuses and analysis stamps of circulars, job rows, their threads, a generate request,
a sync's batch, a command. `_persist_outputs` (`PersistOutputs`) holds the write lock from the deletion of the old
relationships on, so what it derives is what is committed, except for the circular it loaded itself: of a loaded row
only changes are written (`Derived`). A command of another process adds relationships, reads them, and writes
statuses later (`ReadEdges`, `WriteStatuses`); `unsettled` is what a command has left to a later derivation.

#### ChatEvidence and ChatTurn: a research turn

`ChatEvidence` is one turn's ledgers: which texts each document's entry says were handed over (`handed`), and
which really are in front of the model (`context`). Each tool is a function from an entry and the context to
both and to the pointers it returns; `RoundAddedNothing` is the rule that ends the rounds.

`ChatTurn` is what is committed: a question (`AskNew`), perhaps edited (`AskAgain`), which truncates the history; then the streamed
answer, through each exit of the generator (`Finish`, `Fail` and `Rescue`, `Close` when the reader has left, `StopReading`), beside
truncation, deletion and crashes.

#### SchemaSetup: the set-up of the databases

Every process that imports `database.py` moves the tables of an earlier build to files of their own and adds
columns: `ListLegacy`, `InspectMoved`, `CreateMoved`, `CopyRows`, `FinishCopy`, `InspectColumns`, `AddColumn`, `FillRows`. Two start side by side, each may be
killed between any two steps, and rows are written as soon as one is up. The copy is one transaction over two files in WAL mode, which commit one after the other:
`CopyRows` is the first commit, whichever it is, and `FinishCopy` the second; `dropped` is what a kill between the two has lost.

#### RequestPacer: fetches

The fetches of a job share the pacer's lock, its next start and the cancel event. `BeginFetch`, `TakeTurn`, `Grant`, `TooLate`,
`Stop`, `Request`, the answers and `Again` are the steps of `get` between two waits. Time is a number that
`Tick` advances whenever it likes, so threads oversleep by any amount.

#### ListingCrawl: a capture of the listing

`crawl_listing` reads pages while the site publishes and withdraws; it reads the first page again at the end, compares
what it has with the advertised total, and starts once more if the listing changed. The site puts a circular on top that was never
listed, or withdraws any; a withdrawn one does not come back.

#### CircularStore: one circular, its page, its annex and its keywords

Threads and commands (a sync, a lazy indexing, a body maintained, annexes fetched, a refresh, a mend, a reader's view or reload, a text read again
from its files with or without `--reindex`) share the
cached page and the file it is written to first, the downloaded annex and its `.part`, the row of each, and the keyword
index. A step ends where another thread can come between: at each file operation and each commit. Reading a text again is `Reread`, `Recommit` and, with `--reindex`,
`Reindex`; `behind` marks an index left behind by one without.

#### GapWriters: one gap, several processes

`MirrorQueue` is one server, whose jobs exclude each other by a lock. The commands `circulars sync` and `process-url` fetch the same
circulars from processes that do not take it. Here one row of the queue is written by the server's attempts (`OpenGap`,
`ClaimGap`, `Settle`), by commands (`Register`, `Settle`, `SettleStray`), by an administrator (`ClickReads`, `ClickWrites`) and by the recovery of a server
that boots beside live commands (`Boot` to `EndRecovery`). Every read is a step (`Read`), and a session writes only the
columns that differ from what it had read (`Written`); only the server's claim is one statement. What still
holds is that a claim, or a row that runs, is named by an attempt whose row is running, so that the next recovery
finds it (`NothingIsStranded`); that resolved means present; and that what an attempt failed to bring in has a row
in the queue (`MissIsQueued`).

#### CorpusSearch, InventorySearch, Extraction: pure algorithms

The answer is computed step by step as the code does, over every small input: every ranking, store, filter and set of ghosts
(`CorpusSearch`); every shelf of documents, answer of the model and failure (`InventorySearch`); every
sequence of units up to the bound (`Extraction`). The properties are reference definitions: what should be found, kept or accounted for,
said without the algorithm.

#### AmendmentChains: consolidations

State: relationships, the stored consolidation of each first circular, and what each generation has in hand
(`folding`). `BeginFold`, `ExtractFirst`, `Align`, `LoadMerge`, `CommitMerge`: a read and the write that rests on it are two steps, and
analyses relate circulars in between. `Align` is the fold of one circular's changes into the items.

#### LawAnalysis: what is drawn from laws

Jobs and commands draw summaries, tags, values and relationships from the edition in force while a sync
brings the next; each is read, drawn and persisted in steps, and relationships hold the write lock
from `OpenEdges` to `Persist`. A collection's rollup covers the parts.

#### Citations: handles in a stream

The model is shown handles in place of ids; it writes them back in pieces that break anywhere (`Feed`). `HeldFrom` is what
the expander holds back, `Expand` is the whole text's expansion, against which the stream is checked, the round brackets included that go with what is dropped (`Goes`); `SaveAnswer` checks what is cited against
what was read.

#### TraceLog: the trace of an operation

Threads append events: `ReadTrace`, `ReadSequence`, `CommitEvent`, under a lock of their own process only, while a booting server closes what
is running and administrators delete or prune. A commit that meets a number taken tries again, three times.

#### RelationGraph: relationships by name, subject and annexure

`graph` follows what it finds from circular to circular (`Neighbours`), also from one that has no text (`Textless`), a batch and a job read circulars anew; blanket
supersessions apply to what was issued before on a subject, annexures to what they list; an answer that cites a replaced circular is
warned about (`Check`).

### What the runs show

| Run | Instance | Question |
|---|---|---|
| `queue_jobs` | 2 circulars, one job of each kind, batches of 1, operators, clashes, 1 crash, maintenance | do claims, statuses and rows stay consistent in any interleaving, does a batched backfill finish and respect its operators |
| `queue_faults` | 2 circulars, a sync, a backfill with a pool of 2, one of each fault | does every job give the lock back, do claims end |
| `stays_running` | finding 1 | violated |
| `skip_lost` | finding 2 | violated |
| `no_boot` | finding 3 | violated |
| `identity_faults` | 2 circulars, a law upload, 2 crashes, one of each other fault | whatever fails, is the change exclusive, backed up, atomic, and known to the console |
| `identity_ends` | 2 circulars; a crash, a failure, a timeout and a worker that does not start, all recorded | can the operator always do something, does a started operation complete |
| `no_way_out` | finding 4 | violated |
| `operation_stuck` | finding 5 | violated |
| `maintenance_job_stale` | finding 6 | violated |
| `services` | each service in turn, its events once or twice each | see the next table |
| `documents` | each part of `Documents` in turn | see the next table |

| Property | Part | What it says |
|---|---|---|
| `CompletedIsDone`, `SuccessIsComplete`, `CancelledTakesNoOther` | jobs | a row shows as completed only what was done; success means all of it; once a cancel request that found the job running was answered the job takes no other item |
| `StoreIsVouchedFor` | index | the ledger vouches for, and a flag marks, only what the store holds, through failures between the three stores, but for texts put in without indexing; of a circular read again so, the store holds nothing |
| `StatusFollowsEdges` | generation | a status is the gravest relationship stored about a circular, whoever stores and deletes in parallel |
| `SavedIsShown` | chat | the answer that is saved is what the reader was shown, at most once; narration stands at the step it introduced |
| `RowsAreKept` | setup | no row that was ever stored is lost to a relocation or a rebuilt table, unless a kill falls between the two commits of a relocation |
| `LawsAreKept` | laws, runs | every version's file is on file; a law that has a text in force and one without a date keeps one; a sync delists only what the page it fetched did not list; a row shows how its run ended; an accepted file is indexed, on its way, or shown as failed |
| `ReadingGoesOn` | evidence | the rounds do not end early on a round that handed over a letter or passage that was new to the model |
| `RequestsKeepTheirDistance` | pacer | two requests never start less than the delay apart |
| `WorkEnds` | pacer, jobs, generation | a fetch, a maintenance job and a generation job that have begun end |
| `CopiesAreTrue` | listing, store, queue | a successful crawl is the listing of one moment; the text of a row is a page SBP served; an annex without text is fetched again; the keyword index follows the text, but after `reextract` without `--reindex`; what several processes left of a gap is true and can be released |
| `NothingFoundIsLost` | search, inventory, graph | the best hits of either arm reach the reader; every hit is on some page; passages survive the merge; every candidate of an inventory is accounted for; `graph` goes through all neighbours, and each circular it went through was read, failed, or has no text |
| `DrawnFromTheirTexts` | extraction, chains, laws, graph | a checklist covers the document or says what it lacks; a consolidation shown as current is of the chain as it is, with a history that explains each value; what is kept with an edition was drawn from it; of two circulars on a subject at most one replaces the other |
| `AnswersAreTraced` | citations, traces, graph | whatever pieces an answer comes in, the reader sees its expansion, but for round brackets, with links to documents that were shown and a warning at what was not read; events are numbered without gap or repeat; a replaced circular is not cited in silence |

Every property of a passing run has one listed mutant, a variant of a mapped definition that breaks it. The
modules hold further ones, marked "Faulty variant", each of which breaks one more conjunct or
one more property:

| Module | Variants beside the listed ones |
|---|---|
| `MirrorQueue` | `EndJobSilent`, `LockIgnored`, `BatchSubmitted`, `ClaimedByStatus`, `AfterOrdinaryUnskipped`, `ReopenedNever`, `InterruptedBlind` |
| `MaintenanceJob` | `NoneLeftPending` |
| `LawCatalogue`, `LawRuns` | `OpenTiersUndated`, `HashKeptListed`; `SettledIfRunning` |
| `SemanticIndex`, `Generation` | `MarkTried`; `FailedAtBootRunning` |
| `CircularStore`, `GapWriters` | `ValidIfThere`, `StatusDone`, `CopiedBody`; `RecoveredLeavesClaim` |
| `CorpusSearch`, `InventorySearch` | `TotalHeld`; `TermSetReplaced`, `BeforeScored`, `CompleteButForRoom` |
| `Extraction`, `AmendmentChains` | `SectionsOpen`, `LeftOutSilently`; `RewordedLate` |
| `LawAnalysis` | `InTitleOrder`, `WrittenBeside`, `IntoCurrent` |
| `Citations`, `TraceLog`, `RelationGraph` | `CandidateBare`, `ResolvedAny`, `GroundedIfShown`; `LatchedNot`; `AnyOnSubject`, `WithdrawnByStatus` |

Bounds of the queue. Properties speak of one circular, or of one circular and one job, so one circular is enough
for the protocol; two are used where circulars share something: a batch, the pool's slots, the
threshold. Two runs are enough for a leftover of one to meet the other. Two crashes let a recovery
meet what an earlier recovery left. `Bound` counts crashes, lost transactions and maintenance
periods; nothing else is bounded: ids are finite sets and each names one run. Deadlock checking is
off because a server with no job left to start really does rest.

Bounds of identity maintenance. Two circulars let the search entries be repaired in part; nothing else tells
circulars apart. Two crashes and one each of a failing step, a failing record, a timeout and a thread
that does not start reach every pair of faults; operations, requests and jobs repeat without bound. Law
uploads are left out of `identity_ends` because they break what it checks (finding 5); in
`identity_faults` they come and go. Deadlock checking is off: a console that is idle rests.

Bounds of `services`. A maintenance job of two items, so that one is under way or left over when another ends,
and one cancel request. Two files, one part, two editions and one future date, with two syncs and one each of an
upload, an administrator's change, a publication, a failure, a crash and a lost file, two of them together (`LawTotal`): a
property speaks of one document and what one other writer did meanwhile. An index of one circular, one annex, one law and two texts with two
threads and three events, failures of two of its steps included. Two circulars and two jobs, since a job and a batch or a command meet at one circular's
relationships. Three rounds of one call, over one circular and one law of two chunks: a ledger is of one document, and a round is
compared with the state before it. Two turns of one session. Two starting processes, two tables and two columns, one kill. Two fetches,
with a delay, a deadline and a clock that let one wait for the other, be too late, and be tried again. Two uploads by
request, by command, and a sync, at one file, with two mishaps.

Bounds of `documents`. A listing of five of eight circulars on pages of two, changed three times, so that the middle page shifts under
the crawl and both a publication and a withdrawal hide in an unchanged total. Two threads with two errands and one kill on one circular:
files are shared by pairs. One attempt of the server and two of commands on one gap, of which two may be unlinked when a server boots, and two
upsets: deaths, failed sessions, administrators' changes. Three documents with more candidates than the judge takes and more than the list shows. Stores of up to
four chunks, of which two belong to a law. Documents of up to two units, blocks of two, a budget that needs two batches. Chains of three
circulars, two generations. Two parts of a collection, of which one is replaced. Answers of two phrases, cut anywhere,
over three documents of which two make the same slug. Two callers of a traced operation, one mishap. Three circulars that relate by
name, by subject and by annexure. Deadlock checking is off in both: work that is done leaves its part at rest.

Fairness of the queue. A thread of a job that can take a step takes it (`WF` of `BackfillStep`, `OrdinaryStep`,
`AuditStep`): the operating system schedules threads, pool workers included, and every network wait
has a deadline (`scraper/http.py`). A stopped service is restarted (`WF` of `Boot`). No operator action
and no fault is fair.

Fairness of identity maintenance. The worker's thread runs, each circular's entries are repaired in turn,
requests and jobs end, a stopped service is restarted, and an operator resumes what has started: the last
is the premise of "resume to finish", and no fairness is assumed of preparing, leaving or any fault.

Fairness of the services. The request and then the thread that owns a maintenance job goes on; time passes, and a fetch
that can go on does, its request being answered or timing out (`requests` is given the time that is left); the thread of a generation job goes on; a stopped service is
restarted. Nothing is assumed of cancel requests, of the console, of commands or of faults. A generation job whose failure cannot be recorded does not
end before a restart, and `TasksEnd` leaves it out. The documents' parts have safety properties only.

### Findings

1. A boot in maintenance recovers nothing, and leaving maintenance recovers nothing either: rows that
   were running stay running, with no thread (`NothingStaysRunning`; `DEPLOYMENT_PLAN.md:479` says
   nothing does). `RowsOfRecoveredServerRun` is what holds instead.
2. A crash while an ordinary sync fetches a skipped circular makes it failed, hence selectable again
   (`SkipIsPreserved`); the ordinary end of the same attempt preserves the skip.
3. Two unfinished ordinary attempts at one missing circular without a gap make `recover_jobs` insert
   one row twice; the boot fails, every time (`RestartRecovers` in `no_boot`). They come from two runs
   whose outcome transactions failed, or from one and a boot in maintenance.

4. A failure that cannot be recorded, because `state.json` is what cannot be written, leaves an operation
   that neither resumes nor can be left until the server is restarted (`MaintenanceHasAWayOut` in
   `no_way_out`; it holds where records succeed).
5. The thread that finishes a law upload is neither counted nor under the job lock. A link that it writes
   between the last plan and the corpus transaction is no dependency of the manifest, so the transaction
   fails its foreign-key check on every resume, and a journalled operation cannot be given up
   (`StartedOperationsEnd` in `operation_stuck`; it holds without uploads). For the same reason
   `ReferencesResolve` is stated of everybody but the uploads: theirs is the only write that can refer to
   an identity a change has just taken away.

6. A cancel request writes back the whole progress it has read. What the job recorded in between is lost,
   for good if the job has ended: it says success, and shows its items as pending or running and cancelled
   (`SuccessShowsItsItems` in `maintenance_job_stale`). `CompletedIsDone` holds all the same: a stale
   progress shows too little as completed, never too much.

Two more limits show in the properties of maintenance jobs. `CancelledTakesNoOther` is stated of what the job takes after the answer (see
the next section), and of
requests that found the job running: one that looks for the event before `create_job` has registered it
reaches only the row, and the row is rewritten. `JobsGiveTheLockBack` (part of `WorkEnds`) leaves out a job that is refused after
its row is committed and whose closing transaction fails: `main.py:1408-1410` then does not reach the
release, and the lock is held until the server is restarted.

### What does not hold

Statements one may expect of the code, which modelling showed to fail. They are limits of the design, or depend on two
rare events together; each is why a property above has the form it has.

- Maintenance jobs: "Cancel finishes the active item" (`docs/ADMIN_MAINTENANCE.md:49`) fails of a request that is answered after the job has looked for it
  (`admin_maintenance.py:298`) and before the item is committed as begun (`302`): an item that nobody had seen begin does then begin.
  `CancelledTakesNoOther` allows that one and no other.
- Index and keywords after `circulars reextract` without `--reindex` (`scraper/circulars.py:1226-1268`): the text is replaced and its chunks are dropped, while the
  ledger's row goes on saying "indexed"; after an attachment's reload (`454-465`) the chunks stay, of the text before. Both until the source is indexed or audited
  again, against `inventory/ledger.py:142-145` ("the ledger describes the index as it is", "an absent or stale row makes coverage pessimistic").
  The keyword index keeps the text before as well, until something writes it. `VouchedIsStored` and `KeywordsFollowText` leave such texts out (`unindexed`,
  `behind`), and `RereadIsGone` says what is left: nothing is found of a circular's text that is no more.
- Set-up: "a single transaction that either lands whole or not at all" (`database.py:702-703`) is not one under `journal_mode=WAL` (`56-60`), where SQLite commits the attached
  files one after the other: a kill in between loses the rows if the file that drops them came first, and has them twice if not, which the next start
  mends (`716`). `RowsAreKept` leaves out what such a kill has lost (`dropped`).
- Citations: the stream lets "(" go before it knows that the id or citation behind it is dropped, and shows "()" where the whole answer has neither
  (`citation_handles.py:58-64`, `277-288`, `317-349`), against `tests/test_citation_handles.py:182` ("They must not diverge"), whose answer has no such bracket.
  `StreamIsTheAnswer` compares the two without round brackets.
- Laws: two versions of a law can be in force when an upload or a pin commits between a sync's `Select` and `Flush`;
  `KeepsATextInForce` promises one, not exactly one, and not of a sync that has read two in force, nor of one that
  began on an earlier day: a sync decides for the day it began (`laws.py:1314`), and may leave a law without a text in force until the next one. The proof
  attempt found both, and TLC confirmed them with longer histories (`LawTotal` 5). Nor does it promise one after an unpinning of what was not pinned, which takes no lock before
  it has decided (`laws_upload.py:496-500`), and may decide over what an upload or a pin changed meanwhile (`overtaken`).
- Law runs: a duplicate upload after a failed or killed finish is answered "indexing: skipped" and never indexed
  until `laws reindex` (`main.py:2563`, "nothing new to index"). `_finish_law_upload` and `_run_laws_sync` do not roll back
  before they record a failure, so the row stays running (the CLI upload does, `cli/commands.py:2073`). A
  sync that a boot called interrupted ends as success with the restart's error text still on it (`main.py:188-190`,
  "self-corrects"). A thread that cannot be started leaves its row queued until a boot. A failed embedding is only
  logged while the keyword index is written, against `laws.py:1124-1125`.
- Semantic index: the shared snapshot may be older than the ledger that names it (`inventory/index.py:138-139`): the ledger
  is read first and the store later. A death between the vector write and the commit of a pin or a
  withdrawal leaves a flag that vouches for vectors that are gone; an audit finds it.
- Chat: the pointers of a turn may stand for an excerpt (`PointersAreHonest` with `Clips`); the answer of
  a stream may be committed after its question has been edited.
- Search: `order_evidence` may repeat a passage that overlaps two merged ones (`search.py:746-807`).
- Store: two threads share one `.part` in `CircularStore`, so a file under its final name can be cut short (`FilesAreWhole`,
  `scraper/circulars.py:228`, "atomically publish it"); `TextIsAPage` holds because the page is checked when read.
- A gap in several processes: a command writes its claim over the server's, and the end of either clears the claim of the
  other (`circular_jobs.py:285`, `312`, `115`); a boot that read the gap before a live command resolved it writes "failed" over the resolution
  (`265`), and an administrator's skip or requeue does the like; a command that had read the gap as pending writes "failed" over a skip made since (`308-309`);
  and two running attempts for a missing circular that has no gap make every boot insert the row twice and fail
  (`255-264`), until a command brings the circular in or adds the row.
- Consolidations: chains merge only by what is stored, and an amender shared by two chains joins them, against
  `consolidation.py:66-70`; a text-only modification leaves the confidence of an unverified value high (`168-170`); a
  CLI consolidation that reads early stores the items of an old chain under new member ids (`322-323`), which is what `raced` leaves out.
- Inventory: the judge's verdict overrides a verified quotation (`adjudicate.py:128-137` against `121-122`); "each
  document contains a search term" is said of documents of the semantic band too; `candidates_truncated` does not
  count against "complete"; a lexical failure is only logged.
- Law analyses: a failed regeneration in a job commits the deletion of the old edges while the stamp stays, so that the
  payload reads "none found" (`laws_ai.py:575-577`); two overlapping analyses leave both sets of edges; a job asked for "all"
  stamps edges of a new edition on the old version (`598-599`); a rescan of backlinks is not idempotent once the model
  has retyped a link (`laws_links.py:430-434`); a rollup is not stale when its parts are summarised again.
- Relationships: `apply_blanket` and `apply_annexure` do not skip targets whose rows are pending, since sessions do
  not autoflush, so one target may be linked twice; a rate-limited `graph` ends without deriving statuses; after
  `relationships --refresh` and before the circular is read again, a status derivation forgets its supersessions; a `graph` limited in depth may leave
  out a circular that a later edge brings nearer; `MAX_AUTO_APPLY` 60 is never met, since the shortlist has 40;
  `_recompute_statuses` counts clarifications as amendments while the answer check warns of amendments alone.
- Traces: the trace of a live command is closed as interrupted by a server that boots (`llm_debug.py:539`); byte counts lose
  updates across processes.
- Listing: a crawl whose pages do not say how many circulars there are cannot see that one was missed; nor can any crawl when what was
  withdrawn during it comes back, behind the first page, or on top of it with enough others withdrawn to leave the total alone:
  the first page and the total are then what they were, and a page between them was read of another listing. `CaptureIsTheListing` is
  about advertised totals and withdrawals that last.

### What is proved

Of the queue, for all sets of circulars and jobs, all requests and bounds, from `JobAssumption` and
`RequestAssumption` alone:

| Theorem | Property |
|---|---|
| `TypeCorrect` | `TypeOK` |
| `WorkersOwnTheirClaims` | `WorkOwnsItsClaim` |
| `EveryClaimIsReachable` | `ClaimsAreReachable` |
| `EveryRunningGapIsClaimed` | `RunningIsClaimed` |
| `ResolvedCircularsAreHeld` | `ResolvedIsHeld` |
| `HeldCircularsStayResolved` | `HeldStaysResolved` |
| `NoJobUndoesASkip` | `JobsRespectSkips` |
| `BackfillsClaimOnlyWhatIsDue` | `ClaimsAreDue` |
| `SuccessfulBackfillsAreExhausted` | `SuccessMeansExhausted` |
| `NoClaimIsDead` | `NoDeadClaims` |
| `RowsOfARecoveredServerRun` | `RowsOfRecoveredServerRun` |

The argument: a thread lives only while its job holds the lock, so at most one job has items in hand
(`Handled`); a circular in the hands of a backfill is claimed by it with a running attempt, and a
claim always points at a running attempt (`Claims`). `Inv` is the conjunction with the types and with
"a process that is down holds nothing" (`DownIsUnlocked`); none of its parts is inductive alone: that
`FinishGap` clears the right claim needs the lock, that the lock is free after a crash needs the boot.
The outcomes then rest on `Inv` and on one further fact each: an audit's report agrees with the corpus
as long as it is unpublished (`ReportIsCurrent`: no thread but the audit's runs, and no removal, which
needs the lock), and a selection not yet submitted is still due but for what operators took away
(`SelectionIsDue`).

Of identity maintenance, for all circulars, requests and uploads, and any number of disturbances, from
`WriterAssumption` and `BoundAssumption` alone:

| Theorem | Property |
|---|---|
| `TypeCorrect` | `TypeOK` |
| `MaintenanceExcludesWriters` | `MaintenanceIsAlone` |
| `ServedCorpusIsWhole` | `ServedIsWhole` |
| `StartedOperationsAreKnown` | `StartedIsKnown` |
| `CountedReferencesResolve` | `ReferencesResolve` |
| `EveryChangeIsBackedUp` | `ChangesAreBackedUp` |
| `MaintenanceImplementsChange` | `ChangeIsAtomic` |
| `MaintenanceCanAlwaysGoOn` | `MaintenanceHasAWayOut`, where every failure can be recorded (`Bound["record"] = 0`) |

The argument: as long as the worker has not let go, the gate is closed (`GateIsClosed`), so what was drained
stays drained (`DrainedIsEmpty`) and the job lock stays taken (`LockIsHeld`); that is exclusion. Where the
worker is determines the phase of the journal (`WorkerFollows`), and the phase determines what each store
says (`StoresFollow`), across crashes because `StoresFollow` does not mention the worker. The console's state
agrees with the journal whenever the process is up (`StartedIsKnown`, `WorkerIsKnown`), which is what a
resume relies on, and every journalled change has its backups (`BackedUp`). Behind a closed gate nobody
holds a stale read (`ReadsAreCurrent`). Each conjunct needs others to be preserved: a resume continues at
the right step only if the console names the operation the journal names, and the gate stays closed after a
failure only if the console knows that the operation has started. The refinement follows from the invariant
in both states of a step: every step is a save, the one commit or repair after which all stores agree, the
opening or closing of the service, or a stutter. That the operator can always go on needs two more facts: what
has started or is journalled still has its manifest (`FilesAreReady`: only `WritePlan` and `Submit` take one away, before
anything has started), and once the worker has let go in maintenance the status is one that can be resumed
(`RestIsResumable`). The second is what a failure that is not recorded breaks (finding 4), so the theorem assumes, like
the run `identity_ends`, that failures are recorded; crashes, timeouts and failing steps are not bounded.

Of the services, each from its own specification, for all values of its constants and any number of the events
that the instances bound:

| Module | Theorem | Property | Assumes |
|---|---|---|---|
| `Jobs_proofs` | `TypeCorrect` (jobs) | `TypeOK` | `NoneAssumption`, `BoundAssumption` |
| | `CompletedItemsAreDone` | `CompletedIsDone` | the same |
| | `SuccessfulJobsAreComplete` | `SuccessIsComplete` | the same |
| | `CancelsAreHonoured` | `CancelledTakesNoOther` | the same |
| | `GenTypes` (generation) | `GenTypeOK` | `ChoicesAssumption` |
| | `StatusesFollow` | `StatusFollowsEdges` | the same |
| | `PacerTypes` (pacer) | `PacerTypeOK` | `DurationsAssumption`, `TriesAssumption` |
| | `RequestsAreSpaced` | `RequestsKeepTheirDistance` | the same |
| `Laws_proofs` | `LawTypes` (catalogue) | `LawTypeOK` | `SitesAssumption`, `DatesAssumption`, `EditionsAssumption` |
| | `HistoryIsKept` | `HistoryIsOnFile` | the same |
| | `TextsStayInForce` | `KeepsATextInForce` | the same |
| | `DelistingsAreOfTheUnlisted` | `DelistedIsUnlisted` | the same |
| | `RunTypes` (runs) | `RunTypeOK` | `MishapsAssumption`, `KindsAssumption` |
| | `RowsSayHowTheirRunsEnded` | `RunsSayHowTheyEnded` | the same |
| | `AcceptedFilesAreAccountedFor` | `AcceptedIsAccountedFor` | the same |
| `Services_proofs` | `IndexTypes` (index) | `IndexTypeOK` | `IndexSources` |
| | `TheStoreIsVouchedFor` | `StoreIsVouchedFor` | the same |
| | `SetupTypes` (set-up) | `SetupTypeOK` | `KillsAssumption` |
| | `NoRowIsLost` | `RowsAreKept` | the same |
| | `EvidenceTypes` (ledgers) | `EvidenceTypeOK` | `EvidenceBounds` |
| | `RoundsGoOnWhileTheyHandOver` | `ReadingGoesOn` | the same |
| | `SavedAnswersAreShown` (chats) | `ChatTypeOK`, `SavedIsShown` | `ChatBounds` |

Each assumption says what kind of value a constant is and which sets are disjoint; the modules declare them and TLC evaluates them.
And of all of them together, from all of these assumptions:

| Theorem of `Services_proofs` | Property |
|---|---|
| `PartsRunAsAlone` | a behaviour of `Services` is a behaviour of each part's own specification |
| `PartsAreTyped` | `PartsTypeOK` |
| `JobsTellTheTruth` | `CompletedIsDone`, `SuccessIsComplete`, `CancelledTakesNoOther` |
| `StoresAreSound` | `StoreIsVouchedFor`, `RowsAreKept`, `StatusFollowsEdges` |
| `LawsAreKeptInAll` | `LawsAreKept` |
| `ChatsShowWhatTheySave` | `SavedIsShown`, `ReadingGoesOn` |
| `RequestsKeepTheirDistanceInAll` | `RequestsKeepTheirDistance` |

The composition: every step of `Services` is a step of one part that leaves the variables of all others alone (`OnePartRuns`), so
the specification of each part holds of every behaviour, and with it whatever is proved of the part.

The jobs: whoever may write a job's progress, the row itself, the thread's copy and every cancel request
in flight, knows the same selection (`SelectionIsKnown`) and calls completed only what is done
(`CopiesAreTrue`), so it does not matter who writes last. A cancel request of a job that holds the lock and
was running when it was read finds an event, which stays set as long as the job holds the lock
(`ClicksAreHeard`, from `HolderIsKnown`); that is why the row need not say so.

The statuses: no circular relates to itself, so that the stale status a job has loaded of the very circular it
analyses does no harm (`OwnEdgesDoNotMatter`); and a command derives from what it has read only as long as that is
what is stored (`ReadIsCurrent`), or else leaves everything unsettled.

The pacer: a fetch at "turn" holds the lock (`WaitsForItsTurn`), so nobody moves the next start while it sleeps; it sleeps
until that start or its deadline, and past the deadline it times out; so whoever is let go is let go at the next start
or later, and the next start is one delay after the last (`NextIsApart`). The proof of the distance needs no bound on the clock.

The index: a thread that indexes a circular or an annex carries the text the source still has, and what it has written
so far shows in the store and in the flag (`IndexerFits`); no two threads are at one such source (`OneAtATime`); what an audit
has read of a source that nobody has touched since is still so (`AuditFits`); a flag is of the present text or of none (`FlagsFit`), because whoever puts a text in clears
it; while a circular is read again its chunks are gone; and while the store is being rebuilt nothing else
touches it (`RebuildIsAlone`). A ledger row is written last, by the thread or by the audit, so what it says then is what the
store holds. Between two texts that make equally many chunks nothing in the code can tell, and the property says so
(`SeemsStored`); with that the theorem needs no assumption about the texts.

The set-up: a process acts on lists of tables and columns that it read earlier. They are still complete when it
acts (`ListsAreComplete`), because tables do not come back to the corpus file and columns never go; and a table that is absent has
no rows to lose (`AbsentIsEmpty`). Between the two commits of a copy, what is to be inserted is with the process that does it, and what is to be dropped has been
inserted (`HalfIsSafe`). So whichever process copies, a row is in one file or the other or on its way (`StoredIsKept`), unless it was killed just there.

The laws: every row a sync has in hand is of a document that exists and an edition on file (`SyncFits`), so what it commits after a
download or an extraction refers to nothing that has gone; an edition is filed before a version names it. When a sync reaches `Flush`
without a pick, none of the texts that it saw in force can come, and another has been put in force since (`FlushFits`): so taking the
old ones out leaves one in. What an upload or an unpinning has in hand meanwhile is on file and was decided from what it saw (`RequestsFit`). `WinnersAre` says what the choice among versions returns. A document is withdrawn only by a sync that
read the whole page and went through all of its rows.

The runs: where a run is says what it has done (`RunFits`): a file is stored before it is queued, searchable before it is scanned
for, scanned for before the run ends. Every file that is not yet both has some run that answers for it, by going on, by what its row
shows, or by what its uploader was told (`FilesAnsweredFor`); a duplicate counts on the run before it.

The ledgers of a turn: within a round they only grow, and each text that a tool adds to the context is entered
as a new passage or as the letter in the key of its row; so a round that handed over something new has changed the evidence that
`RoundAddedNothing` compares. This holds with clipped passages too.

The chats: until a turn has saved or ended no answer to it stands in any history (`AnswersAreSettled`), and a reader who watches
has the turn's text in front of them (`TurnFits`). The steps that save are the only ones that add an answer, and they do it once; truncation and
deletion take a tail or all of a history away.

Of the documents, from the assumptions that `Documents` names, for all values of the constants that they allow: any listing, page size and
number of changes; any threads and errands at one circular; any attempts of the server and of commands at one gap; any number of
deaths and failures; documents of any units and budget; chains of any members and any number of generations at once; collections of any laws,
jobs and commands; any circulars and what their texts say; answers of any phrases, in pieces of either size; any threads that call the model; any
indexes, questions, shelves, caps and limits:

| Theorem of `Documents_proofs` | Property |
|---|---|
| `KeepersRunAsAlone` | a behaviour of `Documents` is one of the crawl, of the store and of the writers of a gap |
| `WhatIsKeptIsTrue` | `CopiesAreTrue` |
| `WhatIsDrawnIsTrue` | `DrawnFromTheirTexts` |
| `AnswersStayTraced` | `AnswersAreTraced` |
| `NothingIsLost` | `NothingFoundIsLost` |
| `DocumentsAreTyped` | `DocumentsTypeOK` |

The crawl: all it read is of the listing as it was when its first page was read, and that is still there whole, below what was published
since (`Intact`); or some of it was withdrawn, and then too few are left below the first of them (`Spoilt`), which cannot come back to the
top. A crawl succeeds only when the first page and the total are what they were: then nothing lies above, nothing is spoilt, and every
page is a page of the listing as it stands.

The store: a thread that is to write a page holds one (`PagesInHand`); text does not go away again, so what the index or a thread has read of a
row is no more than the row has (`BodyStays`); an annex that is done has a text (`AnnexSays`); and an index that is behind is one that some
thread owes (`Store!Owes`), or that was left behind, which the model marks (`slipped`, and `behind` after `reextract`; `IndexFollows`).

The writers of a gap: whoever read the row while it was there finds it there (rows are not deleted), and what an attempt read at its end
shows its own claim, if that is still in the row (`ClaimIsSeen`), so that the column is among those it writes. A recovery has read the
row, if it has to close an attempt that names it, and its copy shows the claim and the status of each attempt that it will close (`Drafting`), because the
server itself is at rest meanwhile (`OneWorks`) and a command can only take away what another claimed. That is why two sessions that write columns of
the same row, each by what it read, leave neither a claim without an attempt nor a gap running for ever (`NothingIsStranded`).

Folds and recursive functions: the induction theorems of the library take operators and cannot be used, but a set of numbers can
stand for a predicate. `Least` follows from the well-foundedness of `<`; `StepByStep` and `Iterates` then make the function that a recursion defines, and
`Throughout` carries a set from one number to the next. What is computed in `RelationGraph`, `AmendmentChains`, `Extraction`,
`Citations` and `CorpusSearch` is proved with these four.

The analyses: what a runner has before it is what is left to draw, and the relationships come last (`Sound`); a command comes to the collection after the
parts that it summarised; and relationships of two analyses are there together only if a job among them was not alone at its law, so that a job that
was alone has deleted all but its own.

The relationships: of two circulars on a subject the later replaces the earlier, whatever the model names, because whatever is recorded was checked against the
dates; and what a status was derived from is shown as replaced, so that an answer check finds it.

The chains: a requirement is told up to a circular when each of its entries is of a member up to there, starts from the value that
the one before it left, and ends in the value that is shown (`Merging!HistoryExplains` in the small). `Align` keeps that for the next member, and what is
stored as complete was told to the last of the members it names.

The checklists: every unit with something to do in it is in a section (`Sections`), put with others into a block, and packed into a batch; each is told of the
recursive function that makes it, one element at a time. From then on each block is still to be sent, answered for, or listed as a gap, whatever fails.

The citations: each handle is of one document and named for its slug, since there are more names to try than documents
(`CandidateIsFree`, by counting); a text that is cut where nothing is torn says what its two parts say (`ExpandJoins`), and where `_safe_cut` cuts nothing is torn,
whatever comes behind (`NothingIsTorn`), unless a text was held too long. So what is seen, followed by what is held and what is still to come, always says what the
whole text says, round brackets apart (`NothingIsSpilt`); when the stream is closed nothing is left to come. `WellMade` says of a text that its ids and citations are whole, which the
model's phrases are and joining keeps; without it a half of an id could be seen.

The traces: whoever is about to commit has a number that is taken or the next (`NextIsKnown`), since nothing but a deletion of the whole trace takes an event
away, and a commit that finds its number taken fails; a thread of the operation's own process that has read the row's count of calls holds the lock, and the count
is still so (`LatchHeld`), which is why two requests never get one number. What each thread writes follows from where it stands (`SaysItsPart`), so a
call's events carry the number of its request (`Answered`, `Counted`), and a row that says how its operation ended has the event of it, unless one was lost (`EndsHeard`).

The search: what is cut of a ranking is its best that are held (`CutTyped`), and each of those is told of, in a list, by name or as a pointer
(`Chatted`); what was shown of a page search is the fused ranking up to the offset (`Paged`), and the search ends when the offset has passed the total, so
that all of it was shown. The fused ranking has each circular that was found once, because a finite set can be put in order of any scores (`PutInOrder`, with
`Throughout` over its size) and what lists so many of it, none twice, lists it all (`Enumerates`). A passage that was retrieved lies in the window of its hit, or is one of its own, and runs that are joined keep what they
have, so each chunk is in some run (`Passed`).

The inventory: at each stage what was found is in one of three places, listed, cut or gone (`ListedSound`), and then what was included is shown or over the
limit (`ShownSound`). A list is the firsts of the candidates with the terms' own in front; so one of those is left out only if all that is listed is such, and that stays true of what
is shown. The result is complete only if nothing was cut, gone, undetermined or over.

The graphs: each circular is gone through once, at a distance that is less than the number of those gone through (`EachOnce`), and each of those that the driver has left
was read, now or before, or failed, or has no text (`Grasps`). Around each that was left behind, every circular that relates to it is gone through, waits, or relates to it only in
rows that somebody else wrote (`ComesToAll`); rows of others may come at any time, and the property leaves them out. So when nobody waits, what relates is gone through.

The types follow from these invariants, but for three facts: no kind of event happens to the chains more often than its bound (`ChainsCounted`); tools are called no more often than
the turn allows (`CitesTyped`); and a caller's request is on the timeline once at most (`AskedOnce`), so that a trace counts no more of them than there are callers.

What attempts at proof have changed in the models:

- `KeepsATextInForce` promised too much: its premise is explained under "What does not hold".
- The row that a failed download leaves is the one just loaded, which relists a withdrawn document (`Refreshed`); the model had let the
  row alone. Likewise the commit of a part of the manual also writes the manual's own row.
- A source whose indexing failed in the store and then in the ledger is promised nothing until it is indexed or audited (`RecordRow`).
- `CaptureIsTheListing` held only because the site changed three times at most: from four changes on a circular could be withdrawn and come back on
  top while others went, and the crawl saw nothing. In the model what is withdrawn now stays away, and the code's limit is under "What does not hold".
- `StoreIsVouchedFor` held only of texts that make different numbers of chunks; `SeemsStored` states what the code can promise of all.
- `Requested`, `Sections`, `Blocks`, `Batches` and `Expand` were written with operators that the provers do not know (`SelectSeq`, folds of pairs) or said in one
  expression what the code does in steps. They are now written one step at a time (`Grouping`, `Put`, `Pack`, `Piece`); TLC found both forms of `Expand`
  equal on all texts of up to six units. So were `OwnChunks`, `Ranked`, `Cut`, `Kept`, `Fused` and `Runs` of the search (`Only`, `Windows`), the lists of the inventory,
  and the selection of `relationships` (`Wanted`); the run has as many states as before.
- The bounds of the chains, the shelf, the plans and the rankings had no assumption; `ChainAssumption`, `InventoryAssumption`, `GraphAssumption` and
  `SearchAssumption` now say what kind of values they are.

Only model-checked: the liveness properties (`ClaimsAreReleased`, `JobsGiveTheLockBack` of the queue,
`StartedOperationsEnd`, and `WorkEnds`, that is, `FetchesEnd`, the jobs' `JobsGiveTheLockBack` and `TasksEnd`), which need fairness and so
are out of the prover's reach. Every invariant and every other action property that a passing run checks is a theorem.

## Not modelled

- Circular identity and aliases: normalisation of references and URLs, pure string functions; an identity is a model value.
- Authentication: sessions and invitations, left aside.
- News, economic data and link checks: periodic scrapes with one writer each, and parsing.
- Serializers, exports to workbooks, read routes, the frontend: layout of what the modelled parts hold.
- Parsers of pages and documents, chunking, embeddings, prompts, the construction of FTS queries: their result is any member of
  a small set where a module uses it.
- The gap commands (`cli/mirror.py`) beside a server: each starts only if no other process has the store open, and then does what the
  server does; a server that starts later is not considered. `GapWriters` leaves out the server's own sync, which is an attempt like a command's
  under the job lock, and eligibility, counters, errors and ambiguous matches.
- The matching of the listing with local rows inside an audit: a nondeterministic presence test in `MirrorQueue`.
- In `SemanticIndex` nobody reads a text again, or reloads it, while another thread indexes the same source; in `CircularStore` the annex is read again and committed in
  one step. Square brackets around an id go as round ones do, and are left out of `Citations`.
- Partly modelled parts leave out: the snapshot commands of `migration.py`; a chat's synthesis fallback and the resolution of
  document names; the search for a reference; the migrations' command line.

Met while reading, and in no module: relationships of laws hold SQLite's write lock through a call of the model;
the commands `relationships` and `graph` do not mark consolidations stale; `process_circular` changes a text without dropping
its checklist, which a refresh drops; a view that misses its file downloads one that may be newer than the
text; the ledger's audit compares counts
only, so a text that is replaced by one of as many chunks passes (`SeemsStored`; the run has `SameSize` false, and passes with TRUE too); `discover_circulars` (`scraper/circulars.py:584`) misses the oldest circular when
something is published during the crawl; the pacer's retries queue for the lock after the deadline, and that wait watches no cancel event.

## Plan

The gap queue; identity maintenance and its refinement; maintenance jobs; the services and the documents, one
module for each component that coordinates or computes; proofs of every safety property of the queue, of identity
maintenance, of the services, in the composition too, and of the documents.

What could follow, in this order:

1. `ClaimLedger`: the abstract claim and outcome protocol that `MirrorQueue` implements.
2. `Reconcile`: an audit's collision groups and buckets against a reference definition over bounded inputs.
