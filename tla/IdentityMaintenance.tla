------------------------ MODULE IdentityMaintenance ------------------------
(***************************************************************************)
(* Online maintenance of circular identities (migration_console.py,        *)
(* identity_migration.py, identity_removal.py, maintenance.py): legacy     *)
(* circulars are either re-keyed or removed, over two SQLite databases, a  *)
(* vector index and a few files, while the console stays reachable and all *)
(* other requests are turned away.                                         *)
(*                                                                         *)
(* The operation's phases are journalled in the corpus database, so that a *)
(* process killed anywhere resumes; the console keeps its own state file.  *)
(* All mapped circulars change in one transaction: an identity scheme is   *)
(* what they are keyed by, "old" (legacy), "new", or "gone".               *)
(***************************************************************************)
EXTENDS Naturals, FiniteSets

CONSTANTS
  Requests,  \* what the gate counts: requests, and threads it starts
  Uploads,   \* threads that finish law uploads, which it does not count
  Job,       \* the thread of a circular job, as a writer
  Mapped,    \* circulars with a legacy identity
  Bound      \* how often each kind of disturbance may happen

Ops          == {"migrate", "remove"}
Writers      == Requests \union Uploads \union {Job}
Disturbances == {"crash", "work", "record", "timeout", "start"}

ASSUME WriterAssumption ==
  /\ Requests \intersect Uploads = {}
  /\ Job \notin Requests \union Uploads
ASSUME BoundAssumption == Bound \in [Disturbances -> Nat]

VARIABLES
  corpus,     \* durable: the scheme of the corpus database
  app,        \* durable: the scheme the application database refers to
  vectors,    \* durable: the scheme of each circular's search entries
  stray,      \* who left a row that refers to an identity that is no more
  file,       \* durable: manifest.json and removal.json, and their backups
  journal,    \* durable: the identity_migration row
  state,      \* durable: state.json, of which the console has a copy
  up,         \* the web process runs
  operation,  \* the console's operation lock is held
  task,       \* what the console's worker does
  pc,         \* where it is
  fresh,      \* the plans it has made and not written yet that still describe the databases
  late,       \* a request has yet to record that its worker did not start
  joblock,    \* CIRCULAR_JOB_LOCK: free, or held by a job or the worker
  active,     \* counted requests in flight
  uploading,  \* upload threads in flight
  seen,       \* the scheme under which each writer read its circulars
  count       \* disturbances so far

stores  == <<corpus, app, vectors, stray>>
console == <<file, journal, state>>
worker  == <<operation, task, pc, fresh>>
traffic == <<active, uploading, seen>>
vars    == <<stores, console, worker, traffic, up, late, joblock, count>>

-----------------------------------------------------------------------------
Schemes    == {"old", "new", "gone"}
Statuses   == {"idle", "preparing", "review", "reviewing", "applying", "removing",
               "interrupted", "failed", "cancelled", "complete"}
Contents   == {"absent", "empty", "conflicted", "ready"}
Phases     == {"none", "planned", "corpus_committed", "app_committed",
               "indexes_verified", "complete"}
Tasks      == {"prepare", "review"} \union Ops

(* open reads the journal; copy reserves the backups and log journals what *)
(* they were made for; mark records the application's commit.              *)
Inner      == {"open", "copy", "copied", "log", "corpus", "app", "mark", "index", "finish"}
Recording  == {"submit", "begin", "close"}
Planning   == {"plan", "list", "manifest", "removal"}
Failing    == {"undo", "unlock", "failing"}
Ending     == {"free", "release"}
Steps      == {"off", "drain", "lock", "check"}
              \union Planning \union Inner \union Recording \union Failing \union Ending

File(contents) == [contents |-> contents, stale |-> FALSE, backup |-> "none"]

TypeOK ==
  /\ corpus \in Schemes
  /\ app \in Schemes
  /\ vectors \in [Mapped -> Schemes]
  /\ stray \subseteq Writers
  /\ file \in [Ops -> [contents: Contents, stale: BOOLEAN, backup: {"none", "partial", "complete"}]]
  /\ journal \in [op: Ops \union {"none"}, phase: Phases]
  /\ state \in [status: Statuses, maintenance: BOOLEAN, started: BOOLEAN, op: Ops \union {"none"}]
  /\ up \in BOOLEAN
  /\ operation \in BOOLEAN
  /\ task \in Tasks
  /\ pc \in Steps
  /\ fresh \subseteq Ops
  /\ late \in BOOLEAN
  /\ joblock \in {"free", "job", "worker"}
  /\ active \subseteq Requests
  /\ uploading \subseteq Uploads
  /\ seen \in [Writers -> Schemes \union {"nothing"}]
  /\ count \in [Disturbances -> Nat]

Init ==
  /\ corpus = "old" /\ app = "old"
  /\ vectors = [c \in Mapped |-> "old"]
  /\ stray = {}
  /\ file = [o \in Ops |-> File("absent")]
  /\ journal = [op |-> "none", phase |-> "none"]
  /\ state = [status |-> "idle", maintenance |-> FALSE, started |-> FALSE, op |-> "none"]
  /\ up = TRUE
  /\ operation = FALSE /\ task = "prepare" /\ pc = "off" /\ fresh = {}
  /\ late = FALSE
  /\ joblock = "free"
  /\ active = {} /\ uploading = {}
  /\ seen = [w \in Writers |-> "nothing"]
  /\ count = [k \in Disturbances |-> 0]

Happens(k) == count[k] < Bound[k] /\ count' = [count EXCEPT ![k] = @ + 1]

(* The gate's pause is what the state file says, from boot on.             *)
Paused     == state.maintenance
Incomplete == journal.phase \notin {"none", "complete"}
Journaled  == task = journal.op
Holds(w)   == IF w = Job THEN joblock = "job" ELSE w \in active \union uploading

-----------------------------------------------------------------------------
(* Traffic: whoever writes circulars beside the console's worker.          *)

(* Faulty variant: the gate counts, and lets everybody in.                 *)
GateOpenAlways == up
GateOpen       == up /\ ~Paused

Enter(r) ==
  /\ GateOpen
  /\ r \notin active
  /\ active' = active \union {r}
  /\ UNCHANGED <<stores, console, worker, up, late, joblock, uploading, seen, count>>

Leave(r) ==
  /\ r \in active
  /\ active' = active \ {r}
  /\ seen' = [seen EXCEPT ![r] = "nothing"]
  /\ UNCHANGED <<stores, console, worker, up, late, joblock, uploading, count>>

(* The thread of a job outlives the request that started it.               *)
StartJob(r) ==
  /\ r \in active
  /\ joblock = "free"
  /\ joblock' = "job"
  /\ UNCHANGED <<stores, console, worker, up, late, traffic, count>>

EndJob ==
  /\ joblock = "job"
  /\ joblock' = "free"
  /\ seen' = [seen EXCEPT ![Job] = "nothing"]
  /\ UNCHANGED <<stores, console, worker, up, late, active, uploading, count>>

StartUpload(r, u) ==
  /\ r \in active /\ u \notin uploading
  /\ uploading' = uploading \union {u}
  /\ UNCHANGED <<stores, console, worker, up, late, joblock, active, seen, count>>

EndUpload(u) ==
  /\ u \in uploading
  /\ uploading' = uploading \ {u}
  /\ seen' = [seen EXCEPT ![u] = "nothing"]
  /\ UNCHANGED <<stores, console, worker, up, late, joblock, active, count>>

(* What a circular job asks before it fetches a circular.                  *)
Preflight == ~Incomplete /\ corpus # "old"

Read(w) ==
  /\ Holds(w)
  /\ w = Job => Preflight
  /\ seen' = [seen EXCEPT ![w] = corpus]
  /\ UNCHANGED <<stores, console, worker, up, late, joblock, active, uploading, count>>

(* A row that refers to a mapped circular by the identity read before: a   *)
(* plan made of the corpus no longer describes it, or the row is astray.   *)
Write(w) ==
  /\ Holds(w) /\ seen[w] # "nothing"
  /\ stray' = IF seen[w] = "old" /\ corpus # "old" THEN stray \union {w} ELSE stray
  /\ file' = [o \in Ops |-> [file[o] EXCEPT !.stale = TRUE]]
  /\ fresh' = {}
  /\ UNCHANGED <<corpus, app, vectors, journal, state, operation, task, pc, up, late, joblock, traffic, count>>

-----------------------------------------------------------------------------
(* The console's requests.                                                 *)

Named(t)  == CASE t = "prepare" -> "preparing" [] t = "review" -> "reviewing"
               [] t = "migrate" -> "applying"  [] t = "remove" -> "removing"
First(t)  == IF t = "review" THEN "plan" ELSE "drain"

(* Faulty variants: an operation resumes as the other one; one that has    *)
(* failed is not resumed.                                                  *)
SameOpAnyhow(t) == TRUE
SameOp(t)       == state.started => (t = "remove") = (state.op = "remove")
ResumableUnfailed == {"review", "interrupted"}
Resumable         == {"review", "failed", "interrupted"}

(* The conditions of prepare, review, apply and remove, those _start has   *)
(* repeated under the operation lock included.                             *)
Allowed(t) ==
  CASE t = "prepare" -> /\ state.status \in {"idle", "cancelled", "complete", "review", "failed"}
                        /\ ~state.started /\ ~Incomplete
    [] t = "review"  -> /\ state.status = "review" /\ ~state.started
                        /\ file["migrate"].contents \in {"conflicted", "ready"}
    [] t \in Ops     -> /\ state.status \in Resumable
                        /\ file[t].contents = "ready"
                        /\ SameOp(t)

(* Faulty variant: the state names whatever is started as the operation.   *)
AnnouncedTask(t) == [state EXCEPT !.status = Named(t), !.maintenance = TRUE, !.op = t]
Announced(t) == [state EXCEPT !.status = Named(t), !.maintenance = TRUE,
                              !.op = IF t \in Ops THEN t ELSE @]

(* A request that is not refused enters maintenance and starts the worker; *)
(* one that cannot releases the operation before it records the failure.   *)
Start(t) ==
  /\ up /\ ~operation /\ Allowed(t)
  /\ \/ /\ state' = Announced(t)
        /\ operation' = TRUE /\ task' = t /\ pc' = First(t)
        /\ UNCHANGED <<fresh, late, count>>
     \/ /\ Happens("start") /\ ~late
        /\ late' = TRUE
        /\ state' = Announced(t)
        /\ UNCHANGED worker
     \/ /\ Happens("record") /\ ~late
        /\ late' = TRUE
        /\ UNCHANGED <<state, worker>>
  /\ UNCHANGED <<stores, file, journal, traffic, up, joblock>>

RecordLate ==
  /\ late
  /\ late' = FALSE
  /\ \/ state' = [state EXCEPT !.status = "failed"] /\ UNCHANGED count
     \/ Happens("record") /\ UNCHANGED state
  /\ UNCHANGED <<stores, file, journal, worker, traffic, up, joblock>>

(* Faulty variant: a started operation may be left as well.                *)
CancellableAnyhow == up /\ ~operation
Cancellable       == up /\ ~operation /\ ~state.started /\ ~Incomplete

Cancel ==
  /\ Cancellable
  /\ state' = [state EXCEPT !.status = "cancelled", !.maintenance = FALSE]
  /\ UNCHANGED <<stores, file, journal, worker, traffic, up, late, joblock, count>>

-----------------------------------------------------------------------------
(* The worker.  Each step is one commit, to a database or a file.          *)

At(step)   == operation /\ pc = step
Goto(step) == pc' = step /\ UNCHANGED <<operation, task, fresh>>

(* Faulty variant: the drain is over when the gate is closed.              *)
DrainedWhenPaused == Paused
Drained           == active = {}

Drain ==
  /\ At("drain") /\ Drained
  /\ Goto("lock")
  /\ UNCHANGED <<stores, console, traffic, up, late, joblock, count>>

TakeJobLock ==
  /\ At("lock") /\ joblock = "free"
  /\ joblock' = "worker"
  /\ Goto(IF task = "prepare" THEN "plan" ELSE "begin")
  /\ UNCHANGED <<stores, console, traffic, up, late, count>>

(* Both waits give up after five minutes.                                  *)
GiveUp ==
  /\ At("drain") \/ At("lock")
  /\ Happens("timeout")
  /\ Goto("failing")
  /\ UNCHANGED <<stores, console, traffic, up, late, joblock>>

(* The plans of what remains: of the migration, and when it prepares of    *)
(* the removal.  A review plans the migration again, with its evidence.    *)
Planned == IF corpus = "old" THEN {"conflicted", "ready"} ELSE {"empty"}
LastPlan(o) == o = "remove" \/ task = "review"

Plan(o) ==
  /\ At(IF o = "migrate" THEN "plan" ELSE "list")
  /\ pc' = IF LastPlan(o) THEN "manifest" ELSE "list"
  /\ fresh' = fresh \union {o}
  /\ UNCHANGED <<stores, console, operation, task, traffic, up, late, joblock, count>>

(* Each plan is written when all are made, with its own hash and no        *)
(* backups yet; it may describe the databases no more.                     *)
WritePlan(o) ==
  /\ At(IF o = "migrate" THEN "manifest" ELSE "removal")
  /\ \E contents \in Planned :
       file' = [file EXCEPT ![o] = [File(contents) EXCEPT !.stale = o \notin fresh]]
  /\ pc' = IF LastPlan(o) THEN "submit" ELSE "removal"
  /\ fresh' = fresh \ {o}
  /\ UNCHANGED <<stores, journal, state, operation, task, traffic, up, late, joblock, count>>

Submitted == IF task = "prepare"
             THEN [state EXCEPT !.status = "review", !.started = FALSE, !.op = "none"]
             ELSE [state EXCEPT !.status = "review"]

Submit ==
  /\ At("submit")
  /\ state' = Submitted
  /\ Goto("free")
  /\ UNCHANGED <<stores, file, journal, traffic, up, late, joblock, count>>

Begin ==
  /\ At("begin")
  /\ state' = [state EXCEPT !.started = TRUE]
  /\ Goto("open")
  /\ UNCHANGED <<stores, file, journal, traffic, up, late, joblock, count>>

Resumed(phase) ==
  CASE phase = "planned"          -> "corpus"
    [] phase = "corpus_committed" -> IF task = "migrate" THEN "app" ELSE "index"
    [] phase = "app_committed"    -> "index"
    [] phase = "indexes_verified" -> "finish"
    [] phase = "complete"         -> "check"

(* The journal of this manifest says where to go on; without one the       *)
(* manifest must still describe the databases.                             *)
Describes == corpus = "old" /\ ~file[task].stale

Open ==
  /\ At("open")
  /\ CASE task = "remove" /\ Incomplete /\ journal.op # "remove" -> Goto("undo")
       [] Journaled -> Goto(Resumed(journal.phase))
       [] OTHER     -> Goto(IF Describes THEN "copy" ELSE "undo")
  /\ UNCHANGED <<stores, console, traffic, up, late, joblock, count>>

(* A backup is reserved by name, exclusively, and then filled.             *)
(* Faulty variant: what is reserved is taken for a backup.                 *)
CopyReserved ==
  /\ At("copy")
  /\ IF file[task].backup = "none"
     THEN file' = [file EXCEPT ![task].backup = "partial"] /\ Goto("log")
     ELSE UNCHANGED file /\ Goto("undo")
  /\ UNCHANGED <<stores, journal, state, traffic, up, late, joblock, count>>
Copy ==
  /\ At("copy")
  /\ IF file[task].backup = "none"
     THEN file' = [file EXCEPT ![task].backup = "partial"] /\ Goto("copied")
     ELSE UNCHANGED file /\ Goto("undo")
  /\ UNCHANGED <<stores, journal, state, traffic, up, late, joblock, count>>

Copied ==
  /\ At("copied")
  /\ file' = [file EXCEPT ![task].backup = "complete"]
  /\ Goto("log")
  /\ UNCHANGED <<stores, journal, state, traffic, up, late, joblock, count>>

Log ==
  /\ At("log")
  /\ journal' = [op |-> task, phase |-> "planned"]
  /\ Goto("corpus")
  /\ UNCHANGED <<stores, file, state, traffic, up, late, joblock, count>>

(* The corpus transaction re-keys what the manifest lists and refuses what *)
(* it does not describe; a removal takes every reference with the row.     *)
Rekey ==
  /\ At("corpus")
  /\ IF task = "migrate" /\ file[task].stale
     THEN Goto("undo") /\ UNCHANGED <<corpus, journal>>
     ELSE /\ corpus' = IF task = "migrate" THEN "new" ELSE "gone"
          /\ journal' = [journal EXCEPT !.phase = "corpus_committed"]
          /\ Goto(Resumed("corpus_committed"))
  /\ UNCHANGED <<app, vectors, stray, file, state, traffic, up, late, joblock, count>>

(* The application database is another transaction, and the journal's note *)
(* of it a third: what was re-keyed already is accepted.                   *)
(* Faulty variant: it is not.                                              *)
RekeyableOnce == app = "old"
Rekeyable     == app \in {"old", "new"}

RekeyApp ==
  /\ At("app")
  /\ IF Rekeyable THEN app' = "new" /\ Goto("mark")
                  ELSE UNCHANGED app /\ Goto("undo")
  /\ UNCHANGED <<corpus, vectors, stray, console, traffic, up, late, joblock, count>>

Mark ==
  /\ At("mark")
  /\ journal' = [journal EXCEPT !.phase = "app_committed"]
  /\ Goto("index")
  /\ UNCHANGED <<stores, file, state, traffic, up, late, joblock, count>>

(* The search entries are repaired, or removed, circular by circular.      *)
Repair(c) ==
  /\ At("index")
  /\ vectors' = [vectors EXCEPT ![c] = corpus]
  /\ UNCHANGED <<corpus, app, stray, console, worker, traffic, up, late, joblock, count>>

(* Faulty variant: one repaired circular is enough.                        *)
RepairedSome == \E c \in Mapped : vectors[c] = corpus
Repaired     == \A c \in Mapped : vectors[c] = corpus

Verified ==
  /\ At("index") /\ Repaired
  /\ journal' = [journal EXCEPT !.phase = "indexes_verified"]
  /\ Goto("finish")
  /\ UNCHANGED <<stores, file, state, traffic, up, late, joblock, count>>

Finish ==
  /\ At("finish")
  /\ journal' = [journal EXCEPT !.phase = "complete"]
  /\ Goto("check")
  /\ UNCHANGED <<stores, file, state, traffic, up, late, joblock, count>>

Check ==
  /\ At("check")
  /\ Goto(IF Preflight THEN "close" ELSE "unlock")
  /\ UNCHANGED <<stores, console, traffic, up, late, joblock, count>>

Close ==
  /\ At("close")
  /\ state' = [state EXCEPT !.status = "complete", !.maintenance = FALSE, !.started = FALSE]
  /\ Goto("free")
  /\ UNCHANGED <<stores, file, journal, traffic, up, late, joblock, count>>

(* Done or failed, the work gives the job lock back first; the lock of the *)
(* operation is the last thing that its thread holds.                      *)
FreeJobLock ==
  /\ (At("free") /\ Goto("release")) \/ (At("unlock") /\ Goto("failing"))
  /\ joblock' = IF joblock = "worker" THEN "free" ELSE joblock
  /\ UNCHANGED <<stores, console, traffic, up, late, count>>

Gone == pc' = "off" /\ operation' = FALSE /\ fresh' = {} /\ UNCHANGED task

Release ==
  /\ At("release") /\ Gone
  /\ UNCHANGED <<stores, console, traffic, up, late, joblock, count>>

-----------------------------------------------------------------------------
(* Exceptions.  An operation that has not been journalled has changed no   *)
(* identities: it is not started after all.                                *)

Raise ==
  /\ operation /\ pc \notin {"off"} \union Failing \union Ending
  /\ Happens(IF pc \in Recording THEN "record" ELSE "work")
  /\ Goto(IF pc \in Inner THEN "undo" ELSE "unlock")
  /\ UNCHANGED <<stores, console, traffic, up, late, joblock>>

Unstarted == IF Journaled THEN state ELSE [state EXCEPT !.started = FALSE]

Undo ==
  /\ At("undo")
  /\ \/ state' = Unstarted /\ UNCHANGED count
     \/ ~Journaled /\ Happens("record") /\ UNCHANGED state
  /\ Goto("unlock")
  /\ UNCHANGED <<stores, file, journal, traffic, up, late, joblock>>

Fail ==
  /\ At("failing")
  /\ \/ state' = [state EXCEPT !.status = "failed"] /\ UNCHANGED count
     \/ Happens("record") /\ UNCHANGED state
  /\ Goto("release")
  /\ UNCHANGED <<stores, file, journal, traffic, up, late, joblock>>

-----------------------------------------------------------------------------
(* Crash and boot.                                                         *)

Crash ==
  /\ up /\ Happens("crash")
  /\ up' = FALSE
  /\ Gone
  /\ late' = FALSE /\ joblock' = "free"
  /\ active' = {} /\ uploading' = {} /\ seen' = [w \in Writers |-> "nothing"]
  /\ UNCHANGED <<stores, console>>

(* The journal, or else the state file, says what was interrupted.         *)
Recovered ==
  CASE Incomplete -> [status |-> "interrupted", maintenance |-> TRUE, started |-> TRUE, op |-> journal.op]
    [] ~Incomplete /\ ~state.maintenance -> state
    [] ~Incomplete /\ state.maintenance /\ state.started -> [state EXCEPT !.status = "interrupted"]
    [] ~Incomplete /\ state.maintenance /\ ~state.started
         /\ state.status \in {"review", "failed"} -> state
    [] OTHER -> [state EXCEPT !.status = "failed"]

Boot ==
  /\ ~up
  /\ up' = TRUE
  /\ state' = Recovered
  /\ UNCHANGED <<stores, file, journal, worker, traffic, late, joblock, count>>

-----------------------------------------------------------------------------
Traffic ==
  \/ \E r \in Requests : Enter(r) \/ Leave(r) \/ StartJob(r)
  \/ \E r \in Requests, u \in Uploads : StartUpload(r, u)
  \/ \E u \in Uploads : EndUpload(u)
  \/ \E w \in Writers : Read(w) \/ Write(w)
  \/ EndJob

Operator == (\E t \in Tasks : Start(t)) \/ RecordLate \/ Cancel

Work ==
  \/ Drain \/ TakeJobLock \/ Submit
  \/ \E o \in Ops : Plan(o) \/ WritePlan(o)
  \/ Begin \/ Open \/ Copy \/ Copied \/ Log
  \/ Rekey \/ RekeyApp \/ Mark \/ Verified \/ Finish \/ Check \/ Close
  \/ Undo \/ Fail \/ FreeJobLock \/ Release

Next ==
  \/ Traffic \/ Operator \/ Work
  \/ \E c \in Mapped : Repair(c)
  \/ GiveUp \/ Raise \/ Crash \/ Boot

Spec == Init /\ [][Next]_vars

(* Threads are scheduled, requests and jobs end, a stopped service is      *)
(* restarted, and the operator resumes what has been started.              *)
Resume == \E t \in Ops : state.started /\ Start(t)
Fairness ==
  /\ WF_vars(Work)
  /\ \A c \in Mapped : WF_vars(vectors[c] # corpus /\ Repair(c))
  /\ \A r \in Requests : WF_vars(Leave(r))
  /\ WF_vars(EndJob)
  /\ WF_vars(RecordLate)
  /\ WF_vars(Boot)
  /\ WF_vars(Resume)

FairSpec == Spec /\ Fairness

-----------------------------------------------------------------------------
(* What the service promises: an identity change that nobody is served     *)
(* half done.  It is done when the last store has it.                      *)
Whole == /\ app = (IF corpus = "new" THEN "new" ELSE "old")
         /\ \A c \in Mapped : vectors[c] = corpus

Change == INSTANCE IdentityChange WITH
            open   <- up /\ ~Paused,
            saved  <- journal.op # "none",
            scheme <- IF Whole THEN corpus ELSE "old"

-----------------------------------------------------------------------------
(* Properties.                                                             *)

(* While the console's worker may change identities, no counted request is *)
(* in flight and no circular job runs: closing the gate, draining it and   *)
(* taking the job lock shut everybody else out, also when the operation is *)
(* resumed after a failure or a restart.                                   *)
MaintenanceIsAlone ==
  operation /\ pc \in Inner \union {"check", "close"} => active = {} /\ joblock = "worker"

(* Whoever is served sees one scheme: both databases and the search        *)
(* entries agree, and no operation is under way.                           *)
ServedIsWhole == up /\ ~Paused => Whole /\ ~Incomplete

(* Readers never notice more than one change, made while the service was   *)
(* closed, saved before, and finished before it was opened again.          *)
ChangeIsAtomic == Change!Spec

(* No store changes its identities but for an operation that is journalled *)
(* and whose backups are complete, however often it was resumed.           *)
ChangesAreBackedUp ==
  [][<<corpus, app, vectors>>' # <<corpus, app, vectors>> =>
       Incomplete /\ file[journal.op].backup = "complete"]_vars

(* A journalled operation can only be resumed: whatever failed or crashed, *)
(* the console says that it has started, which one it is, and keeps the    *)
(* gate closed until it is complete.                                       *)
StartedIsKnown ==
  up /\ Incomplete => state.maintenance /\ state.started /\ state.op = journal.op

(* The console always offers its operator a next step: resume, prepare or  *)
(* leave.                                                                  *)
MaintenanceHasAWayOut ==
  up /\ Paused /\ ~operation /\ ~late => Cancellable \/ \E t \in Tasks : Allowed(t)

(* No request and no job leaves a row that refers to an identity that      *)
(* maintenance has taken away, whatever it read before: nobody does but    *)
(* the uploads, which the gate does not count.                             *)
ReferencesResolve == stray \subseteq Uploads

(* A started operation ends: whatever fails, crashes or gives up, resuming *)
(* it completes it.                                                        *)
StartedOperationsEnd == Incomplete ~> journal.phase = "complete"

=============================================================================
