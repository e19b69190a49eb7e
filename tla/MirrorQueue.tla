---------------------------- MODULE MirrorQueue ----------------------------
(***************************************************************************)
(* The mirror gap queue of sbpeye: circulars that SBP lists and the corpus *)
(* lacks, and the jobs that fill them (circular_jobs.py, mirror.py, the    *)
(* job endpoints and the boot recovery of main.py, the ordinary sync of    *)
(* scraper/circulars.py).                                                  *)
(*                                                                         *)
(* One web process runs at most one circular job at a time, under          *)
(* CIRCULAR_JOB_LOCK; a job's thread pool works on several circulars at    *)
(* once.  The CLI's writers, other processes, are left out.                *)
(*                                                                         *)
(* A job id names one run; an attempt is identified by its run and its     *)
(* circular, as the unique index uq_mirror_attempt_job_identity says.      *)
(***************************************************************************)
EXTENDS Naturals, FiniteSets

CONSTANTS
  Ids,         \* circular identities
  Backfills,   \* job ids of mirror backfills
  Syncs,       \* job ids of ordinary syncs
  Audits,      \* ids of mirror audits
  None,        \* SQL NULL in active_attempt_id; nobody holds the job lock
  Request,     \* the BackfillRequest of each backfill
  SyncWorkers, \* worker threads of an ordinary sync
  Clashing,    \* the identities whose local rows may come to be ambiguous
  Bound        \* how often each kind of disturbance may happen

Runs == Backfills \union Syncs
Jobs == Runs \union Audits
Disturbances == {"crash", "storage", "maintenance"}

Requests == [statuses: SUBSET {"pending", "failed"}, scope: SUBSET Ids,
             size: Nat \ {0}, workers: Nat \ {0}, maxAttempts: Nat \ {0},
             repeat: BOOLEAN]

ASSUME JobAssumption ==
  /\ IsFiniteSet(Runs)
  /\ None \notin Jobs
  /\ Backfills \intersect Syncs = {}
  /\ Runs \intersect Audits = {}
ASSUME RequestAssumption ==
  /\ Request \in [Backfills -> Requests]
  /\ SyncWorkers \in Nat \ {0}
  /\ Clashing \subseteq Ids
  /\ Bound \in [Disturbances -> Nat]

VARIABLES
  corpus,   \* durable: the identities a stored circular row matches
  clash,    \* durable: the identities several or incompatible rows match
  gap,      \* durable: the mirror_gap row of each identity
  attempt,  \* durable: outcome of each mirror_attempt row
  job,      \* durable: status of each sync_status or mirror_audit row
  paused,   \* durable: state.json keeps the application in maintenance
  server,   \* "down", or how the web process booted
  lock,     \* CIRCULAR_JOB_LOCK: the job that holds it
  live,     \* jobs that have a running thread
  item,     \* where each run is with each circular, in its memory
  stop,     \* why a backfill submits no further work
  report,   \* the running audit's findings, reconciled and not yet published
  capture,  \* the status of the running audit's listing capture
  count     \* disturbances so far

durable  == <<corpus, clash, gap, attempt, job>>
volatile == <<live, lock, item, stop, report, capture>>
process  == <<server, paused, count>>
vars     == <<durable, volatile, process>>

-----------------------------------------------------------------------------
(* Rows and in-memory states.                                              *)

Statuses == {"absent", "pending", "running", "failed", "resolved", "skipped"}
Gap == [status: Statuses, eligible: BOOLEAN, active: Runs \union {None},
        attempts: Nat, failures: Nat]
NoGap == [status |-> "absent", eligible |-> FALSE, active |-> None,
          attempts |-> 0, failures |-> 0]

(* "running" and "loose" are both outcome = 'running'; a loose attempt has *)
(* gap_id NULL: its run found no gap it could claim.                       *)
Outcomes   == {"none", "running", "loose", "resolved", "failed",
               "already_present", "interrupted"}
Unfinished == {"running", "loose"}

JobStatuses == {"unused", "queued", "running", "success", "partial", "failed"}

(* waiting: selected for a later batch, or (sync) not discovered yet;      *)
(* batched: in this batch; submitted: handed to the pool; checked: found   *)
(* eligible and missing; claimed: process_circular runs; stored: its body  *)
(* is committed; raised: a transaction of the worker failed.               *)
Working == {"claimed", "stored"}
InPool  == {"submitted", "checked"} \union Working
Results == {"held", "present", "ok", "bad"}
Phases  == {"none", "waiting", "batched", "raised", "done"}
             \union InPool \union Results
Buckets == {"unlisted", "missing", "matched", "ambiguous"}

All(ph)   == [i \in Ids |-> ph]
Serving   == server # "down" /\ ~paused
Pool(r)   == {i \in Ids : item[r][i] \in InPool}
At(r, ph) == {i \in Ids : item[r][i] = ph}
Happens(k) == count[k] < Bound[k] /\ count' = [count EXCEPT ![k] = @ + 1]
Move(r, i, ph) == item' = [item EXCEPT ![r][i] = ph]

TypeOK ==
  /\ corpus \subseteq Ids
  /\ clash \subseteq Ids
  /\ gap \in [Ids -> Gap]
  /\ attempt \in [Runs -> [Ids -> Outcomes]]
  /\ job \in [Jobs -> JobStatuses]
  /\ paused \in BOOLEAN
  /\ server \in {"down", "recovered", "unrecovered"}
  /\ lock \in Jobs \union {None}
  /\ live \subseteq Jobs
  /\ item \in [Runs -> [Ids -> Phases]]
  /\ stop \in [Backfills -> {"no", "cancelled", "fatal"}]
  /\ report \in [Ids -> Buckets]
  /\ capture \in {"none", "success", "partial", "failed"}
  /\ count \in [Disturbances -> Nat]

Init ==
  /\ corpus \in SUBSET Ids
  /\ clash = {}
  /\ gap = [i \in Ids |-> NoGap]
  /\ attempt = [r \in Runs |-> [i \in Ids |-> "none"]]
  /\ job = [j \in Jobs |-> "unused"]
  /\ paused = FALSE
  /\ server = "recovered"
  /\ lock = None
  /\ live = {}
  /\ item = [r \in Runs |-> All("none")]
  /\ stop = [b \in Backfills |-> "no"]
  /\ report = All("unlisted")
  /\ capture = "none"
  /\ count = [k \in Disturbances |-> 0]

-----------------------------------------------------------------------------
(* What reconcile says of one identity against the local rows.             *)
(* Faulty variant: rows that clash pass for missing.                       *)
FindingUnambiguous(i) == IF i \in corpus \ clash THEN "matched" ELSE "missing"
Finding(i) == IF i \in clash THEN "ambiguous"
              ELSE IF i \in corpus THEN "matched" ELSE "missing"
Present(i) == Finding(i) = "matched"

(* The end of a job's thread: its row, and the lock it was given.          *)
(* Faulty variants: a failure does not reach the row, or keeps the lock.   *)
EndJobSilent(j, status) ==
  /\ job'  = [job EXCEPT ![j] = IF status = "failed" THEN @ ELSE status]
  /\ live' = live \ {j}
  /\ lock' = None
EndJobHolding(j, status) ==
  /\ job'  = [job EXCEPT ![j] = status]
  /\ live' = live \ {j}
  /\ lock' = IF status = "failed" THEN lock ELSE None
EndJob(j, status) ==
  /\ job'  = [job EXCEPT ![j] = status]
  /\ live' = live \ {j}
  /\ lock' = None

(* The non-blocking acquire that every job and operator request starts     *)
(* with, and that answers 409 when it fails.                               *)
(* Faulty variant: its result is not looked at.                            *)
LockIgnored == TRUE
LockFree    == lock = None

(* A job row is committed under the lock, then its thread is started; a    *)
(* thread that cannot start fails the row and releases the lock.           *)
Dispatch(j) ==
  /\ Serving
  /\ LockFree
  /\ job[j] = "unused"
  /\ \/ /\ job'  = [job EXCEPT ![j] = "queued"]
        /\ live' = live \union {j}
        /\ lock' = j
     \/ /\ job'  = [job EXCEPT ![j] = "failed"]
        /\ UNCHANGED <<live, lock>>

-----------------------------------------------------------------------------
(* Backfill.                                                               *)

Candidates(q) == {i \in q.scope : /\ gap[i].eligible
                                  /\ gap[i].status \in q.statuses
                                  /\ gap[i].failures < q.maxAttempts
                                  /\ gap[i].active = None}

(* The n first of S in the request's order, which the model leaves open.   *)
Front(S, n) == {T \in SUBSET S : \/ T = S /\ Cardinality(S) <= n
                                 \/ Cardinality(T) = n}

Selections(q) == IF q.repeat THEN {Candidates(q)} ELSE Front(Candidates(q), q.size)

StartBackfill(b) ==
  /\ Dispatch(b)
  /\ \E sel \in Selections(Request[b]) \ {{}} :
       item' = [item EXCEPT ![b] = [i \in Ids |-> IF i \in sel THEN "waiting" ELSE "none"]]
  /\ UNCHANGED <<corpus, clash, gap, attempt, stop, report, capture, process>>

BeginBackfill(b) ==
  /\ b \in live /\ job[b] = "queued" /\ stop[b] # "fatal"
  /\ job' = [job EXCEPT ![b] = "running"]
  /\ UNCHANGED <<corpus, clash, gap, attempt, volatile, process>>

(* A backfill may go on only while its batch has at most half of its       *)
(* attempted circulars with a required stage missing.                      *)
OverThreshold(b) == 2 * Cardinality(At(b, "bad")) > Cardinality(At(b, "bad") \union At(b, "ok"))

(* Faulty variant: the batch is over once all of it is submitted.          *)
BatchSubmitted(b) == /\ b \in live
                     /\ job[b] = "running" \/ stop[b] = "fatal"
                     /\ At(b, "batched") = {} \/ stop[b] # "no"
BatchDone(b) == /\ b \in live
                /\ job[b] = "running" \/ stop[b] = "fatal"
                /\ Pool(b) = {}
                /\ At(b, "batched") = {} \/ stop[b] # "no"

NextBatch(b) ==
  /\ BatchDone(b)
  /\ stop[b] = "no"
  /\ ~OverThreshold(b)
  /\ \E batch \in Front(At(b, "waiting"), Request[b].size) \ {{}} :
       item' = [item EXCEPT ![b] =
                  [i \in Ids |-> CASE i \in batch -> "batched"
                                   [] item[b][i] \in Results -> "done"
                                   [] OTHER -> item[b][i]]]
  /\ UNCHANGED <<durable, live, lock, stop, report, capture, process>>

(* Faulty variant: the batches still waiting are forgotten.                *)
ExhaustedBatch(b) == stop[b] = "no" /\ ~OverThreshold(b)
Exhausted(b) == stop[b] = "no" /\ ~OverThreshold(b) /\ At(b, "waiting") = {}
Stopped(b)   == stop[b] # "no" \/ OverThreshold(b)

EndBackfill(b) ==
  /\ BatchDone(b)
  /\ \/ Exhausted(b) /\ EndJob(b, "success")
     \/ Stopped(b) /\ EndJob(b, "failed")
  /\ UNCHANGED <<corpus, clash, gap, attempt, item, stop, report, capture, process>>

CancelBackfill(b) ==
  /\ Serving
  /\ b \in live /\ job[b] \in {"queued", "running"}
  /\ stop[b] = "no"
  /\ stop' = [stop EXCEPT ![b] = "cancelled"]
  /\ UNCHANGED <<durable, live, lock, item, report, capture, process>>

(* Any other exception of the job's own thread (a progress write, say).    *)
RunnerRaises(b) ==
  /\ b \in live /\ stop[b] # "fatal"
  /\ stop' = [stop EXCEPT ![b] = "fatal"]
  /\ UNCHANGED <<durable, live, lock, item, report, capture, process>>

Submit(b, i) ==
  /\ b \in live
  /\ stop[b] = "no"
  /\ item[b][i] = "batched"
  /\ Cardinality(Pool(b)) < Request[b].workers
  /\ Move(b, i, "submitted")
  /\ UNCHANGED <<durable, live, lock, stop, report, capture, process>>

(* process_gap's first session, up to the compare-and-set.                 *)
CheckGap(b, i) ==
  /\ item[b][i] = "submitted"
  /\ LET free == /\ gap[i].active = None
                 /\ gap[i].status \in {"pending", "failed"}
                 /\ gap[i].eligible
     IN \/ /\ ~free
           /\ Move(b, i, "held")
           /\ UNCHANGED <<gap, attempt>>
        \/ /\ free /\ Finding(i) = "ambiguous"
           /\ gap' = [gap EXCEPT ![i].eligible = FALSE]
           /\ Move(b, i, "held")
           /\ UNCHANGED attempt
        \/ /\ free /\ Finding(i) = "matched"
           /\ gap' = [gap EXCEPT ![i].status = "resolved"]
           /\ attempt' = [attempt EXCEPT ![b][i] = "already_present"]
           /\ Move(b, i, "present")
        \/ /\ free /\ Finding(i) = "missing"
           /\ Move(b, i, "checked")
           /\ UNCHANGED <<gap, attempt>>
  /\ UNCHANGED <<corpus, clash, job, live, lock, stop, report, capture, process>>

(* The gap a worker claims.  Faulty variant: the claim is not set.         *)
ClaimedByStatus(g, b) == [g EXCEPT !.status = "running", !.attempts = g.attempts + 1]
Claimed(g, b) == [g EXCEPT !.status = "running", !.active = b, !.attempts = g.attempts + 1]

(* The compare-and-set and the attempt row it is committed with.           *)
ClaimGap(b, i) ==
  /\ item[b][i] = "checked"
  /\ LET free == gap[i].active = None /\ gap[i].status \in {"pending", "failed"}
     IN \/ /\ free
           /\ gap' = [gap EXCEPT ![i] = Claimed(gap[i], b)]
           /\ attempt' = [attempt EXCEPT ![b][i] = "running"]
           /\ Move(b, i, "claimed")
        \/ ~free /\ Move(b, i, "held") /\ UNCHANGED <<gap, attempt>>
  /\ UNCHANGED <<corpus, clash, job, live, lock, stop, report, capture, process>>

(* process_circular commits the body; the row may make others ambiguous.   *)
Store(r, i) ==
  /\ item[r][i] = "claimed"
  /\ corpus' = corpus \union {i}
  /\ \E c \in SUBSET Clashing : clash' = clash \union c
  /\ Move(r, i, "stored")
  /\ UNCHANGED <<gap, attempt, job, live, lock, stop, report, capture, process>>

(* The gap an attempt leaves: presence, not the exception, decides.        *)
(* Faulty variants: a failure keeps its claim; every attempt resolves.     *)
RecordedClaimed(g, i) == [g EXCEPT !.status = IF Present(i) THEN "resolved" ELSE "failed",
                                   !.active = IF Present(i) THEN None ELSE g.active]
RecordedResolved(g, i) == [g EXCEPT !.status = "resolved", !.active = None]
Recorded(g, i) == [g EXCEPT !.status = IF Present(i) THEN "resolved" ELSE "failed",
                            !.active = None,
                            !.failures = IF Present(i) THEN g.failures ELSE g.failures + 1]

(* process_gap's last session.                                             *)
FinishGap(b, i) ==
  /\ item[b][i] \in Working
  /\ gap' = [gap EXCEPT ![i] = Recorded(gap[i], i)]
  /\ attempt' = [attempt EXCEPT ![b][i] = IF Present(i) THEN "resolved" ELSE "failed"]
  /\ \/ Move(b, i, "bad")
     \/ item[b][i] = "stored" /\ Move(b, i, "ok")
  /\ UNCHANGED <<corpus, clash, job, live, lock, stop, report, capture, process>>

-----------------------------------------------------------------------------
(* Ordinary sync.                                                          *)

StartSync(s) ==
  /\ Dispatch(s)
  /\ item' = [item EXCEPT ![s] = All("waiting")]
  /\ UNCHANGED <<corpus, clash, gap, attempt, stop, report, capture, process>>

(* The listing is crawled and reduced to the circulars to process: those   *)
(* the corpus lacks, or any when the run forces a fetch.                   *)
Discover(s) ==
  /\ s \in live /\ job[s] = "queued"
  /\ job' = [job EXCEPT ![s] = "running"]
  /\ \E pending \in SUBSET Ids :
       item' = [item EXCEPT ![s] = [i \in Ids |-> IF i \in pending THEN "submitted" ELSE "none"]]
  /\ UNCHANGED <<corpus, clash, gap, attempt, live, lock, stop, report, capture, process>>

OrdinaryStart(s, i) ==
  /\ item[s][i] = "submitted"
  /\ Cardinality({k \in Ids : item[s][k] \in Working}) < SyncWorkers
  /\ Move(s, i, "claimed")
  /\ IF gap[i].status # "absent" /\ gap[i].active = None
     THEN /\ gap' = [gap EXCEPT ![i] = [gap[i] EXCEPT !.active = s, !.attempts = gap[i].attempts + 1]]
          /\ attempt' = [attempt EXCEPT ![s][i] = "running"]
     ELSE /\ attempt' = [attempt EXCEPT ![s][i] = "loose"]
          /\ UNCHANGED gap
  /\ UNCHANGED <<corpus, clash, job, live, lock, stop, report, capture, process>>

(* The row an ordinary run leaves: a new one for a circular it could not   *)
(* fetch; a skip survives a failure; the claim goes, whoever holds it.     *)
(* Faulty variants: a failure overwrites the skip; it keeps the claim.     *)
AfterOrdinaryUnskipped(g, i) ==
  CASE g.status = "absent" -> g
    [] g.status # "absent" /\ Present(i) -> [g EXCEPT !.status = "resolved", !.active = None]
    [] OTHER -> [g EXCEPT !.status = "failed", !.failures = g.failures + 1, !.active = None]
AfterOrdinaryClaimed(g, i) ==
  CASE g.status = "absent" -> g
    [] g.status # "absent" /\ Present(i) -> [g EXCEPT !.status = "resolved", !.active = None]
    [] OTHER -> [g EXCEPT !.status = "failed", !.failures = g.failures + 1]
AfterOrdinary(g, i) ==
  CASE g.status = "absent" /\ Finding(i) # "missing" -> g
    [] g.status = "absent" /\ Finding(i) = "missing" ->
         [status |-> "failed", eligible |-> TRUE, active |-> None,
          attempts |-> 1, failures |-> 1]
    [] g.status # "absent" /\ Present(i) ->
         [g EXCEPT !.status = "resolved", !.active = None]
    [] OTHER -> [g EXCEPT !.status = IF g.status = "skipped" THEN g.status ELSE "failed",
                          !.failures = g.failures + 1, !.active = None]

OrdinaryFinish(s, i) ==
  /\ item[s][i] \in Working
  /\ gap' = [gap EXCEPT ![i] = AfterOrdinary(gap[i], i)]
  /\ attempt' = [attempt EXCEPT ![s][i] = IF Present(i) THEN "resolved" ELSE "failed"]
  /\ Move(s, i, "done")
  /\ UNCHANGED <<corpus, clash, job, live, lock, stop, report, capture, process>>

Processed(s) == job[s] = "running" /\ \A i \in Ids : item[s][i] \in {"none", "done", "raised"}

(* Discovery fails, or something after the last of the pool does: the      *)
(* analyses it goes on to, or the transaction that was to close the row.   *)
SyncFails(s) ==
  /\ s \in live /\ (job[s] = "queued" \/ Processed(s))
  /\ EndJob(s, "failed")
  /\ UNCHANGED <<corpus, clash, gap, attempt, item, stop, report, capture, process>>

EndOrdinary(s) ==
  /\ s \in live /\ Processed(s)
  /\ EndJob(s, "success")
  /\ UNCHANGED <<corpus, clash, gap, attempt, item, stop, report, capture, process>>

-----------------------------------------------------------------------------
(* Audit.                                                                  *)

StartAudit(a) ==
  /\ Dispatch(a)
  /\ UNCHANGED <<corpus, clash, gap, attempt, item, stop, report, capture, process>>

(* The listing is captured, then reconciled with the local rows in a       *)
(* session of its own.  A partial or failed capture still lists circulars. *)
Reconcile(a) ==
  /\ a \in live /\ job[a] = "queued"
  /\ job' = [job EXCEPT ![a] = "running"]
  /\ \E listing \in SUBSET Ids :
       report' = [i \in Ids |-> IF i \in listing THEN Finding(i) ELSE "unlisted"]
  /\ capture' \in {"success", "partial", "failed"}
  /\ UNCHANGED <<corpus, clash, gap, attempt, live, lock, item, stop, process>>

AuditFails(a) ==
  /\ a \in live
  /\ EndJob(a, "failed")
  /\ report' = All("unlisted") /\ capture' = "none"
  /\ UNCHANGED <<corpus, clash, gap, attempt, item, stop, process>>

(* Any capture opens the gaps it saw missing.                              *)
(* Faulty variant: a missing circular is pending again, skipped or not.    *)
OpenedAnyhow(i) ==
  IF report[i] = "missing" /\ gap[i].active = None
  THEN [gap[i] EXCEPT !.eligible = TRUE, !.status = "pending"] ELSE gap[i]
Opened(i) ==
  LET opens == report[i] = "missing" /\ gap[i].active = None
  IN CASE ~opens -> gap[i]
       [] opens /\ gap[i].status = "absent" -> [NoGap EXCEPT !.status = "pending", !.eligible = TRUE]
       [] opens /\ gap[i].status = "resolved" -> [gap[i] EXCEPT !.status = "pending", !.eligible = TRUE]
       [] OTHER -> [gap[i] EXCEPT !.eligible = TRUE]

(* A complete one also settles every unclaimed gap: by the listing, and,   *)
(* where it says resolved, by the row that resolves it.                    *)
(* Faulty variant: a resolved circular the listing has not is reopened.    *)
SettledListed(g, i) ==
  [g EXCEPT !.eligible = report[i] = "missing",
            !.status = CASE report[i] = "matched" -> "resolved"
                         [] report[i] # "matched" /\ g.status = "resolved" -> "failed"
                         [] OTHER -> g.status]
Settled(g, i) ==
  LET resolved == report[i] = "matched" \/ g.status = "resolved"
  IN [g EXCEPT !.eligible = report[i] = "missing",
               !.status = CASE resolved /\ i \in corpus -> "resolved"
                            [] resolved /\ i \notin corpus /\ report[i] = "missing" -> "pending"
                            [] resolved /\ i \notin corpus /\ report[i] # "missing" -> "failed"
                            [] OTHER -> g.status]

Published(i) ==
  IF capture = "success" /\ Opened(i).status # "absent" /\ Opened(i).active = None
  THEN Settled(Opened(i), i)
  ELSE Opened(i)

(* Faulty variant: an audit that has not captured the listing.             *)
StartedAudit(a)  == a \in live
CapturedAudit(a) == a \in live /\ job[a] = "running"

PublishAudit(a) ==
  /\ CapturedAudit(a)
  /\ gap' = [i \in Ids |-> Published(i)]
  /\ EndJob(a, capture)
  /\ report' = All("unlisted") /\ capture' = "none"
  /\ UNCHANGED <<corpus, clash, attempt, item, stop, process>>

-----------------------------------------------------------------------------
(* Transactions that fail (a locked or full database).                     *)

(* One of a worker's: the claim and the running attempt of an outcome that *)
(* is lost stay.  A backfill ends on it, a sync counts an error.           *)
WorkerRaises(r, i) ==
  /\ item[r][i] \in InPool
  /\ Happens("storage")
  /\ Move(r, i, "raised")
  /\ stop' = [b \in Backfills |-> IF b = r THEN "fatal" ELSE stop[b]]
  /\ UNCHANGED <<durable, live, lock, report, capture, server, paused>>

(* The last one of a job: its thread ends and the lock is released, but    *)
(* the row still says that it runs.                                        *)
EndingLost(j) ==
  /\ j \in live
  /\ CASE j \in Backfills -> BatchDone(j) /\ (Exhausted(j) \/ Stopped(j))
       [] j \in Syncs     -> job[j] = "queued" \/ Processed(j)
       [] OTHER           -> TRUE
  /\ Happens("storage")
  /\ live' = live \ {j} /\ lock' = None
  /\ report' = All("unlisted") /\ capture' = "none"
  /\ UNCHANGED <<durable, item, stop, server, paused>>

-----------------------------------------------------------------------------
(* The operator's transitions of one gap, each under the job lock.         *)

(* Faulty variant: a skip of whatever row is not resolved.                 *)
SkippableAnyhow(i) == gap[i].status \in {"pending", "failed", "running"}
Skippable(i)       == /\ LockFree
                      /\ gap[i].active = None
                      /\ gap[i].status \in {"pending", "failed"}

Skip(i) ==
  /\ Serving /\ Skippable(i)
  /\ gap' = [gap EXCEPT ![i].status = "skipped"]
  /\ UNCHANGED <<corpus, clash, attempt, job, volatile, process>>

Requeue(i) ==
  /\ Serving /\ LockFree
  /\ gap[i].active = None /\ gap[i].status \in {"failed", "skipped"}
  /\ gap' = [gap EXCEPT ![i].status = "pending", ![i].failures = 0]
  /\ UNCHANGED <<corpus, clash, attempt, job, volatile, process>>

-----------------------------------------------------------------------------
(* Maintenance, crashes and boot.                                          *)

(* The identity console closes the gate (and state.json remembers it), and *)
(* opens it when the operator leaves or completes the operation.  Threads  *)
(* of circular jobs go on.                                                 *)
EnterMaintenance ==
  /\ server # "down" /\ ~paused
  /\ Happens("maintenance")
  /\ paused' = TRUE
  /\ UNCHANGED <<durable, volatile, server>>

LeaveMaintenance ==
  /\ server # "down" /\ paused
  /\ paused' = FALSE
  /\ UNCHANGED <<durable, volatile, server, count>>

(* The gap of a legacy circular's removal: an audit is to judge it again.  *)
(* Faulty variant: the removal leaves the queue alone.                     *)
ReopenedNever(g) == g
Reopened(g) == IF g.status = "resolved"
               THEN [g EXCEPT !.status = "pending", !.eligible = FALSE] ELSE g

RemoveLegacy(i) ==
  /\ server # "down" /\ paused /\ LockFree
  /\ i \in corpus
  /\ corpus' = corpus \ {i}
  /\ gap' = [gap EXCEPT ![i] = Reopened(gap[i])]
  /\ UNCHANGED <<clash, attempt, job, volatile, process>>

Crash ==
  /\ server # "down" /\ Happens("crash")
  /\ server' = "down"
  /\ live' = {} /\ lock' = None
  /\ item' = [r \in Runs |-> All("none")]
  /\ stop' = [b \in Backfills |-> "no"]
  /\ report' = All("unlisted") /\ capture' = "none"
  /\ UNCHANGED <<durable, paused>>

(* recover_jobs on one gap: every unfinished attempt linked to it settles  *)
(* it by presence; a loose one of a missing circular adopts or creates it. *)
Orphans(i)   == {s \in Syncs : attempt[s][i] = "loose"}
Unsettled(i) == {r \in Runs : attempt[r][i] = "running"}
                  \union (IF Finding(i) = "missing" THEN Orphans(i) ELSE {})

(* Faulty variants: presence is not looked at; the claim stays; only the   *)
(* claim goes.                                                             *)
InterruptedBlind(i) ==
  IF \E r \in Runs : attempt[r][i] = "running"
  THEN [gap[i] EXCEPT !.status = "failed", !.active = None] ELSE gap[i]
InterruptedClaimed(i) ==
  IF \E r \in Runs : attempt[r][i] = "running"
  THEN [gap[i] EXCEPT !.status = IF Present(i) THEN "resolved" ELSE "failed"] ELSE gap[i]
InterruptedUnclaimed(i) ==
  IF \E r \in Runs : attempt[r][i] = "running"
  THEN [gap[i] EXCEPT !.active = None] ELSE gap[i]
Interrupted(i) ==
  CASE Unsettled(i) = {} -> gap[i]
    [] Unsettled(i) # {} /\ Present(i) -> [gap[i] EXCEPT !.status = "resolved", !.active = None]
    [] Unsettled(i) # {} /\ ~Present(i) /\ gap[i].status = "absent" ->
         [status |-> "failed", eligible |-> TRUE, active |-> None,
          attempts |-> 1, failures |-> Cardinality(Unsettled(i))]
    [] OTHER -> [gap[i] EXCEPT !.status = "failed", !.active = None,
                               !.failures = gap[i].failures + Cardinality(Unsettled(i))]

(* Two orphans of one missing circular without a gap each insert its row   *)
(* (the session does not autoflush): the recovery, and the boot, fail.     *)
Recoverable == \A i \in Ids : gap[i].status = "absent" /\ Finding(i) = "missing"
                                => Cardinality(Orphans(i)) <= 1

(* Faulty variant: the ordinary syncs are left out, as recover_jobs does.  *)
ClosedMirror(j) == IF job[j] \in {"queued", "running"} /\ j \notin Syncs THEN "failed" ELSE job[j]
Closed(j)       == IF job[j] \in {"queued", "running"} THEN "failed" ELSE job[j]

Recover ==
  /\ gap' = [i \in Ids |-> Interrupted(i)]
  /\ attempt' = [r \in Runs |-> [i \in Ids |->
       IF attempt[r][i] \in Unfinished THEN "interrupted" ELSE attempt[r][i]]]
  /\ job' = [j \in Jobs |-> Closed(j)]

(* A boot in maintenance serves only the console and recovers nothing.     *)
Boot ==
  /\ server = "down"
  /\ IF paused
     THEN server' = "unrecovered" /\ UNCHANGED <<gap, attempt, job>>
     ELSE server' = "recovered" /\ Recoverable /\ Recover
  /\ UNCHANGED <<corpus, clash, volatile, paused, count>>

-----------------------------------------------------------------------------
BackfillStep(b) ==
  \/ BeginBackfill(b) \/ NextBatch(b) \/ EndBackfill(b)
  \/ \E i \in Ids : Submit(b, i) \/ CheckGap(b, i) \/ ClaimGap(b, i) \/ FinishGap(b, i)

OrdinaryStep(s) ==
  \/ Discover(s) \/ EndOrdinary(s)
  \/ \E i \in Ids : OrdinaryStart(s, i) \/ OrdinaryFinish(s, i)

AuditStep(a) == Reconcile(a) \/ PublishAudit(a)

Operator ==
  \/ \E b \in Backfills : StartBackfill(b) \/ CancelBackfill(b)
  \/ \E s \in Syncs : StartSync(s)
  \/ \E a \in Audits : StartAudit(a)
  \/ \E i \in Ids : Skip(i) \/ Requeue(i) \/ RemoveLegacy(i)
  \/ EnterMaintenance \/ LeaveMaintenance

Fault ==
  \/ \E b \in Backfills : RunnerRaises(b)
  \/ \E s \in Syncs : SyncFails(s)
  \/ \E a \in Audits : AuditFails(a)
  \/ \E r \in Runs, i \in Ids : WorkerRaises(r, i)
  \/ \E j \in Jobs : EndingLost(j)
  \/ Crash

Next ==
  \/ \E b \in Backfills : BackfillStep(b)
  \/ \E s \in Syncs : OrdinaryStep(s)
  \/ \E a \in Audits : AuditStep(a)
  \/ \E r \in Runs, i \in Ids : Store(r, i)
  \/ Operator
  \/ Fault
  \/ Boot

Spec == Init /\ [][Next]_vars

(* Threads and worker pools are scheduled, and every wait of theirs has a  *)
(* timeout; a stopped service is restarted.  Requests need never come.     *)
Fairness ==
  /\ \A b \in Backfills : WF_vars(BackfillStep(b))
  /\ \A s \in Syncs : WF_vars(OrdinaryStep(s))
  /\ \A a \in Audits : WF_vars(AuditStep(a))
  /\ WF_vars(Boot)

FairSpec == Spec /\ Fairness

-----------------------------------------------------------------------------
(* Properties.                                                             *)

(* A circular is in the hands of one worker: of the job that holds the     *)
(* lock, which for a backfill owns the claim its compare-and-set won, and  *)
(* the attempt it committed with it, until it has recorded the outcome.    *)
WorkOwnsItsClaim ==
  \A r \in Runs, i \in Ids : item[r][i] \in Working =>
    /\ lock = r
    /\ attempt[r][i] \in Unfinished
    /\ r \in Backfills => gap[i].active = r /\ gap[i].status = "running"

(* active_attempt_id never points at an attempt that has ended, so that    *)
(* recover_jobs, which starts from the running attempts, reaches every     *)
(* claim: a claim it could not reach would hold its circular for ever.     *)
ClaimsAreReachable ==
  \A i \in Ids : gap[i].active # None => attempt[gap[i].active][i] = "running"

(* "running" is a status no listing, selection or operator action leaves   *)
(* by itself; only the owner of a claim or the recovery does.              *)
RunningIsClaimed ==
  \A i \in Ids : gap[i].status = "running" => gap[i].active # None

(* The queue never calls a circular resolved that the corpus has not,      *)
(* whichever of a worker, an audit, a recovery or a removal wrote last.    *)
ResolvedIsHeld ==
  \A i \in Ids : gap[i].status = "resolved" => i \in corpus

(* Once a boot has recovered, a claim belongs to a thread that works on    *)
(* the circular, unless a transaction of that thread failed.               *)
NoDeadClaims ==
  server = "recovered" => \A i \in Ids : gap[i].active # None =>
    item[gap[i].active][i] \in Working \union {"raised"}

(* Once a boot has recovered, a row that says queued or running has its    *)
(* thread, as the busy answers of the server and its history assume.       *)
RowsOfRecoveredServerRun ==
  server = "recovered" /\ count["storage"] = 0 =>
    \A j \in Jobs : job[j] \in {"queued", "running"} => j \in live

(* A backfill that ends as a success left nothing of its selection behind. *)
SuccessMeansExhausted ==
  \A b \in Backfills : job[b] = "success" =>
    \A i \in Ids : item[b][i] \in {"none", "done"} \union Results

(* A backfill claims only what its selection was for, as things stand when *)
(* it claims: eligible, missing, of its scope, with attempts left, however *)
(* long ago the selection was made and whatever the job did since.         *)
ClaimsAreDue ==
  [][\A b \in Backfills, i \in Ids :
       gap[i].active # b /\ gap'[i].active = b =>
         /\ i \in Request[b].scope /\ i \notin corpus
         /\ gap[i].eligible /\ gap[i].failures < Request[b].maxAttempts]_vars

(* While a job runs, a skipped gap stays skipped, or is found resolved.    *)
JobsRespectSkips ==
  [][\A i \in Ids : gap[i].status = "skipped" /\ lock # None =>
       gap'[i].status \in {"skipped", "resolved"}]_vars

(* A circular the corpus holds, and no other row confuses, is not offered  *)
(* to a backfill again: its gap stays resolved until the row is removed.   *)
HeldStaysResolved ==
  [][\A i \in Ids : gap[i].status = "resolved" /\ i \in corpus' /\ i \notin clash =>
       gap'[i].status = "resolved"]_vars

(* A job gives the lock back: whatever its workers, its storage and the    *)
(* operator do, its thread ends (or dies with the process).                *)
JobsGiveTheLockBack == \A j \in Jobs : (lock = j) ~> (lock # j)

(* A claim does not outlive its work: but for a transaction that failed    *)
(* and for a boot spent in maintenance, every claim is given up.           *)
ClaimsAreReleased ==
  \A i \in Ids : (gap[i].active # None) ~>
    (gap[i].active = None \/ count["storage"] > 0 \/ server = "unrecovered")

(* A server that may serve has no row that runs for ever.                  *)
NothingStaysRunning ==
  Serving => \A j \in Jobs : job[j] \in {"queued", "running"} => j \in live

(* An operator's skip is undone by the operator or by presence alone.      *)
SkipIsPreserved ==
  [][\A i \in Ids : gap[i].status = "skipped" => gap'[i].status # "failed"]_vars

(* A killed process comes back.                                            *)
RestartRecovers == (server = "down") ~> (server # "down")

=============================================================================
