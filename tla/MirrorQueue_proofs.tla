------------------------- MODULE MirrorQueue_proofs -------------------------
(***************************************************************************)
(* Safety of the mirror gap queue, for every set of circulars and jobs,    *)
(* every request, and any number of crashes, lost transactions and periods *)
(* of maintenance.                                                         *)
(***************************************************************************)
EXTENDS MirrorQueue, FiniteSetTheorems, TLAPS

-----------------------------------------------------------------------------
(* What the operators on one gap row return.                               *)

LEMMA ReleasedGap ==
  ASSUME NEW g \in Gap, NEW s \in Statuses, NEW n \in Nat
  PROVE  [g EXCEPT !.status = s, !.active = None, !.failures = n] \in Gap
BY DEF Gap

(* Failures are counted by natural numbers.                                *)
LEMMA FailuresAreNat ==
  ASSUME NEW g \in Gap
  PROVE  g.failures \in Nat /\ g.failures + 1 \in Nat /\ g.attempts \in Nat /\ g.attempts + 1 \in Nat
BY DEF Gap

(* The recovery leaves a gap row, whatever attempts it found unfinished.   *)
LEMMA InterruptedGap ==
  ASSUME TypeOK, NEW i \in Ids
  PROVE  Interrupted(i) \in Gap
<1>1. Unsettled(i) \subseteq Runs
  BY DEF Unsettled, Orphans, Runs
<1>2. Cardinality(Unsettled(i)) \in Nat
  BY <1>1, JobAssumption, FS_Subset, FS_CardinalityType
<1>3. gap[i] \in Gap
  BY DEF TypeOK
<1>4. [gap[i] EXCEPT !.status = "resolved", !.active = None] \in Gap
  BY <1>3 DEF Gap, Statuses
<1>5. [gap[i] EXCEPT !.status = "failed", !.active = None,
                     !.failures = gap[i].failures + Cardinality(Unsettled(i))] \in Gap
  <2> DEFINE n == gap[i].failures + Cardinality(Unsettled(i))
  <2>1. n \in Nat
    BY <1>2, <1>3, FailuresAreNat
  <2> HIDE DEF n
  <2>2. [gap[i] EXCEPT !.status = "failed", !.active = None, !.failures = n] \in Gap
    BY <1>3, <2>1, ReleasedGap DEF Statuses
  <2>3. QED
    BY <2>2 DEF n
<1>6. [status |-> "failed", eligible |-> TRUE, active |-> None,
       attempts |-> 1, failures |-> Cardinality(Unsettled(i))] \in Gap
  BY <1>2 DEF Gap, Statuses
<1>7. QED
  BY <1>3, <1>4, <1>5, <1>6 DEF Interrupted

(* Publishing an audit leaves a gap row.                                   *)
LEMMA PublishedGap ==
  ASSUME TypeOK, NEW i \in Ids
  PROVE  Published(i) \in Gap
<1>1. NoGap \in Gap /\ gap[i] \in Gap
  BY DEF NoGap, Gap, Statuses, TypeOK
<1>2. Opened(i) \in Gap
  BY <1>1 DEF Opened, Gap, Statuses
<1>3. ASSUME NEW g \in Gap PROVE Settled(g, i) \in Gap
  BY DEF Settled, Gap, Statuses
<1>4. QED
  BY <1>2, <1>3 DEF Published

(* An ordinary run's outcome leaves a gap row.                             *)
LEMMA AfterOrdinaryGap ==
  ASSUME NEW g \in Gap, NEW i \in Ids
  PROVE  AfterOrdinary(g, i) \in Gap
<1>1. [g EXCEPT !.status = "resolved", !.active = None] \in Gap
  BY DEF Gap, Statuses
<1>2. [status |-> "failed", eligible |-> TRUE, active |-> None,
       attempts |-> 1, failures |-> 1] \in Gap
  BY DEF Gap, Statuses
<1> DEFINE s == IF g.status = "skipped" THEN g.status ELSE "failed"
           n == g.failures + 1
<1>3. s \in Statuses /\ n \in Nat
  BY FailuresAreNat DEF Statuses
<1> HIDE DEF s, n
<1>4. [g EXCEPT !.status = s, !.failures = n, !.active = None] \in Gap
  BY <1>3 DEF Gap
<1>5. QED
  BY <1>1, <1>2, <1>4 DEF AfterOrdinary, s, n

(* The same of an attempt of a backfill, and of its claim.                 *)
LEMMA RecordedGap ==
  ASSUME NEW g \in Gap, NEW i \in Ids
  PROVE  Recorded(g, i) \in Gap
<1> DEFINE s == IF Present(i) THEN "resolved" ELSE "failed"
           n == IF Present(i) THEN g.failures ELSE g.failures + 1
<1>1. s \in Statuses /\ n \in Nat
  BY FailuresAreNat DEF Statuses
<1> HIDE DEF s, n
<1>2. [g EXCEPT !.status = s, !.active = None, !.failures = n] \in Gap
  BY <1>1, ReleasedGap
<1>3. QED
  BY <1>2 DEF Recorded, s, n

(* A claim leaves a gap row.                                               *)
LEMMA ClaimedGap ==
  ASSUME NEW g \in Gap, NEW b \in Runs
  PROVE  /\ Claimed(g, b) \in Gap
         /\ [g EXCEPT !.active = b, !.attempts = g.attempts + 1] \in Gap
<1> DEFINE n == g.attempts + 1
<1>1. n \in Nat
  BY FailuresAreNat
<1> HIDE DEF n
<1>2. [g EXCEPT !.status = "running", !.active = b, !.attempts = n] \in Gap
  BY <1>1 DEF Gap, Statuses
<1>3. [g EXCEPT !.active = b, !.attempts = n] \in Gap
  BY <1>1 DEF Gap, Statuses
<1>4. QED
  BY <1>2, <1>3 DEF Claimed, n

-----------------------------------------------------------------------------
(* Type correctness.  An audit's row takes the status of its capture, which *)
(* has a value only because no other job can run and reset it: the types    *)
(* rest on the lock.                                                        *)

OneJob == live = IF lock = None THEN {} ELSE {lock}

AuditHasCapture ==
  \A a \in Audits : lock = a /\ job[a] = "running" => capture # "none"

Typed == TypeOK /\ OneJob /\ AuditHasCapture

(* A fresh installation is well typed.                                     *)
LEMMA TypeInit == Init => Typed
<1>1. NoGap \in Gap
  BY DEF NoGap, Gap, Statuses
<1>2. Init => TypeOK
  <2>1. SUFFICES ASSUME Init PROVE TypeOK
    OBVIOUS
  <2>2. gap \in [Ids -> Gap] /\ attempt \in [Runs -> [Ids -> Outcomes]]
    BY <1>1, <2>1 DEF Init, Outcomes
  <2>3. item \in [Runs -> [Ids -> Phases]] /\ report \in [Ids -> Buckets]
    BY <2>1 DEF Init, All, Phases, Buckets
  <2>4. job \in [Jobs -> JobStatuses] /\ count \in [Disturbances -> Nat]
    BY <2>1 DEF Init, JobStatuses
  <2>5. QED
    BY <2>1, <2>2, <2>3, <2>4 DEF Init, TypeOK
<1>3. QED
  BY <1>2, JobAssumption DEF Init, Typed, OneJob, AuditHasCapture, Jobs

(* The steps of a backfill keep the types.                                 *)
LEMMA TypeBackfill ==
  ASSUME TypeOK, NEW b \in Backfills,
         BackfillStep(b) \/ StartBackfill(b) \/ CancelBackfill(b) \/ RunnerRaises(b)
  PROVE  TypeOK'
<1> USE DEF durable, volatile, process
<1>0. b \in Runs /\ b \in Jobs
  BY DEF Runs, Jobs
<1>g. gap \in [Ids -> Gap]
  BY DEF TypeOK
<1>a. attempt \in [Runs -> [Ids -> Outcomes]]
  BY DEF TypeOK
<1>j. /\ job \in [Jobs -> JobStatuses]
      /\ live \subseteq Jobs
      /\ lock \in Jobs \union {None}
      /\ stop \in [Backfills -> {"no", "cancelled", "fatal"}]
  BY DEF TypeOK
<1>i. item \in [Runs -> [Ids -> Phases]]
  BY DEF TypeOK
<1>m. ASSUME NEW i \in Ids, NEW ph \in Phases, Move(b, i, ph)
      PROVE  item' \in [Runs -> [Ids -> Phases]]
  BY <1>0, <1>i, <1>m DEF Move
<1>1. CASE StartBackfill(b)
  <2>1. item' \in [Runs -> [Ids -> Phases]]
    BY <1>0, <1>1, <1>i DEF StartBackfill, Phases
  <2>2. /\ job' \in [Jobs -> JobStatuses]
        /\ live' \subseteq Jobs
        /\ lock' \in Jobs \union {None}
    BY <1>0, <1>1, <1>j DEF StartBackfill, Dispatch, JobStatuses
  <2>3. QED
    BY <1>1, <2>1, <2>2 DEF StartBackfill, TypeOK
<1>2. CASE BeginBackfill(b)
  BY <1>0, <1>2, <1>j DEF BeginBackfill, JobStatuses, TypeOK
<1>3. CASE NextBatch(b)
  <2>1. item' \in [Runs -> [Ids -> Phases]]
    BY <1>0, <1>3, <1>i DEF NextBatch, Phases
  <2>2. QED
    BY <1>3, <2>1 DEF NextBatch, TypeOK
<1>4. CASE EndBackfill(b)
  BY <1>0, <1>4, <1>j DEF EndBackfill, EndJob, JobStatuses, TypeOK
<1>5. CASE CancelBackfill(b)
  BY <1>5, <1>j DEF CancelBackfill, TypeOK
<1>6. CASE RunnerRaises(b)
  BY <1>6, <1>j DEF RunnerRaises, TypeOK
<1>7. ASSUME NEW i \in Ids, Submit(b, i)
      PROVE  TypeOK'
  <2>1. item' \in [Runs -> [Ids -> Phases]]
    BY <1>7, <1>m DEF Submit, Phases, InPool
  <2>2. QED
    BY <1>7, <2>1 DEF Submit, TypeOK
<1>8. ASSUME NEW i \in Ids, CheckGap(b, i)
      PROVE  TypeOK'
  <2>1. /\ [gap EXCEPT ![i].eligible = FALSE] \in [Ids -> Gap]
        /\ [gap EXCEPT ![i].status = "resolved"] \in [Ids -> Gap]
    BY <1>g DEF Gap, Statuses
  <2>2. [attempt EXCEPT ![b][i] = "already_present"] \in [Runs -> [Ids -> Outcomes]]
    BY <1>0, <1>a DEF Outcomes
  <2>3. item' \in [Runs -> [Ids -> Phases]]
    BY <1>8, <1>m DEF CheckGap, Phases, InPool, Results
  <2>4. gap' \in [Ids -> Gap] /\ attempt' \in [Runs -> [Ids -> Outcomes]]
    BY <1>8, <1>a, <1>g, <2>1, <2>2 DEF CheckGap
  <2>5. QED
    BY <1>8, <2>3, <2>4 DEF CheckGap, TypeOK
<1>9. ASSUME NEW i \in Ids, ClaimGap(b, i)
      PROVE  TypeOK'
  <2>1. [gap EXCEPT ![i] = Claimed(gap[i], b)] \in [Ids -> Gap]
    BY <1>0, <1>g, ClaimedGap
  <2>2. [attempt EXCEPT ![b][i] = "running"] \in [Runs -> [Ids -> Outcomes]]
    BY <1>0, <1>a DEF Outcomes
  <2>3. item' \in [Runs -> [Ids -> Phases]]
    BY <1>9, <1>m DEF ClaimGap, Phases, InPool, Working, Results
  <2>4. gap' \in [Ids -> Gap] /\ attempt' \in [Runs -> [Ids -> Outcomes]]
    BY <1>9, <1>a, <1>g, <2>1, <2>2 DEF ClaimGap
  <2>5. QED
    BY <1>9, <2>3, <2>4 DEF ClaimGap, TypeOK
<1>10. ASSUME NEW i \in Ids, FinishGap(b, i)
       PROVE  TypeOK'
  <2>1. gap' \in [Ids -> Gap]
    BY <1>10, <1>g, RecordedGap DEF FinishGap
  <2>2. attempt' \in [Runs -> [Ids -> Outcomes]]
    BY <1>0, <1>10, <1>a DEF FinishGap, Outcomes
  <2>3. item' \in [Runs -> [Ids -> Phases]]
    BY <1>10, <1>m DEF FinishGap, Phases, Results
  <2>4. QED
    BY <1>10, <2>1, <2>2, <2>3 DEF FinishGap, TypeOK
<1>11. QED
  BY <1>1, <1>2, <1>3, <1>4, <1>5, <1>6, <1>7, <1>8, <1>9, <1>10 DEF BackfillStep

(* So do the steps of an ordinary sync.                                    *)
LEMMA TypeOrdinary ==
  ASSUME TypeOK, NEW s \in Syncs, OrdinaryStep(s) \/ StartSync(s) \/ SyncFails(s)
  PROVE  TypeOK'
<1> USE DEF durable, volatile, process
<1>0. s \in Runs /\ s \in Jobs
  BY DEF Runs, Jobs
<1>g. gap \in [Ids -> Gap]
  BY DEF TypeOK
<1>a. attempt \in [Runs -> [Ids -> Outcomes]]
  BY DEF TypeOK
<1>j. /\ job \in [Jobs -> JobStatuses]
      /\ live \subseteq Jobs
      /\ lock \in Jobs \union {None}
  BY DEF TypeOK
<1>i. item \in [Runs -> [Ids -> Phases]]
  BY DEF TypeOK
<1>m. ASSUME NEW i \in Ids, NEW ph \in Phases, Move(s, i, ph)
      PROVE  item' \in [Runs -> [Ids -> Phases]]
  BY <1>0, <1>i, <1>m DEF Move
<1>1. CASE StartSync(s)
  <2>1. item' \in [Runs -> [Ids -> Phases]]
    BY <1>0, <1>1, <1>i DEF StartSync, Phases, All
  <2>2. /\ job' \in [Jobs -> JobStatuses]
        /\ live' \subseteq Jobs
        /\ lock' \in Jobs \union {None}
    BY <1>0, <1>1, <1>j DEF StartSync, Dispatch, JobStatuses
  <2>3. QED
    BY <1>1, <2>1, <2>2 DEF StartSync, TypeOK
<1>2. CASE Discover(s)
  <2>1. item' \in [Runs -> [Ids -> Phases]]
    BY <1>0, <1>2, <1>i DEF Discover, Phases, InPool
  <2>2. job' \in [Jobs -> JobStatuses]
    BY <1>0, <1>2, <1>j DEF Discover, JobStatuses
  <2>3. QED
    BY <1>2, <2>1, <2>2 DEF Discover, TypeOK
<1>3. CASE SyncFails(s)
  BY <1>0, <1>3, <1>j DEF SyncFails, EndJob, JobStatuses, TypeOK
<1>4. CASE EndOrdinary(s)
  BY <1>0, <1>4, <1>j DEF EndOrdinary, EndJob, JobStatuses, TypeOK
<1>5. ASSUME NEW i \in Ids, OrdinaryStart(s, i)
      PROVE  TypeOK'
  <2>1. [gap EXCEPT ![i] = [gap[i] EXCEPT !.active = s, !.attempts = gap[i].attempts + 1]]
           \in [Ids -> Gap]
    BY <1>0, <1>g, ClaimedGap
  <2>2. gap' \in [Ids -> Gap]
    BY <1>5, <1>g, <2>1 DEF OrdinaryStart
  <2>3. attempt' \in [Runs -> [Ids -> Outcomes]]
    BY <1>0, <1>5, <1>a DEF OrdinaryStart, Outcomes
  <2>4. item' \in [Runs -> [Ids -> Phases]]
    BY <1>5, <1>m DEF OrdinaryStart, Phases, InPool, Working
  <2>5. QED
    BY <1>5, <2>2, <2>3, <2>4 DEF OrdinaryStart, TypeOK
<1>6. ASSUME NEW i \in Ids, OrdinaryFinish(s, i)
      PROVE  TypeOK'
  <2>1. gap' \in [Ids -> Gap]
    BY <1>6, <1>g, AfterOrdinaryGap DEF OrdinaryFinish
  <2>2. attempt' \in [Runs -> [Ids -> Outcomes]]
    BY <1>0, <1>6, <1>a DEF OrdinaryFinish, Outcomes
  <2>3. item' \in [Runs -> [Ids -> Phases]]
    BY <1>6, <1>m DEF OrdinaryFinish, Phases
  <2>4. QED
    BY <1>6, <2>1, <2>2, <2>3 DEF OrdinaryFinish, TypeOK
<1>7. QED
  BY <1>1, <1>2, <1>3, <1>4, <1>5, <1>6 DEF OrdinaryStep

(* So do the steps of an audit.                                            *)
LEMMA TypeAudit ==
  ASSUME Typed, NEW a \in Audits, AuditStep(a) \/ StartAudit(a) \/ AuditFails(a)
  PROVE  TypeOK'
<1> USE DEF durable, volatile, process
<1>0. a \in Jobs /\ a # None
  BY JobAssumption DEF Jobs
<1>t. TypeOK
  BY DEF Typed
<1>g. gap \in [Ids -> Gap] /\ report \in [Ids -> Buckets]
  BY <1>t DEF TypeOK
<1>j. /\ job \in [Jobs -> JobStatuses]
      /\ live \subseteq Jobs
      /\ lock \in Jobs \union {None}
      /\ capture \in {"none", "success", "partial", "failed"}
  BY <1>t DEF TypeOK
<1>1. CASE StartAudit(a)
  <2>1. /\ job' \in [Jobs -> JobStatuses]
        /\ live' \subseteq Jobs
        /\ lock' \in Jobs \union {None}
    BY <1>0, <1>1, <1>j DEF StartAudit, Dispatch, JobStatuses
  <2>2. QED
    BY <1>1, <1>t, <2>1 DEF StartAudit, TypeOK
<1>2. CASE Reconcile(a)
  <2>1. report' \in [Ids -> Buckets]
    BY <1>2 DEF Reconcile, Finding, Buckets
  <2>2. job' \in [Jobs -> JobStatuses]
    BY <1>0, <1>2, <1>j DEF Reconcile, JobStatuses
  <2>3. QED
    BY <1>2, <1>t, <2>1, <2>2 DEF Reconcile, TypeOK
<1>3. CASE AuditFails(a)
  <2>1. report' \in [Ids -> Buckets]
    BY <1>3 DEF AuditFails, All, Buckets
  <2>2. QED
    BY <1>0, <1>3, <1>j, <1>t, <2>1 DEF AuditFails, EndJob, JobStatuses, TypeOK
<1>4. CASE PublishAudit(a)
  <2>1. gap' \in [Ids -> Gap]
    BY <1>4, <1>t, PublishedGap DEF PublishAudit
  <2>2. lock = a /\ job[a] = "running"
    BY <1>0, <1>4 DEF PublishAudit, CapturedAudit, Typed, OneJob
  <2>3. capture \in JobStatuses
    BY <1>j, <2>2 DEF Typed, AuditHasCapture, JobStatuses
  <2>4. /\ job' \in [Jobs -> JobStatuses]
        /\ live' \subseteq Jobs
        /\ lock' \in Jobs \union {None}
    BY <1>0, <1>4, <1>j, <2>3 DEF PublishAudit, EndJob
  <2>5. report' \in [Ids -> Buckets]
    BY <1>4 DEF PublishAudit, All, Buckets
  <2>6. QED
    BY <1>4, <1>t, <2>1, <2>4, <2>5 DEF PublishAudit, TypeOK
<1>5. QED
  BY <1>1, <1>2, <1>3, <1>4 DEF AuditStep

(* So do the steps of pool workers.                                        *)
LEMMA TypeWorkers ==
  ASSUME TypeOK, NEW r \in Runs, NEW i \in Ids, Store(r, i) \/ WorkerRaises(r, i)
  PROVE  TypeOK'
<1> USE DEF durable, volatile
<1>i. item \in [Runs -> [Ids -> Phases]]
  BY DEF TypeOK
<1>1. CASE Store(r, i)
  <2>1. item' \in [Runs -> [Ids -> Phases]]
    BY <1>1, <1>i DEF Store, Move, Phases, InPool, Working
  <2>2. QED
    BY <1>1, <2>1, RequestAssumption DEF Store, TypeOK, process
<1>2. CASE WorkerRaises(r, i)
  <2>1. item' \in [Runs -> [Ids -> Phases]]
    BY <1>2, <1>i DEF WorkerRaises, Move, Phases
  <2>2. count' \in [Disturbances -> Nat]
    BY <1>2 DEF WorkerRaises, Happens, Disturbances, TypeOK
  <2>3. stop' \in [Backfills -> {"no", "cancelled", "fatal"}]
    BY <1>2 DEF WorkerRaises, TypeOK
  <2>4. QED
    BY <1>2, <2>1, <2>2, <2>3 DEF WorkerRaises, TypeOK
<1>3. QED
  BY <1>1, <1>2

(* So do the requests of operators.                                        *)
LEMMA TypeOperator ==
  ASSUME TypeOK, NEW i \in Ids, Skip(i) \/ Requeue(i) \/ RemoveLegacy(i)
  PROVE  TypeOK'
<1> USE DEF durable, volatile, process
<1>g. gap \in [Ids -> Gap]
  BY DEF TypeOK
<1>1. CASE Skip(i)
  <2>1. gap' \in [Ids -> Gap]
    BY <1>1, <1>g DEF Skip, Gap, Statuses
  <2>2. QED
    BY <1>1, <2>1 DEF Skip, TypeOK
<1>2. CASE Requeue(i)
  <2>1. [gap[i] EXCEPT !.status = "pending", !.failures = 0] \in Gap
    BY <1>g DEF Gap, Statuses
  <2>2. gap' \in [Ids -> Gap]
    BY <1>2, <1>g, <2>1 DEF Requeue
  <2>3. QED
    BY <1>2, <2>2 DEF Requeue, TypeOK
<1>3. CASE RemoveLegacy(i)
  <2>1. Reopened(gap[i]) \in Gap
    BY <1>g DEF Reopened, Gap, Statuses
  <2>2. gap' \in [Ids -> Gap]
    BY <1>3, <1>g, <2>1 DEF RemoveLegacy
  <2>3. QED
    BY <1>3, <2>2 DEF RemoveLegacy, TypeOK
<1>4. QED
  BY <1>1, <1>2, <1>3

(* So do crashes, boots and maintenance.                                   *)
LEMMA TypeProcess ==
  ASSUME TypeOK,
         \/ \E j \in Jobs : EndingLost(j)
         \/ EnterMaintenance \/ LeaveMaintenance \/ Crash \/ Boot
  PROVE  TypeOK'
<1> USE DEF durable, volatile
<1>1. ASSUME NEW k \in Disturbances, Happens(k)
      PROVE  count' \in [Disturbances -> Nat]
  BY <1>1 DEF Happens, TypeOK
<1>2. All("unlisted") \in [Ids -> Buckets] /\ All("none") \in [Ids -> Phases]
  BY DEF All, Buckets, Phases
<1>3. ASSUME NEW j \in Jobs, EndingLost(j)
      PROVE  TypeOK'
  BY <1>1, <1>2, <1>3 DEF EndingLost, Disturbances, TypeOK
<1>4. CASE EnterMaintenance
  BY <1>1, <1>4 DEF EnterMaintenance, Disturbances, TypeOK
<1>5. CASE LeaveMaintenance
  BY <1>5 DEF LeaveMaintenance, TypeOK
<1>6. CASE Crash
  BY <1>1, <1>2, <1>6 DEF Crash, Disturbances, TypeOK
<1>7. CASE Boot
  <2>1. gap' \in [Ids -> Gap]
    BY <1>7, InterruptedGap DEF Boot, Recover, TypeOK
  <2>2. attempt' \in [Runs -> [Ids -> Outcomes]]
    BY <1>7 DEF Boot, Recover, Outcomes, TypeOK
  <2>3. job' \in [Jobs -> JobStatuses]
    BY <1>7 DEF Boot, Recover, Closed, JobStatuses, TypeOK
  <2>4. QED
    BY <1>7, <2>1, <2>2, <2>3 DEF Boot, TypeOK
<1>8. QED
  BY <1>3, <1>4, <1>5, <1>6, <1>7

(* One step of any kind keeps the lock and the running threads together.   *)
LEMMA LockStep ==
  ASSUME Typed, [Next]_vars
  PROVE  OneJob' /\ AuditHasCapture'
<1> USE DEF durable, volatile, process
<1>j. /\ job \in [Jobs -> JobStatuses]
      /\ lock \in Jobs \union {None}
      /\ None \notin Jobs
  BY JobAssumption DEF Typed, TypeOK
<1>k. Backfills \subseteq Jobs /\ Syncs \subseteq Jobs /\ Audits \subseteq Jobs
  BY DEF Jobs, Runs
<1>d. Backfills \intersect Audits = {} /\ Syncs \intersect Audits = {}
  BY JobAssumption DEF Runs
<1>o. OneJob /\ AuditHasCapture
  BY DEF Typed
(* A step of another kind leaves the lock, the threads, the rows of audits *)
(* and the capture alone.                                                  *)
<1>s. ASSUME UNCHANGED <<lock, live, capture>>,
             \A a \in Audits : job'[a] = "running" => job[a] = "running"
      PROVE  OneJob' /\ AuditHasCapture'
  BY <1>o, <1>s DEF OneJob, AuditHasCapture
<1>e. ASSUME NEW j \in Jobs, j \in live, live' = live \ {j}, lock' = None
      PROVE  OneJob' /\ AuditHasCapture'
  BY <1>o, <1>e, <1>k, <1>j DEF OneJob, AuditHasCapture
<1>f. ASSUME NEW j \in Jobs, Dispatch(j), UNCHANGED capture
      PROVE  OneJob' /\ AuditHasCapture'
  BY <1>o, <1>f, <1>j, <1>k DEF OneJob, AuditHasCapture, Dispatch, LockFree
<1>1. ASSUME NEW b \in Backfills, BackfillStep(b)
      PROVE  OneJob' /\ AuditHasCapture'
  <2>1. CASE BeginBackfill(b)
    BY <1>s, <1>d, <1>j, <1>k, <2>1 DEF BeginBackfill
  <2>2. CASE NextBatch(b)
    BY <1>s, <2>2 DEF NextBatch
  <2>3. CASE EndBackfill(b)
    BY <1>e, <1>k, <2>3 DEF EndBackfill, EndJob, BatchDone
  <2>4. CASE \E i \in Ids : Submit(b, i) \/ CheckGap(b, i) \/ ClaimGap(b, i) \/ FinishGap(b, i)
    BY <1>s, <2>4 DEF Submit, CheckGap, ClaimGap, FinishGap
  <2>5. QED
    BY <1>1, <2>1, <2>2, <2>3, <2>4 DEF BackfillStep
<1>2. ASSUME NEW s \in Syncs, OrdinaryStep(s)
      PROVE  OneJob' /\ AuditHasCapture'
  <2>1. CASE Discover(s)
    BY <1>s, <1>d, <1>j, <1>k, <2>1 DEF Discover
  <2>2. CASE EndOrdinary(s)
    BY <1>e, <1>k, <2>2 DEF EndOrdinary, EndJob
  <2>3. CASE \E i \in Ids : OrdinaryStart(s, i) \/ OrdinaryFinish(s, i)
    BY <1>s, <2>3 DEF OrdinaryStart, OrdinaryFinish
  <2>4. QED
    BY <1>2, <2>1, <2>2, <2>3 DEF OrdinaryStep
<1>3. ASSUME NEW a \in Audits, AuditStep(a)
      PROVE  OneJob' /\ AuditHasCapture'
  <2>1. CASE Reconcile(a)
    <3>1. lock' = lock /\ live' = live /\ capture' # "none"
      BY <2>1 DEF Reconcile
    <3>2. QED
      BY <1>o, <3>1 DEF OneJob, AuditHasCapture
  <2>2. CASE PublishAudit(a)
    BY <1>e, <1>k, <2>2 DEF PublishAudit, CapturedAudit, EndJob
  <2>3. QED
    BY <1>3, <2>1, <2>2 DEF AuditStep
<1>4. ASSUME NEW r \in Runs, NEW i \in Ids, Store(r, i)
      PROVE  OneJob' /\ AuditHasCapture'
  BY <1>s, <1>4 DEF Store
<1>5. CASE Operator
  <2>1. ASSUME NEW b \in Backfills, StartBackfill(b) \/ CancelBackfill(b)
        PROVE  OneJob' /\ AuditHasCapture'
    BY <1>f, <1>s, <1>k, <2>1 DEF StartBackfill, CancelBackfill
  <2>2. ASSUME NEW s \in Syncs, StartSync(s)
        PROVE  OneJob' /\ AuditHasCapture'
    BY <1>f, <1>k, <2>2 DEF StartSync
  <2>3. ASSUME NEW a \in Audits, StartAudit(a)
        PROVE  OneJob' /\ AuditHasCapture'
    BY <1>f, <1>k, <2>3 DEF StartAudit
  <2>4. ASSUME NEW i \in Ids, Skip(i) \/ Requeue(i) \/ RemoveLegacy(i)
        PROVE  OneJob' /\ AuditHasCapture'
    BY <1>s, <2>4 DEF Skip, Requeue, RemoveLegacy
  <2>5. CASE EnterMaintenance \/ LeaveMaintenance
    BY <1>s, <2>5 DEF EnterMaintenance, LeaveMaintenance
  <2>6. QED
    BY <1>5, <2>1, <2>2, <2>3, <2>4, <2>5 DEF Operator
<1>6. CASE Fault
  <2>1. ASSUME NEW b \in Backfills, RunnerRaises(b)
        PROVE  OneJob' /\ AuditHasCapture'
    BY <1>s, <2>1 DEF RunnerRaises
  <2>2. ASSUME NEW s \in Syncs, SyncFails(s)
        PROVE  OneJob' /\ AuditHasCapture'
    BY <1>e, <1>k, <2>2 DEF SyncFails, EndJob
  <2>3. ASSUME NEW a \in Audits, AuditFails(a)
        PROVE  OneJob' /\ AuditHasCapture'
    BY <1>e, <1>k, <2>3 DEF AuditFails, EndJob
  <2>4. ASSUME NEW r \in Runs, NEW i \in Ids, WorkerRaises(r, i)
        PROVE  OneJob' /\ AuditHasCapture'
    BY <1>s, <2>4 DEF WorkerRaises
  <2>5. ASSUME NEW j \in Jobs, EndingLost(j)
        PROVE  OneJob' /\ AuditHasCapture'
    BY <1>e, <2>5 DEF EndingLost
  <2>6. CASE Crash
    BY <1>j, <1>k, <2>6 DEF Crash, OneJob, AuditHasCapture
  <2>7. QED
    BY <1>6, <2>1, <2>2, <2>3, <2>4, <2>5, <2>6 DEF Fault
<1>7. CASE Boot
  <2>1. \A a \in Audits : job'[a] = "running" => job[a] = "running"
    BY <1>7, <1>k DEF Boot, Recover, Closed
  <2>2. QED
    BY <1>7, <1>s, <2>1 DEF Boot
<1>8. CASE UNCHANGED vars
  BY <1>s, <1>8 DEF vars
<1>9. QED
  BY <1>1, <1>2, <1>3, <1>4, <1>5, <1>6, <1>7, <1>8 DEF Next

(* Every step keeps the types.                                             *)
LEMMA TypeStep ==
  ASSUME Typed, [Next]_vars
  PROVE  Typed'
<1>1. CASE Next
  <2>1. TypeOK
    BY DEF Typed
  <2>2. TypeOK'
    BY <1>1, <2>1, TypeBackfill, TypeOrdinary, TypeAudit, TypeWorkers, TypeOperator, TypeProcess
       DEF Next, Operator, Fault
  <2>3. QED
    BY <2>2, LockStep DEF Typed
<1>2. CASE UNCHANGED vars
  <2>1. TypeOK'
    BY <1>2 DEF Typed, TypeOK, vars, durable, volatile, process
  <2>2. QED
    BY <2>1, LockStep DEF Typed
<1>3. QED
  BY <1>1, <1>2

(* Every variable has its type, in every reachable state.                  *)
THEOREM TypeCorrect == Spec => []TypeOK
<1>1. Spec => []Typed
  BY TypeInit, TypeStep, PTL DEF Spec
<1>2. Typed => TypeOK
  BY DEF Typed
<1>3. QED
  BY <1>1, <1>2, PTL

-----------------------------------------------------------------------------
(* The inductive invariant.  Only the job that holds the lock has work in  *)
(* its pool, and a circular it has not come to yet has no attempt: so an   *)
(* attempt row is written once, and nobody else touches a claim in use.    *)

Unattempted == {"waiting", "batched", "submitted", "checked"}

DownIsUnlocked == server = "down" => lock = None

Handled ==
  \A r \in Runs, i \in Ids :
    /\ item[r][i] \in InPool => lock = r /\ job[r] = "running"
    /\ item[r][i] = "batched" /\ lock = r => job[r] = "running"
    /\ item[r][i] \in Unattempted => attempt[r][i] = "none"
    /\ job[r] = "unused" \/ (r \in Syncs /\ job[r] = "queued") => attempt[r][i] = "none"

AbsentIsUnclaimed == \A i \in Ids : gap[i].status = "absent" => gap[i].active = None

Claims == /\ WorkOwnsItsClaim
          /\ ClaimsAreReachable
          /\ RunningIsClaimed
          /\ AbsentIsUnclaimed

Inv == Typed /\ DownIsUnlocked /\ Handled /\ Claims

(* The inductive invariant holds of a fresh installation.                  *)
LEMMA InvInit == Init => Inv
<1> SUFFICES ASSUME Init PROVE Inv
  OBVIOUS
<1>1. Typed
  BY TypeInit
<1>2. DownIsUnlocked
  BY DEF Init, DownIsUnlocked
<1>3. \A r \in Runs, i \in Ids : item[r][i] = "none" /\ attempt[r][i] = "none"
  BY DEF Init, All
<1>4. Handled
  BY <1>3 DEF Handled, InPool, Working, Unattempted
<1>5. \A i \in Ids : gap[i].status = "absent" /\ gap[i].active = None
  BY DEF Init, NoGap
<1>6. Claims
  BY <1>3, <1>5 DEF Claims, WorkOwnsItsClaim, ClaimsAreReachable, RunningIsClaimed,
                    AbsentIsUnclaimed, Working
<1>7. QED
  BY <1>1, <1>2, <1>4, <1>6 DEF Inv

(* What one worker's move, and one written attempt, change.                *)
LEMMA MoveEffect ==
  ASSUME TypeOK, NEW r \in Runs, NEW i \in Ids, NEW ph, Move(r, i, ph)
  PROVE  \A q \in Runs, k \in Ids :
           item'[q][k] = IF q = r /\ k = i THEN ph ELSE item[q][k]
BY DEF Move, TypeOK

(* What recording one attempt does to the others.                          *)
LEMMA AttemptEffect ==
  ASSUME TypeOK, NEW r \in Runs, NEW i \in Ids, NEW o, attempt' = [attempt EXCEPT ![r][i] = o]
  PROVE  \A q \in Runs, k \in Ids :
           attempt'[q][k] = IF q = r /\ k = i THEN o ELSE attempt[q][k]
BY DEF TypeOK

(* Every step leaves a process that is down without lock and threads.      *)
LEMMA DownStep ==
  ASSUME Inv, [Next]_vars
  PROVE  DownIsUnlocked'
<1> USE DEF durable, volatile, process
<1>1. DownIsUnlocked /\ None \notin Jobs
  BY JobAssumption DEF Inv
<1>2. CASE UNCHANGED <<server, lock>>
  BY <1>1, <1>2 DEF DownIsUnlocked
<1>3. ASSUME NEW j \in Jobs, Dispatch(j), server' = server
      PROVE  DownIsUnlocked'
  BY <1>3 DEF Dispatch, Serving, DownIsUnlocked
<1>4. CASE lock' = None
  BY <1>4 DEF DownIsUnlocked
<1>5. CASE Boot
  BY <1>5 DEF Boot, DownIsUnlocked
<1>k. Backfills \subseteq Jobs /\ Syncs \subseteq Jobs /\ Audits \subseteq Jobs
  BY DEF Jobs, Runs
<1>6. ASSUME NEW b \in Backfills, BackfillStep(b)
      PROVE  DownIsUnlocked'
  BY <1>2, <1>4, <1>6
     DEF BackfillStep, BeginBackfill, NextBatch, EndBackfill, EndJob, Submit, CheckGap, ClaimGap, FinishGap
<1>7. ASSUME NEW s \in Syncs, OrdinaryStep(s)
      PROVE  DownIsUnlocked'
  BY <1>2, <1>4, <1>7 DEF OrdinaryStep, Discover, EndOrdinary, EndJob, OrdinaryStart, OrdinaryFinish
<1>8. ASSUME NEW a \in Audits, AuditStep(a)
      PROVE  DownIsUnlocked'
  BY <1>2, <1>4, <1>8 DEF AuditStep, Reconcile, PublishAudit, EndJob
<1>9. ASSUME NEW r \in Runs, NEW i \in Ids, Store(r, i)
      PROVE  DownIsUnlocked'
  BY <1>2, <1>9 DEF Store
<1>10. CASE Operator
  <2>1. CASE \E b \in Backfills : StartBackfill(b) \/ CancelBackfill(b)
    BY <1>2, <1>3, <1>k, <2>1 DEF StartBackfill, CancelBackfill
  <2>2. CASE \E s \in Syncs : StartSync(s)
    BY <1>3, <1>k, <2>2 DEF StartSync
  <2>3. CASE \E a \in Audits : StartAudit(a)
    BY <1>3, <1>k, <2>3 DEF StartAudit
  <2>4. CASE \E i \in Ids : Skip(i) \/ Requeue(i) \/ RemoveLegacy(i)
    BY <1>2, <2>4 DEF Skip, Requeue, RemoveLegacy
  <2>5. CASE EnterMaintenance \/ LeaveMaintenance
    BY <1>2, <2>5 DEF EnterMaintenance, LeaveMaintenance
  <2>6. QED
    BY <1>10, <2>1, <2>2, <2>3, <2>4, <2>5 DEF Operator
<1>11. CASE Fault
  BY <1>2, <1>4, <1>11 DEF Fault, RunnerRaises, SyncFails, AuditFails, WorkerRaises, EndingLost, EndJob, Crash
<1>12. CASE UNCHANGED vars
  BY <1>2, <1>12 DEF vars
<1>13. QED
  BY <1>5, <1>6, <1>7, <1>8, <1>9, <1>10, <1>11, <1>12 DEF Next

(* A step that leaves gaps, attempts, items, runs and lock alone keeps them.*)
LEMMA Frame ==
  ASSUME Inv, UNCHANGED <<item, attempt, gap, lock>>, \A r \in Runs : job'[r] = job[r]
  PROVE  Handled' /\ Claims'
BY DEF Inv, Handled, Claims, WorkOwnsItsClaim, ClaimsAreReachable, RunningIsClaimed, AbsentIsUnclaimed

(* When a job's thread ends, none of its workers is left.                  *)
LEMMA EndFrame ==
  ASSUME Inv, NEW j \in Jobs, j \in live, lock' = None,
         j \in Runs => Pool(j) = {},
         \A r \in Runs : job'[r] = job[r] \/ (r = j /\ job'[r] \in {"success", "failed"}),
         UNCHANGED <<item, attempt, gap>>
  PROVE  Handled' /\ Claims'
<1>1. lock = j
  BY DEF Inv, Typed, OneJob
<1>2. \A r \in Runs, i \in Ids : item[r][i] \notin InPool
  BY <1>1 DEF Inv, Handled, Pool
<1>3. Handled'
  BY <1>2, JobAssumption DEF Inv, Handled, Jobs
<1>4. Claims'
  BY <1>2 DEF Inv, Claims, WorkOwnsItsClaim, ClaimsAreReachable, RunningIsClaimed, AbsentIsUnclaimed, InPool
<1>5. QED
  BY <1>3, <1>4

(* When a job is dispatched, nobody works.                                 *)
LEMMA DispatchFrame ==
  ASSUME Inv, NEW j \in Jobs, Dispatch(j), UNCHANGED <<attempt, gap>>,
         \A r \in Runs, i \in Ids : IF r = j THEN item'[r][i] \in {"none", "waiting"}
                                            ELSE item'[r][i] = item[r][i]
  PROVE  Handled' /\ Claims'
<1>j. /\ job \in [Jobs -> JobStatuses]
      /\ Runs \subseteq Jobs
      /\ None \notin Jobs
  BY JobAssumption DEF Inv, Typed, TypeOK, Jobs
<1>1. \A r \in Runs, i \in Ids : item[r][i] \notin InPool
  BY <1>j DEF Inv, Handled, Dispatch, LockFree
<1>2. \A r \in Runs, i \in Ids : item'[r][i] \notin InPool
  BY <1>1 DEF InPool, Working
<1>3. job[j] = "unused" /\ \A r \in Runs : r # j => job'[r] = job[r]
  BY <1>j DEF Dispatch
<1>4. \A r \in Runs, i \in Ids : r = j => attempt[r][i] = "none"
  BY <1>3 DEF Inv, Handled
<1>5. lock' \in {j, None}
  BY DEF Dispatch, LockFree
<1>6. Handled'
  <2> SUFFICES ASSUME NEW r \in Runs, NEW i \in Ids
               PROVE  /\ item'[r][i] \in InPool => lock' = r /\ job'[r] = "running"
                      /\ item'[r][i] = "batched" /\ lock' = r => job'[r] = "running"
                      /\ item'[r][i] \in Unattempted => attempt'[r][i] = "none"
                      /\ job'[r] = "unused" \/ (r \in Syncs /\ job'[r] = "queued")
                            => attempt'[r][i] = "none"
    BY DEF Handled
  <2>1. CASE r = j
    BY <1>2, <1>4, <2>1
  <2>2. CASE r # j
    BY <1>2, <1>3, <1>5, <1>j, <2>2 DEF Inv, Handled
  <2>3. QED
    BY <2>1, <2>2
<1>7. Claims'
  BY <1>2 DEF Inv, Claims, WorkOwnsItsClaim, ClaimsAreReachable, RunningIsClaimed, AbsentIsUnclaimed, InPool
<1>8. QED
  BY <1>6, <1>7


(* A worker moves on with one circular: what else holds need be shown of   *)
(* that circular alone.                                                    *)
LEMMA WorkerFrame ==
  ASSUME Inv, NEW r \in Runs, NEW i \in Ids, NEW ph, Move(r, i, ph),
         lock = r, job[r] = "running", UNCHANGED <<lock, job>>,
         \A q \in Runs, k \in Ids : q # r \/ k # i => attempt'[q][k] = attempt[q][k],
         \A k \in Ids : k # i => gap'[k] = gap[k],
         ph \in Unattempted => attempt'[r][i] = "none",
         ph \in Working => /\ attempt'[r][i] \in Unfinished
                           /\ r \in Backfills => gap'[i].active = r /\ gap'[i].status = "running",
         gap'[i].active # None => attempt'[gap'[i].active][i] = "running",
         gap'[i].status = "running" => gap'[i].active # None,
         gap'[i].status = "absent" => gap'[i].active = None
  PROVE  Handled' /\ Claims'
<1>1. \A q \in Runs, k \in Ids : item'[q][k] = IF q = r /\ k = i THEN ph ELSE item[q][k]
  BY MoveEffect DEF Inv, Typed
<1>2. \A k \in Ids : gap[k].active \in Runs \union {None}
  BY DEF Inv, Typed, TypeOK, Gap
<1>3. Handled'
  <2> SUFFICES ASSUME NEW q \in Runs, NEW k \in Ids
               PROVE  /\ item'[q][k] \in InPool => lock' = q /\ job'[q] = "running"
                      /\ item'[q][k] = "batched" /\ lock' = q => job'[q] = "running"
                      /\ item'[q][k] \in Unattempted => attempt'[q][k] = "none"
                      /\ job'[q] = "unused" \/ (q \in Syncs /\ job'[q] = "queued")
                            => attempt'[q][k] = "none"
    BY DEF Handled
  <2>1. CASE q = r /\ k = i
    BY <1>1, <2>1
  <2>2. CASE q # r \/ k # i
    BY <1>1, <2>2 DEF Inv, Handled
  <2>3. QED
    BY <2>1, <2>2
<1>4. WorkOwnsItsClaim'
  <2> SUFFICES ASSUME NEW q \in Runs, NEW k \in Ids, item'[q][k] \in Working
               PROVE  /\ lock' = q
                      /\ attempt'[q][k] \in Unfinished
                      /\ q \in Backfills => gap'[k].active = q /\ gap'[k].status = "running"
    BY DEF WorkOwnsItsClaim
  <2>1. CASE q = r /\ k = i
    BY <1>1, <2>1
  <2>2. CASE q # r \/ k # i
    <3>1. item[q][k] \in Working
      BY <1>1, <2>2
    <3>2. lock = q
      BY <3>1 DEF Inv, Claims, WorkOwnsItsClaim
    <3>3. k # i /\ q = r
      BY <2>2, <3>2
    <3>4. QED
      BY <3>1, <3>3 DEF Inv, Claims, WorkOwnsItsClaim
  <2>3. QED
    BY <2>1, <2>2
<1>5. ClaimsAreReachable'
  <2> SUFFICES ASSUME NEW k \in Ids, gap'[k].active # None
               PROVE  attempt'[gap'[k].active][k] = "running"
    BY DEF ClaimsAreReachable
  <2>1. CASE k = i
    BY <2>1
  <2>2. CASE k # i
    BY <1>2, <2>2 DEF Inv, Claims, ClaimsAreReachable
  <2>3. QED
    BY <2>1, <2>2
<1>6. RunningIsClaimed' /\ AbsentIsUnclaimed'
  BY DEF Inv, Claims, RunningIsClaimed, AbsentIsUnclaimed
<1>7. QED
  BY <1>3, <1>4, <1>5, <1>6 DEF Claims

(* Whoever works on a circular runs the job that holds the lock.           *)
LEMMA InPoolRuns ==
  ASSUME Inv, NEW r \in Runs, NEW i \in Ids, item[r][i] \in InPool
  PROVE  lock = r /\ job[r] = "running"
BY DEF Inv, Handled

(* The row of a gap, before and after one worker's step.                   *)
LEMMA GapFacts ==
  ASSUME Inv, NEW i \in Ids
  PROVE  /\ gap[i] \in Gap /\ DOMAIN gap = Ids
         /\ gap[i].active \in Runs \union {None}
         /\ gap[i].active # None => attempt[gap[i].active][i] = "running"
         /\ gap[i].status = "running" => gap[i].active # None
         /\ gap[i].status = "absent" => gap[i].active = None
         /\ \A r \in Runs : r # None
BY JobAssumption DEF Inv, Typed, TypeOK, Gap, Claims, ClaimsAreReachable, RunningIsClaimed, AbsentIsUnclaimed, Jobs

(* Handing a batch to the pool keeps the claims.                           *)
LEMMA SubmitKeepsClaims ==
  ASSUME Inv, NEW b \in Backfills, NEW i \in Ids, Submit(b, i)
  PROVE  Handled' /\ Claims'
<1>1. b \in Runs /\ b \in Jobs
  BY DEF Runs, Jobs
<1>2. lock = b /\ job[b] = "running"
  BY <1>1 DEF Submit, Inv, Typed, OneJob, Handled
<1>3. attempt[b][i] = "none"
  BY <1>1 DEF Submit, Inv, Handled, Unattempted
<1>4. "submitted" \notin Working
  BY DEF Working
<1>5. Move(b, i, "submitted") /\ UNCHANGED <<lock, job, attempt, gap>>
  BY DEF Submit, durable
<1>6. QED
  BY <1>1, <1>2, <1>3, <1>4, <1>5, GapFacts, WorkerFrame

(* The check before a claim keeps the claims.                              *)
LEMMA CheckKeepsClaims ==
  ASSUME Inv, NEW b \in Backfills, NEW i \in Ids, CheckGap(b, i)
  PROVE  Handled' /\ Claims'
<1>1. b \in Runs
  BY DEF Runs
<1>2. lock = b /\ job[b] = "running" /\ attempt[b][i] = "none"
  BY <1>1 DEF CheckGap, Inv, Handled, InPool, Unattempted
<1>3. UNCHANGED <<lock, job>>
  BY DEF CheckGap
<1>4. /\ "checked" \notin Working /\ "held" \notin Working \union Unattempted
      /\ "present" \notin Working \union Unattempted
  BY DEF Working, Unattempted
<1>5. CASE Move(b, i, "held") /\ UNCHANGED <<gap, attempt>>
  BY <1>1, <1>2, <1>3, <1>4, <1>5, GapFacts, WorkerFrame
<1>6. CASE Move(b, i, "held") /\ gap' = [gap EXCEPT ![i].eligible = FALSE] /\ UNCHANGED attempt
  <2>1. /\ \A k \in Ids : k # i => gap'[k] = gap[k]
        /\ gap'[i].active = gap[i].active /\ gap'[i].status = gap[i].status
    BY <1>6, GapFacts DEF Gap
  <2>2. QED
    BY <1>1, <1>2, <1>3, <1>4, <1>6, <2>1, GapFacts, WorkerFrame
<1>7. CASE /\ gap[i].active = None
           /\ gap' = [gap EXCEPT ![i].status = "resolved"]
           /\ attempt' = [attempt EXCEPT ![b][i] = "already_present"]
           /\ Move(b, i, "present")
  <2>1. /\ \A k \in Ids : k # i => gap'[k] = gap[k]
        /\ gap'[i].active = None /\ gap'[i].status = "resolved"
    BY <1>7, GapFacts DEF Gap
  <2>2. \A q \in Runs, k \in Ids : q # b \/ k # i => attempt'[q][k] = attempt[q][k]
    BY <1>1, <1>7, AttemptEffect DEF Inv, Typed
  <2>3. QED
    BY <1>1, <1>2, <1>3, <1>4, <1>7, <2>1, <2>2, WorkerFrame
<1>8. CASE Move(b, i, "checked") /\ UNCHANGED <<gap, attempt>>
  BY <1>1, <1>2, <1>3, <1>4, <1>8, GapFacts, WorkerFrame
<1>9. QED
  BY <1>5, <1>6, <1>7, <1>8 DEF CheckGap

(* The compare-and-set of a claim keeps the claims.                        *)
LEMMA ClaimKeepsClaims ==
  ASSUME Inv, NEW b \in Backfills, NEW i \in Ids, ClaimGap(b, i)
  PROVE  Handled' /\ Claims'
<1>1. b \in Runs /\ b # None
  BY GapFacts DEF Runs
<1>2. lock = b /\ job[b] = "running"
  BY <1>1, InPoolRuns DEF ClaimGap, InPool
<1>3. UNCHANGED <<lock, job>>
  BY DEF ClaimGap
<1>4. "held" \notin Working \union Unattempted /\ "claimed" \notin Unattempted
  BY DEF Working, Unattempted
<1>5. CASE Move(b, i, "held") /\ UNCHANGED <<gap, attempt>>
  BY <1>1, <1>2, <1>3, <1>4, <1>5, GapFacts, WorkerFrame
<1>6. CASE /\ gap' = [gap EXCEPT ![i] = Claimed(gap[i], b)]
           /\ attempt' = [attempt EXCEPT ![b][i] = "running"]
           /\ Move(b, i, "claimed")
  <2>1. Claimed(gap[i], b).active = b /\ Claimed(gap[i], b).status = "running"
    BY GapFacts DEF Claimed, Gap
  <2>2. /\ \A k \in Ids : k # i => gap'[k] = gap[k]
        /\ gap'[i].active = b /\ gap'[i].status = "running"
    BY <1>6, <2>1, GapFacts
  <2>3. /\ \A q \in Runs, k \in Ids : q # b \/ k # i => attempt'[q][k] = attempt[q][k]
        /\ attempt'[b][i] = "running"
    <3>1. attempt \in [Runs -> [Ids -> Outcomes]] /\ attempt' = [attempt EXCEPT ![b][i] = "running"]
      BY <1>6 DEF Inv, Typed, TypeOK
    <3>2. \A q \in Runs, k \in Ids :
            attempt'[q][k] = IF q = b /\ k = i THEN "running" ELSE attempt[q][k]
      BY <1>1, <3>1
    <3>3. QED
      BY <1>1, <3>2
  <2>4. attempt'[b][i] \in Unfinished
    BY <2>3 DEF Unfinished
  <2>5. QED
    BY <1>1, <1>2, <1>3, <1>4, <1>6, <2>2, <2>3, <2>4, WorkerFrame
<1>7. QED
  BY <1>5, <1>6 DEF ClaimGap

(* Recording the outcome of an attempt keeps the claims.                   *)
LEMMA FinishKeepsClaims ==
  ASSUME Inv, NEW b \in Backfills, NEW i \in Ids, FinishGap(b, i)
  PROVE  Handled' /\ Claims'
<1>1. b \in Runs
  BY DEF Runs
<1>2. lock = b /\ job[b] = "running"
  BY <1>1, InPoolRuns DEF FinishGap, InPool
<1>3. UNCHANGED <<lock, job>>
  BY DEF FinishGap
<1>4. PICK ph \in {"bad", "ok"} : Move(b, i, ph)
  BY DEF FinishGap
<1>5. ph \notin Working /\ ph \notin Unattempted
  BY DEF Working, Unattempted
<1>6. Recorded(gap[i], i).active = None /\ Recorded(gap[i], i).status \in {"resolved", "failed"}
  BY GapFacts DEF Recorded, Gap
<1>7. /\ \A k \in Ids : k # i => gap'[k] = gap[k]
      /\ gap'[i].active = None /\ gap'[i].status # "running"
  BY <1>6, GapFacts DEF FinishGap
<1>8. \A q \in Runs, k \in Ids : q # b \/ k # i => attempt'[q][k] = attempt[q][k]
  <2> DEFINE o == IF Present(i) THEN "resolved" ELSE "failed"
  <2>1. attempt' = [attempt EXCEPT ![b][i] = o]
    BY DEF FinishGap
  <2> HIDE DEF o
  <2>2. QED
    BY <1>1, <2>1, AttemptEffect DEF Inv, Typed
<1>9. QED
  BY <1>1, <1>2, <1>3, <1>4, <1>5, <1>7, <1>8, WorkerFrame

(* Starting an ordinary attempt keeps the claims.                          *)
LEMMA OrdinaryStartKeepsClaims ==
  ASSUME Inv, NEW s \in Syncs, NEW i \in Ids, OrdinaryStart(s, i)
  PROVE  Handled' /\ Claims'
<1>1. s \in Runs /\ s # None /\ s \notin Backfills
  BY GapFacts, JobAssumption DEF Runs
<1>2. lock = s /\ job[s] = "running"
  BY <1>1, InPoolRuns DEF OrdinaryStart, InPool
<1>3. UNCHANGED <<lock, job>> /\ Move(s, i, "claimed")
  BY DEF OrdinaryStart
<1>4. "claimed" \notin Unattempted
  BY DEF Unattempted
<1>5. attempt[s][i] = "none"
  BY <1>1 DEF OrdinaryStart, Inv, Handled, Unattempted
<1>6. CASE /\ gap[i].status # "absent" /\ gap[i].active = None
           /\ gap' = [gap EXCEPT ![i] = [gap[i] EXCEPT !.active = s, !.attempts = gap[i].attempts + 1]]
           /\ attempt' = [attempt EXCEPT ![s][i] = "running"]
  <2>1. [gap[i] EXCEPT !.active = s, !.attempts = gap[i].attempts + 1].active = s
    BY GapFacts DEF Gap
  <2>2. [gap[i] EXCEPT !.active = s, !.attempts = gap[i].attempts + 1].status = gap[i].status
    BY GapFacts DEF Gap
  <2>3. /\ \A k \in Ids : k # i => gap'[k] = gap[k]
        /\ gap'[i].active = s /\ gap'[i].status = gap[i].status
    BY <1>6, <2>1, <2>2, GapFacts
  <2>4. /\ \A q \in Runs, k \in Ids : q # s \/ k # i => attempt'[q][k] = attempt[q][k]
        /\ attempt'[s][i] = "running"
    <3>1. attempt \in [Runs -> [Ids -> Outcomes]] /\ attempt' = [attempt EXCEPT ![s][i] = "running"]
      BY <1>6 DEF Inv, Typed, TypeOK
    <3>2. \A q \in Runs, k \in Ids :
            attempt'[q][k] = IF q = s /\ k = i THEN "running" ELSE attempt[q][k]
      BY <1>1, <3>1
    <3>3. QED
      BY <1>1, <3>2
  <2>5. attempt'[s][i] \in Unfinished
    BY <2>4 DEF Unfinished
  <2>6. QED
    BY <1>1, <1>2, <1>3, <1>4, <1>6, <2>3, <2>4, <2>5, WorkerFrame
<1>7. CASE attempt' = [attempt EXCEPT ![s][i] = "loose"] /\ UNCHANGED gap
  <2>1. /\ \A q \in Runs, k \in Ids : q # s \/ k # i => attempt'[q][k] = attempt[q][k]
        /\ attempt'[s][i] = "loose"
    <3>1. attempt \in [Runs -> [Ids -> Outcomes]] /\ attempt' = [attempt EXCEPT ![s][i] = "loose"]
      BY <1>7 DEF Inv, Typed, TypeOK
    <3>2. \A q \in Runs, k \in Ids :
            attempt'[q][k] = IF q = s /\ k = i THEN "loose" ELSE attempt[q][k]
      BY <1>1, <3>1
    <3>3. QED
      BY <1>1, <3>2
  <2>2. attempt'[s][i] \in Unfinished
    BY <2>1 DEF Unfinished
  <2>3. gap'[i].active # None => attempt'[gap'[i].active][i] = "running"
    BY <1>5, <1>7, <2>1, GapFacts
  <2>4. QED
    BY <1>1, <1>2, <1>3, <1>4, <1>7, <2>1, <2>2, <2>3, GapFacts, WorkerFrame
<1>8. QED
  BY <1>6, <1>7 DEF OrdinaryStart

(* Ending an ordinary attempt keeps the claims.                            *)
LEMMA OrdinaryFinishKeepsClaims ==
  ASSUME Inv, NEW s \in Syncs, NEW i \in Ids, OrdinaryFinish(s, i)
  PROVE  Handled' /\ Claims'
<1>1. s \in Runs
  BY DEF Runs
<1>2. lock = s /\ job[s] = "running"
  BY <1>1, InPoolRuns DEF OrdinaryFinish, InPool
<1>3. UNCHANGED <<lock, job>> /\ Move(s, i, "done")
  BY DEF OrdinaryFinish
<1>4. "done" \notin Working /\ "done" \notin Unattempted
  BY DEF Working, Unattempted
<1>5. /\ AfterOrdinary(gap[i], i).active = None
      /\ AfterOrdinary(gap[i], i).status # "running"
  BY GapFacts DEF AfterOrdinary, Gap
<1>6. /\ \A k \in Ids : k # i => gap'[k] = gap[k]
      /\ gap'[i].active = None /\ gap'[i].status # "running"
  BY <1>5, GapFacts DEF OrdinaryFinish
<1>7. \A q \in Runs, k \in Ids : q # s \/ k # i => attempt'[q][k] = attempt[q][k]
  <2> DEFINE o == IF Present(i) THEN "resolved" ELSE "failed"
  <2>1. attempt' = [attempt EXCEPT ![s][i] = o]
    BY DEF OrdinaryFinish
  <2> HIDE DEF o
  <2>2. QED
    BY <1>1, <2>1, AttemptEffect DEF Inv, Typed
<1>8. QED
  BY <1>1, <1>2, <1>3, <1>4, <1>6, <1>7, WorkerFrame

(* Storing a body keeps the claims.                                        *)
LEMMA StoreKeepsClaims ==
  ASSUME Inv, NEW r \in Runs, NEW i \in Ids, Store(r, i)
  PROVE  Handled' /\ Claims'
<1>1. lock = r /\ job[r] = "running"
  BY InPoolRuns DEF Store, InPool, Working
<1>2. UNCHANGED <<lock, job, gap, attempt>> /\ Move(r, i, "stored")
  BY DEF Store
<1>3. "stored" \notin Unattempted
  BY DEF Unattempted
<1>4. /\ attempt[r][i] \in Unfinished
      /\ r \in Backfills => gap[i].active = r /\ gap[i].status = "running"
  BY DEF Store, Working, Inv, Claims, WorkOwnsItsClaim
<1>5. QED
  BY <1>1, <1>2, <1>3, <1>4, GapFacts, WorkerFrame

(* A worker that raises keeps the claims.                                  *)
LEMMA RaisingKeepsClaims ==
  ASSUME Inv, NEW r \in Runs, NEW i \in Ids, WorkerRaises(r, i)
  PROVE  Handled' /\ Claims'
<1>1. lock = r /\ job[r] = "running"
  BY InPoolRuns DEF WorkerRaises
<1>2. UNCHANGED <<lock, job, gap, attempt>> /\ Move(r, i, "raised")
  BY DEF WorkerRaises, durable
<1>3. "raised" \notin Unattempted /\ "raised" \notin Working
  BY DEF Unattempted, Working
<1>4. QED
  BY <1>1, <1>2, <1>3, GapFacts, WorkerFrame

(* A step that rewrites gaps while nobody works on one, and leaves every   *)
(* claim alone.                                                            *)
LEMMA QuietFrame ==
  ASSUME Inv, UNCHANGED <<item, attempt>>, lock' \in {lock, None},
         \A r \in Runs : job'[r] = job[r],
         \A r \in Runs, i \in Ids : item[r][i] \notin InPool,
         \A i \in Ids : /\ gap'[i].active = gap[i].active
                        /\ gap'[i].status = "running" => gap[i].status = "running"
                        /\ gap'[i].status = "absent" => gap[i].status = "absent"
  PROVE  Handled' /\ Claims'
<1>0. None \notin Runs
  BY JobAssumption DEF Jobs
<1>1. Handled'
  BY <1>0 DEF Inv, Handled
<1>2. Claims'
  BY DEF Inv, Claims, WorkOwnsItsClaim, ClaimsAreReachable, RunningIsClaimed, AbsentIsUnclaimed, InPool
<1>3. QED
  BY <1>1, <1>2

(* The start of a backfill keeps the claims.                               *)
LEMMA BeginKeepsClaims ==
  ASSUME Inv, NEW b \in Backfills, BeginBackfill(b)
  PROVE  Handled' /\ Claims'
<1>1. b \in Runs /\ b \notin Syncs /\ job \in [Jobs -> JobStatuses] /\ Runs \subseteq Jobs
  BY JobAssumption DEF Runs, Jobs, Inv, Typed, TypeOK
<1>2. \A r \in Runs : job'[r] = IF r = b THEN "running" ELSE job[r]
  BY <1>1 DEF BeginBackfill
<1>3. UNCHANGED <<item, attempt, gap, lock>>
  BY DEF BeginBackfill, volatile
<1>4. Handled'
  BY <1>1, <1>2, <1>3 DEF Inv, Handled
<1>5. Claims'
  BY <1>3 DEF Inv, Claims, WorkOwnsItsClaim, ClaimsAreReachable, RunningIsClaimed, AbsentIsUnclaimed
<1>6. QED
  BY <1>4, <1>5

(* The end of a batch keeps the claims.                                    *)
LEMMA BatchKeepsClaims ==
  ASSUME Inv, NEW b \in Backfills, NextBatch(b)
  PROVE  Handled' /\ Claims'
<1>1. b \in Runs
  BY DEF Runs
<1>2. UNCHANGED <<attempt, gap, lock, job>> /\ job[b] = "running"
  BY DEF NextBatch, BatchDone, durable
<1>3. \A r \in Runs, i \in Ids :
        \/ item'[r][i] = item[r][i]
        \/ r = b /\ item[r][i] = "waiting" /\ item'[r][i] = "batched"
        \/ r = b /\ item'[r][i] = "done"
  <2>1. PICK batch \in Front(At(b, "waiting"), Request[b].size) \ {{}} :
          item' = [item EXCEPT ![b] =
                     [i \in Ids |-> CASE i \in batch -> "batched"
                                      [] item[b][i] \in Results -> "done"
                                      [] OTHER -> item[b][i]]]
    BY DEF NextBatch
  <2>2. \A i \in batch : item[b][i] = "waiting"
    BY DEF Front, At
  <2>3. item \in [Runs -> [Ids -> Phases]]
    BY DEF Inv, Typed, TypeOK
  <2>4. \A r \in Runs, i \in Ids : r # b => item'[r][i] = item[r][i]
    BY <2>1, <2>3
  <2>5. \A i \in Ids : item'[b][i] = CASE i \in batch -> "batched"
                                       [] item[b][i] \in Results -> "done"
                                       [] OTHER -> item[b][i]
    BY <1>1, <2>1, <2>3
  <2>6. QED
    BY <2>2, <2>4, <2>5
<1>4. /\ "batched" \notin InPool /\ "done" \notin InPool \union Unattempted
      /\ "waiting" \in Unattempted /\ "batched" # "done" /\ Working \subseteq InPool
  BY DEF InPool, Working, Unattempted
<1>5. Handled'
  BY <1>2, <1>3, <1>4 DEF Inv, Handled
<1>6. Claims'
  BY <1>2, <1>3, <1>4 DEF Inv, Claims, WorkOwnsItsClaim, ClaimsAreReachable, RunningIsClaimed, AbsentIsUnclaimed
<1>7. QED
  BY <1>5, <1>6

(* The discovery of an ordinary sync keeps the claims.                     *)
LEMMA DiscoverKeepsClaims ==
  ASSUME Inv, NEW s \in Syncs, Discover(s)
  PROVE  Handled' /\ Claims'
<1>1. s \in Runs /\ s \in Jobs /\ job \in [Jobs -> JobStatuses] /\ Runs \subseteq Jobs
  BY DEF Runs, Jobs, Inv, Typed, TypeOK
<1>2. lock = s /\ job[s] = "queued"
  BY <1>1 DEF Discover, Inv, Typed, OneJob
<1>3. \A i \in Ids : attempt[s][i] = "none"
  BY <1>1, <1>2 DEF Inv, Handled
<1>4. \A r \in Runs : job'[r] = IF r = s THEN "running" ELSE job[r]
  BY <1>1 DEF Discover
<1>5. UNCHANGED <<attempt, gap, lock>>
  BY DEF Discover
<1>6. \A r \in Runs, i \in Ids : IF r = s THEN item'[r][i] \in {"submitted", "none"}
                                          ELSE item'[r][i] = item[r][i]
  <2>1. item \in [Runs -> [Ids -> Phases]]
    BY DEF Inv, Typed, TypeOK
  <2>2. QED
    BY <1>1, <2>1 DEF Discover
<1>7. Handled'
  BY <1>2, <1>3, <1>4, <1>5, <1>6 DEF Inv, Handled
<1>8. Claims'
  BY <1>5, <1>6 DEF Inv, Claims, WorkOwnsItsClaim, ClaimsAreReachable, RunningIsClaimed, AbsentIsUnclaimed, Working
<1>9. QED
  BY <1>7, <1>8

(* The publication of an audit keeps the claims.                           *)
LEMMA PublishKeepsClaims ==
  ASSUME Inv, NEW a \in Audits, PublishAudit(a)
  PROVE  Handled' /\ Claims'
<1>1. a \in Jobs /\ a \notin Runs /\ job \in [Jobs -> JobStatuses] /\ Runs \subseteq Jobs
  BY JobAssumption DEF Jobs, Inv, Typed, TypeOK
<1>2. lock = a
  BY <1>1 DEF PublishAudit, CapturedAudit, Inv, Typed, OneJob
<1>3. \A r \in Runs, i \in Ids : item[r][i] \notin InPool
  BY <1>1, <1>2 DEF Inv, Handled
<1>4. UNCHANGED <<item, attempt>> /\ lock' = None /\ \A r \in Runs : job'[r] = job[r]
  BY <1>1 DEF PublishAudit, EndJob
<1>5. ASSUME NEW i \in Ids
      PROVE  /\ gap'[i].active = gap[i].active
             /\ gap'[i].status = "running" => gap[i].status = "running"
             /\ gap'[i].status = "absent" => gap[i].status = "absent"
  <2>1. gap'[i] = Published(i)
    BY DEF PublishAudit
  <2>2. /\ Opened(i).active = gap[i].active
        /\ Opened(i).status = "running" => gap[i].status = "running"
        /\ Opened(i).status = "absent" => gap[i].status = "absent"
        /\ Opened(i) \in Gap
    BY GapFacts DEF Opened, NoGap, Gap, Statuses
  <2>3. \A g \in Gap : /\ Settled(g, i).active = g.active
                       /\ Settled(g, i).status = "running" => g.status = "running"
                       /\ Settled(g, i).status = "absent" => g.status = "absent"
    BY DEF Settled, Gap
  <2>4. QED
    BY <2>1, <2>2, <2>3 DEF Published
<1>6. QED
  BY <1>3, <1>4, <1>5, QuietFrame

(* Skips and requeues keep the claims.                                     *)
LEMMA OperatorKeepsClaims ==
  ASSUME Inv, NEW i \in Ids, Skip(i) \/ Requeue(i) \/ RemoveLegacy(i)
  PROVE  Handled' /\ Claims'
<1>1. UNCHANGED <<item, attempt, lock, job>> /\ lock = None
  BY DEF Skip, Requeue, RemoveLegacy, Skippable, LockFree, volatile
<1>2. \A r \in Runs, k \in Ids : item[r][k] \notin InPool
  BY <1>1, JobAssumption DEF Inv, Handled, Jobs
<1>3. \A k \in Ids : gap[k] \in Gap /\ DOMAIN gap = Ids
  BY GapFacts
<1>4. \A k \in Ids : /\ gap'[k].active = gap[k].active
                     /\ gap'[k].status = "running" => gap[k].status = "running"
                     /\ gap'[k].status = "absent" => gap[k].status = "absent"
  <2>1. CASE gap' = [gap EXCEPT ![i].status = "skipped"]
    BY <1>3, <2>1 DEF Gap
  <2>2. CASE gap' = [gap EXCEPT ![i].status = "pending", ![i].failures = 0]
    BY <1>3, <2>2 DEF Gap
  <2>3. CASE gap' = [gap EXCEPT ![i] = Reopened(gap[i])]
    BY <1>3, <2>3 DEF Reopened, Gap
  <2>4. QED
    BY <2>1, <2>2, <2>3 DEF Skip, Requeue, RemoveLegacy
<1>5. QED
  BY <1>1, <1>2, <1>4, QuietFrame

(* A crash keeps the claims.                                               *)
LEMMA CrashKeepsClaims ==
  ASSUME Inv, Crash
  PROVE  Handled' /\ Claims'
<1>1. UNCHANGED <<gap, attempt, job>> /\ \A r \in Runs, i \in Ids : item'[r][i] = "none"
  BY DEF Crash, durable, All
<1>2. Handled'
  BY <1>1 DEF Inv, Handled, InPool, Working, Unattempted
<1>3. Claims'
  BY <1>1 DEF Inv, Claims, WorkOwnsItsClaim, ClaimsAreReachable, RunningIsClaimed, AbsentIsUnclaimed, Working
<1>4. QED
  BY <1>2, <1>3

(* The recovery reaches every claim, through its running attempt.          *)
LEMMA BootKeepsClaims ==
  ASSUME Inv, Boot
  PROVE  Handled' /\ Claims'
<1>1. lock = None /\ UNCHANGED <<item, lock>>
  BY DEF Boot, Inv, DownIsUnlocked, volatile
<1>2. \A r \in Runs, i \in Ids : item[r][i] \notin InPool
  BY <1>1, JobAssumption DEF Inv, Handled, Jobs
<1>3. CASE UNCHANGED <<gap, attempt, job>>
  BY <1>1, <1>3, Frame
<1>4. CASE Recover
  <2>1. \A r \in Runs, i \in Ids : attempt[r][i] = "none" => attempt'[r][i] = "none"
    BY <1>4 DEF Recover, Unfinished
  <2>2. \A r \in Runs : job'[r] = "unused" => job[r] = "unused"
    BY <1>4 DEF Recover, Closed, Jobs
  <2>3. \A r \in Runs : job'[r] # "queued"
    BY <1>4 DEF Recover, Closed, Jobs
  <2>4. Handled'
    BY <1>1, <1>2, <2>1, <2>2, <2>3, JobAssumption DEF Inv, Handled, Jobs
  <2>5. ASSUME NEW i \in Ids
        PROVE  gap'[i].active = None /\ gap'[i].status # "running"
    <3>1. gap'[i] = Interrupted(i)
      BY <1>4 DEF Recover
    <3>2. CASE Unsettled(i) = {}
      <4>1. gap[i].active = None
        BY <3>2, GapFacts DEF Unsettled
      <4>2. QED
        BY <3>1, <3>2, <4>1, GapFacts DEF Interrupted
    <3>3. CASE Unsettled(i) # {}
      BY <3>1, <3>3, GapFacts DEF Interrupted, Gap
    <3>4. QED
      BY <3>2, <3>3
  <2>6. WorkOwnsItsClaim'
    BY <1>1, <1>2 DEF WorkOwnsItsClaim, InPool
  <2>7. QED
    BY <2>4, <2>5, <2>6 DEF Claims, ClaimsAreReachable, RunningIsClaimed, AbsentIsUnclaimed
<1>5. QED
  BY <1>3, <1>4 DEF Boot

(* Every step keeps the inductive invariant.                               *)
LEMMA InvStep ==
  ASSUME Inv, [Next]_vars
  PROVE  Inv'
<1> SUFFICES Handled' /\ Claims'
  BY TypeStep, DownStep DEF Inv
<1> USE DEF durable, volatile, process
<1>r. /\ Backfills \subseteq Runs /\ Syncs \subseteq Runs /\ Runs \subseteq Jobs /\ Audits \subseteq Jobs
      /\ Audits \intersect Runs = {}
      /\ job \in [Jobs -> JobStatuses]
      /\ item \in [Runs -> [Ids -> Phases]]
  BY JobAssumption DEF Runs, Jobs, Inv, Typed, TypeOK
<1>1. ASSUME NEW b \in Backfills, BackfillStep(b)
      PROVE  Handled' /\ Claims'
  <2>1. CASE EndBackfill(b)
    <3>1. b \in live /\ lock' = None /\ Pool(b) = {} /\ UNCHANGED <<item, attempt, gap>>
      BY <2>1 DEF EndBackfill, BatchDone, EndJob
    <3>2. \A r \in Runs : job'[r] = job[r] \/ (r = b /\ job'[r] \in {"success", "failed"})
      BY <1>r, <2>1 DEF EndBackfill, EndJob
    <3>3. QED
      BY <1>r, <3>1, <3>2, EndFrame
  <2>2. QED
    BY <1>1, <2>1, BeginKeepsClaims, BatchKeepsClaims, SubmitKeepsClaims, CheckKeepsClaims,
       ClaimKeepsClaims, FinishKeepsClaims DEF BackfillStep
<1>2. ASSUME NEW s \in Syncs, EndOrdinary(s) \/ SyncFails(s)
      PROVE  Handled' /\ Claims'
  <2>1. s \in live /\ lock' = None /\ UNCHANGED <<item, attempt, gap>>
    BY <1>2 DEF EndOrdinary, SyncFails, EndJob
  <2>2. \A r \in Runs : job'[r] = job[r] \/ (r = s /\ job'[r] \in {"success", "failed"})
    BY <1>r, <1>2 DEF EndOrdinary, SyncFails, EndJob
  <2>3. Pool(s) = {}
    <3>1. CASE EndOrdinary(s)
      BY <3>1 DEF EndOrdinary, Processed, Pool, InPool, Working
    <3>2. CASE SyncFails(s) /\ job[s] = "queued"
      BY <1>r, <3>2 DEF SyncFails, Pool, Inv, Handled
    <3>3. CASE SyncFails(s) /\ Processed(s)
      BY <3>3 DEF SyncFails, Processed, Pool, InPool, Working
    <3>4. QED
      BY <1>2, <3>1, <3>2, <3>3 DEF SyncFails
  <2>4. QED
    BY <1>r, <2>1, <2>2, <2>3, EndFrame
<1>3. ASSUME NEW s \in Syncs, OrdinaryStep(s)
      PROVE  Handled' /\ Claims'
  BY <1>2, <1>3, DiscoverKeepsClaims, OrdinaryStartKeepsClaims, OrdinaryFinishKeepsClaims DEF OrdinaryStep
<1>4. ASSUME NEW a \in Audits, AuditStep(a) \/ AuditFails(a)
      PROVE  Handled' /\ Claims'
  <2>1. CASE Reconcile(a)
    BY <1>r, <2>1, Frame DEF Reconcile
  <2>2. CASE AuditFails(a)
    BY <1>r, <2>2, EndFrame DEF AuditFails, EndJob
  <2>3. QED
    BY <1>4, <2>1, <2>2, PublishKeepsClaims DEF AuditStep
<1>5. CASE Operator
  <2>1. ASSUME NEW b \in Backfills, StartBackfill(b)
        PROVE  Handled' /\ Claims'
    <3>1. \A r \in Runs, i \in Ids : IF r = b THEN item'[r][i] \in {"none", "waiting"}
                                              ELSE item'[r][i] = item[r][i]
      BY <1>r, <2>1 DEF StartBackfill
    <3>2. QED
      BY <1>r, <2>1, <3>1, DispatchFrame DEF StartBackfill
  <2>2. ASSUME NEW s \in Syncs, StartSync(s)
        PROVE  Handled' /\ Claims'
    <3>1. \A r \in Runs, i \in Ids : IF r = s THEN item'[r][i] \in {"none", "waiting"}
                                              ELSE item'[r][i] = item[r][i]
      BY <1>r, <2>2 DEF StartSync, All
    <3>2. QED
      BY <1>r, <2>2, <3>1, DispatchFrame DEF StartSync
  <2>3. ASSUME NEW a \in Audits, StartAudit(a)
        PROVE  Handled' /\ Claims'
    BY <1>r, <2>3, DispatchFrame DEF StartAudit
  <2>4. ASSUME NEW b \in Backfills, CancelBackfill(b)
        PROVE  Handled' /\ Claims'
    BY <2>4, Frame DEF CancelBackfill
  <2>5. CASE EnterMaintenance \/ LeaveMaintenance
    <3>1. UNCHANGED <<item, attempt, gap, lock, job>>
      BY <2>5 DEF EnterMaintenance, LeaveMaintenance
    <3>2. QED
      BY <3>1, Frame
  <2>6. ASSUME NEW i \in Ids, Skip(i) \/ Requeue(i) \/ RemoveLegacy(i)
        PROVE  Handled' /\ Claims'
    BY <2>6, OperatorKeepsClaims
  <2>7. QED
    BY <1>5, <2>1, <2>2, <2>3, <2>4, <2>5, <2>6 DEF Operator
<1>6. CASE Fault
  <2>1. ASSUME NEW b \in Backfills, RunnerRaises(b)
        PROVE  Handled' /\ Claims'
    BY <2>1, Frame DEF RunnerRaises
  <2>2. ASSUME NEW j \in Jobs, EndingLost(j)
        PROVE  Handled' /\ Claims'
    <3>1. j \in live /\ lock' = None /\ UNCHANGED <<item, attempt, gap, job>>
      BY <2>2 DEF EndingLost
    <3>2. ASSUME j \in Runs PROVE Pool(j) = {}
      <4>1. CASE j \in Backfills
        BY <2>2, <4>1, JobAssumption DEF EndingLost, BatchDone
      <4>2. CASE j \in Syncs
        <5>1. job[j] = "queued" \/ Processed(j)
          BY <2>2, <4>2, JobAssumption DEF EndingLost
        <5>2. CASE job[j] = "queued"
          BY <3>2, <5>2 DEF Pool, Inv, Handled
        <5>3. CASE Processed(j)
          BY <5>3 DEF Processed, Pool, InPool, Working
        <5>4. QED
          BY <5>1, <5>2, <5>3
      <4>3. QED
        BY <3>2, <4>1, <4>2 DEF Runs
    <3>3. QED
      BY <3>1, <3>2, EndFrame
  <2>3. ASSUME NEW r \in Runs, NEW i \in Ids, WorkerRaises(r, i)
        PROVE  Handled' /\ Claims'
    BY <2>3, RaisingKeepsClaims
  <2>4. CASE Crash
    BY <2>4, CrashKeepsClaims
  <2>5. QED
    BY <1>2, <1>4, <1>6, <2>1, <2>2, <2>3, <2>4 DEF Fault
<1>7. CASE UNCHANGED vars
  <2>1. UNCHANGED <<item, attempt, gap, lock, job>>
    BY <1>7 DEF vars
  <2>2. QED
    BY <2>1, Frame
<1>8. ASSUME NEW r \in Runs, NEW i \in Ids, Store(r, i)
      PROVE  Handled' /\ Claims'
  BY <1>8, StoreKeepsClaims
<1>9. CASE Boot
  BY <1>9, BootKeepsClaims
<1>10. QED
  BY <1>1, <1>3, <1>4, <1>5, <1>6, <1>7, <1>8, <1>9 DEF Next

(* The inductive invariant holds of every reachable state.                 *)
LEMMA InvHolds == Spec => []Inv
BY InvInit, InvStep, PTL DEF Spec

(* A circular is in the hands of one worker, which owns its claim.         *)
THEOREM WorkersOwnTheirClaims == Spec => []WorkOwnsItsClaim
<1>1. Inv => WorkOwnsItsClaim
  BY DEF Inv, Claims
<1>2. QED
  BY <1>1, InvHolds, PTL

(* The recovery can find every claim through its running attempt.          *)
THEOREM EveryClaimIsReachable == Spec => []ClaimsAreReachable
<1>1. Inv => ClaimsAreReachable
  BY DEF Inv, Claims
<1>2. QED
  BY <1>1, InvHolds, PTL

(* No gap is running without an owner.                                     *)
THEOREM EveryRunningGapIsClaimed == Spec => []RunningIsClaimed
<1>1. Inv => RunningIsClaimed
  BY DEF Inv, Claims
<1>2. QED
  BY <1>1, InvHolds, PTL

-----------------------------------------------------------------------------
(***************************************************************************)
(* What the queue says of its circulars, and what a backfill may claim.    *)
(***************************************************************************)
(* An audit's findings are those of the corpus it will be published        *)
(* against: the corpus changes only under the lock of another job, or of   *)
(* an operator.                                                            *)

ReportIsCurrent ==
  \A i \in Ids : report[i] # "unlisted" => lock \in Audits /\ report[i] = Finding(i)

(* Backfills and syncs are runs, audits are not, and no job is None.       *)
LEMMA Disjoint ==
  /\ Backfills \subseteq Runs /\ Syncs \subseteq Runs
  /\ Runs \subseteq Jobs /\ Audits \subseteq Jobs
  /\ Audits \intersect Runs = {} /\ Backfills \intersect Syncs = {}
  /\ None \notin Jobs
BY JobAssumption DEF Runs, Jobs

(* A live thread's job holds the lock.                                     *)
LEMMA LiveHoldsLock ==
  ASSUME Inv, NEW j \in live
  PROVE  lock = j /\ j \in Jobs
BY DEF Inv, Typed, OneJob, TypeOK

(* Every step keeps an unpublished report in line with the corpus.         *)
LEMMA ReportStep ==
  ASSUME Inv, ReportIsCurrent, [Next]_vars
  PROVE  ReportIsCurrent'
<1> USE DEF durable, volatile, process
<1>s. ASSUME UNCHANGED <<corpus, clash, report>>, lock' = lock \/ lock \notin Audits
      PROVE  ReportIsCurrent'
  <2>1. \A i \in Ids : Finding(i)' = Finding(i)
    BY <1>s DEF Finding
  <2>2. QED
    BY <1>s, <2>1 DEF ReportIsCurrent
<1>u. ASSUME report' = All("unlisted")
      PROVE  ReportIsCurrent'
  BY <1>u DEF ReportIsCurrent, All
<1>r. ASSUME UNCHANGED report, lock \notin Audits
      PROVE  ReportIsCurrent'
  BY <1>r DEF ReportIsCurrent
<1>1. ASSUME NEW b \in Backfills, BackfillStep(b)
      PROVE  ReportIsCurrent'
  <2>1. CASE EndBackfill(b)
    <3>1. lock = b
      BY <2>1, LiveHoldsLock DEF EndBackfill, BatchDone
    <3>2. QED
      BY <1>s, <2>1, <3>1, Disjoint DEF EndBackfill
  <2>2. CASE BeginBackfill(b) \/ NextBatch(b)
    BY <1>s, <2>2 DEF BeginBackfill, NextBatch
  <2>3. ASSUME NEW i \in Ids, Submit(b, i) \/ CheckGap(b, i) \/ ClaimGap(b, i) \/ FinishGap(b, i)
        PROVE  ReportIsCurrent'
    BY <1>s, <2>3 DEF Submit, CheckGap, ClaimGap, FinishGap
  <2>4. QED
    BY <1>1, <2>1, <2>2, <2>3 DEF BackfillStep
<1>2. ASSUME NEW s \in Syncs, OrdinaryStep(s) \/ SyncFails(s)
      PROVE  ReportIsCurrent'
  <2>1. CASE EndOrdinary(s) \/ SyncFails(s)
    <3>1. lock = s
      BY <2>1, LiveHoldsLock DEF EndOrdinary, SyncFails
    <3>2. QED
      BY <1>s, <2>1, <3>1, Disjoint DEF EndOrdinary, SyncFails
  <2>2. CASE Discover(s)
    BY <1>s, <2>2 DEF Discover
  <2>3. ASSUME NEW i \in Ids, OrdinaryStart(s, i) \/ OrdinaryFinish(s, i)
        PROVE  ReportIsCurrent'
    BY <1>s, <2>3 DEF OrdinaryStart, OrdinaryFinish
  <2>4. QED
    BY <1>2, <2>1, <2>2, <2>3 DEF OrdinaryStep
<1>3. ASSUME NEW a \in Audits, AuditStep(a) \/ AuditFails(a)
      PROVE  ReportIsCurrent'
  <2>1. CASE Reconcile(a)
    <3>1. lock = a /\ lock' = lock /\ UNCHANGED <<corpus, clash>>
      BY <2>1, LiveHoldsLock DEF Reconcile
    <3>2. \A i \in Ids : report'[i] \in {Finding(i), "unlisted"}
      BY <2>1 DEF Reconcile
    <3>3. \A i \in Ids : Finding(i)' = Finding(i)
      BY <3>1 DEF Finding
    <3>4. QED
      BY <3>1, <3>2, <3>3 DEF ReportIsCurrent
  <2>2. CASE PublishAudit(a) \/ AuditFails(a)
    BY <1>u, <2>2 DEF PublishAudit, AuditFails
  <2>3. QED
    BY <1>3, <2>1, <2>2 DEF AuditStep
<1>4. ASSUME NEW r \in Runs, NEW i \in Ids, Store(r, i)
      PROVE  ReportIsCurrent'
  <2>1. lock = r
    BY <1>4, InPoolRuns DEF Store, InPool, Working
  <2>2. QED
    BY <1>4, <1>r, <2>1, Disjoint DEF Store
<1>5. CASE Operator
  <2>1. ASSUME NEW j \in Jobs, Dispatch(j), UNCHANGED <<corpus, clash, report>>
        PROVE  ReportIsCurrent'
    BY <1>s, <2>1, Disjoint DEF Dispatch, LockFree
  <2>2. ASSUME NEW b \in Backfills, StartBackfill(b) \/ CancelBackfill(b)
        PROVE  ReportIsCurrent'
    BY <1>s, <2>1, <2>2, Disjoint DEF StartBackfill, CancelBackfill
  <2>3. ASSUME NEW s \in Syncs, StartSync(s)
        PROVE  ReportIsCurrent'
    BY <2>1, <2>3, Disjoint DEF StartSync
  <2>4. ASSUME NEW a \in Audits, StartAudit(a)
        PROVE  ReportIsCurrent'
    BY <2>1, <2>4, Disjoint DEF StartAudit
  <2>5. ASSUME NEW i \in Ids, Skip(i) \/ Requeue(i)
        PROVE  ReportIsCurrent'
    BY <1>s, <2>5 DEF Skip, Requeue
  <2>6. ASSUME NEW i \in Ids, RemoveLegacy(i)
        PROVE  ReportIsCurrent'
    BY <1>r, <2>6, Disjoint DEF RemoveLegacy, LockFree
  <2>7. CASE EnterMaintenance \/ LeaveMaintenance
    BY <1>s, <2>7 DEF EnterMaintenance, LeaveMaintenance
  <2>8. QED
    BY <1>5, <2>2, <2>3, <2>4, <2>5, <2>6, <2>7 DEF Operator
<1>6. CASE Fault
  BY <1>2, <1>3, <1>6, <1>s, <1>u DEF Fault, RunnerRaises, WorkerRaises, EndingLost, Crash
<1>7. CASE Boot
  BY <1>s, <1>7 DEF Boot
<1>8. CASE UNCHANGED vars
  BY <1>s, <1>8 DEF vars
<1>9. QED
  BY <1>1, <1>2, <1>3, <1>4, <1>5, <1>6, <1>7, <1>8 DEF Next

-----------------------------------------------------------------------------
(* What a step makes of the status of one gap.                             *)

Outcome(i) ==
  /\ gap'[i].status = "resolved" => i \in corpus' \/ (gap[i].status = "resolved" /\ i \notin corpus)
  /\ gap[i].status = "resolved" /\ i \in corpus /\ i \in corpus' /\ i \notin clash
       => gap'[i].status = "resolved"
  /\ gap[i].status = "skipped" /\ lock # None => gap'[i].status \in {"skipped", "resolved"}

(* What an audit publishes of one circular.                                *)
LEMMA PublishedOutcome ==
  ASSUME Inv, ReportIsCurrent, NEW i \in Ids
  PROVE  /\ Published(i).status = "resolved" => i \in corpus \/ gap[i].status = "resolved"
         /\ gap[i].status = "resolved" /\ i \in corpus => Published(i).status = "resolved"
         /\ gap[i].status = "skipped" => Published(i).status \in {"skipped", "resolved"}
<1>1. /\ report[i] = "missing" => i \notin corpus
      /\ report[i] = "matched" => i \in corpus
  BY DEF ReportIsCurrent, Finding
<1>2. gap[i] \in Gap
  BY GapFacts
<1>3. /\ Opened(i) \in Gap
      /\ Opened(i).status = "resolved" => gap[i].status = "resolved"
      /\ gap[i].status = "resolved" /\ i \in corpus => Opened(i).status = "resolved"
      /\ gap[i].status = "skipped" => Opened(i).status = "skipped"
  <2>1. NoGap \in Gap
    BY DEF NoGap, Gap, Statuses
  <2>2. Opened(i) \in Gap
    BY <1>2, <2>1 DEF Opened, Gap, Statuses
  <2>3. report[i] = "missing" /\ gap[i].active = None /\ gap[i].status = "resolved"
          => Opened(i).status = "pending"
    BY <1>2 DEF Opened, Gap
  <2>4. gap[i].status = "skipped" => Opened(i).status = "skipped"
    BY <1>2 DEF Opened, Gap
  <2>5. gap[i].status # "resolved" => Opened(i).status # "resolved"
    BY <1>2, <2>1 DEF Opened, NoGap, Gap
  <2>6. report[i] # "missing" => Opened(i) = gap[i]
    BY DEF Opened
  <2>7. QED
    BY <1>1, <2>2, <2>3, <2>4, <2>5, <2>6
<1>4. \A g \in Gap :
        /\ Settled(g, i).status = "resolved" => i \in corpus
        /\ g.status = "resolved" /\ i \in corpus => Settled(g, i).status = "resolved"
        /\ g.status = "skipped" => Settled(g, i).status \in {"skipped", "resolved"}
  BY <1>1 DEF Settled, Gap
<1>5. QED
  BY <1>3, <1>4 DEF Published

(* Every step treats a gap's status and the corpus as Outcome says.        *)
LEMMA OutcomeStep ==
  ASSUME Inv, ReportIsCurrent, [Next]_vars, NEW k \in Ids
  PROVE  Outcome(k)
<1> USE DEF durable, volatile, process
<1>g. DOMAIN gap = Ids /\ \A i \in Ids : gap[i] \in Gap
  BY GapFacts
<1>s. ASSUME gap'[k].status = gap[k].status, corpus \subseteq corpus'
      PROVE  Outcome(k)
  BY <1>s DEF Outcome
<1>1. ASSUME NEW b \in Backfills, BackfillStep(b)
      PROVE  Outcome(k)
  <2>1. CASE BeginBackfill(b) \/ NextBatch(b) \/ EndBackfill(b)
    BY <1>s, <2>1 DEF BeginBackfill, NextBatch, EndBackfill
  <2>2. ASSUME NEW i \in Ids, Submit(b, i)
        PROVE  Outcome(k)
    BY <1>s, <2>2 DEF Submit
  <2>3. ASSUME NEW i \in Ids, CheckGap(b, i)
        PROVE  Outcome(k)
    <3>1. corpus' = corpus
      BY <2>3 DEF CheckGap
    <3>2. CASE gap' = gap \/ gap' = [gap EXCEPT ![i].eligible = FALSE]
      BY <1>g, <1>s, <3>1, <3>2 DEF Gap
    <3>3. CASE /\ gap[i].status \in {"pending", "failed"} /\ Finding(i) = "matched"
               /\ gap' = [gap EXCEPT ![i].status = "resolved"]
      <4>1. gap'[k].status = IF k = i THEN "resolved" ELSE gap[k].status
        BY <1>g, <3>3 DEF Gap
      <4>2. i \in corpus
        BY <3>3 DEF Finding
      <4>3. QED
        BY <3>1, <3>3, <4>1, <4>2 DEF Outcome
    <3>4. QED
      BY <2>3, <3>2, <3>3 DEF CheckGap
  <2>4. ASSUME NEW i \in Ids, ClaimGap(b, i)
        PROVE  Outcome(k)
    <3>1. corpus' = corpus
      BY <2>4 DEF ClaimGap
    <3>2. CASE gap' = gap
      BY <1>s, <3>1, <3>2
    <3>3. CASE /\ gap[i].status \in {"pending", "failed"}
               /\ gap' = [gap EXCEPT ![i] = Claimed(gap[i], b)]
      <4>1. gap'[k].status = IF k = i THEN "running" ELSE gap[k].status
        BY <1>g, <3>3 DEF Claimed, Gap
      <4>2. QED
        BY <3>1, <3>3, <4>1 DEF Outcome
    <3>4. QED
      BY <2>4, <3>2, <3>3 DEF ClaimGap
  <2>5. ASSUME NEW i \in Ids, FinishGap(b, i)
        PROVE  Outcome(k)
    <3>1. gap[i].status = "running" /\ corpus' = corpus
      BY <2>5, Disjoint DEF FinishGap, Inv, Claims, WorkOwnsItsClaim
    <3>2. gap'[k].status = IF k = i THEN IF Present(i) THEN "resolved" ELSE "failed"
                                    ELSE gap[k].status
      BY <1>g, <2>5 DEF FinishGap, Recorded, Gap
    <3>3. Present(i) => i \in corpus
      BY DEF Present, Finding
    <3>4. QED
      BY <3>1, <3>2, <3>3 DEF Outcome
  <2>6. QED
    BY <1>1, <2>1, <2>2, <2>3, <2>4, <2>5 DEF BackfillStep
<1>2. ASSUME NEW s \in Syncs, OrdinaryStep(s)
      PROVE  Outcome(k)
  <2>1. CASE Discover(s) \/ EndOrdinary(s)
    BY <1>s, <2>1 DEF Discover, EndOrdinary
  <2>2. ASSUME NEW i \in Ids, OrdinaryStart(s, i)
        PROVE  Outcome(k)
    <3> DEFINE n == gap[i].attempts + 1
               g == [gap[i] EXCEPT !.active = s, !.attempts = n]
    <3> HIDE DEF n
    <3>0. g.status = gap[i].status
      BY <1>g DEF Gap
    <3> HIDE DEF g
    <3>1. gap'[k].status = gap[k].status
      BY <1>g, <2>2, <3>0 DEF OrdinaryStart, g, n
    <3>2. QED
      BY <1>s, <2>2, <3>1 DEF OrdinaryStart
  <2>3. ASSUME NEW i \in Ids, OrdinaryFinish(s, i)
        PROVE  Outcome(k)
    <3>1. corpus' = corpus /\ gap'[k] = IF k = i THEN AfterOrdinary(gap[i], i) ELSE gap[k]
      BY <1>g, <2>3 DEF OrdinaryFinish
    <3>2. /\ AfterOrdinary(gap[i], i).status = "resolved" => i \in corpus
          /\ gap[i].status = "resolved" /\ i \in corpus /\ i \notin clash
               => AfterOrdinary(gap[i], i).status = "resolved"
          /\ gap[i].status = "skipped" => AfterOrdinary(gap[i], i).status \in {"skipped", "resolved"}
      BY <1>g DEF AfterOrdinary, Present, Finding, Gap
    <3>3. QED
      BY <3>1, <3>2 DEF Outcome
  <2>4. QED
    BY <1>2, <2>1, <2>2, <2>3 DEF OrdinaryStep
<1>3. ASSUME NEW a \in Audits, AuditStep(a)
      PROVE  Outcome(k)
  <2>1. CASE Reconcile(a)
    BY <1>s, <2>1 DEF Reconcile
  <2>2. CASE PublishAudit(a)
    BY <2>2, PublishedOutcome DEF PublishAudit, Outcome
  <2>3. QED
    BY <1>3, <2>1, <2>2 DEF AuditStep
<1>4. ASSUME NEW r \in Runs, NEW i \in Ids, Store(r, i)
      PROVE  Outcome(k)
  BY <1>4, <1>s DEF Store
<1>5. CASE Operator
  <2>1. CASE \E b \in Backfills : StartBackfill(b) \/ CancelBackfill(b)
    BY <1>s, <2>1 DEF StartBackfill, CancelBackfill
  <2>2. CASE \E s \in Syncs : StartSync(s)
    BY <1>s, <2>2 DEF StartSync
  <2>3. CASE \E a \in Audits : StartAudit(a)
    BY <1>s, <2>3 DEF StartAudit
  <2>4. ASSUME NEW i \in Ids, Skip(i) \/ Requeue(i)
        PROVE  Outcome(k)
    <3>1. lock = None /\ corpus' = corpus /\ gap[i].status \in {"pending", "failed", "skipped"}
      BY <2>4 DEF Skip, Requeue, Skippable, LockFree
    <3>2. gap'[k].status = gap[k].status \/ (k = i /\ gap'[k].status \in {"skipped", "pending"})
      <4>1. CASE gap' = [gap EXCEPT ![i].status = "skipped"]
        BY <1>g, <4>1 DEF Gap
      <4>2. CASE gap' = [gap EXCEPT ![i].status = "pending", ![i].failures = 0]
        BY <1>g, <4>2 DEF Gap
      <4>3. QED
        BY <2>4, <4>1, <4>2 DEF Skip, Requeue
    <3>3. QED
      BY <3>1, <3>2 DEF Outcome
  <2>5. ASSUME NEW i \in Ids, RemoveLegacy(i)
        PROVE  Outcome(k)
    <3>1. /\ lock = None /\ i \in corpus /\ corpus' = corpus \ {i}
          /\ gap'[k] = IF k = i THEN Reopened(gap[i]) ELSE gap[k]
      BY <1>g, <2>5 DEF RemoveLegacy, LockFree
    <3>2. Reopened(gap[i]).status # "resolved"
      BY <1>g DEF Reopened, Gap
    <3>3. QED
      BY <3>1, <3>2 DEF Outcome
  <2>6. CASE EnterMaintenance \/ LeaveMaintenance
    BY <1>s, <2>6 DEF EnterMaintenance, LeaveMaintenance
  <2>7. QED
    BY <1>5, <2>1, <2>2, <2>3, <2>4, <2>5, <2>6 DEF Operator
<1>6. CASE Fault
  BY <1>6, <1>s DEF Fault, RunnerRaises, SyncFails, AuditFails, WorkerRaises, EndingLost, Crash
<1>7. CASE Boot
  <2>1. lock = None /\ corpus' = corpus
    BY <1>7 DEF Boot, Inv, DownIsUnlocked
  <2>2. CASE gap' = gap
    BY <1>s, <2>1, <2>2
  <2>3. CASE gap'[k] = Interrupted(k)
    <3>1. /\ Interrupted(k).status = "resolved" => Present(k) \/ gap[k].status = "resolved"
          /\ gap[k].status = "resolved" /\ Present(k) => Interrupted(k).status = "resolved"
      BY <1>g DEF Interrupted, Gap
    <3>2. QED
      BY <2>1, <2>3, <3>1 DEF Outcome, Present, Finding
  <2>4. QED
    BY <1>7, <2>2, <2>3 DEF Boot, Recover
<1>8. CASE UNCHANGED vars
  BY <1>s, <1>8 DEF vars
<1>9. QED
  BY <1>1, <1>2, <1>3, <1>4, <1>5, <1>6, <1>7, <1>8 DEF Next

-----------------------------------------------------------------------------
OutcomeInv == Inv /\ ReportIsCurrent /\ ResolvedIsHeld

(* Presence, resolutions and reports are consistent in every reachable state.*)
LEMMA OutcomeInvHolds == Spec => []OutcomeInv
<1>1. Init => OutcomeInv
  <2>1. Init => ReportIsCurrent /\ ResolvedIsHeld
    BY DEF Init, ReportIsCurrent, ResolvedIsHeld, All, NoGap
  <2>2. QED
    BY <2>1, InvInit DEF OutcomeInv
<1>2. OutcomeInv /\ [Next]_vars => OutcomeInv'
  <2> SUFFICES ASSUME OutcomeInv, [Next]_vars PROVE OutcomeInv'
    OBVIOUS
  <2>1. \A k \in Ids : Outcome(k)
    BY OutcomeStep DEF OutcomeInv
  <2>2. ResolvedIsHeld'
    BY <2>1 DEF Outcome, OutcomeInv, ResolvedIsHeld
  <2>3. QED
    BY <2>2, InvStep, ReportStep DEF OutcomeInv
<1>3. QED
  BY <1>1, <1>2, PTL DEF Spec

(* A circular the queue calls resolved is in the corpus.                   *)
THEOREM ResolvedCircularsAreHeld == Spec => []ResolvedIsHeld
<1>1. OutcomeInv => ResolvedIsHeld
  BY DEF OutcomeInv
<1>2. QED
  BY <1>1, OutcomeInvHolds, PTL

(* A circular the corpus holds is not offered to a backfill again.         *)
THEOREM HeldCircularsStayResolved == Spec => HeldStaysResolved
<1>1. OutcomeInv /\ [Next]_vars
        => [\A i \in Ids : gap[i].status = "resolved" /\ i \in corpus' /\ i \notin clash =>
              gap'[i].status = "resolved"]_vars
  <2> SUFFICES ASSUME OutcomeInv, [Next]_vars, NEW i \in Ids,
                      gap[i].status = "resolved", i \in corpus', i \notin clash
               PROVE  gap'[i].status = "resolved"
    OBVIOUS
  <2>1. Outcome(i)
    BY OutcomeStep DEF OutcomeInv
  <2>2. QED
    BY <2>1 DEF Outcome, OutcomeInv, ResolvedIsHeld
<1>2. QED
  BY <1>1, OutcomeInvHolds, PTL DEF Spec, HeldStaysResolved

(* No job undoes an operator's skip.                                       *)
THEOREM NoJobUndoesASkip == Spec => JobsRespectSkips
<1>1. OutcomeInv /\ [Next]_vars
        => [\A i \in Ids : gap[i].status = "skipped" /\ lock # None =>
              gap'[i].status \in {"skipped", "resolved"}]_vars
  BY OutcomeStep DEF OutcomeInv, Outcome
<1>2. QED
  BY <1>1, OutcomeInvHolds, PTL DEF Spec, JobsRespectSkips

-----------------------------------------------------------------------------
(* What a backfill holds in memory of a circular is still true of it: no   *)
(* other job, operator or audit could change its gap since.                *)

Due(b, i) ==
  /\ item[b][i] \in Unattempted =>
       i \in Request[b].scope /\ gap[i].failures < Request[b].maxAttempts
  /\ item[b][i] = "checked" => gap[i].eligible /\ i \notin corpus
  /\ item[b][i] = "raised" => stop[b] = "fatal"

SelectionIsDue == \A b \in Backfills, i \in Ids : lock = b => Due(b, i)

(* Every step keeps what is selected and unsubmitted due.                  *)
LEMMA DueStep ==
  ASSUME Inv, SelectionIsDue, [Next]_vars
  PROVE  SelectionIsDue'
<1> USE DEF durable, volatile, process
<1> SUFFICES ASSUME NEW b \in Backfills, NEW k \in Ids, lock' = b
             PROVE  Due(b, k)'
  BY DEF SelectionIsDue
<1>g. DOMAIN gap = Ids /\ \A i \in Ids : gap[i] \in Gap
  BY GapFacts
<1>b. b \in Runs /\ b \in Jobs /\ b # None /\ b \notin Syncs /\ b \notin Audits
  BY Disjoint
<1>m. item \in [Runs -> [Ids -> Phases]] /\ stop \in [Backfills -> {"no", "cancelled", "fatal"}]
  BY DEF Inv, Typed, TypeOK
<1>u. ASSUME lock = b PROVE Due(b, k)
  BY <1>u DEF SelectionIsDue
<1>s. ASSUME lock = b, UNCHANGED <<item, gap, corpus>>, stop'[b] = stop[b] \/ stop[b] # "fatal"
      PROVE  Due(b, k)'
  BY <1>u, <1>s DEF Due
(* A worker of this backfill moves on with one circular.                   *)
<1>w. ASSUME NEW i \in Ids, NEW ph, Move(b, i, ph), lock = b,
             corpus' = corpus \/ corpus' = corpus \union {i},
             \A j \in Ids : j # i => gap'[j] = gap[j], stop'[b] \in {stop[b], "fatal"},
             ph \in Unattempted => /\ gap'[i].failures = gap[i].failures
                                   /\ item[b][i] \in Unattempted,
             ph = "checked" => gap'[i].eligible /\ i \notin corpus',
             ph = "raised" => stop'[b] = "fatal"
      PROVE  Due(b, k)'
  <2>1. \A j \in Ids : item'[b][j] = IF j = i THEN ph ELSE item[b][j]
    BY <1>b, <1>w, MoveEffect DEF Inv, Typed
  <2>2. CASE k = i
    BY <1>u, <1>w, <2>1, <2>2 DEF Due
  <2>3. CASE k # i
    BY <1>u, <1>w, <2>1, <2>3 DEF Due
  <2>4. QED
    BY <2>2, <2>3
<1>p. ASSUME NEW r \in Runs, NEW i \in Ids, item[r][i] \in InPool, lock' = lock
      PROVE  r = b /\ lock = b
  BY <1>p, InPoolRuns
<1>l. ASSUME NEW j \in live, lock' = lock
      PROVE  j = b /\ lock = b
  BY <1>l, LiveHoldsLock
<1>1. ASSUME NEW c \in Backfills, BackfillStep(c)
      PROVE  Due(b, k)'
  <2>1. CASE BeginBackfill(c)
    <3>1. lock = b
      BY <2>1 DEF BeginBackfill
    <3>2. QED
      BY <1>s, <2>1, <3>1 DEF BeginBackfill
  <2>2. CASE EndBackfill(c)
    BY <1>b, <2>2 DEF EndBackfill, EndJob
  <2>3. CASE NextBatch(c)
    <3>1. c = b /\ lock = b /\ UNCHANGED <<gap, corpus, stop>>
      BY <1>l, <2>3 DEF NextBatch, BatchDone
    <3>2. \/ item'[b][k] = item[b][k]
          \/ item[b][k] = "waiting" /\ item'[b][k] = "batched"
          \/ item'[b][k] = "done"
      <4>1. PICK batch \in Front(At(b, "waiting"), Request[b].size) \ {{}} :
              item' = [item EXCEPT ![b] =
                         [i \in Ids |-> CASE i \in batch -> "batched"
                                          [] item[b][i] \in Results -> "done"
                                          [] OTHER -> item[b][i]]]
        BY <2>3, <3>1 DEF NextBatch
      <4>2. k \in batch => item[b][k] = "waiting"
        BY DEF Front, At
      <4>3. item'[b][k] = CASE k \in batch -> "batched"
                            [] item[b][k] \in Results -> "done"
                            [] OTHER -> item[b][k]
        BY <1>b, <1>m, <4>1
      <4>4. "waiting" \notin Results
        BY DEF Results
      <4>5. QED
        BY <4>2, <4>3, <4>4
    <3>3. QED
      BY <1>u, <3>1, <3>2 DEF Due, Unattempted
  <2>4. ASSUME NEW i \in Ids, Submit(c, i)
        PROVE  Due(b, k)'
    <3>1. c = b /\ lock = b /\ UNCHANGED <<gap, corpus, stop>>
      BY <1>l, <2>4 DEF Submit
    <3>2. item[b][i] \in Unattempted /\ Move(b, i, "submitted")
      BY <2>4, <3>1 DEF Submit, Unattempted
    <3>3. QED
      BY <1>w, <3>1, <3>2
  <2>5. ASSUME NEW i \in Ids, CheckGap(c, i)
        PROVE  Due(b, k)'
    <3>1. c = b /\ lock = b /\ UNCHANGED <<corpus, stop>>
      BY <1>p, <2>5, Disjoint DEF CheckGap, InPool
    <3>2. item[b][i] \in Unattempted /\ "held" \notin Unattempted /\ "present" \notin Unattempted
      BY <2>5, <3>1 DEF CheckGap, Unattempted
    <3>3. \A j \in Ids : j # i => gap'[j] = gap[j]
      BY <1>g, <2>5 DEF CheckGap
    <3>4. CASE Move(b, i, "held") \/ Move(b, i, "present")
      BY <1>w, <3>1, <3>2, <3>3, <3>4
    <3>5. CASE /\ gap[i].eligible /\ Finding(i) = "missing"
               /\ Move(b, i, "checked") /\ gap' = gap
      <4>1. i \notin corpus
        BY <3>5 DEF Finding
      <4>2. QED
        BY <1>w, <3>1, <3>2, <3>3, <3>5, <4>1
    <3>6. QED
      BY <2>5, <3>1, <3>4, <3>5 DEF CheckGap
  <2>6. ASSUME NEW i \in Ids, ClaimGap(c, i) \/ FinishGap(c, i)
        PROVE  Due(b, k)'
    <3>1. c = b /\ lock = b /\ UNCHANGED <<corpus, stop>>
      BY <1>p, <2>6, Disjoint DEF ClaimGap, FinishGap, InPool
    <3>2. PICK ph \in {"held", "claimed", "bad", "ok"} : Move(b, i, ph)
      BY <2>6, <3>1 DEF ClaimGap, FinishGap
    <3>3. ph \notin Unattempted /\ ph # "checked" /\ ph # "raised"
      BY DEF Unattempted
    <3>4. \A j \in Ids : j # i => gap'[j] = gap[j]
      BY <1>g, <2>6 DEF ClaimGap, FinishGap
    <3>5. QED
      BY <1>w, <3>1, <3>2, <3>3, <3>4
  <2>7. QED
    BY <1>1, <2>1, <2>2, <2>3, <2>4, <2>5, <2>6 DEF BackfillStep
<1>2. ASSUME NEW s \in Syncs, OrdinaryStep(s) \/ SyncFails(s)
      PROVE  Due(b, k)'
  <2>1. CASE EndOrdinary(s) \/ SyncFails(s)
    BY <1>b, <2>1 DEF EndOrdinary, SyncFails, EndJob
  <2>2. CASE Discover(s)
    BY <1>b, <1>l, <2>2 DEF Discover
  <2>3. ASSUME NEW i \in Ids, OrdinaryStart(s, i) \/ OrdinaryFinish(s, i)
        PROVE  Due(b, k)'
    BY <1>b, <1>p, <2>3, Disjoint DEF OrdinaryStart, OrdinaryFinish, InPool
  <2>4. QED
    BY <1>2, <2>1, <2>2, <2>3 DEF OrdinaryStep
<1>3. ASSUME NEW a \in Audits, AuditStep(a) \/ AuditFails(a)
      PROVE  Due(b, k)'
  BY <1>3, <1>b, <1>l DEF AuditStep, Reconcile, PublishAudit, AuditFails, EndJob
<1>4. ASSUME NEW r \in Runs, NEW i \in Ids, Store(r, i) \/ WorkerRaises(r, i)
      PROVE  Due(b, k)'
  <2>1. r = b /\ lock = b /\ UNCHANGED gap
    BY <1>4, <1>p DEF Store, WorkerRaises, InPool, Working
  <2>2. CASE Store(r, i)
    <3>1. "stored" \notin Unattempted
      BY DEF Unattempted
    <3>2. QED
      BY <1>w, <2>1, <2>2, <3>1 DEF Store
  <2>3. CASE WorkerRaises(r, i)
    <3>1. stop'[b] = "fatal" /\ corpus' = corpus /\ Move(b, i, "raised")
      BY <2>1, <2>3 DEF WorkerRaises
    <3>2. "raised" \notin Unattempted
      BY DEF Unattempted
    <3>3. QED
      BY <1>w, <2>1, <3>1, <3>2
  <2>4. QED
    BY <1>4, <2>2, <2>3
<1>5. CASE Operator
  <2>1. ASSUME NEW c \in Backfills, StartBackfill(c)
        PROVE  Due(b, k)'
    <3>1. lock' \in {c, None}
      BY <2>1 DEF StartBackfill, Dispatch, LockFree
    <3>2. c = b /\ UNCHANGED <<gap, corpus>>
      BY <1>b, <2>1, <3>1 DEF StartBackfill
    <3>3. PICK sel \in Selections(Request[b]) \ {{}} :
            item' = [item EXCEPT ![b] = [i \in Ids |-> IF i \in sel THEN "waiting" ELSE "none"]]
      BY <2>1, <3>2 DEF StartBackfill
    <3>4. item'[b][k] = IF k \in sel THEN "waiting" ELSE "none"
      BY <1>b, <1>m, <3>3
    <3>5. sel \subseteq Candidates(Request[b])
      BY DEF Selections, Front
    <3>6. k \in sel => k \in Request[b].scope /\ gap[k].failures < Request[b].maxAttempts
      BY <3>5 DEF Candidates
    <3>7. QED
      BY <3>2, <3>4, <3>6 DEF Due, Unattempted
  <2>2. ASSUME NEW c \in Backfills, CancelBackfill(c)
        PROVE  Due(b, k)'
    <3>1. lock = b /\ UNCHANGED <<item, gap, corpus>>
      BY <2>2 DEF CancelBackfill
    <3>2. stop'[b] = stop[b] \/ stop[b] # "fatal"
      BY <1>m, <2>2 DEF CancelBackfill
    <3>3. QED
      BY <1>s, <3>1, <3>2
  <2>3. ASSUME NEW j \in Syncs \union Audits, Dispatch(j)
        PROVE  Due(b, k)'
    BY <1>b, <2>3 DEF Dispatch, LockFree
  <2>4. ASSUME NEW i \in Ids, Skip(i) \/ Requeue(i) \/ RemoveLegacy(i)
        PROVE  Due(b, k)'
    BY <1>b, <2>4 DEF Skip, Requeue, RemoveLegacy, Skippable, LockFree
  <2>5. CASE EnterMaintenance \/ LeaveMaintenance
    <3>1. lock = b
      BY <2>5 DEF EnterMaintenance, LeaveMaintenance
    <3>2. QED
      BY <1>s, <2>5, <3>1 DEF EnterMaintenance, LeaveMaintenance
  <2>6. QED
    BY <1>5, <2>1, <2>2, <2>3, <2>4, <2>5 DEF Operator, StartSync, StartAudit
<1>6. CASE Fault
  <2>1. ASSUME NEW c \in Backfills, RunnerRaises(c)
        PROVE  Due(b, k)'
    <3>1. lock = b /\ UNCHANGED <<item, gap, corpus>>
      BY <2>1 DEF RunnerRaises
    <3>2. stop'[b] = stop[b] \/ stop[b] # "fatal"
      BY <1>m, <2>1 DEF RunnerRaises
    <3>3. QED
      BY <1>s, <3>1, <3>2
  <2>2. CASE Crash \/ \E j \in Jobs : EndingLost(j)
    BY <1>b, <2>2 DEF Crash, EndingLost
  <2>3. QED
    BY <1>2, <1>3, <1>4, <1>6, <2>1, <2>2 DEF Fault
<1>7. CASE Boot
  BY <1>7, <1>b DEF Boot, Inv, DownIsUnlocked
<1>8. CASE UNCHANGED vars
  <2>1. lock = b
    BY <1>8 DEF vars
  <2>2. QED
    BY <1>8, <1>s, <2>1 DEF vars
<1>9. QED
  BY <1>1, <1>2, <1>3, <1>4, <1>5, <1>6, <1>7, <1>8 DEF Next

(* A gap is claimed for a backfill by its compare-and-set alone.           *)
LEMMA ClaimStep ==
  ASSUME Inv, [Next]_vars, NEW k \in Ids
  PROVE  \/ gap'[k].active \in {gap[k].active, None} \union Syncs
         \/ \E c \in Backfills : ClaimGap(c, k) /\ gap'[k].active = c
<1> USE DEF durable, volatile, process
<1> DEFINE Kept == gap'[k].active \in {gap[k].active, None} \union Syncs
<1> SUFFICES ASSUME ~ \E c \in Backfills : ClaimGap(c, k) /\ gap'[k].active = c
             PROVE  Kept
  OBVIOUS
<1>g. DOMAIN gap = Ids /\ \A i \in Ids : gap[i] \in Gap
  BY GapFacts
<1>s. ASSUME gap'[k] = gap[k] PROVE Kept
  BY <1>s
<1>1. ASSUME NEW b \in Backfills, BackfillStep(b)
      PROVE  Kept
  <2>1. CASE BeginBackfill(b) \/ NextBatch(b) \/ EndBackfill(b)
    BY <1>s, <2>1 DEF BeginBackfill, NextBatch, EndBackfill
  <2>2. ASSUME NEW i \in Ids, Submit(b, i)
        PROVE  Kept
    BY <1>s, <2>2 DEF Submit
  <2>3. ASSUME NEW i \in Ids, CheckGap(b, i)
        PROVE  Kept
    <3>1. CASE gap' = gap
      BY <1>s, <3>1
    <3>2. CASE gap' = [gap EXCEPT ![i].eligible = FALSE]
      BY <1>g, <3>2 DEF Gap
    <3>3. CASE gap' = [gap EXCEPT ![i].status = "resolved"]
      BY <1>g, <3>3 DEF Gap
    <3>4. QED
      BY <2>3, <3>1, <3>2, <3>3 DEF CheckGap
  <2>4. ASSUME NEW i \in Ids, ClaimGap(b, i)
        PROVE  Kept
    <3>1. CASE i # k
      BY <1>g, <1>s, <2>4, <3>1 DEF ClaimGap
    <3>2. CASE i = k /\ gap' = gap
      BY <1>s, <3>2
    <3>3. CASE i = k /\ gap' = [gap EXCEPT ![i] = Claimed(gap[i], b)]
      <4>1. Claimed(gap[k], b).active = b
        BY <1>g DEF Claimed, Gap
      <4>2. QED
        BY <1>g, <2>4, <3>3, <4>1
    <3>4. QED
      BY <2>4, <3>1, <3>2, <3>3 DEF ClaimGap
  <2>5. ASSUME NEW i \in Ids, FinishGap(b, i)
        PROVE  Kept
    BY <1>g, <2>5 DEF FinishGap, Recorded, Gap
  <2>6. QED
    BY <1>1, <2>1, <2>2, <2>3, <2>4, <2>5 DEF BackfillStep
<1>2. ASSUME NEW s \in Syncs, OrdinaryStep(s)
      PROVE  Kept
  <2>1. CASE Discover(s) \/ EndOrdinary(s)
    BY <1>s, <2>1 DEF Discover, EndOrdinary
  <2>2. ASSUME NEW i \in Ids, OrdinaryStart(s, i)
        PROVE  Kept
    <3> DEFINE n == gap[i].attempts + 1
               g == [gap[i] EXCEPT !.active = s, !.attempts = n]
    <3> HIDE DEF n
    <3>1. g.active = s
      BY <1>g DEF Gap
    <3> HIDE DEF g
    <3>2. gap' = gap \/ gap' = [gap EXCEPT ![i] = g]
      BY <2>2 DEF OrdinaryStart, g, n
    <3>3. QED
      BY <1>g, <3>1, <3>2
  <2>3. ASSUME NEW i \in Ids, OrdinaryFinish(s, i)
        PROVE  Kept
    <3>1. AfterOrdinary(gap[i], i).active \in {gap[i].active, None}
      BY <1>g DEF AfterOrdinary, Gap
    <3>2. QED
      BY <1>g, <2>3, <3>1 DEF OrdinaryFinish
  <2>4. QED
    BY <1>2, <2>1, <2>2, <2>3 DEF OrdinaryStep
<1>3. ASSUME NEW a \in Audits, AuditStep(a)
      PROVE  Kept
  <2>1. CASE Reconcile(a)
    BY <1>s, <2>1 DEF Reconcile
  <2>2. CASE PublishAudit(a)
    <3>1. Opened(k) \in Gap /\ Opened(k).active \in {gap[k].active, None}
      BY <1>g DEF Opened, NoGap, Gap, Statuses
    <3>2. \A g \in Gap : Settled(g, k).active = g.active
      BY DEF Settled, Gap
    <3>3. QED
      BY <2>2, <3>1, <3>2 DEF PublishAudit, Published
  <2>3. QED
    BY <1>3, <2>1, <2>2 DEF AuditStep
<1>4. ASSUME NEW r \in Runs, NEW i \in Ids, Store(r, i)
      PROVE  Kept
  BY <1>4, <1>s DEF Store
<1>5. CASE Operator
  <2>1. CASE \E b \in Backfills : StartBackfill(b) \/ CancelBackfill(b)
    BY <1>s, <2>1 DEF StartBackfill, CancelBackfill
  <2>2. CASE \/ \E s \in Syncs : StartSync(s)
             \/ \E a \in Audits : StartAudit(a)
    BY <1>s, <2>2 DEF StartSync, StartAudit
  <2>3. ASSUME NEW i \in Ids, Skip(i) \/ Requeue(i) \/ RemoveLegacy(i)
        PROVE  Kept
    <3>1. CASE gap' = [gap EXCEPT ![i].status = "skipped"]
      BY <1>g, <3>1 DEF Gap
    <3>2. CASE gap' = [gap EXCEPT ![i].status = "pending", ![i].failures = 0]
      BY <1>g, <3>2 DEF Gap
    <3>3. CASE gap' = [gap EXCEPT ![i] = Reopened(gap[i])]
      BY <1>g, <3>3 DEF Reopened, Gap
    <3>4. QED
      BY <2>3, <3>1, <3>2, <3>3 DEF Skip, Requeue, RemoveLegacy
  <2>4. CASE EnterMaintenance \/ LeaveMaintenance
    BY <1>s, <2>4 DEF EnterMaintenance, LeaveMaintenance
  <2>5. QED
    BY <1>5, <2>1, <2>2, <2>3, <2>4 DEF Operator
<1>6. CASE Fault
  BY <1>6, <1>s DEF Fault, RunnerRaises, SyncFails, AuditFails, WorkerRaises, EndingLost, Crash
<1>7. CASE Boot
  <2>1. Interrupted(k).active \in {gap[k].active, None}
    BY <1>g DEF Interrupted, Gap
  <2>2. QED
    BY <1>7, <1>s, <2>1 DEF Boot, Recover
<1>8. CASE UNCHANGED vars
  BY <1>s, <1>8 DEF vars
<1>9. QED
  BY <1>1, <1>2, <1>3, <1>4, <1>5, <1>6, <1>7, <1>8 DEF Next

(* What is selected and unsubmitted is due in every reachable state.       *)
LEMMA DueHolds == Spec => [](Inv /\ SelectionIsDue)
<1>1. Init => SelectionIsDue
  BY Disjoint DEF Init, SelectionIsDue
<1>2. QED
  BY <1>1, InvInit, InvStep, DueStep, PTL DEF Spec

(* A backfill claims only what its selection was for, as things stand when *)
(* it claims.                                                              *)
THEOREM BackfillsClaimOnlyWhatIsDue == Spec => ClaimsAreDue
<1>1. Inv /\ SelectionIsDue /\ [Next]_vars
        => [\A b \in Backfills, i \in Ids :
              gap[i].active # b /\ gap'[i].active = b =>
                /\ i \in Request[b].scope /\ i \notin corpus
                /\ gap[i].eligible /\ gap[i].failures < Request[b].maxAttempts]_vars
  <2> SUFFICES ASSUME Inv, SelectionIsDue, [Next]_vars, NEW b \in Backfills, NEW i \in Ids,
                      gap[i].active # b, gap'[i].active = b
               PROVE  /\ i \in Request[b].scope /\ i \notin corpus
                      /\ gap[i].eligible /\ gap[i].failures < Request[b].maxAttempts
    OBVIOUS
  <2>1. ClaimGap(b, i)
    BY ClaimStep, Disjoint
  <2>2. item[b][i] = "checked" /\ lock = b
    BY <2>1, InPoolRuns, Disjoint DEF ClaimGap, InPool
  <2>3. Due(b, i)
    BY <2>2 DEF SelectionIsDue
  <2>4. QED
    BY <2>2, <2>3 DEF Due, Unattempted
<1>2. QED
  BY <1>1, DueHolds, PTL DEF Spec, ClaimsAreDue

-----------------------------------------------------------------------------
(* The end of a backfill, and of a server's life.                          *)

LEMMA SuccessStep ==
  ASSUME Inv, SelectionIsDue, SuccessMeansExhausted, [Next]_vars
  PROVE  SuccessMeansExhausted'
<1> USE DEF durable, volatile, process
<1> DEFINE Left == {"none", "done"} \union Results
<1> SUFFICES ASSUME NEW b \in Backfills, job'[b] = "success", NEW k \in Ids
             PROVE  item'[b][k] \in Left
  BY DEF SuccessMeansExhausted
<1>b. b \in Runs /\ b \in Jobs /\ b # None /\ b \notin Syncs /\ b \notin Audits
  BY Disjoint
<1>m. item \in [Runs -> [Ids -> Phases]] /\ job \in [Jobs -> JobStatuses]
  BY DEF Inv, Typed, TypeOK
<1>s. ASSUME job[b] = "success", item'[b][k] = item[b][k]
      PROVE  item'[b][k] \in Left
  BY <1>s DEF SuccessMeansExhausted
<1>w. ASSUME NEW r \in Runs, NEW i \in Ids, NEW ph, Move(r, i, ph), job[r] = "running", job' = job
      PROVE  item'[b][k] \in Left
  BY <1>b, <1>s, <1>w, MoveEffect DEF Inv, Typed
<1>j. ASSUME NEW j \in Jobs, NEW st, job' = [job EXCEPT ![j] = st], st # "success" \/ j # b
      PROVE  job[b] = "success"
  BY <1>b, <1>j, <1>m
<1>1. ASSUME NEW c \in Backfills, BackfillStep(c)
      PROVE  item'[b][k] \in Left
  <2>c. c \in Runs /\ c \in Jobs
    BY Disjoint
  <2>1. CASE BeginBackfill(c)
    BY <1>j, <1>s, <2>1, <2>c DEF BeginBackfill
  <2>2. CASE EndBackfill(c)
    <3>1. CASE c = b /\ Exhausted(b)
      <4>1. /\ item[b][k] \notin InPool
            /\ item[b][k] # "batched" /\ item[b][k] # "waiting"
            /\ lock = b /\ stop[b] = "no"
        BY <2>2, <3>1, LiveHoldsLock DEF EndBackfill, BatchDone, Exhausted, Pool, At
      <4>2. item[b][k] # "raised"
        BY <4>1 DEF SelectionIsDue, Due
      <4>3. item[b][k] \in Phases
        BY <1>b, <1>m
      <4>4. item' = item
        BY <2>2 DEF EndBackfill
      <4>5. QED
        BY <4>1, <4>2, <4>3, <4>4 DEF Phases, Results
    <3>2. CASE c # b \/ ~Exhausted(b)
      <4>1. PICK st \in {"success", "failed"} :
              job' = [job EXCEPT ![c] = st] /\ (st # "success" \/ c # b)
        BY <2>2, <3>2 DEF EndBackfill, EndJob
      <4>2. QED
        BY <1>j, <1>s, <2>2, <2>c, <4>1 DEF EndBackfill
    <3>3. QED
      BY <3>1, <3>2
  <2>3. CASE NextBatch(c)
    <3>1. job[c] = "running" /\ job' = job
      BY <2>3 DEF NextBatch, BatchDone
    <3>2. item'[b] = item[b]
      BY <1>b, <1>m, <2>3, <3>1 DEF NextBatch
    <3>3. QED
      BY <1>s, <3>1, <3>2
  <2>4. ASSUME NEW i \in Ids, Submit(c, i) \/ CheckGap(c, i) \/ ClaimGap(c, i) \/ FinishGap(c, i)
        PROVE  item'[b][k] \in Left
    <3>1. PICK ph : Move(c, i, ph)
      BY <2>4 DEF Submit, CheckGap, ClaimGap, FinishGap
    <3>2. job[c] = "running"
      <4>1. CASE Submit(c, i)
        BY <2>c, <4>1, LiveHoldsLock DEF Submit, Inv, Handled
      <4>2. CASE CheckGap(c, i) \/ ClaimGap(c, i) \/ FinishGap(c, i)
        BY <2>c, <4>2, InPoolRuns DEF CheckGap, ClaimGap, FinishGap, InPool
      <4>3. QED
        BY <2>4, <4>1, <4>2
    <3>3. QED
      BY <1>w, <2>4, <2>c, <3>1, <3>2 DEF Submit, CheckGap, ClaimGap, FinishGap
  <2>5. QED
    BY <1>1, <2>1, <2>2, <2>3, <2>4 DEF BackfillStep
<1>2. ASSUME NEW s \in Syncs, OrdinaryStep(s) \/ SyncFails(s)
      PROVE  item'[b][k] \in Left
  <2>s. s # b /\ s \in Jobs /\ s \in Runs
    BY <1>b, Disjoint
  <2>1. CASE EndOrdinary(s) \/ SyncFails(s)
    BY <1>j, <1>s, <2>1, <2>s DEF EndOrdinary, SyncFails, EndJob
  <2>2. CASE Discover(s)
    <3>1. item'[b] = item[b]
      BY <1>b, <1>m, <2>2, <2>s DEF Discover
    <3>2. QED
      BY <1>j, <1>s, <2>2, <2>s, <3>1 DEF Discover
  <2>3. ASSUME NEW i \in Ids, OrdinaryStart(s, i) \/ OrdinaryFinish(s, i)
        PROVE  item'[b][k] \in Left
    BY <1>w, <2>3, <2>s, InPoolRuns DEF OrdinaryStart, OrdinaryFinish, InPool
  <2>4. QED
    BY <1>2, <2>1, <2>2, <2>3 DEF OrdinaryStep
<1>3. ASSUME NEW a \in Audits, AuditStep(a) \/ AuditFails(a)
      PROVE  item'[b][k] \in Left
  BY <1>3, <1>b, <1>j, <1>s, Disjoint DEF AuditStep, Reconcile, PublishAudit, AuditFails, EndJob
<1>4. ASSUME NEW r \in Runs, NEW i \in Ids, Store(r, i) \/ WorkerRaises(r, i)
      PROVE  item'[b][k] \in Left
  BY <1>4, <1>w, InPoolRuns DEF Store, WorkerRaises, InPool, Working
<1>5. CASE Operator
  <2>1. ASSUME NEW j \in Jobs, Dispatch(j)
        PROVE  job[b] = "success" /\ j # b
    BY <1>b, <1>j, <1>m, <2>1 DEF Dispatch
  <2>2. ASSUME NEW c \in Backfills, StartBackfill(c)
        PROVE  item'[b][k] \in Left
    <3>1. job[b] = "success" /\ c # b
      BY <2>1, <2>2, Disjoint DEF StartBackfill
    <3>2. item'[b] = item[b]
      BY <1>b, <1>m, <2>2, <3>1 DEF StartBackfill
    <3>3. QED
      BY <1>s, <3>1, <3>2
  <2>3. ASSUME NEW s \in Syncs, StartSync(s)
        PROVE  item'[b][k] \in Left
    <3>1. job[b] = "success" /\ s # b
      BY <2>1, <2>3, Disjoint DEF StartSync
    <3>2. item'[b] = item[b]
      BY <1>b, <1>m, <2>3, <3>1 DEF StartSync
    <3>3. QED
      BY <1>s, <3>1, <3>2
  <2>4. ASSUME NEW a \in Audits, StartAudit(a)
        PROVE  item'[b][k] \in Left
    BY <1>s, <2>1, <2>4, Disjoint DEF StartAudit
  <2>5. ASSUME NEW c \in Backfills, CancelBackfill(c)
        PROVE  item'[b][k] \in Left
    BY <1>s, <2>5 DEF CancelBackfill
  <2>6. ASSUME NEW i \in Ids, Skip(i) \/ Requeue(i) \/ RemoveLegacy(i)
        PROVE  item'[b][k] \in Left
    BY <1>s, <2>6 DEF Skip, Requeue, RemoveLegacy
  <2>7. CASE EnterMaintenance \/ LeaveMaintenance
    BY <1>s, <2>7 DEF EnterMaintenance, LeaveMaintenance
  <2>8. QED
    BY <1>5, <2>2, <2>3, <2>4, <2>5, <2>6, <2>7 DEF Operator
<1>6. CASE Fault
  <2>1. CASE Crash
    BY <1>b, <2>1 DEF Crash, All
  <2>2. CASE \/ \E c \in Backfills : RunnerRaises(c)
             \/ \E j \in Jobs : EndingLost(j)
    BY <1>s, <2>2 DEF RunnerRaises, EndingLost
  <2>3. QED
    BY <1>2, <1>3, <1>4, <1>6, <2>1, <2>2 DEF Fault
<1>7. CASE Boot
  <2>1. job[b] = "success"
    BY <1>7, <1>b DEF Boot, Recover, Closed
  <2>2. QED
    BY <1>7, <1>s, <2>1 DEF Boot
<1>8. CASE UNCHANGED vars
  BY <1>8, <1>s DEF vars
<1>9. QED
  BY <1>1, <1>2, <1>3, <1>4, <1>5, <1>6, <1>7, <1>8 DEF Next

(* A backfill that ends as a success left nothing of its selection behind. *)
THEOREM SuccessfulBackfillsAreExhausted == Spec => []SuccessMeansExhausted
<1>1. Init => SuccessMeansExhausted
  BY Disjoint DEF Init, SuccessMeansExhausted
<1>2. SuccessMeansExhausted /\ (Inv /\ SelectionIsDue) /\ [Next]_vars => SuccessMeansExhausted'
  BY SuccessStep
<1>3. QED
  BY <1>1, <1>2, DueHolds, PTL DEF Spec

-----------------------------------------------------------------------------
(* A server that has recovered: each claim has its worker, and each row    *)
(* that runs its thread.                                                   *)

LEMMA DeadClaimsStep ==
  ASSUME Inv, NoDeadClaims, [Next]_vars
  PROVE  NoDeadClaims'
<1> USE DEF durable, volatile, process
<1> DEFINE Held == Working \union {"raised"}
<1> SUFFICES ASSUME server' = "recovered", NEW k \in Ids, gap'[k].active # None
             PROVE  item'[gap'[k].active][k] \in Held
  BY DEF NoDeadClaims
<1>g. DOMAIN gap = Ids /\ \A i \in Ids : gap[i] \in Gap
  BY GapFacts
<1>m. item \in [Runs -> [Ids -> Phases]]
  BY DEF Inv, Typed, TypeOK
(* No run has a claim on a circular that it has no attempt on.             *)
<1>n. ASSUME NEW r \in Runs, attempt[r][k] = "none"
      PROVE  gap[k].active # r
  BY <1>n, GapFacts
<1>s. ASSUME server = "recovered", gap'[k].active = gap[k].active,
             item'[gap[k].active][k] = item[gap[k].active][k]
      PROVE  item'[gap'[k].active][k] \in Held
  BY <1>s DEF NoDeadClaims
<1>w. ASSUME NEW r \in Runs, NEW i \in Ids, NEW ph, Move(r, i, ph), server = "recovered",
             \A j \in Ids : j # i => gap'[j].active = gap[j].active,
             \/ gap'[i].active = gap[i].active /\ (ph \in Held \/ attempt[r][i] = "none")
             \/ gap'[i].active = None
             \/ gap'[i].active = r /\ ph \in Held
      PROVE  item'[gap'[k].active][k] \in Held
  <2>1. gap[k].active \in Runs \union {None}
    BY GapFacts
  <2>2. \A q \in Runs : item'[q][k] = IF q = r /\ k = i THEN ph ELSE item[q][k]
    BY <1>w, MoveEffect DEF Inv, Typed
  <2>3. CASE gap'[k].active = gap[k].active
    <3>1. CASE gap[k].active = r /\ k = i
      BY <1>n, <1>w, <2>2, <2>3, <3>1
    <3>2. CASE gap[k].active # r \/ k # i
      BY <1>s, <1>w, <2>1, <2>2, <2>3, <3>2
    <3>3. QED
      BY <3>1, <3>2
  <2>4. CASE gap'[k].active # gap[k].active
    BY <1>w, <2>2, <2>4
  <2>5. QED
    BY <2>3, <2>4
<1>1. ASSUME NEW b \in Backfills, BackfillStep(b)
      PROVE  item'[gap'[k].active][k] \in Held
  <2>b. b \in Runs
    BY Disjoint
  <2>1. CASE BeginBackfill(b) \/ EndBackfill(b)
    BY <1>s, <2>1 DEF BeginBackfill, EndBackfill
  <2>2. CASE NextBatch(b)
    <3>1. server = "recovered" /\ gap' = gap
      BY <2>2 DEF NextBatch
    <3>2. gap[k].active \in Runs
      BY <3>1, GapFacts
    <3>3. item[gap[k].active][k] \in Held
      BY <3>1 DEF NoDeadClaims
    <3>4. \A i \in Ids, q \in Runs : item[q][i] \in Held => item'[q][i] = item[q][i]
      <4>1. PICK batch \in Front(At(b, "waiting"), Request[b].size) \ {{}} :
              item' = [item EXCEPT ![b] =
                         [i \in Ids |-> CASE i \in batch -> "batched"
                                          [] item[b][i] \in Results -> "done"
                                          [] OTHER -> item[b][i]]]
        BY <2>2 DEF NextBatch
      <4>2. \A i \in batch : item[b][i] = "waiting"
        BY DEF Front, At
      <4>3. \A i \in Ids : item'[b][i] = CASE i \in batch -> "batched"
                                           [] item[b][i] \in Results -> "done"
                                           [] OTHER -> item[b][i]
        BY <2>b, <1>m, <4>1
      <4>4. \A ph \in Held : ph \notin Results /\ ph # "waiting"
        BY DEF Results, Working
      <4>5. \A i \in Ids : item[b][i] \in Held => item'[b][i] = item[b][i]
        BY <4>2, <4>3, <4>4
      <4>6. \A i \in Ids, q \in Runs : q # b => item'[q][i] = item[q][i]
        BY <1>m, <4>1
      <4>7. QED
        BY <4>5, <4>6
    <3>5. QED
      BY <1>s, <3>1, <3>2, <3>3, <3>4
  <2>3. ASSUME NEW i \in Ids, Submit(b, i)
        PROVE  item'[gap'[k].active][k] \in Held
    <3>1. attempt[b][i] = "none"
      BY <2>3, <2>b DEF Submit, Inv, Handled, Unattempted
    <3>2. QED
      BY <1>w, <2>3, <2>b, <3>1 DEF Submit
  <2>4. ASSUME NEW i \in Ids, CheckGap(b, i)
        PROVE  item'[gap'[k].active][k] \in Held
    <3>1. attempt[b][i] = "none" /\ server = "recovered"
      BY <2>4, <2>b DEF CheckGap, Inv, Handled, Unattempted
    <3>2. \A j \in Ids : gap'[j].active = gap[j].active
      <4>1. CASE gap' = gap
        BY <4>1
      <4>2. CASE gap' = [gap EXCEPT ![i].eligible = FALSE]
        BY <1>g, <4>2 DEF Gap
      <4>3. CASE gap' = [gap EXCEPT ![i].status = "resolved"]
        BY <1>g, <4>3 DEF Gap
      <4>4. QED
        BY <2>4, <4>1, <4>2, <4>3 DEF CheckGap
    <3>3. PICK ph : Move(b, i, ph)
      BY <2>4 DEF CheckGap
    <3>4. QED
      BY <1>w, <2>b, <3>1, <3>2, <3>3
  <2>5. ASSUME NEW i \in Ids, ClaimGap(b, i)
        PROVE  item'[gap'[k].active][k] \in Held
    <3>1. attempt[b][i] = "none" /\ server = "recovered"
      BY <2>5, <2>b DEF ClaimGap, Inv, Handled, Unattempted
    <3>2. CASE gap' = gap /\ Move(b, i, "held")
      BY <1>w, <2>b, <3>1, <3>2
    <3>3. CASE gap' = [gap EXCEPT ![i] = Claimed(gap[i], b)] /\ Move(b, i, "claimed")
      <4>1. Claimed(gap[i], b).active = b
        BY <1>g DEF Claimed, Gap
      <4>2. \A j \in Ids : gap'[j].active = IF j = i THEN b ELSE gap[j].active
        BY <1>g, <3>3, <4>1
      <4>3. QED
        BY <1>w, <2>b, <3>1, <3>3, <4>2 DEF Working
    <3>4. QED
      BY <2>5, <3>2, <3>3 DEF ClaimGap
  <2>6. ASSUME NEW i \in Ids, FinishGap(b, i)
        PROVE  item'[gap'[k].active][k] \in Held
    <3>1. \A j \in Ids : gap'[j].active = IF j = i THEN None ELSE gap[j].active
      BY <1>g, <2>6 DEF FinishGap, Recorded, Gap
    <3>2. PICK ph : Move(b, i, ph)
      BY <2>6 DEF FinishGap
    <3>3. QED
      BY <1>w, <2>6, <2>b, <3>1, <3>2 DEF FinishGap
  <2>7. QED
    BY <1>1, <2>1, <2>2, <2>3, <2>4, <2>5, <2>6 DEF BackfillStep
<1>2. ASSUME NEW s \in Syncs, OrdinaryStep(s)
      PROVE  item'[gap'[k].active][k] \in Held
  <2>s. s \in Runs
    BY Disjoint
  <2>1. CASE EndOrdinary(s)
    BY <1>s, <2>1 DEF EndOrdinary
  <2>2. CASE Discover(s)
    <3>1. job[s] = "queued" /\ server = "recovered" /\ gap' = gap
      BY <2>2 DEF Discover
    <3>2. attempt[s][k] = "none"
      BY <2>s, <3>1 DEF Inv, Handled
    <3>3. gap[k].active # s
      BY <1>n, <2>s, <3>2
    <3>4. item'[gap[k].active] = item[gap[k].active]
      BY <1>m, <2>2, <3>1, <3>3, GapFacts DEF Discover
    <3>5. QED
      BY <1>s, <3>1, <3>4
  <2>3. ASSUME NEW i \in Ids, OrdinaryStart(s, i)
        PROVE  item'[gap'[k].active][k] \in Held
    <3>1. attempt[s][i] = "none" /\ server = "recovered" /\ Move(s, i, "claimed")
      BY <2>3, <2>s DEF OrdinaryStart, Inv, Handled, Unattempted
    <3> DEFINE n == gap[i].attempts + 1
               g == [gap[i] EXCEPT !.active = s, !.attempts = n]
    <3> HIDE DEF n
    <3>2. g.active = s
      BY <1>g DEF Gap
    <3> HIDE DEF g
    <3>3. gap' = gap \/ gap' = [gap EXCEPT ![i] = g]
      BY <2>3 DEF OrdinaryStart, g, n
    <3>4. \/ \A j \in Ids : gap'[j].active = gap[j].active
          \/ \A j \in Ids : gap'[j].active = IF j = i THEN s ELSE gap[j].active
      BY <1>g, <3>2, <3>3
    <3>5. QED
      BY <1>w, <2>s, <3>1, <3>4 DEF Working
  <2>4. ASSUME NEW i \in Ids, OrdinaryFinish(s, i)
        PROVE  item'[gap'[k].active][k] \in Held
    <3>1. AfterOrdinary(gap[i], i).active = None
      BY <1>g, GapFacts DEF AfterOrdinary, Gap
    <3>2. \A j \in Ids : gap'[j].active = IF j = i THEN None ELSE gap[j].active
      BY <1>g, <2>4, <3>1 DEF OrdinaryFinish
    <3>3. QED
      BY <1>w, <2>4, <2>s, <3>2 DEF OrdinaryFinish
  <2>5. QED
    BY <1>2, <2>1, <2>2, <2>3, <2>4 DEF OrdinaryStep
<1>3. ASSUME NEW a \in Audits, AuditStep(a)
      PROVE  item'[gap'[k].active][k] \in Held
  <2>1. CASE Reconcile(a)
    BY <1>s, <2>1 DEF Reconcile
  <2>2. CASE PublishAudit(a)
    <3>1. Opened(k) \in Gap /\ Opened(k).active = gap[k].active
      BY <1>g, GapFacts DEF Opened, NoGap, Gap, Statuses
    <3>2. \A g \in Gap : Settled(g, k).active = g.active
      BY DEF Settled, Gap
    <3>3. gap'[k].active = gap[k].active
      BY <2>2, <3>1, <3>2 DEF PublishAudit, Published
    <3>4. QED
      BY <1>s, <2>2, <3>3 DEF PublishAudit
  <2>3. QED
    BY <1>3, <2>1, <2>2 DEF AuditStep
<1>4. ASSUME NEW r \in Runs, NEW i \in Ids, Store(r, i) \/ WorkerRaises(r, i)
      PROVE  item'[gap'[k].active][k] \in Held
  BY <1>4, <1>w DEF Store, WorkerRaises, Working
<1>5. CASE Operator
  <2>1. ASSUME NEW j \in Runs, Dispatch(j)
        PROVE  gap[k].active # j
    <3>1. attempt[j][k] = "none"
      BY <2>1 DEF Dispatch, Inv, Handled
    <3>2. QED
      BY <1>n, <2>1, <3>1
  <2>2. ASSUME NEW c \in Backfills, StartBackfill(c)
        PROVE  item'[gap'[k].active][k] \in Held
    <3>1. gap[k].active # c /\ gap' = gap /\ server = "recovered"
      BY <2>1, <2>2, Disjoint DEF StartBackfill
    <3>2. item'[gap[k].active] = item[gap[k].active]
      BY <1>m, <2>2, <3>1, GapFacts DEF StartBackfill
    <3>3. QED
      BY <1>s, <3>1, <3>2
  <2>3. ASSUME NEW s \in Syncs, StartSync(s)
        PROVE  item'[gap'[k].active][k] \in Held
    <3>1. gap[k].active # s /\ gap' = gap /\ server = "recovered"
      BY <2>1, <2>3, Disjoint DEF StartSync
    <3>2. item'[gap[k].active] = item[gap[k].active]
      BY <1>m, <2>3, <3>1, GapFacts DEF StartSync
    <3>3. QED
      BY <1>s, <3>1, <3>2
  <2>4. CASE \/ \E a \in Audits : StartAudit(a)
             \/ \E c \in Backfills : CancelBackfill(c)
    BY <1>s, <2>4 DEF StartAudit, CancelBackfill
  <2>5. ASSUME NEW i \in Ids, Skip(i) \/ Requeue(i) \/ RemoveLegacy(i)
        PROVE  item'[gap'[k].active][k] \in Held
    <3>1. gap'[k].active = gap[k].active
      <4>1. CASE gap' = [gap EXCEPT ![i].status = "skipped"]
        BY <1>g, <4>1 DEF Gap
      <4>2. CASE gap' = [gap EXCEPT ![i].status = "pending", ![i].failures = 0]
        BY <1>g, <4>2 DEF Gap
      <4>3. CASE gap' = [gap EXCEPT ![i] = Reopened(gap[i])]
        BY <1>g, <4>3 DEF Reopened, Gap
      <4>4. QED
        BY <2>5, <4>1, <4>2, <4>3 DEF Skip, Requeue, RemoveLegacy
    <3>2. QED
      BY <1>s, <2>5, <3>1 DEF Skip, Requeue, RemoveLegacy
  <2>6. CASE EnterMaintenance \/ LeaveMaintenance
    BY <1>s, <2>6 DEF EnterMaintenance, LeaveMaintenance
  <2>7. QED
    BY <1>5, <2>2, <2>3, <2>4, <2>5, <2>6 DEF Operator
<1>6. CASE Fault
  <2>1. ASSUME NEW b \in Backfills, RunnerRaises(b)
        PROVE  item'[gap'[k].active][k] \in Held
    BY <1>s, <2>1 DEF RunnerRaises
  <2>2. ASSUME NEW s \in Syncs, SyncFails(s)
        PROVE  item'[gap'[k].active][k] \in Held
    BY <1>s, <2>2 DEF SyncFails
  <2>3. ASSUME NEW a \in Audits, AuditFails(a)
        PROVE  item'[gap'[k].active][k] \in Held
    BY <1>s, <2>3 DEF AuditFails
  <2>4. ASSUME NEW j \in Jobs, EndingLost(j)
        PROVE  item'[gap'[k].active][k] \in Held
    BY <1>s, <2>4 DEF EndingLost
  <2>5. CASE Crash
    BY <2>5 DEF Crash
  <2>6. QED
    BY <1>4, <1>6, <2>1, <2>2, <2>3, <2>4, <2>5 DEF Fault
<1>7. CASE Boot
  <2>1. gap'[k] = Interrupted(k)
    BY <1>7 DEF Boot, Recover
  <2>2. Interrupted(k).active = None
    <3>1. CASE Unsettled(k) = {}
      BY <3>1, GapFacts DEF Unsettled, Interrupted
    <3>2. CASE Unsettled(k) # {}
      BY <1>g, <3>2 DEF Interrupted, Gap
    <3>3. QED
      BY <3>1, <3>2
  <2>3. QED
    BY <2>1, <2>2
<1>8. CASE UNCHANGED vars
  BY <1>8, <1>s DEF vars
<1>9. QED
  BY <1>1, <1>2, <1>3, <1>4, <1>5, <1>6, <1>7, <1>8 DEF Next

(* A claim in a recovered server belongs to a worker, or to one of its     *)
(* lost transactions.                                                      *)
THEOREM NoClaimIsDead == Spec => []NoDeadClaims
<1>1. Init => NoDeadClaims
  BY DEF Init, NoDeadClaims, NoGap
<1>2. NoDeadClaims /\ Inv /\ [Next]_vars => NoDeadClaims'
  BY DeadClaimsStep
<1>3. QED
  BY <1>1, <1>2, InvHolds, PTL DEF Spec

(* Every step keeps a running row's thread, once recovered.                *)
LEMMA RowsStep ==
  ASSUME Inv, RowsOfRecoveredServerRun, [Next]_vars
  PROVE  RowsOfRecoveredServerRun'
<1> USE DEF durable, volatile, process
<1> SUFFICES ASSUME server' = "recovered", count'["storage"] = 0,
                    NEW j \in Jobs, job'[j] \in {"queued", "running"}
             PROVE  j \in live'
  BY DEF RowsOfRecoveredServerRun
<1>m. job \in [Jobs -> JobStatuses] /\ count \in [Disturbances -> Nat]
  BY DEF Inv, Typed, TypeOK
<1>s. ASSUME UNCHANGED <<server, count, live>>, job[j] \in {"queued", "running"}
      PROVE  j \in live'
  BY <1>s DEF RowsOfRecoveredServerRun
<1>e. ASSUME NEW d \in Jobs, NEW st \in {"success", "partial", "failed", "none"}, EndJob(d, st),
             UNCHANGED <<server, count>>
      PROVE  j \in live'
  BY <1>e, <1>m DEF EndJob, RowsOfRecoveredServerRun
<1>r. ASSUME NEW d \in live, d \in Jobs, NEW st, job' = [job EXCEPT ![d] = st], UNCHANGED <<server, count, live>>
      PROVE  j \in live'
  BY <1>r, <1>m DEF RowsOfRecoveredServerRun
<1>d. ASSUME NEW d \in Jobs, Dispatch(d), UNCHANGED <<server, count>>
      PROVE  j \in live'
  BY <1>d, <1>m DEF Dispatch, RowsOfRecoveredServerRun
<1>h. ~ Happens("storage")
  <2>1. "storage" \in Disturbances
    BY DEF Disturbances
  <2>2. Happens("storage") => count'["storage"] = count["storage"] + 1
    BY <1>m, <2>1 DEF Happens
  <2>3. count["storage"] \in Nat
    BY <1>m, <2>1
  <2>4. QED
    BY <2>2, <2>3
<1>1. ASSUME NEW b \in Backfills, BackfillStep(b)
      PROVE  j \in live'
  <2>1. CASE BeginBackfill(b)
    BY <1>r, <2>1, Disjoint DEF BeginBackfill
  <2>2. CASE EndBackfill(b)
    BY <1>e, <2>2, Disjoint DEF EndBackfill
  <2>3. CASE NextBatch(b)
    BY <1>s, <2>3 DEF NextBatch
  <2>4. ASSUME NEW i \in Ids, Submit(b, i) \/ CheckGap(b, i) \/ ClaimGap(b, i) \/ FinishGap(b, i)
        PROVE  j \in live'
    BY <1>s, <2>4 DEF Submit, CheckGap, ClaimGap, FinishGap
  <2>5. QED
    BY <1>1, <2>1, <2>2, <2>3, <2>4 DEF BackfillStep
<1>2. ASSUME NEW s \in Syncs, OrdinaryStep(s) \/ SyncFails(s)
      PROVE  j \in live'
  <2>1. CASE EndOrdinary(s) \/ SyncFails(s)
    BY <1>e, <2>1, Disjoint DEF EndOrdinary, SyncFails
  <2>2. CASE Discover(s)
    BY <1>r, <2>2, Disjoint DEF Discover
  <2>3. ASSUME NEW i \in Ids, OrdinaryStart(s, i) \/ OrdinaryFinish(s, i)
        PROVE  j \in live'
    BY <1>s, <2>3 DEF OrdinaryStart, OrdinaryFinish
  <2>4. QED
    BY <1>2, <2>1, <2>2, <2>3 DEF OrdinaryStep
<1>3. ASSUME NEW a \in Audits, AuditStep(a) \/ AuditFails(a)
      PROVE  j \in live'
  <2>1. CASE Reconcile(a)
    BY <1>r, <2>1, Disjoint DEF Reconcile
  <2>2. CASE PublishAudit(a)
    <3>1. capture \in {"success", "partial", "failed", "none"}
      BY DEF Inv, Typed, TypeOK
    <3>2. QED
      BY <1>e, <2>2, <3>1, Disjoint DEF PublishAudit
  <2>3. CASE AuditFails(a)
    BY <1>e, <2>3, Disjoint DEF AuditFails
  <2>4. QED
    BY <1>3, <2>1, <2>2, <2>3 DEF AuditStep
<1>4. ASSUME NEW r \in Runs, NEW i \in Ids, Store(r, i)
      PROVE  j \in live'
  BY <1>4, <1>s DEF Store
<1>5. CASE Operator
  <2>1. ASSUME NEW c \in Backfills, StartBackfill(c) \/ CancelBackfill(c)
        PROVE  j \in live'
    BY <1>d, <1>s, <2>1, Disjoint DEF StartBackfill, CancelBackfill
  <2>2. ASSUME NEW s \in Syncs, StartSync(s)
        PROVE  j \in live'
    BY <1>d, <2>2, Disjoint DEF StartSync
  <2>3. ASSUME NEW a \in Audits, StartAudit(a)
        PROVE  j \in live'
    BY <1>d, <2>3, Disjoint DEF StartAudit
  <2>4. ASSUME NEW i \in Ids, Skip(i) \/ Requeue(i) \/ RemoveLegacy(i)
        PROVE  j \in live'
    BY <1>s, <2>4 DEF Skip, Requeue, RemoveLegacy
  <2>5. CASE EnterMaintenance \/ LeaveMaintenance
    <3>1. UNCHANGED <<server, live, job>>
      BY <2>5 DEF EnterMaintenance, LeaveMaintenance
    <3>2. count'["storage"] = count["storage"]
      BY <1>m, <2>5 DEF EnterMaintenance, LeaveMaintenance, Happens, Disturbances
    <3>3. QED
      BY <3>1, <3>2 DEF RowsOfRecoveredServerRun
  <2>6. QED
    BY <1>5, <2>1, <2>2, <2>3, <2>4, <2>5 DEF Operator
<1>6. CASE Fault
  <2>1. ASSUME NEW b \in Backfills, RunnerRaises(b)
        PROVE  j \in live'
    BY <1>s, <2>1 DEF RunnerRaises
  <2>2. CASE Crash
    BY <2>2 DEF Crash
  <2>3. QED
    BY <1>2, <1>3, <1>6, <1>h, <2>1, <2>2 DEF Fault, WorkerRaises, EndingLost
<1>7. CASE Boot
  BY <1>7 DEF Boot, Recover, Closed
<1>8. CASE UNCHANGED vars
  BY <1>8, <1>s DEF vars
<1>9. QED
  BY <1>1, <1>2, <1>3, <1>4, <1>5, <1>6, <1>7, <1>8 DEF Next

(* A row of a recovered server that says queued or running has its thread. *)
THEOREM RowsOfARecoveredServerRun == Spec => []RowsOfRecoveredServerRun
<1>1. Init => RowsOfRecoveredServerRun
  BY DEF Init, RowsOfRecoveredServerRun
<1>2. RowsOfRecoveredServerRun /\ Inv /\ [Next]_vars => RowsOfRecoveredServerRun'
  BY RowsStep
<1>3. QED
  BY <1>1, <1>2, InvHolds, PTL DEF Spec
=============================================================================
