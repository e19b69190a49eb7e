----------------------------- MODULE Generation -----------------------------
(***************************************************************************)
(* AI analyses of circulars and laws (circular_ai.py, laws_ai.py, the      *)
(* generate routes of main.py, the AI commands of cli/commands.py): who    *)
(* may start one, the jobs that carry them, and the circulars' statuses,   *)
(* which are derived from the relationships that analyses and commands     *)
(* store.                                                                  *)
(***************************************************************************)
EXTENDS Naturals, FiniteSets

CONSTANTS
  Circulars, \* circulars with text
  Statutes,  \* laws with text
  Tasks,     \* jobs, each used once
  Nothing,   \* no job
  Scopes,    \* what a command may be told to work on
  Results,   \* sets of kinds of relationship that an analysis may find
  GenBound,  \* how often each kind of event may happen
  GenTotal   \* how many there may be

GenEvents == {"ask", "sync", "fail", "crash", "command"}

(* "other" stands for every feature that stores no relationships; "all" is *)
(* both.  A relationship makes its target amended or superseded.           *)
Features == {"edges", "other"}
Actions  == Features \union {"all"}
Includes(f, x) == f = x \/ f = "all"
Kinds    == {"amends", "supersedes"}
CircularStatuses == {"active", "amended", "superseded"}
Targets  == Circulars \union Statutes

ASSUME ChoicesAssumption == Scopes \subseteq SUBSET Circulars /\ Results \subseteq SUBSET Kinds

VARIABLES
  edges,     \* durable: the relationships each circular states
  status,    \* durable: each circular's status
  done,      \* durable: what each circular has been analysed for
  task,      \* durable: the generation jobs
  worker,    \* the thread of each job, and the status of its circular as it loaded it
  route,     \* a generate request
  batch,     \* a sync that analyses what it has stored
  command,   \* a command of another process
  unsettled, \* circulars whose status nothing has derived since a command changed relationships
  served,    \* the server is up
  genCount

genRows == <<edges, status, done, task>>
genVars == <<genRows, worker, route, batch, command, unsettled, served, genCount>>

-----------------------------------------------------------------------------
NoTask    == [target |-> Nothing, feature |-> "none", status |-> "none"]
NoWorker  == [at |-> "off", saw |-> "active"]
NoRoute   == [at |-> "off", target |-> Nothing, feature |-> "none"]
NoBatch   == [at |-> "off", todo |-> {}, job |-> Nothing, pick |-> Nothing]
NoCommand == [at |-> "off", todo |-> {}, derives |-> FALSE, read |-> Nothing, saw |-> Nothing, over |-> FALSE]

Edge == Kinds \X Circulars
Found(c) == {ks \X (Circulars \ {c}) : ks \in Results}   \* what the model may find in a circular

GenTypeOK ==
  /\ edges \in [Circulars -> SUBSET Edge]
  /\ status \in [Circulars -> CircularStatuses] /\ done \in [Circulars -> SUBSET Features]
  /\ task \in [Tasks -> [target: Targets \union {Nothing}, feature: Actions \union {"none"},
                         status: {"none", "queued", "running", "succeeded", "failed"}]]
  /\ worker \in [Tasks -> [at: {"off", "queued", "load", "compute", "failing"}, saw: CircularStatuses]]
  /\ route.at \in {"off", "body", "insert"} /\ route.target \in Targets \union {Nothing}
  /\ batch.at \in {"off", "next", "insert", "wait"} /\ batch.job \in Tasks \union {Nothing}
  /\ batch.todo \subseteq Circulars \X Features
  /\ command.at \in {"off", "work", "derive"} /\ command.todo \subseteq Circulars
  /\ unsettled \subseteq Circulars /\ served \in BOOLEAN

GenInit ==
  /\ edges = [c \in Circulars |-> {}] /\ status = [c \in Circulars |-> "active"]
  /\ done = [c \in Circulars |-> {}] /\ task = [j \in Tasks |-> NoTask]
  /\ worker = [j \in Tasks |-> NoWorker] /\ route = NoRoute /\ batch = NoBatch
  /\ command = NoCommand /\ unsettled = {} /\ served = TRUE
  /\ genCount = [k \in GenEvents \union {"any"} |-> 0]

GenHappens(k) ==
  /\ genCount[k] < GenBound[k] /\ genCount["any"] < GenTotal
  /\ genCount' = [genCount EXCEPT ![k] = @ + 1, !["any"] = @ + 1]

HasActiveJob(x) == \E j \in Tasks : task[j].target = x /\ task[j].status \in {"queued", "running"}
Unused    == {j \in Tasks : task[j].status = "none"}
NewTask   == CHOOSE j \in Unused : TRUE
Queued(j, x, f) == [task EXCEPT ![j] = [target |-> x, feature |-> f, status |-> "queued"]]
Syncing   == batch.at # "off"   \* the job lock is held

-----------------------------------------------------------------------------
(* _recompute_statuses: the gravest of the relationships that name it.     *)
StatusIn(es, c) ==
  LET kinds == {k \in Kinds : \E s \in Circulars : <<k, c>> \in es[s]}
  IN IF "supersedes" \in kinds THEN "superseded" ELSE IF "amends" \in kinds THEN "amended" ELSE "active"

(* Of a row that a session has loaded, only what differs from it as loaded *)
(* is written.                                                             *)
(* Faulty variant: only what the analysed circular names is derived again. *)
DerivedNamed(es, own, saw) ==
  [c \in Circulars |-> IF \E k \in Kinds : <<k, c>> \in es[own] THEN StatusIn(es, c) ELSE status[c]]
Derived(es, own, saw) ==
  [c \in Circulars |-> IF c = own /\ StatusIn(es, c) = saw THEN status[c] ELSE StatusIn(es, c)]

-----------------------------------------------------------------------------
(* The generate routes.  That of a circular is refused while a sync runs,  *)
(* which it looks up before it awaits the request's body; whether the      *)
(* target has an active job is looked up after, and then a row is added.   *)
(* The row's job runs when the response has been sent.                     *)
Ask == \E x \in Targets, f \in Actions :
  /\ served /\ route.at = "off" /\ GenHappens("ask")
  /\ x \in Circulars => ~Syncing
  /\ route' = [at |-> "body", target |-> x, feature |-> f]
  /\ UNCHANGED <<genRows, worker, batch, command, unsettled, served>>

LookForJob ==
  /\ route.at = "body"
  /\ route' = IF HasActiveJob(route.target) THEN NoRoute ELSE [route EXCEPT !.at = "insert"]
  /\ UNCHANGED <<genRows, worker, batch, command, unsettled, served, genCount>>

Enqueue ==
  /\ route.at = "insert" /\ Unused # {} /\ route' = NoRoute
  /\ \/ /\ task' = Queued(NewTask, route.target, route.feature)
        /\ worker' = [worker EXCEPT ![NewTask].at = "queued"] /\ UNCHANGED genCount
     \/ GenHappens("fail") /\ UNCHANGED <<task, worker>>
  /\ UNCHANGED <<edges, status, done, batch, command, unsettled, served>>

-----------------------------------------------------------------------------
(* run_generation_job and run_law_generation_job.                          *)
RunTask == \E j \in Tasks :
  /\ worker[j].at = "queued"
  /\ \/ /\ task' = [task EXCEPT ![j].status = "running"]
        /\ worker' = [worker EXCEPT ![j].at = "load"] /\ UNCHANGED genCount
     \/ GenHappens("fail") /\ worker' = [worker EXCEPT ![j].at = "failing"] /\ UNCHANGED task
  /\ UNCHANGED <<edges, status, done, route, batch, command, unsettled, served>>

(* The target is read before the model is asked, and again after the       *)
(* progress of an analysis in several calls has been committed.            *)
LoadTarget == \E j \in Tasks :
  /\ \/ worker[j].at = "load"
     \/ worker[j].at = "compute" /\ Includes(task[j].feature, "other") /\ task[j].target \in Circulars
          /\ worker[j].saw # status[task[j].target]
  /\ worker' = [worker EXCEPT ![j] =
       [at |-> "compute", saw |-> IF task[j].target \in Circulars THEN status[task[j].target] ELSE "active"]]
  /\ UNCHANGED <<genRows, route, batch, command, unsettled, served, genCount>>

(* _persist_outputs and the end of the job, in one transaction: it holds   *)
(* the write lock from the deletion of the old relationships on, so that   *)
(* the statuses are derived from what is committed.                        *)
Stamped(c, f) == done[c] \union {x \in Features : Includes(f, x)}

PersistOutputs == \E j \in Tasks :
  LET c == task[j].target  f == task[j].feature IN
  /\ worker[j].at = "compute"
  /\ task' = [task EXCEPT ![j].status = "succeeded"] /\ worker' = [worker EXCEPT ![j] = NoWorker]
  /\ done' = IF c \in Circulars THEN [done EXCEPT ![c] = Stamped(c, f)] ELSE done
  /\ IF c \in Circulars /\ Includes(f, "edges")
     THEN \E es \in Found(c) :
            /\ edges' = [edges EXCEPT ![c] = es]
            /\ status' = Derived(edges', c, worker[j].saw)
            /\ unsettled' = unsettled \intersect {c}
            /\ command' = [command EXCEPT !.over = @ \/ command.at = "derive"]
     ELSE UNCHANGED <<edges, status, unsettled, command>>
  /\ UNCHANGED <<route, batch, served, genCount>>

(* The analysis fails, or its commit does; that it has failed is recorded  *)
(* by a commit of its own, and lost if that fails.                         *)
ComputeFails == \E j \in Tasks :
  /\ worker[j].at \in {"load", "compute"} /\ GenHappens("fail")
  /\ worker' = [worker EXCEPT ![j].at = "failing"]
  /\ UNCHANGED <<genRows, route, batch, command, unsettled, served>>

FailTask == \E j \in Tasks :
  /\ worker[j].at = "failing" /\ worker' = [worker EXCEPT ![j] = NoWorker]
  /\ \/ task' = [task EXCEPT ![j].status = "failed"] /\ UNCHANGED genCount
     \/ GenHappens("fail") /\ UNCHANGED task
  /\ UNCHANGED <<edges, status, done, route, batch, command, unsettled, served>>

-----------------------------------------------------------------------------
(* run_sync_generation: feature by feature, what the synced circulars lack.*)
StartBatch == \E fs \in SUBSET Features \ {{}} :
  /\ served /\ ~Syncing /\ GenHappens("sync")
  /\ batch' = [NoBatch EXCEPT !.at = "next", !.todo = Circulars \X fs]
  /\ UNCHANGED <<genRows, worker, route, command, unsettled, served>>

NextAnalysis == \E p \in batch.todo :
  /\ batch.at = "next"
  /\ p[2] = "other" => \A x \in batch.todo : x[2] = "other"
  /\ batch' = IF p[2] \in done[p[1]] \/ HasActiveJob(p[1])
              THEN [batch EXCEPT !.todo = @ \ {p}]
              ELSE [batch EXCEPT !.todo = @ \ {p}, !.at = "insert", !.pick = p]
  /\ UNCHANGED <<genRows, worker, route, command, unsettled, served, genCount>>

AddAnalysis ==
  /\ batch.at = "insert" /\ Unused # {}
  /\ \/ /\ task' = Queued(NewTask, batch.pick[1], batch.pick[2])
        /\ worker' = [worker EXCEPT ![NewTask].at = "queued"]
        /\ batch' = [batch EXCEPT !.at = "wait", !.job = NewTask, !.pick = Nothing] /\ UNCHANGED genCount
     \/ /\ GenHappens("fail") /\ batch' = [batch EXCEPT !.at = "next", !.pick = Nothing]
        /\ UNCHANGED <<task, worker>>
  /\ UNCHANGED <<edges, status, done, route, command, unsettled, served>>

AnalysisEnds ==
  /\ batch.at = "wait" /\ worker[batch.job].at = "off"
  /\ batch' = [batch EXCEPT !.at = "next", !.job = Nothing]
  /\ UNCHANGED <<genRows, worker, route, command, unsettled, served, genCount>>

EndBatch ==
  /\ batch.at = "next" /\ batch.todo = {} /\ batch' = NoBatch
  /\ UNCHANGED <<genRows, worker, route, command, unsettled, served, genCount>>

-----------------------------------------------------------------------------
(* Commands of another process.  `relationships` commits the deletion of   *)
(* what it will extract again; it and `graph` then add to each circular;   *)
(* `graph`, and `status`, derive the statuses from what they read before   *)
(* they write.                                                             *)
StartCommand == \E todo \in Scopes, derives \in BOOLEAN, refresh \in BOOLEAN :
  /\ command.at = "off" /\ (todo # {} \/ derives) /\ (refresh => ~derives) /\ GenHappens("command")
  /\ command' = [NoCommand EXCEPT !.at = "work", !.todo = todo, !.derives = derives]
  /\ edges' = IF refresh THEN [c \in Circulars |-> IF c \in todo THEN {} ELSE edges[c]] ELSE edges
  /\ unsettled' = IF edges' # edges THEN Circulars ELSE unsettled
  /\ UNCHANGED <<status, done, task, worker, route, batch, served>>

ExtractOne == \E c \in command.todo : \E es \in Found(c) :
  /\ command.at = "work"
  /\ command' = [command EXCEPT !.todo = @ \ {c}]
  /\ edges' = [edges EXCEPT ![c] = IF command.derives THEN es ELSE @ \union es]
  /\ done' = [done EXCEPT ![c] = @ \union {"edges"}]
  /\ unsettled' = Circulars
  /\ UNCHANGED <<status, task, worker, route, batch, served, genCount>>

ReadEdges ==
  /\ command.at = "work" /\ command.todo = {}
  /\ command' = IF command.derives THEN [command EXCEPT !.at = "derive", !.read = edges, !.saw = status]
                ELSE NoCommand
  /\ UNCHANGED <<genRows, worker, route, batch, unsettled, served, genCount>>

WriteStatuses ==
  /\ command.at = "derive"
  /\ status' = [c \in Circulars |-> IF StatusIn(command.read, c) = command.saw[c] THEN status[c]
                                    ELSE StatusIn(command.read, c)]
  /\ unsettled' = IF command.over THEN Circulars ELSE {}
  /\ command' = NoCommand
  /\ UNCHANGED <<edges, done, task, worker, route, batch, served, genCount>>

KillCommand ==
  /\ command.at # "off" /\ GenHappens("crash") /\ command' = NoCommand
  /\ UNCHANGED <<genRows, worker, route, batch, unsettled, served>>

-----------------------------------------------------------------------------
CrashServer ==
  /\ served /\ GenHappens("crash") /\ served' = FALSE
  /\ worker' = [j \in Tasks |-> NoWorker] /\ route' = NoRoute /\ batch' = NoBatch
  /\ UNCHANGED <<genRows, command, unsettled>>

(* fail_interrupted_ai_jobs, in a boot that is not spent in maintenance.   *)
(* Faulty variant: jobs that have not begun are passed over.               *)
FailedAtBootRunning == [j \in Tasks |-> IF task[j].status = "running"
                                    THEN [task[j] EXCEPT !.status = "failed"] ELSE task[j]]
FailedAtBoot == [j \in Tasks |-> IF task[j].status \in {"queued", "running"}
                             THEN [task[j] EXCEPT !.status = "failed"] ELSE task[j]]

BootServer ==
  /\ ~served /\ served' = TRUE /\ task' = FailedAtBoot
  /\ UNCHANGED <<edges, status, done, worker, route, batch, command, unsettled, genCount>>

GenNext == Ask \/ LookForJob \/ Enqueue \/ RunTask \/ LoadTarget \/ PersistOutputs \/ ComputeFails \/ FailTask
             \/ StartBatch \/ NextAnalysis \/ AddAnalysis \/ AnalysisEnds \/ EndBatch
             \/ StartCommand \/ ExtractOne \/ ReadEdges \/ WriteStatuses \/ KillCommand
             \/ CrashServer \/ BootServer

GenSpec == GenInit /\ [][GenNext]_genVars

(* The threads of jobs run, a background task is started once its response *)
(* is sent, and a stopped service is restarted.                            *)
JobSteps(j) == /\ worker[j].at # "off"
               /\ RunTask \/ LoadTarget \/ PersistOutputs \/ FailTask
               /\ worker'[j] # worker[j]

GenFair == WF_genVars(BootServer) /\ \A j \in Tasks : WF_genVars(JobSteps(j))

-----------------------------------------------------------------------------
(* A circular's status is the gravest of the relationships that are stored *)
(* about it, whatever jobs store and delete them in parallel; but a        *)
(* command that stores relationships leaves it to a later one, and what it *)
(* derives may be overtaken (circular_ai.py:65).                           *)
StatusFollowsEdges == \A c \in Circulars \ unsettled : status[c] = StatusIn(edges, c)

(* While no failure goes unrecorded, every job ends, and so its target can *)
(* be analysed again, across crashes (main.py:163, circular_ai.py:233).    *)
TasksEnd == \A j \in Tasks :
  (task[j].status \in {"queued", "running"} /\ genCount["fail"] = 0)
    ~> (task[j].status \in {"succeeded", "failed"} \/ genCount["fail"] > 0)

=============================================================================
