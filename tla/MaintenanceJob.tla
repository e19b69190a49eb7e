--------------------------- MODULE MaintenanceJob ---------------------------
(***************************************************************************)
(* Corpus maintenance jobs (admin_maintenance.py and their two routes in   *)
(* main.py).  A job works through a frozen list of items, one at a time,   *)
(* in a thread of the web process that holds the circular job lock.  Its   *)
(* row's progress column, one JSON value, carries the outcome of each item *)
(* and the cancel request, and is rewritten whole by the thread, by cancel *)
(* requests and by the recovery.                                           *)
(***************************************************************************)
EXTENDS Naturals

CONSTANTS
  Jobs,    \* maintenance jobs, each created once
  Items,   \* what there is to do: a circular and what it lacks
  Clicks,  \* cancel requests, each made once
  None,    \* no job
  Bound    \* how often each kind of disturbance may happen

Disturbances == {"crash", "storage", "pause"}

ASSUME NoneAssumption  == None \notin Jobs
ASSUME BoundAssumption == Bound \in [Disturbances -> Nat]

VARIABLES
  due,     \* durable: the items with work outstanding
  job,     \* durable: the rows of the jobs
  paused,  \* durable: the application is in maintenance
  up,      \* the web process runs
  lock,    \* CIRCULAR_JOB_LOCK: the job that holds it
  pc,      \* where the request that creates it, and then its thread, is
  mine,    \* the thread's copy of its items
  event,   \* each job's cancel event in _cancel_events
  click,   \* where each cancel request is, and what it has read
  count    \* disturbances so far

durable == <<due, job, paused>>
thread  == <<lock, pc, mine>>
vars    == <<durable, thread, up, event, click, count>>

-----------------------------------------------------------------------------
Statuses == {"none", "queued", "running", "success", "failed"}
Outcomes == {"none", "pending", "running", "completed", "failed"}
Steps    == {"off", "created", "registered", "start", "next", "begin", "perform", "record", "end", "stuck"}
Progress == [items: [Items -> Outcomes], cancel: BOOLEAN]

NoItems == [i \in Items |-> "none"]
NoClick == [at |-> "off", job |-> None, running |-> FALSE, items |-> NoItems]

TypeOK ==
  /\ due \subseteq Items
  /\ job \in [Jobs -> [status: Statuses, progress: Progress]]
  /\ paused \in BOOLEAN /\ up \in BOOLEAN
  /\ lock \in Jobs \union {None}
  /\ pc \in Steps
  /\ mine \in [Items -> Outcomes]
  /\ event \in [Jobs -> {"none", "clear", "set"}]
  /\ click \in [Clicks -> [at: {"off", "read", "set", "done"}, job: Jobs \union {None},
                           running: BOOLEAN, items: [Items -> Outcomes]]]
  /\ count \in [Disturbances -> Nat]

Init ==
  /\ due \in SUBSET Items
  /\ job = [j \in Jobs |-> [status |-> "none", progress |-> [items |-> NoItems, cancel |-> FALSE]]]
  /\ paused = FALSE /\ up = TRUE
  /\ lock = None /\ pc = "off" /\ mine = NoItems
  /\ event = [j \in Jobs |-> "none"]
  /\ click = [k \in Clicks |-> NoClick]
  /\ count = [k \in Disturbances |-> 0]

Happens(k) == count[k] < Bound[k] /\ count' = [count EXCEPT ![k] = @ + 1]

At(step)   == lock # None /\ pc = step
Goto(step) == pc' = step /\ UNCHANGED lock
Gone       == pc' = "off" /\ lock' = None /\ mine' = NoItems

Row(j, status, items, cancel) ==
  job' = [job EXCEPT ![j] = [status |-> status, progress |-> [items |-> items, cancel |-> cancel]]]

-----------------------------------------------------------------------------
(* Creation: the row is committed, then the event registered, then the     *)
(* thread started.                                                         *)

Eligible(wanted) == wanted \intersect due

Create(j) ==
  /\ up /\ ~paused /\ lock = None /\ job[j].status = "none"
  /\ \E wanted \in SUBSET Items :
       /\ Eligible(wanted) # {}
       /\ Row(j, "queued", [i \in Items |-> IF i \in Eligible(wanted) THEN "pending" ELSE "none"], FALSE)
  /\ lock' = j /\ pc' = "created"
  /\ UNCHANGED <<due, paused, up, mine, event, click, count>>

Register ==
  /\ At("created")
  /\ event' = [event EXCEPT ![lock] = "clear"]
  /\ Goto("registered")
  /\ UNCHANGED <<durable, mine, up, click, count>>

Admit ==
  /\ At("registered") /\ ~paused
  /\ Goto("start")
  /\ UNCHANGED <<durable, mine, up, event, click, count>>

(* The gate has closed meanwhile, or the thread does not start.  The lock  *)
(* is not given back when the row cannot be closed.                        *)
Refuse ==
  /\ At("registered")
  /\ \/ /\ Row(lock, "failed", job[lock].progress.items, job[lock].progress.cancel)
        /\ Gone /\ UNCHANGED count
     \/ /\ Happens("storage")
        /\ Goto("stuck") /\ UNCHANGED <<job, mine>>
  /\ UNCHANGED <<due, paused, up, event, click>>

-----------------------------------------------------------------------------
(* The thread.                                                             *)

Begin ==
  /\ At("start")
  /\ \/ /\ mine' = job[lock].progress.items
        /\ Row(lock, "running", job[lock].progress.items, job[lock].progress.cancel)
        /\ Goto("next") /\ UNCHANGED count
     \/ /\ Happens("storage")
        /\ Gone /\ UNCHANGED job
  /\ UNCHANGED <<due, paused, up, event, click>>

Pending   == {i \in Items : mine[i] = "pending"}
Cancelled == event[lock] = "set" \/ job[lock].progress.cancel

(* The next item is taken if no cancel request shows; that it begins is    *)
(* then written over whatever request has come meanwhile.                  *)
TakeItem(i) ==
  /\ At("next") /\ i \in Pending /\ ~Cancelled
  /\ mine' = [mine EXCEPT ![i] = "running"]
  /\ Goto("begin")
  /\ UNCHANGED <<durable, up, event, click, count>>

BeginItem ==
  /\ At("begin")
  /\ \/ Row(lock, "running", mine, FALSE) /\ Goto("perform") /\ UNCHANGED count
     \/ Happens("storage") /\ Goto("end") /\ UNCHANGED job
  /\ UNCHANGED <<due, paused, mine, up, event, click>>

(* Faulty variant: the loop ends with its items only.                      *)
NoneLeftPending ==
  /\ At("next") /\ Pending = {}
  /\ Goto("end")
  /\ UNCHANGED <<durable, mine, up, event, click, count>>

NoneLeft ==
  /\ At("next") /\ (Pending = {} \/ Cancelled)
  /\ Goto("end")
  /\ UNCHANGED <<durable, mine, up, event, click, count>>

Active(i)       == mine[i] = "running"
Settle(outcome) == mine' = [i \in Items |-> IF Active(i) THEN outcome ELSE mine[i]]

(* What is completed has been checked; what failed may have been done.     *)
Perform ==
  /\ At("perform")
  /\ \E done \in BOOLEAN, outcome \in {"completed", "failed"} :
       /\ outcome = "completed" => done
       /\ Settle(outcome)
       /\ due' = IF done THEN {i \in due : ~Active(i)} ELSE due
  /\ Goto("record")
  /\ UNCHANGED <<job, paused, up, event, click, count>>

Asked == event[lock] = "set"

Record ==
  /\ At("record")
  /\ \/ Row(lock, "running", mine, Asked) /\ Goto("next") /\ UNCHANGED count
     \/ Happens("storage") /\ Goto("end") /\ UNCHANGED job
  /\ UNCHANGED <<due, paused, mine, up, event, click>>

(* Faulty variant: a job succeeds unless something failed.                 *)
ResultUnfailed ==
  IF \A i \in Items : mine[i] # "failed" THEN "success" ELSE "failed"

(* Faulty variant: a cancelled job ends under a status no reader knows.    *)
ResultCancelled ==
  IF Pending # {} THEN "cancelled" ELSE ResultUnfailed

Result ==
  IF \A i \in Items : mine[i] \in {"none", "completed"} THEN "success" ELSE "failed"

(* The last transaction; the event is dropped after it commits, and the    *)
(* lock given back whether it does or not.                                 *)
End ==
  /\ At("end")
  /\ \/ /\ Row(lock, Result, mine, Asked)
        /\ event' = [event EXCEPT ![lock] = "none"]
        /\ UNCHANGED count
     \/ Happens("storage") /\ UNCHANGED <<job, event>>
  /\ Gone
  /\ UNCHANGED <<due, paused, up, click>>

-----------------------------------------------------------------------------
(* A cancel request: it reads the row, sets the event if there is one, and *)
(* writes back the progress that it has read.                              *)

CancelRead(k, j) ==
  /\ up /\ ~paused /\ click[k].at = "off"
  /\ job[j].status \in {"queued", "running"}
  /\ click' = [click EXCEPT ![k] = [at |-> "read", job |-> j, running |-> job[j].status = "running",
                                    items |-> job[j].progress.items]]
  /\ UNCHANGED <<durable, thread, up, event, count>>

(* Faulty variant: the request is left to the row alone.                   *)
CancelUnset(k) ==
  /\ click[k].at = "read"
  /\ click' = [click EXCEPT ![k].at = "set"]
  /\ UNCHANGED <<durable, thread, up, event, count>>

CancelSet(k) ==
  /\ click[k].at = "read"
  /\ event' = [event EXCEPT ![click[k].job] = IF @ = "none" THEN @ ELSE "set"]
  /\ click' = [click EXCEPT ![k].at = "set"]
  /\ UNCHANGED <<durable, thread, up, count>>

CancelWrite(k) ==
  /\ click[k].at = "set"
  /\ \/ Row(click[k].job, job[click[k].job].status, click[k].items, TRUE) /\ UNCHANGED count
     \/ Happens("storage") /\ UNCHANGED job
  /\ click' = [click EXCEPT ![k].at = "done", ![k].items = NoItems]
  /\ UNCHANGED <<due, paused, thread, up, event>>

-----------------------------------------------------------------------------
(* The console pauses the application; the process may be killed anywhere. *)
(* A boot recovers unless it is spent in maintenance.                      *)

Pause ==
  /\ up /\ ~paused /\ Happens("pause")
  /\ paused' = TRUE
  /\ UNCHANGED <<due, job, thread, up, event, click>>

Unpause ==
  /\ up /\ paused
  /\ paused' = FALSE
  /\ UNCHANGED <<due, job, thread, up, event, click, count>>

Crash ==
  /\ up /\ Happens("crash")
  /\ up' = FALSE /\ Gone
  /\ event' = [j \in Jobs |-> "none"]
  /\ click' = [k \in Clicks |-> IF click[k].at = "off" THEN NoClick ELSE [NoClick EXCEPT !.at = "done"]]
  /\ UNCHANGED durable

(* Faulty variant: what was under way is taken for done.                   *)
InterruptedDone(r) ==
  IF r.status \notin {"queued", "running"} THEN r
  ELSE [status   |-> "failed",
        progress |-> [r.progress EXCEPT !.items = [i \in Items |-> IF @[i] = "running" THEN "completed" ELSE @[i]]]]

Interrupted(r) ==
  IF r.status \notin {"queued", "running"} THEN r
  ELSE [status   |-> "failed",
        progress |-> [r.progress EXCEPT !.items = [i \in Items |-> IF @[i] = "running" THEN "failed" ELSE @[i]]]]

Boot ==
  /\ ~up
  /\ up' = TRUE
  /\ job' = IF paused THEN job ELSE [j \in Jobs |-> Interrupted(job[j])]
  /\ UNCHANGED <<due, paused, thread, event, click, count>>

-----------------------------------------------------------------------------
Owner ==
  \/ Register \/ Admit \/ Refuse
  \/ Begin \/ (\E i \in Items : TakeItem(i)) \/ BeginItem \/ NoneLeft \/ Perform \/ Record \/ End

Cancel == \E k \in Clicks : (\E j \in Jobs : CancelRead(k, j)) \/ CancelSet(k) \/ CancelWrite(k)

Next ==
  \/ \E j \in Jobs : Create(j)
  \/ Owner \/ Cancel \/ Pause \/ Unpause \/ Crash \/ Boot

Spec == Init /\ [][Next]_vars

(* A request is served and a thread scheduled; every wait of an item ends. *)
FairSpec == Spec /\ WF_vars(Owner) /\ WF_vars(Boot)

-----------------------------------------------------------------------------
(* Properties.                                                             *)

Selected(j) == {i \in Items : job[j].progress.items[i] # "none"}

(* A row never shows an item as completed whose work is outstanding,       *)
(* whatever was killed between the work and its record, and whichever of   *)
(* its writers wrote last: a retry leaves out only what is done.           *)
CompletedIsDone ==
  \A j \in Jobs, i \in Items : job[j].progress.items[i] = "completed" => i \notin due

(* A job that ends as a success has done all it selected: a cancelled or   *)
(* interrupted one never does.                                             *)
SuccessIsComplete ==
  \A j \in Jobs : job[j].status = "success" => Selected(j) \intersect due = {}

(* "Cancel finishes the active item": once a cancel request of a running   *)
(* job has been answered the job takes no further item, although it        *)
(* rewrites the row that says so.  What the request may still see begin is *)
(* the one item that had been taken, and not begun, when it was answered.  *)
CancelledTakesNoOther ==
  [][\A k \in Clicks : click[k].at = "done" /\ click[k].running /\ lock = click[k].job =>
       \A i \in Items : mine[i] = "pending" => mine'[i] # "running"]_vars

(* A job gives the lock back, cancelled or not and whatever fails, but for *)
(* a job that is refused and cannot record it.                             *)
JobsGiveTheLockBack ==
  \A j \in Jobs : lock = j ~> lock # j \/ pc = "stuck"

(* "The server ... persists per-item outcomes in progress": a job that     *)
(* says success shows all its items completed.                             *)
SuccessShowsItsItems ==
  \A j \in Jobs : job[j].status = "success" =>
    \A i \in Selected(j) : job[j].progress.items[i] = "completed"

=============================================================================
