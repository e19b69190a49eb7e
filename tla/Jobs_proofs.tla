---------------------------- MODULE Jobs_proofs -----------------------------
(***************************************************************************)
(* Work that is queued, carried out, cancelled and failed: corpus          *)
(* maintenance jobs, analyses by the model, and the fetches of a scraper,  *)
(* for every set of jobs, items, requests and fetches, any delay and       *)
(* deadline, and any number of disturbances.                               *)
(***************************************************************************)
EXTENDS MaintenanceJob, Generation, RequestPacer, TLAPS

-----------------------------------------------------------------------------
(* Corpus maintenance jobs (MaintenanceJob).                               *)

RowType   == [status: Statuses, progress: Progress]
ItemsType == [Items -> Outcomes]
ClickType == [at: {"off", "read", "set", "done"}, job: Jobs \union {None},
              running: BOOLEAN, items: ItemsType]

-----------------------------------------------------------------------------
(* What the writers of a row do to it.                                     *)

(* A row that is written has the given parts, and no other row changes.    *)
LEMMA RowEffect ==
  ASSUME TypeOK, NEW j \in Jobs, NEW st \in Statuses, NEW items \in ItemsType,
         NEW cancel \in BOOLEAN, Row(j, st, items, cancel)
  PROVE  /\ job' \in [Jobs -> RowType]
         /\ job'[j].status = st /\ job'[j].progress.items = items
         /\ \A k \in Jobs : k # j => job'[k] = job[k]
<1>1. [status |-> st, progress |-> [items |-> items, cancel |-> cancel]] \in RowType
  BY DEF RowType, Progress, ItemsType
<1>2. job \in [Jobs -> RowType]
  BY DEF TypeOK, RowType
<1>3. QED
  BY <1>1, <1>2 DEF Row

(* The parts of a row and of a cancel request have their types.            *)
LEMMA JobParts ==
  ASSUME TypeOK
  PROVE  /\ job \in [Jobs -> RowType]
         /\ \A j \in Jobs : /\ job[j].status \in Statuses
                            /\ job[j].progress \in Progress
                            /\ job[j].progress.items \in ItemsType
                            /\ job[j].progress.cancel \in BOOLEAN
         /\ mine \in ItemsType
         /\ NoItems \in ItemsType
         /\ event \in [Jobs -> {"none", "clear", "set"}]
         /\ lock \in Jobs \union {None}
         /\ due \subseteq Items
         /\ click \in [Clicks -> ClickType]
         /\ \A k \in Clicks : /\ click[k].items \in ItemsType
                              /\ click[k].job \in Jobs \union {None}
BY DEF TypeOK, RowType, Progress, ItemsType, ClickType, NoItems, Outcomes

(* A disturbance that happens is counted by a natural number.              *)
LEMMA CountType ==
  ASSUME TypeOK, NEW k \in Disturbances, Happens(k)
  PROVE  count' \in [Disturbances -> Nat]
<1>1. count \in [Disturbances -> Nat] /\ count[k] \in Nat
  BY DEF TypeOK
<1>2. count[k] + 1 \in Nat
  BY <1>1
<1>3. QED
  BY <1>1, <1>2 DEF Happens

(* The recovery leaves a row whose selection is what it was, and completes *)
(* nothing.                                                                *)
LEMMA InterruptedRow ==
  ASSUME TypeOK, NEW j \in Jobs
  PROVE  /\ Interrupted(job[j]) \in RowType
         /\ Interrupted(job[j]).status = "none" <=> job[j].status = "none"
         /\ Interrupted(job[j]).status = "success" <=> job[j].status = "success"
         /\ \A i \in Items : LET was == job[j].progress.items[i]
                                 is  == Interrupted(job[j]).progress.items[i]
                             IN  /\ is = "none" <=> was = "none"
                                 /\ is = "completed" <=> was = "completed"
<1> DEFINE r == job[j]
<1>1. r \in RowType /\ r.progress \in Progress /\ r.progress.items \in ItemsType
  BY JobParts
<1>2. CASE r.status \notin {"queued", "running"}
  BY <1>1, <1>2 DEF Interrupted
<1>3. CASE r.status \in {"queued", "running"}
  <2> DEFINE items == [i \in Items |-> IF r.progress.items[i] = "running" THEN "failed" ELSE r.progress.items[i]]
  <2>1. items \in ItemsType
    BY <1>1 DEF ItemsType, Outcomes
  <2>2. Interrupted(r) = [status |-> "failed", progress |-> [r.progress EXCEPT !.items = items]]
    BY <1>3 DEF Interrupted
  <2>3. Interrupted(r).status = "failed" /\ Interrupted(r).progress.items = items
    BY <1>1, <2>2 DEF Progress
  <2>4. Interrupted(r) \in RowType
    BY <1>1, <2>1, <2>2 DEF RowType, Progress, Statuses, ItemsType
  <2>5. \A i \in Items : /\ items[i] = "none" <=> r.progress.items[i] = "none"
                         /\ items[i] = "completed" <=> r.progress.items[i] = "completed"
    OBVIOUS
  <2>6. QED
    BY <1>3, <2>3, <2>4, <2>5
<1>4. QED
  BY <1>2, <1>3
-----------------------------------------------------------------------------
(* The inductive invariant.                                                *)

Began         == {"next", "begin", "perform", "record", "end"}
Chosen(items) == {i \in Items : items[i] # "none"}
Honest(items)   == \A i \in Items : items[i] = "completed" => i \notin due

(* The row of the job that holds the lock says how far its thread is, and  *)
(* its cancel event is there once the row has been committed.              *)
HolderIsKnown == lock # None =>
  /\ pc # "off"
  /\ job[lock].status = IF pc \in Began THEN "running" ELSE "queued"
  /\ pc # "created" => event[lock] # "none"

(* A process that is down holds no lock.                                   *)
DownIsIdle == ~up => lock = None

(* A cancel request is of a job that exists; if that job holds the lock    *)
(* and was running, its thread has begun, and has been told.               *)
ClicksAreHeard == \A k \in Clicks :
  /\ click[k].at \in {"read", "set"} \/ click[k].running => click[k].job # None
  /\ click[k].at = "off" => ~click[k].running
  /\ click[k].job # None => job[click[k].job].status # "none"
  /\ click[k].running /\ lock = click[k].job =>
       /\ pc \in Began
       /\ click[k].at # "read" => event[lock] = "set"

(* Whoever writes the progress of a job knows its selection.               *)
SelectionIsKnown ==
  /\ \A k \in Clicks : click[k].at \in {"read", "set"} =>
       Chosen(click[k].items) = Selected(click[k].job)
  /\ lock # None /\ pc \in Began => Chosen(mine) = Selected(lock)

(* Whoever writes it knows nothing as completed that is not done.          *)
CopiesAreTrue ==
  /\ \A j \in Jobs : Honest(job[j].progress.items)
  /\ \A k \in Clicks : Honest(click[k].items)
  /\ Honest(mine)

JobInv ==
  /\ TypeOK /\ DownIsIdle /\ HolderIsKnown /\ ClicksAreHeard
  /\ SelectionIsKnown /\ CopiesAreTrue /\ SuccessIsComplete

(* A fresh installation satisfies the invariant.                           *)
LEMMA JobInvInit == Init => JobInv
<1>1. SUFFICES ASSUME Init PROVE JobInv
  OBVIOUS
<1>2. TypeOK
  BY <1>1 DEF Init, TypeOK, NoItems, NoClick, Progress, Statuses, Outcomes, Steps, Disturbances
<1>3. QED
  BY <1>1, <1>2, NoneAssumption
  DEF Init, JobInv, NoItems, NoClick, DownIsIdle, HolderIsKnown, ClicksAreHeard, SelectionIsKnown,
      CopiesAreTrue, SuccessIsComplete, Chosen, Selected, Honest, Began

(* Registering the event keeps the invariant.                              *)
LEMMA RegisterInv ==
  ASSUME JobInv, Register
  PROVE  JobInv'
<1>1. TypeOK /\ None \notin Jobs
  BY NoneAssumption DEF JobInv
<1>2. TypeOK'
  BY <1>1, JobParts
  DEF Register, At, Goto, TypeOK, RowType, ItemsType, ClickType, Progress, Steps, Statuses, durable, thread
<1>3. QED
  BY <1>1, <1>2, JobParts
  DEF Register, At, Goto, JobInv, DownIsIdle, HolderIsKnown, ClicksAreHeard, SelectionIsKnown,
      CopiesAreTrue, SuccessIsComplete, Chosen, Selected, Honest, Began, durable, thread

(* Starting the thread keeps it.                                           *)
LEMMA AdmitInv ==
  ASSUME JobInv, Admit
  PROVE  JobInv'
<1>1. TypeOK /\ None \notin Jobs
  BY NoneAssumption DEF JobInv
<1>2. TypeOK'
  BY <1>1, JobParts
  DEF Admit, At, Goto, TypeOK, RowType, ItemsType, ClickType, Progress, Steps, Statuses, durable, thread
<1>3. QED
  BY <1>1, <1>2, JobParts
  DEF Admit, At, Goto, JobInv, DownIsIdle, HolderIsKnown, ClicksAreHeard, SelectionIsKnown,
      CopiesAreTrue, SuccessIsComplete, Chosen, Selected, Honest, Began, durable, thread

(* So does the end of the loop.                                            *)
LEMMA NoneLeftInv ==
  ASSUME JobInv, NoneLeft
  PROVE  JobInv'
<1>1. TypeOK /\ None \notin Jobs
  BY NoneAssumption DEF JobInv
<1>2. TypeOK'
  BY <1>1, JobParts
  DEF NoneLeft, At, Goto, TypeOK, RowType, ItemsType, ClickType, Progress, Steps, Statuses, durable, thread
<1>3. QED
  BY <1>1, <1>2, JobParts
  DEF NoneLeft, At, Goto, JobInv, DownIsIdle, HolderIsKnown, ClicksAreHeard, SelectionIsKnown,
      CopiesAreTrue, SuccessIsComplete, Chosen, Selected, Honest, Began, durable, thread

(* A request that is refused keeps it, recorded or not.                    *)
LEMMA RefuseInv ==
  ASSUME JobInv, Refuse
  PROVE  JobInv'
<1>1. TypeOK /\ None \notin Jobs /\ At("registered") /\ lock \in Jobs
  BY NoneAssumption, JobParts DEF JobInv, Refuse, At
<1>2. CASE Row(lock, "failed", job[lock].progress.items, job[lock].progress.cancel) /\ Gone /\ UNCHANGED count
  <2>1. /\ job' \in [Jobs -> RowType]
        /\ job'[lock].status = "failed" /\ job'[lock].progress.items = job[lock].progress.items
        /\ \A k \in Jobs : k # lock => job'[k] = job[k]
    BY <1>1, <1>2, JobParts, RowEffect DEF Statuses
  <2>2. TypeOK'
    BY <1>1, <1>2, <2>1, JobParts DEF Refuse, Gone, TypeOK, RowType, ItemsType, Steps
  <2>3. DownIsIdle' /\ HolderIsKnown' /\ ClicksAreHeard'
    BY <1>1, <1>2, <2>1, JobParts
    DEF Refuse, Gone, JobInv, DownIsIdle, HolderIsKnown, ClicksAreHeard, Began
  <2>4. SelectionIsKnown'
    BY <1>1, <1>2, <2>1, JobParts
    DEF Refuse, Gone, JobInv, ClicksAreHeard, SelectionIsKnown, Chosen, Selected, Began
  <2>5. SuccessIsComplete'
    BY <1>1, <1>2, <2>1, JobParts
    DEF Refuse, Gone, JobInv, SuccessIsComplete, Selected
  <2>6. CopiesAreTrue'
    BY <1>1, <1>2, <2>1, JobParts
    DEF Refuse, Gone, JobInv, CopiesAreTrue, Honest, NoItems
  <2>7. QED
    BY <2>2, <2>3, <2>4, <2>5, <2>6 DEF JobInv
<1>3. CASE Happens("storage") /\ Goto("stuck") /\ UNCHANGED <<job, mine>>
  <2>1. TypeOK'
    BY <1>1, <1>3, CountType DEF Refuse, Goto, TypeOK, Steps, Disturbances
  <2>2. QED
    BY <1>1, <1>3, <2>1, JobParts
    DEF Refuse, Goto, At, JobInv, DownIsIdle, HolderIsKnown, ClicksAreHeard, SelectionIsKnown,
        CopiesAreTrue, SuccessIsComplete, Chosen, Selected, Honest, Began
<1>4. QED
  BY <1>2, <1>3 DEF Refuse

(* The first transaction of the thread keeps it.                           *)
LEMMA BeginInv ==
  ASSUME JobInv, Begin
  PROVE  JobInv'
<1>1. TypeOK /\ None \notin Jobs /\ At("start") /\ lock \in Jobs
  BY NoneAssumption, JobParts DEF JobInv, Begin, At
<1>2. CASE /\ Row(lock, "running", job[lock].progress.items, job[lock].progress.cancel)
           /\ mine' = job[lock].progress.items /\ Goto("next") /\ UNCHANGED count
  <2>1. /\ job' \in [Jobs -> RowType]
        /\ job'[lock].status = "running" /\ job'[lock].progress.items = job[lock].progress.items
        /\ \A k \in Jobs : k # lock => job'[k] = job[k]
    BY <1>1, <1>2, JobParts, RowEffect DEF Statuses
  <2>2. TypeOK'
    BY <1>1, <1>2, <2>1, JobParts DEF Begin, Goto, TypeOK, RowType, ItemsType, Steps
  <2>3. DownIsIdle' /\ HolderIsKnown' /\ ClicksAreHeard'
    BY <1>1, <1>2, <2>1, JobParts
    DEF Begin, At, Goto, JobInv, DownIsIdle, HolderIsKnown, ClicksAreHeard, Began
  <2>4. SelectionIsKnown'
    BY <1>1, <1>2, <2>1, JobParts
    DEF Begin, At, Goto, JobInv, ClicksAreHeard, SelectionIsKnown, Chosen, Selected, Began
  <2>5. SuccessIsComplete'
    BY <1>1, <1>2, <2>1, JobParts
    DEF Begin, At, Goto, JobInv, SuccessIsComplete, Selected
  <2>6. CopiesAreTrue'
    BY <1>1, <1>2, <2>1, JobParts
    DEF Begin, At, Goto, JobInv, CopiesAreTrue, Honest
  <2>7. QED
    BY <2>2, <2>3, <2>4, <2>5, <2>6 DEF JobInv
<1>3. CASE Happens("storage") /\ Gone /\ UNCHANGED job
  <2>1. TypeOK'
    BY <1>1, <1>3, JobParts, CountType DEF Begin, Gone, TypeOK, ItemsType, Steps, Disturbances
  <2>2. QED
    BY <1>1, <1>3, <2>1, JobParts
    DEF Begin, Gone, JobInv, DownIsIdle, HolderIsKnown, ClicksAreHeard, SelectionIsKnown,
        CopiesAreTrue, SuccessIsComplete, Chosen, Selected, Honest, Began, NoItems
<1>4. QED
  BY <1>2, <1>3 DEF Begin

(* Taking an item keeps it.                                                *)
LEMMA TakeItemInv ==
  ASSUME JobInv, NEW i \in Items, TakeItem(i)
  PROVE  JobInv'
<1>1. TypeOK /\ None \notin Jobs /\ At("next") /\ lock \in Jobs
  BY NoneAssumption, JobParts DEF JobInv, TakeItem, At
<1>2. /\ mine' \in ItemsType
      /\ \A k \in Items : /\ mine'[k] = "none" <=> mine[k] = "none"
                          /\ mine'[k] = "completed" => mine[k] = "completed"
  <2>1. mine \in ItemsType /\ mine[i] = "pending" /\ mine' = [mine EXCEPT ![i] = "running"]
    BY <1>1, JobParts DEF TakeItem, Pending
  <2>2. \A k \in Items : mine'[k] = IF k = i THEN "running" ELSE mine[k]
    BY <2>1 DEF ItemsType
  <2>3. mine' \in ItemsType
    BY <2>1 DEF ItemsType, Outcomes
  <2>4. QED
    BY <2>1, <2>2, <2>3
<1>3. TypeOK'
  BY <1>1, <1>2 DEF TakeItem, Goto, TypeOK, ItemsType, Steps, durable
<1>4. QED
  BY <1>1, <1>2, <1>3, JobParts
  DEF TakeItem, At, Goto, JobInv, DownIsIdle, HolderIsKnown, ClicksAreHeard, SelectionIsKnown,
      CopiesAreTrue, SuccessIsComplete, Chosen, Selected, Honest, Began, durable

(* The start of an item keeps it.                                          *)
LEMMA BeginItemInv ==
  ASSUME JobInv, BeginItem
  PROVE  JobInv'
<1>1. TypeOK /\ None \notin Jobs /\ At("begin") /\ lock \in Jobs /\ mine \in ItemsType
  BY NoneAssumption, JobParts DEF JobInv, BeginItem, At
<1>2. CASE Row(lock, "running", mine, FALSE) /\ Goto("perform") /\ UNCHANGED count
  <2>1. /\ job' \in [Jobs -> RowType]
        /\ job'[lock].status = "running" /\ job'[lock].progress.items = mine
        /\ \A k \in Jobs : k # lock => job'[k] = job[k]
    BY <1>1, <1>2, RowEffect DEF Statuses
  <2>2. TypeOK'
    BY <1>1, <1>2, <2>1 DEF BeginItem, Goto, TypeOK, RowType, ItemsType, Steps
  <2>3. \A k \in Items : job'[lock].progress.items[k] = "none" <=> job[lock].progress.items[k] = "none"
    BY <1>1, <2>1 DEF JobInv, SelectionIsKnown, At, Began, Chosen, Selected
  <2>4. DownIsIdle' /\ HolderIsKnown' /\ ClicksAreHeard'
    BY <1>1, <1>2, <2>1, JobParts DEF BeginItem, At, Goto, JobInv, DownIsIdle, HolderIsKnown, ClicksAreHeard, Began
  <2>5. SelectionIsKnown'
    <3>1. \A j \in Jobs : Chosen(job'[j].progress.items) = Chosen(job[j].progress.items)
      BY <1>1, <2>1, <2>3 DEF Chosen
    <3>2. QED
      BY <1>1, <1>2, <3>1, JobParts
      DEF BeginItem, At, Goto, JobInv, ClicksAreHeard, SelectionIsKnown, Chosen, Selected, Began
  <2>6. SuccessIsComplete'
    BY <1>1, <2>1, <2>3 DEF BeginItem, JobInv, SuccessIsComplete, Selected
  <2>7. CopiesAreTrue'
    BY <1>1, <1>2, <2>1, JobParts DEF BeginItem, JobInv, CopiesAreTrue, Honest
  <2>8. QED
    BY <2>2, <2>4, <2>5, <2>6, <2>7 DEF JobInv
<1>3. CASE Happens("storage") /\ Goto("end") /\ UNCHANGED job
  <2>1. TypeOK'
    BY <1>1, <1>3, CountType DEF BeginItem, Goto, TypeOK, ItemsType, Steps, Disturbances
  <2>2. QED
    BY <1>1, <1>3, <2>1, JobParts
    DEF BeginItem, At, Goto, JobInv, DownIsIdle, HolderIsKnown, ClicksAreHeard, SelectionIsKnown,
        CopiesAreTrue, SuccessIsComplete, Chosen, Selected, Honest, Began
<1>4. QED
  BY <1>2, <1>3 DEF BeginItem

(* The work of an item keeps it: what completes is done.                   *)
LEMMA PerformInv ==
  ASSUME JobInv, Perform
  PROVE  JobInv'
<1>1. TypeOK /\ None \notin Jobs /\ At("perform") /\ lock \in Jobs
  BY NoneAssumption, JobParts DEF JobInv, Perform, At
<1>2. PICK wasDone \in BOOLEAN, outcome \in {"completed", "failed"} :
        /\ outcome = "completed" => wasDone
        /\ Settle(outcome)
        /\ due' = IF wasDone THEN {i \in due : ~Active(i)} ELSE due
  BY DEF Perform
<1>3. /\ mine' \in ItemsType /\ due' \subseteq due
      /\ \A i \in Items : mine'[i] = "none" <=> mine[i] = "none"
      /\ \A i \in Items : mine'[i] = "completed" => mine[i] = "completed" \/ i \notin due'
  BY <1>1, <1>2, JobParts DEF Settle, Active, ItemsType, Outcomes
<1>4. TypeOK'
  BY <1>1, <1>3 DEF Perform, Goto, TypeOK, ItemsType, Steps
<1>5. DownIsIdle' /\ HolderIsKnown' /\ ClicksAreHeard'
  BY <1>1, <1>3, JobParts
  DEF Perform, At, Goto, JobInv, DownIsIdle, HolderIsKnown, ClicksAreHeard, Began
<1>6. SelectionIsKnown'
  BY <1>1, <1>3, JobParts
  DEF Perform, At, Goto, JobInv, ClicksAreHeard, SelectionIsKnown, Chosen, Selected, Began
<1>7. SuccessIsComplete'
  BY <1>1, <1>3, JobParts
  DEF Perform, At, Goto, JobInv, SuccessIsComplete, Selected
<1>8. CopiesAreTrue'
  BY <1>1, <1>3, JobParts
  DEF Perform, At, Goto, JobInv, CopiesAreTrue, Honest
<1>9. QED
  BY <1>4, <1>5, <1>6, <1>7, <1>8 DEF JobInv

(* The record of an outcome keeps it.                                      *)
LEMMA RecordInv ==
  ASSUME JobInv, Record
  PROVE  JobInv'
<1>1. TypeOK /\ None \notin Jobs /\ At("record") /\ lock \in Jobs /\ Asked \in BOOLEAN
  BY NoneAssumption, JobParts DEF JobInv, Record, At, Asked
<1>2. CASE Row(lock, "running", mine, Asked) /\ Goto("next") /\ UNCHANGED count
  <2>1. /\ job' \in [Jobs -> RowType]
        /\ job'[lock].status = "running" /\ job'[lock].progress.items = mine
        /\ \A k \in Jobs : k # lock => job'[k] = job[k]
    BY <1>1, <1>2, JobParts, RowEffect DEF Statuses
  <2>2. TypeOK'
    BY <1>1, <1>2, <2>1 DEF Record, Goto, TypeOK, RowType, Steps
  <2>3. \A i \in Items : job'[lock].progress.items[i] = "none" <=> job[lock].progress.items[i] = "none"
    BY <1>1, <2>1 DEF JobInv, SelectionIsKnown, At, Began, Chosen, Selected
  <2>4. DownIsIdle' /\ HolderIsKnown' /\ ClicksAreHeard'
    BY <1>1, <1>2, <2>1, <2>3, JobParts
    DEF Record, At, Goto, JobInv, DownIsIdle, HolderIsKnown, ClicksAreHeard, Began
  <2>5. SelectionIsKnown'
    BY <1>1, <1>2, <2>1, <2>3, JobParts
    DEF Record, At, Goto, JobInv, ClicksAreHeard, SelectionIsKnown, Chosen, Selected, Began
  <2>6. SuccessIsComplete'
    BY <1>1, <1>2, <2>1, <2>3, JobParts
    DEF Record, At, Goto, JobInv, SuccessIsComplete, Selected
  <2>7. CopiesAreTrue'
    BY <1>1, <1>2, <2>1, <2>3, JobParts
    DEF Record, At, Goto, JobInv, CopiesAreTrue, Honest
  <2>8. QED
    BY <2>2, <2>4, <2>5, <2>6, <2>7 DEF JobInv
<1>3. CASE Happens("storage") /\ Goto("end") /\ UNCHANGED job
  <2>1. TypeOK'
    BY <1>1, <1>3, CountType DEF Record, Goto, TypeOK, Steps, Disturbances
  <2>2. QED
    BY <1>1, <1>3, <2>1, JobParts
    DEF Record, At, Goto, JobInv, DownIsIdle, HolderIsKnown, ClicksAreHeard, SelectionIsKnown,
        CopiesAreTrue, SuccessIsComplete, Chosen, Selected, Honest, Began
<1>4. QED
  BY <1>2, <1>3 DEF Record

(* The end of a job keeps it: a success has nothing left.                  *)
LEMMA EndInv ==
  ASSUME JobInv, End
  PROVE  JobInv'
<1>1. TypeOK /\ None \notin Jobs /\ At("end") /\ lock \in Jobs /\ Asked \in BOOLEAN
  BY NoneAssumption, JobParts DEF JobInv, End, At, Asked
<1>2. CASE Row(lock, Result, mine, Asked) /\ event' = [event EXCEPT ![lock] = "none"] /\ UNCHANGED count
  <2>1. Result \in {"success", "failed"} /\ (Result = "success" => \A i \in Items : mine[i] \in {"none", "completed"})
    BY DEF Result
  <2>2. /\ job' \in [Jobs -> RowType]
        /\ job'[lock].status = Result /\ job'[lock].progress.items = mine
        /\ \A k \in Jobs : k # lock => job'[k] = job[k]
    BY <1>1, <1>2, <2>1, JobParts, RowEffect DEF Statuses
  <2>3. TypeOK'
    BY <1>1, <1>2, <2>2, JobParts DEF End, Gone, TypeOK, RowType, ItemsType, Steps
  <2>4. \A i \in Items : job'[lock].progress.items[i] = "none" <=> job[lock].progress.items[i] = "none"
    BY <1>1, <2>2 DEF JobInv, SelectionIsKnown, At, Began, Chosen, Selected
  <2>5. Result = "success" => \A i \in Items : job'[lock].progress.items[i] # "none" => i \notin due
    BY <1>1, <2>1, <2>2, JobParts DEF JobInv, CopiesAreTrue, Honest, Selected
  <2>6. DownIsIdle' /\ HolderIsKnown' /\ ClicksAreHeard'
    BY <1>1, <1>2, <2>1, <2>2, <2>4, <2>5, JobParts
    DEF End, At, Gone, JobInv, DownIsIdle, HolderIsKnown, ClicksAreHeard, Began
  <2>7. SelectionIsKnown'
    BY <1>1, <1>2, <2>1, <2>2, <2>4, <2>5, JobParts
    DEF End, At, Gone, JobInv, ClicksAreHeard, SelectionIsKnown, Chosen, Selected, Began
  <2>8. SuccessIsComplete'
    BY <1>1, <1>2, <2>1, <2>2, <2>4, <2>5, JobParts
    DEF End, At, Gone, JobInv, SuccessIsComplete, Selected
  <2>9. CopiesAreTrue'
    BY <1>1, <1>2, <2>1, <2>2, <2>4, <2>5, JobParts
    DEF End, At, Gone, JobInv, CopiesAreTrue, Honest, NoItems
  <2>10. QED
    BY <2>3, <2>6, <2>7, <2>8, <2>9 DEF JobInv
<1>3. CASE Happens("storage") /\ UNCHANGED <<job, event>>
  <2>1. TypeOK'
    BY <1>1, <1>3, JobParts, CountType DEF End, Gone, TypeOK, ItemsType, Steps, Disturbances
  <2>2. QED
    BY <1>1, <1>3, <2>1, JobParts
    DEF End, At, Gone, JobInv, DownIsIdle, HolderIsKnown, ClicksAreHeard, SelectionIsKnown,
        CopiesAreTrue, SuccessIsComplete, Chosen, Selected, Honest, Began, NoItems
<1>4. QED
  BY <1>2, <1>3 DEF End

(* A job that is created keeps it: its row is new.                         *)
LEMMA CreateInv ==
  ASSUME JobInv, NEW j \in Jobs, Create(j)
  PROVE  JobInv'
<1>1. TypeOK /\ None \notin Jobs /\ lock = None /\ job[j].status = "none"
  BY NoneAssumption DEF JobInv, Create
<1>2. PICK wanted \in SUBSET Items :
        Row(j, "queued", [i \in Items |-> IF i \in Eligible(wanted) THEN "pending" ELSE "none"], FALSE)
  BY DEF Create
<1> DEFINE items == [i \in Items |-> IF i \in Eligible(wanted) THEN "pending" ELSE "none"]
<1>3. items \in ItemsType /\ \A i \in Items : items[i] # "completed"
  BY DEF ItemsType, Outcomes
<1> HIDE DEF items
<1>4. /\ job' \in [Jobs -> RowType]
      /\ job'[j].status = "queued" /\ job'[j].progress.items = items
      /\ \A k \in Jobs : k # j => job'[k] = job[k]
  BY <1>1, <1>2, <1>3, RowEffect DEF items, Statuses
<1>5. TypeOK'
  BY <1>1, <1>4 DEF Create, TypeOK, RowType, Steps
<1>6. DownIsIdle' /\ HolderIsKnown' /\ ClicksAreHeard'
  BY <1>1, <1>4, JobParts DEF Create, JobInv, DownIsIdle, HolderIsKnown, ClicksAreHeard, Began
<1>7. SelectionIsKnown' /\ SuccessIsComplete'
  BY <1>1, <1>4, JobParts DEF Create, JobInv, ClicksAreHeard, SelectionIsKnown, SuccessIsComplete, Selected, Began
<1>8. CopiesAreTrue'
  BY <1>1, <1>3, <1>4, JobParts DEF Create, JobInv, CopiesAreTrue, Honest
<1>9. QED
  BY <1>5, <1>6, <1>7, <1>8 DEF JobInv

(* A cancel request that reads the row keeps it.                           *)
LEMMA CancelReadInv ==
  ASSUME JobInv, NEW k \in Clicks, NEW j \in Jobs, CancelRead(k, j)
  PROVE  JobInv'
<1>1. TypeOK /\ None \notin Jobs /\ job[j].status \in {"queued", "running"} /\ click[k].at = "off"
  BY NoneAssumption DEF JobInv, CancelRead
<1>2. /\ click' \in [Clicks -> ClickType]
      /\ click'[k] = [at |-> "read", job |-> j, running |-> job[j].status = "running",
                      items |-> job[j].progress.items]
      /\ \A c \in Clicks : c # k => click'[c] = click[c]
  BY <1>1, JobParts DEF CancelRead, ClickType
<1>3. TypeOK'
  BY <1>1, <1>2 DEF CancelRead, durable, thread, TypeOK, ClickType, ItemsType
<1>4. DownIsIdle' /\ HolderIsKnown' /\ ClicksAreHeard'
  BY <1>1, <1>2, JobParts DEF CancelRead, durable, thread, JobInv, DownIsIdle, HolderIsKnown, ClicksAreHeard
<1>5. SelectionIsKnown' /\ SuccessIsComplete'
  BY <1>1, <1>2, JobParts
  DEF CancelRead, durable, thread, JobInv, SelectionIsKnown, SuccessIsComplete, Chosen, Selected
<1>6. CopiesAreTrue'
  BY <1>1, <1>2, JobParts DEF CancelRead, durable, thread, JobInv, CopiesAreTrue, Honest
<1>7. QED
  BY <1>3, <1>4, <1>5, <1>6 DEF JobInv

(* One that sets the event keeps it.                                       *)
LEMMA CancelSetInv ==
  ASSUME JobInv, NEW k \in Clicks, CancelSet(k)
  PROVE  JobInv'
<1>1. TypeOK /\ None \notin Jobs /\ click[k].at = "read" /\ click[k].job \in Jobs
  BY NoneAssumption, JobParts DEF JobInv, CancelSet, ClicksAreHeard
<1>2. /\ click' \in [Clicks -> ClickType]
      /\ click'[k] = [click[k] EXCEPT !.at = "set"]
      /\ \A c \in Clicks : c # k => click'[c] = click[c]
  BY <1>1, JobParts DEF CancelSet, ClickType
<1>3. /\ click'[k].at = "set" /\ click'[k].job = click[k].job
      /\ click'[k].running = click[k].running /\ click'[k].items = click[k].items
  BY <1>1, <1>2, JobParts DEF ClickType
<1>4. /\ event' \in [Jobs -> {"none", "clear", "set"}]
      /\ \A j \in Jobs : event[j] # "none" => event'[j] # "none"
      /\ \A j \in Jobs : event[j] = "set" => event'[j] = "set"
      /\ event[click[k].job] # "none" => event'[click[k].job] = "set"
  BY <1>1, JobParts DEF CancelSet
<1>5. TypeOK'
  BY <1>1, <1>2, <1>4 DEF CancelSet, durable, thread, TypeOK, ClickType, ItemsType
<1>6. DownIsIdle' /\ HolderIsKnown' /\ ClicksAreHeard'
  BY <1>1, <1>2, <1>3, <1>4, JobParts
  DEF CancelSet, durable, thread, JobInv, DownIsIdle, HolderIsKnown, ClicksAreHeard, Began
<1>7. SelectionIsKnown' /\ SuccessIsComplete' /\ CopiesAreTrue'
  BY <1>1, <1>2, <1>3, JobParts
  DEF CancelSet, durable, thread, JobInv, SelectionIsKnown, SuccessIsComplete, CopiesAreTrue, Honest, Chosen, Selected
<1>8. QED
  BY <1>5, <1>6, <1>7 DEF JobInv

(* One that writes back what it has read keeps it: the selection is what   *)
(* it was, and what it calls completed is done.                            *)
LEMMA CancelWriteInv ==
  ASSUME JobInv, NEW k \in Clicks, CancelWrite(k)
  PROVE  JobInv'
<1>1. TypeOK /\ None \notin Jobs /\ click[k].at = "set" /\ click[k].job \in Jobs
  BY NoneAssumption, JobParts DEF JobInv, CancelWrite, ClicksAreHeard
<1>2. /\ click' \in [Clicks -> ClickType]
      /\ click'[k].at = "done" /\ click'[k].job = click[k].job /\ click'[k].running = click[k].running
      /\ click'[k].items = NoItems
      /\ \A c \in Clicks : c # k => click'[c] = click[c]
  BY <1>1, JobParts DEF CancelWrite, ClickType
<1>3. /\ job' \in [Jobs -> RowType]
      /\ \A j \in Jobs : job'[j].status = job[j].status
      /\ \A j \in Jobs : \/ job'[j] = job[j]
                         \/ j = click[k].job /\ job'[j].progress.items = click[k].items
  <2>1. CASE UNCHANGED job
    BY <1>1, <2>1, JobParts
  <2>2. CASE Row(click[k].job, job[click[k].job].status, click[k].items, TRUE)
    <3> DEFINE j     == click[k].job
               st    == job[j].status
               items == click[k].items
    <3>1. j \in Jobs /\ st \in Statuses /\ items \in ItemsType /\ Row(j, st, items, TRUE)
      BY <1>1, <2>2, JobParts
    <3> HIDE DEF j, st, items
    <3>2. /\ job' \in [Jobs -> RowType]
          /\ job'[j].status = st /\ job'[j].progress.items = items
          /\ \A q \in Jobs : q # j => job'[q] = job[q]
      BY <1>1, <3>1, RowEffect
    <3>3. QED
      BY <3>2 DEF j, st, items
  <2>3. QED
    BY <2>1, <2>2 DEF CancelWrite
<1>4. \A j \in Jobs, i \in Items : job'[j].progress.items[i] = "none" <=> job[j].progress.items[i] = "none"
  BY <1>1, <1>3 DEF JobInv, SelectionIsKnown, Chosen, Selected
<1>5. TypeOK'
  <2>1. count' \in [Disturbances -> Nat]
    BY <1>1, CountType DEF CancelWrite, TypeOK, Disturbances
  <2>2. QED
    BY <1>1, <1>2, <1>3, <2>1 DEF CancelWrite, thread, TypeOK, RowType, ClickType, ItemsType
<1>6. DownIsIdle' /\ HolderIsKnown' /\ ClicksAreHeard'
  BY <1>1, <1>2, <1>3, JobParts DEF CancelWrite, thread, JobInv, DownIsIdle, HolderIsKnown, ClicksAreHeard, Began
<1>7. SelectionIsKnown' /\ SuccessIsComplete'
  BY <1>1, <1>2, <1>3, <1>4, JobParts
  DEF CancelWrite, thread, JobInv, ClicksAreHeard, SelectionIsKnown, SuccessIsComplete, Chosen, Selected
<1>8. CopiesAreTrue'
  BY <1>1, <1>2, <1>3, JobParts DEF CancelWrite, thread, JobInv, CopiesAreTrue, Honest, NoItems
<1>9. QED
  BY <1>5, <1>6, <1>7, <1>8 DEF JobInv

(* Pauses keep it.                                                         *)
LEMMA PauseInv ==
  ASSUME JobInv, Pause \/ Unpause
  PROVE  JobInv'
<1>1. TypeOK'
  BY CountType DEF Pause, Unpause, thread, JobInv, TypeOK, Disturbances
<1>2. QED
  BY <1>1
  DEF Pause, Unpause, thread, JobInv, DownIsIdle, HolderIsKnown, ClicksAreHeard, SelectionIsKnown,
      CopiesAreTrue, SuccessIsComplete, Chosen, Selected, Honest, Began

(* A crash keeps it: nobody is left to write.                              *)
LEMMA CrashInv ==
  ASSUME JobInv, Crash
  PROVE  JobInv'
<1>1. TypeOK /\ None \notin Jobs
  BY NoneAssumption DEF JobInv
<1>2. /\ click' \in [Clicks -> ClickType]
      /\ \A c \in Clicks : /\ click'[c].at \in {"off", "done"} /\ ~click'[c].running
                           /\ click'[c].job = None /\ click'[c].items = NoItems
  BY <1>1, JobParts DEF Crash, ClickType, NoClick
<1>3. TypeOK'
  BY <1>1, <1>2, JobParts, CountType DEF Crash, durable, Gone, TypeOK, ClickType, ItemsType, Steps, Disturbances
<1>4. QED
  BY <1>1, <1>2, <1>3, JobParts
  DEF Crash, durable, Gone, JobInv, DownIsIdle, HolderIsKnown, ClicksAreHeard, SelectionIsKnown,
      CopiesAreTrue, SuccessIsComplete, Chosen, Selected, Honest, Began, NoItems

(* A boot keeps it, whether it recovers or not.                            *)
LEMMA BootInv ==
  ASSUME JobInv, Boot
  PROVE  JobInv'
<1>1. TypeOK /\ None \notin Jobs
  BY NoneAssumption DEF JobInv
<1>2. CASE paused
  <2>1. TypeOK'
    BY <1>1, <1>2 DEF Boot, thread, TypeOK
  <2>2. QED
    BY <1>2, <2>1
    DEF Boot, thread, JobInv, DownIsIdle, HolderIsKnown, ClicksAreHeard, SelectionIsKnown,
        CopiesAreTrue, SuccessIsComplete, Chosen, Selected, Honest, Began
<1>3. CASE ~paused
  <2>1. \A j \in Jobs : job'[j] = Interrupted(job[j])
    BY <1>3 DEF Boot
  <2>2. job' \in [Jobs -> RowType]
    BY <1>1, <1>3, InterruptedRow DEF Boot
  <2>3. \A j \in Jobs :
          /\ job'[j].status = "none" <=> job[j].status = "none"
          /\ job'[j].status = "success" <=> job[j].status = "success"
          /\ \A i \in Items : /\ job'[j].progress.items[i] = "none" <=> job[j].progress.items[i] = "none"
                              /\ job'[j].progress.items[i] = "completed" <=> job[j].progress.items[i] = "completed"
    BY <1>1, <2>1, InterruptedRow
  <2>4. TypeOK'
    BY <1>1, <2>2 DEF Boot, thread, TypeOK, RowType
  <2>5. lock = None
    BY DEF Boot, JobInv, DownIsIdle
  <2>6. DownIsIdle' /\ HolderIsKnown' /\ ClicksAreHeard'
    BY <1>1, <2>3, <2>5, JobParts DEF Boot, thread, JobInv, DownIsIdle, HolderIsKnown, ClicksAreHeard
  <2>7. SelectionIsKnown' /\ SuccessIsComplete'
    BY <1>1, <2>3, <2>5, JobParts
    DEF Boot, thread, JobInv, ClicksAreHeard, SelectionIsKnown, SuccessIsComplete, Chosen, Selected
  <2>8. CopiesAreTrue'
    BY <1>1, <2>3, JobParts DEF Boot, thread, JobInv, CopiesAreTrue, Honest
  <2>9. QED
    BY <2>4, <2>6, <2>7, <2>8 DEF JobInv
<1>4. QED
  BY <1>2, <1>3

-----------------------------------------------------------------------------
(* The theorems.                                                           *)

(* Every step keeps the inductive invariant.                               *)
LEMMA JobInvNext == JobInv /\ [Next]_vars => JobInv'
<1>1. SUFFICES ASSUME JobInv, [Next]_vars PROVE JobInv'
  OBVIOUS
<1>2. CASE \E j \in Jobs : Create(j)
  BY <1>1, <1>2, CreateInv
<1>3. CASE Owner
  BY <1>1, <1>3, RegisterInv, AdmitInv, RefuseInv, BeginInv, TakeItemInv, BeginItemInv, NoneLeftInv, PerformInv, RecordInv, EndInv
  DEF Owner
<1>4. CASE Cancel
  BY <1>1, <1>4, CancelReadInv, CancelSetInv, CancelWriteInv DEF Cancel
<1>5. CASE Pause \/ Unpause \/ Crash \/ Boot
  BY <1>1, <1>5, PauseInv, CrashInv, BootInv
<1>6. CASE UNCHANGED vars
  BY <1>1, <1>6
  DEF vars, durable, thread, JobInv, TypeOK, DownIsIdle, HolderIsKnown, ClicksAreHeard, SelectionIsKnown,
      CopiesAreTrue, SuccessIsComplete, Chosen, Selected, Honest, Began
<1>7. QED
  BY <1>1, <1>2, <1>3, <1>4, <1>5, <1>6 DEF Next

(* The invariant holds of every reachable state.                           *)
LEMMA AlwaysJobInv == Spec => []JobInv
<1>1. QED
  BY JobInvInit, JobInvNext, PTL DEF Spec

(* Every reachable state of the jobs is well typed.                        *)
THEOREM TypeCorrect == Spec => []TypeOK
<1>1. JobInv => TypeOK
  BY DEF JobInv
<1>2. QED
  BY <1>1, AlwaysJobInv, PTL

(* No row shows as completed what is outstanding, whichever of the three   *)
(* writers of its progress wrote last (admin_maintenance.py, main.py).     *)
THEOREM CompletedItemsAreDone == Spec => []CompletedIsDone
<1>1. JobInv => CompletedIsDone
  BY DEF JobInv, CopiesAreTrue, Honest, CompletedIsDone
<1>2. QED
  BY <1>1, AlwaysJobInv, PTL

(* A job that ends as a success has done all it selected.                  *)
THEOREM SuccessfulJobsAreComplete == Spec => []SuccessIsComplete
<1>1. JobInv => SuccessIsComplete
  BY DEF JobInv
<1>2. QED
  BY <1>1, AlwaysJobInv, PTL

(* A job takes no further item once a cancel request that found it running *)
(* has been answered (cancel_job, run_job): the request sees no item begin *)
(* but one that was taken already.                                         *)
THEOREM CancelsAreHonoured == Spec => CancelledTakesNoOther
<1> DEFINE Honoured ==
      \A k \in Clicks : click[k].at = "done" /\ click[k].running /\ lock = click[k].job =>
        \A i \in Items : mine[i] = "pending" => mine'[i] # "running"
<1>1. JobInv /\ [Next]_vars => [Honoured]_vars
  <2>1. SUFFICES ASSUME JobInv, Next, NEW k \in Clicks, click[k].at = "done", click[k].running, lock = click[k].job,
                        NEW i \in Items, mine[i] = "pending"
                 PROVE  mine'[i] # "running"
    OBVIOUS
  <2>2. event[lock] = "set" /\ lock # None /\ pc \in Began /\ mine \in ItemsType /\ TypeOK
    BY <2>1, JobParts DEF JobInv, ClicksAreHeard
  <2>3. CASE mine' = mine \/ Gone
    BY <2>1, <2>3 DEF Gone, NoItems
  <2>4. CASE Perform
    BY <2>1, <2>2, <2>4 DEF Perform, Settle, Active
  <2>5. CASE \E j \in Items : TakeItem(j)
    BY <2>2, <2>5 DEF TakeItem, Cancelled
  <2>6. CASE Begin
    BY <2>2, <2>6 DEF Begin, At, Began
  <2>7. CASE Owner
    BY <2>3, <2>4, <2>5, <2>6, <2>7 DEF Owner, Register, Admit, Refuse, NoneLeft, BeginItem, Record, End
  <2>8. QED
    BY <2>1, <2>3, <2>7
    DEF Next, Create, Cancel, CancelRead, CancelSet, CancelWrite, Pause, Unpause, Crash, Boot, thread
<1>2. Spec => [][Honoured]_vars
  BY <1>1, AlwaysJobInv, PTL DEF Spec
<1>3. QED
  BY <1>2 DEF CancelledTakesNoOther

-----------------------------------------------------------------------------
(* Analyses (Generation): the statuses of circulars follow the             *)
(* relationships that are stored.                                          *)

CommandType == [at: {"off", "work", "derive"}, todo: SUBSET Circulars, derives: BOOLEAN,
                read: [Circulars -> SUBSET Edge] \union {Nothing},
                saw: [Circulars -> CircularStatuses] \union {Nothing}, over: BOOLEAN]

GenTyped ==
  /\ edges \in [Circulars -> SUBSET Edge] /\ status \in [Circulars -> CircularStatuses]
  /\ unsettled \subseteq Circulars /\ command \in CommandType

(* No circular is said to relate to itself.                                *)
NoneNamesItself == \A c \in Circulars, k \in Kinds : <<k, c>> \notin edges[c]

(* What a command has read is what is stored, unless an analysis came in   *)
(* between: that is what `over` remembers.                                 *)
ReadIsCurrent ==
  command.at = "derive" /\ ~command.over => command.read = edges /\ command.saw = status

GenInv == GenTyped /\ NoneNamesItself /\ ReadIsCurrent /\ StatusFollowsEdges

-----------------------------------------------------------------------------
(* A status is derived from the relationships of others alone.             *)
LEMMA StatusType == ASSUME NEW es, NEW c PROVE StatusIn(es, c) \in CircularStatuses
BY DEF StatusIn, CircularStatuses

LEMMA OwnEdgesDoNotMatter ==
  ASSUME NEW es, NEW fs, NEW c \in Circulars,
         \A s \in Circulars : s # c => es[s] = fs[s],
         \A k \in Kinds : <<k, c>> \notin es[c] /\ <<k, c>> \notin fs[c]
  PROVE  StatusIn(es, c) = StatusIn(fs, c)
<1>1. {k \in Kinds : \E s \in Circulars : <<k, c>> \in es[s]} = {k \in Kinds : \E s \in Circulars : <<k, c>> \in fs[s]}
  OBVIOUS
<1>2. QED
  BY <1>1 DEF StatusIn

(* What the model finds in a circular names others.                        *)
LEMMA FoundNamesOthers ==
  ASSUME NEW c \in Circulars, NEW es \in Found(c)
  PROVE  es \in SUBSET Edge /\ \A k \in Kinds : <<k, c>> \notin es
BY ChoicesAssumption DEF Found, Edge

-----------------------------------------------------------------------------
LEMMA GenInvInit == GenInit => GenInv
<1> SUFFICES ASSUME GenInit PROVE GenInv
  OBVIOUS
<1>1. NoCommand \in CommandType /\ NoCommand.at = "off"
  BY DEF NoCommand, CommandType
<1>2. GenTyped
  BY <1>1 DEF GenInit, GenTyped, CircularStatuses
<1>3. NoneNamesItself /\ ReadIsCurrent
  BY <1>1 DEF GenInit, NoneNamesItself, ReadIsCurrent
<1>4. StatusFollowsEdges
  BY DEF GenInit, StatusFollowsEdges, StatusIn
<1>5. QED
  BY <1>2, <1>3, <1>4 DEF GenInv

(* Whatever stores no relationships, derives no statuses and belongs to no *)
(* command changes nothing that matters.                                   *)
LEMMA GenInvSame == ASSUME GenInv, UNCHANGED <<edges, status, unsettled, command>> PROVE GenInv'
BY DEF GenInv, GenTyped, NoneNamesItself, ReadIsCurrent, StatusFollowsEdges, StatusIn

(* An analysis ends.  Whether the status that the session loaded was still *)
(* current does not matter: that of the analysed circular does not depend  *)
(* on the relationships it states itself.                                  *)
LEMMA GenInvPersist ==
  ASSUME GenInv, PersistOutputs
  PROVE  GenInv'
<1>1. PICK j \in Tasks :
        IF task[j].target \in Circulars /\ Includes(task[j].feature, "edges")
        THEN \E es \in Found(task[j].target) :
               /\ edges' = [edges EXCEPT ![task[j].target] = es]
               /\ status' = Derived(edges', task[j].target, worker[j].saw)
               /\ unsettled' = unsettled \intersect {task[j].target}
               /\ command' = [command EXCEPT !.over = @ \/ command.at = "derive"]
        ELSE UNCHANGED <<edges, status, unsettled, command>>
  BY DEF PersistOutputs
<1>2. CASE ~(task[j].target \in Circulars /\ Includes(task[j].feature, "edges"))
  BY <1>1, <1>2, GenInvSame
<1>3. CASE task[j].target \in Circulars /\ Includes(task[j].feature, "edges")
  <2> DEFINE c == task[j].target
             saw == worker[j].saw
  <2>1. PICK es \in Found(c) :
          /\ edges' = [edges EXCEPT ![c] = es] /\ status' = Derived(edges', c, saw)
          /\ unsettled' = unsettled \intersect {c}
          /\ command' = [command EXCEPT !.over = @ \/ command.at = "derive"]
    BY <1>1, <1>3
  <2>2. c \in Circulars
    BY <1>3
  <2> HIDE DEF c, saw
  <2>3. es \in SUBSET Edge /\ \A k \in Kinds : <<k, c>> \notin es
    BY <2>2, FoundNamesOthers
  <2>4. \A s \in Circulars : edges'[s] = IF s = c THEN es ELSE edges[s]
    BY <2>1, <2>2 DEF GenInv, GenTyped
  <2>5. \A s \in Circulars : status'[s] = IF s = c /\ StatusIn(edges', s) = saw THEN status[s] ELSE StatusIn(edges', s)
    BY <2>1 DEF Derived
  <2>6. command' \in CommandType /\ command'.at = command.at /\ (command.at = "derive" => command'.over)
    BY <2>1 DEF GenInv, GenTyped, CommandType
  <2>7. GenTyped'
    <3>1. edges' \in [Circulars -> SUBSET Edge]
      BY <2>1, <2>3 DEF GenInv, GenTyped
    <3>2. status' \in [Circulars -> CircularStatuses]
      BY <2>1, <2>5, StatusType DEF Derived, GenInv, GenTyped
    <3>3. QED
      BY <2>1, <2>6, <3>1, <3>2 DEF GenInv, GenTyped
  <2>8. NoneNamesItself'
    BY <2>3, <2>4 DEF GenInv, NoneNamesItself
  <2>9. ReadIsCurrent'
    BY <2>6 DEF ReadIsCurrent
  <2>10. StatusFollowsEdges'
    <3> SUFFICES ASSUME NEW x \in Circulars, x \notin unsettled' PROVE status'[x] = StatusIn(edges', x)
      BY DEF StatusFollowsEdges
    <3>1. CASE x # c
      BY <2>5, <3>1
    <3>2. CASE x = c
      <4>1. status[c] = StatusIn(edges, c)
        BY <2>1, <2>2, <3>2 DEF GenInv, StatusFollowsEdges
      <4>2. StatusIn(edges, c) = StatusIn(edges', c)
        BY <2>2, <2>3, <2>4, OwnEdgesDoNotMatter DEF GenInv, NoneNamesItself
      <4>3. QED
        BY <2>2, <2>5, <3>2, <4>1, <4>2
    <3>3. QED
      BY <3>1, <3>2
  <2>11. QED
    BY <2>7, <2>8, <2>9, <2>10 DEF GenInv
<1>4. QED
  BY <1>2, <1>3

-----------------------------------------------------------------------------
(* Commands.                                                               *)

LEMMA GenInvStartCommand ==
  ASSUME GenInv, StartCommand
  PROVE  GenInv'
<1>1. PICK todo \in Scopes, derives \in BOOLEAN, refresh \in BOOLEAN :
        /\ command' = [NoCommand EXCEPT !.at = "work", !.todo = todo, !.derives = derives]
        /\ edges' = IF refresh THEN [c \in Circulars |-> IF c \in todo THEN {} ELSE edges[c]] ELSE edges
        /\ unsettled' = IF edges' # edges THEN Circulars ELSE unsettled
        /\ UNCHANGED status
  BY DEF StartCommand
<1>2. command' \in CommandType /\ command'.at = "work"
  <2>1. todo \in SUBSET Circulars
    BY ChoicesAssumption
  <2>2. QED
    BY <1>1, <2>1 DEF NoCommand, CommandType
<1>3. edges' \in [Circulars -> SUBSET Edge] /\ \A c \in Circulars : edges'[c] \subseteq edges[c]
  <2>1. CASE refresh
    <3>1. edges' = [c \in Circulars |-> IF c \in todo THEN {} ELSE edges[c]]
      BY <1>1, <2>1
    <3>2. \A c \in Circulars : edges[c] \in SUBSET Edge
      BY DEF GenInv, GenTyped
    <3>3. QED
      BY <3>1, <3>2
  <2>2. CASE ~refresh
    BY <1>1, <2>2 DEF GenInv, GenTyped
  <2>3. QED
    BY <2>1, <2>2
<1>4. GenTyped'
  BY <1>1, <1>2, <1>3 DEF GenInv, GenTyped
<1>5. NoneNamesItself' /\ ReadIsCurrent'
  BY <1>2, <1>3 DEF GenInv, NoneNamesItself, ReadIsCurrent
<1>6. StatusFollowsEdges'
  BY <1>1 DEF GenInv, StatusFollowsEdges
<1>7. QED
  BY <1>4, <1>5, <1>6 DEF GenInv

LEMMA GenInvExtractOne ==
  ASSUME GenInv, ExtractOne
  PROVE  GenInv'
<1>1. command.todo \subseteq Circulars
  BY DEF GenInv, GenTyped, CommandType
<1>2. PICK c \in command.todo : \E es \in Found(c) :
        /\ command.at = "work" /\ command' = [command EXCEPT !.todo = @ \ {c}]
        /\ edges' = [edges EXCEPT ![c] = IF command.derives THEN es ELSE @ \union es]
        /\ unsettled' = Circulars /\ UNCHANGED status
  BY DEF ExtractOne
<1>3. PICK es \in Found(c) :
        /\ command.at = "work" /\ command' = [command EXCEPT !.todo = @ \ {c}]
        /\ edges' = [edges EXCEPT ![c] = IF command.derives THEN es ELSE @ \union es]
        /\ unsettled' = Circulars /\ UNCHANGED status
  BY <1>2
<1>4. es \in SUBSET Edge /\ \A k \in Kinds : <<k, c>> \notin es
  BY <1>1, FoundNamesOthers
<1>5. command' \in CommandType /\ command'.at = "work"
  BY <1>3 DEF GenInv, GenTyped, CommandType
<1>6. /\ edges' \in [Circulars -> SUBSET Edge]
      /\ \A s \in Circulars : edges'[s] \subseteq edges[s] \union (IF s = c THEN es ELSE {})
  BY <1>1, <1>3, <1>4 DEF GenInv, GenTyped
<1>7. GenTyped'
  BY <1>3, <1>5, <1>6 DEF GenInv, GenTyped
<1>8. NoneNamesItself' /\ ReadIsCurrent'
  BY <1>4, <1>5, <1>6 DEF GenInv, NoneNamesItself, ReadIsCurrent
<1>9. StatusFollowsEdges'
  BY <1>3 DEF StatusFollowsEdges
<1>10. QED
  BY <1>7, <1>8, <1>9 DEF GenInv

LEMMA GenInvReadEdges == ASSUME GenInv, ReadEdges PROVE GenInv'
<1>1. /\ command' = IF command.derives THEN [command EXCEPT !.at = "derive", !.read = edges, !.saw = status]
                    ELSE NoCommand
      /\ UNCHANGED <<edges, status, unsettled>>
  BY DEF ReadEdges, genRows
<1>2. command' \in CommandType
  BY <1>1 DEF GenInv, GenTyped, CommandType, NoCommand
<1>3. command'.at = "derive" => command'.read = edges /\ command'.saw = status
  BY <1>1 DEF GenInv, GenTyped, CommandType, NoCommand
<1>4. GenTyped' /\ NoneNamesItself' /\ StatusFollowsEdges'
  BY <1>1, <1>2 DEF GenInv, GenTyped, NoneNamesItself, StatusFollowsEdges, StatusIn
<1>5. ReadIsCurrent'
  BY <1>1, <1>3 DEF ReadIsCurrent
<1>6. QED
  BY <1>4, <1>5 DEF GenInv

(* What was read is what is stored, or everything is unsettled.            *)
LEMMA GenInvWriteStatuses == ASSUME GenInv, WriteStatuses PROVE GenInv'
<1>1. /\ command.at = "derive" /\ command' = NoCommand /\ edges' = edges
      /\ status' = [c \in Circulars |-> IF StatusIn(command.read, c) = command.saw[c] THEN status[c]
                                        ELSE StatusIn(command.read, c)]
      /\ unsettled' = IF command.over THEN Circulars ELSE {}
  BY DEF WriteStatuses
<1>2. NoCommand \in CommandType /\ NoCommand.at = "off"
  BY DEF NoCommand, CommandType
<1>3. status' \in [Circulars -> CircularStatuses]
  BY <1>1, StatusType DEF GenInv, GenTyped
<1>4. GenTyped' /\ NoneNamesItself' /\ ReadIsCurrent'
  BY <1>1, <1>2, <1>3 DEF GenInv, GenTyped, NoneNamesItself, ReadIsCurrent
<1>5. StatusFollowsEdges'
  <2>1. CASE command.over
    BY <1>1, <2>1 DEF StatusFollowsEdges
  <2>2. CASE ~command.over
    <3>1. command.read = edges /\ command.saw = status
      BY <1>1, <2>2 DEF GenInv, ReadIsCurrent
    <3>2. \A c \in Circulars : status'[c] = StatusIn(edges, c)
      BY <1>1, <3>1
    <3>3. QED
      BY <1>1, <3>2 DEF StatusFollowsEdges
  <2>3. QED
    BY <2>1, <2>2 DEF GenInv, GenTyped, CommandType
<1>6. QED
  BY <1>4, <1>5 DEF GenInv

LEMMA GenInvKillCommand == ASSUME GenInv, KillCommand PROVE GenInv'
<1>1. NoCommand \in CommandType /\ NoCommand.at = "off"
  BY DEF NoCommand, CommandType
<1>2. command' = NoCommand /\ UNCHANGED <<edges, status, unsettled>>
  BY DEF KillCommand, genRows
<1>3. GenTyped' /\ NoneNamesItself' /\ ReadIsCurrent'
  BY <1>1, <1>2 DEF GenInv, GenTyped, NoneNamesItself, ReadIsCurrent
<1>4. StatusFollowsEdges'
  BY <1>2 DEF GenInv, StatusFollowsEdges, StatusIn
<1>5. QED
  BY <1>3, <1>4 DEF GenInv

LEMMA GenInvNext ==
  GenInv /\ [GenNext]_genVars => GenInv'
<1> SUFFICES ASSUME GenInv, [GenNext]_genVars PROVE GenInv'
  OBVIOUS
<1>1. CASE UNCHANGED genVars
  BY <1>1, GenInvSame DEF genVars, genRows
<1>2. CASE Ask \/ LookForJob \/ Enqueue \/ RunTask \/ LoadTarget \/ ComputeFails \/ FailTask
  BY <1>2, GenInvSame DEF Ask, LookForJob, Enqueue, RunTask, LoadTarget, ComputeFails, FailTask, genRows
<1>3. CASE StartBatch \/ NextAnalysis \/ AddAnalysis \/ AnalysisEnds \/ EndBatch \/ CrashServer \/ BootServer
  BY <1>3, GenInvSame DEF StartBatch, NextAnalysis, AddAnalysis, AnalysisEnds, EndBatch, CrashServer, BootServer, genRows
<1>4. CASE PersistOutputs
  BY <1>4, GenInvPersist
<1>5. CASE StartCommand \/ ExtractOne \/ ReadEdges \/ WriteStatuses \/ KillCommand
  BY <1>5, GenInvStartCommand, GenInvExtractOne, GenInvReadEdges, GenInvWriteStatuses, GenInvKillCommand
<1>6. QED
  BY <1>1, <1>2, <1>3, <1>4, <1>5 DEF GenNext

(* Whatever analyses store and delete in parallel, and whatever fails, a   *)
(* circular's status is the gravest of the relationships that are stored   *)
(* about it, but for what a command has left to be derived                 *)
(* (_recompute_statuses).                                                  *)
THEOREM StatusesFollow ==
  GenSpec => []StatusFollowsEdges
<1>1. GenInv => StatusFollowsEdges
  BY DEF GenInv
<1>2. QED
  BY <1>1, GenInvInit, GenInvNext, PTL DEF GenSpec

-----------------------------------------------------------------------------
(* The jobs, their threads, the request and the batch keep their types.    *)
TaskType   == [target: Targets \union {Nothing}, feature: Actions \union {"none"},
               status: {"none", "queued", "running", "succeeded", "failed"}]
WorkerType == [at: {"off", "queued", "load", "compute", "failing"}, saw: CircularStatuses]
RouteType  == [at: {"off", "body", "insert"}, target: Targets \union {Nothing}, feature: Actions \union {"none"}]
BatchType  == [at: {"off", "next", "insert", "wait"}, todo: SUBSET (Circulars \X Features),
               job: Tasks \union {Nothing}, pick: (Circulars \X Features) \union {Nothing}]

JobsTyped ==
  /\ task \in [Tasks -> TaskType] /\ worker \in [Tasks -> WorkerType] /\ route \in RouteType
  /\ batch \in BatchType /\ (batch.at = "insert" => batch.pick \in Circulars \X Features)
  /\ done \in [Circulars -> SUBSET Features] /\ served \in BOOLEAN

LEMMA GenStarts ==
  NoTask \in TaskType /\ NoWorker \in WorkerType /\ NoRoute \in RouteType /\ NoBatch \in BatchType
BY DEF NoTask, TaskType, NoWorker, WorkerType, CircularStatuses, NoRoute, RouteType, NoBatch, BatchType

LEMMA JobsTypedInit == GenInit => JobsTyped
BY GenStarts DEF GenInit, JobsTyped, NoBatch

(* A job that is queued takes an unused row.                               *)
LEMMA QueuedIs ==
  ASSUME JobsTyped, Unused # {}, NEW x \in Targets \union {Nothing}, NEW f \in Actions \union {"none"}
  PROVE  /\ NewTask \in Tasks /\ Queued(NewTask, x, f) \in [Tasks -> TaskType]
         /\ [worker EXCEPT ![NewTask].at = "queued"] \in [Tasks -> WorkerType]
<1>1. NewTask \in Tasks
  BY DEF NewTask, Unused
<1>2. [target |-> x, feature |-> f, status |-> "queued"] \in TaskType
  BY DEF TaskType
<1>3. [worker[NewTask] EXCEPT !.at = "queued"] \in WorkerType
  BY <1>1 DEF JobsTyped, WorkerType
<1>4. QED
  BY <1>1, <1>2, <1>3 DEF JobsTyped, Queued

LEMMA JobsTypedRoute == ASSUME JobsTyped, Ask \/ LookForJob \/ Enqueue PROVE JobsTyped'
<1>1. CASE Ask
  <2>1. route' \in RouteType
    BY <1>1 DEF Ask, RouteType
  <2>2. QED
    BY <1>1, <2>1 DEF Ask, JobsTyped, genRows
<1>2. CASE LookForJob
  <2>1. [route EXCEPT !.at = "insert"] \in RouteType
    BY DEF JobsTyped, RouteType
  <2>2. QED
    BY <1>2, <2>1, GenStarts DEF LookForJob, JobsTyped, genRows
<1>3. CASE Enqueue
  <2>1. route.target \in Targets \union {Nothing} /\ route.feature \in Actions \union {"none"} /\ Unused # {}
    BY <1>3 DEF Enqueue, JobsTyped, RouteType
  <2>2. task' \in [Tasks -> TaskType] /\ worker' \in [Tasks -> WorkerType]
    <3>1. /\ Queued(NewTask, route.target, route.feature) \in [Tasks -> TaskType]
          /\ [worker EXCEPT ![NewTask].at = "queued"] \in [Tasks -> WorkerType]
      BY <2>1, QueuedIs
    <3>2. QED
      BY <1>3, <3>1 DEF Enqueue, JobsTyped
  <2>3. QED
    BY <1>3, <2>2, GenStarts DEF Enqueue, JobsTyped
<1>4. QED
  BY <1>1, <1>2, <1>3

LEMMA JobsTypedTask ==
  ASSUME JobsTyped, status \in [Circulars -> CircularStatuses],
         RunTask \/ LoadTarget \/ PersistOutputs \/ ComputeFails \/ FailTask
  PROVE  JobsTyped'
<1>1. /\ \A j \in Tasks : task[j] \in TaskType /\ worker[j] \in WorkerType
      /\ \A j \in Tasks, s \in {"running", "succeeded", "failed"} : [task[j] EXCEPT !.status = s] \in TaskType
      /\ \A j \in Tasks, p \in {"load", "failing"} : [worker[j] EXCEPT !.at = p] \in WorkerType
  BY DEF JobsTyped, TaskType, WorkerType
<1>2. CASE RunTask
  <2>1. PICK j \in Tasks :
          /\ \/ /\ task' = [task EXCEPT ![j].status = "running"] /\ worker' = [worker EXCEPT ![j].at = "load"]
             \/ worker' = [worker EXCEPT ![j].at = "failing"] /\ UNCHANGED task
          /\ UNCHANGED <<route, batch, done, served>>
    BY <1>2 DEF RunTask
  <2>2. task' \in [Tasks -> TaskType] /\ worker' \in [Tasks -> WorkerType]
    BY <1>1, <2>1 DEF JobsTyped
  <2>3. QED
    BY <2>1, <2>2 DEF JobsTyped
<1>3. CASE LoadTarget
  <2>1. PICK j \in Tasks :
          /\ worker' = [worker EXCEPT ![j] =
               [at |-> "compute", saw |-> IF task[j].target \in Circulars THEN status[task[j].target] ELSE "active"]]
          /\ UNCHANGED <<task, route, batch, done, served>>
    BY <1>3 DEF LoadTarget, genRows
  <2>2. [at |-> "compute", saw |-> IF task[j].target \in Circulars THEN status[task[j].target] ELSE "active"] \in WorkerType
    BY DEF WorkerType, CircularStatuses
  <2>3. QED
    BY <2>1, <2>2 DEF JobsTyped
<1>4. CASE PersistOutputs
  <2>1. PICK j \in Tasks :
          /\ task' = [task EXCEPT ![j].status = "succeeded"] /\ worker' = [worker EXCEPT ![j] = NoWorker]
          /\ done' = IF task[j].target \in Circulars
                     THEN [done EXCEPT ![task[j].target] = Stamped(task[j].target, task[j].feature)] ELSE done
          /\ UNCHANGED <<route, batch, served>>
    BY <1>4 DEF PersistOutputs
  <2>2. task' \in [Tasks -> TaskType] /\ worker' \in [Tasks -> WorkerType]
    BY <1>1, <2>1, GenStarts DEF JobsTyped
  <2>3. done' \in [Circulars -> SUBSET Features]
    BY <2>1 DEF JobsTyped, Stamped
  <2>4. QED
    BY <2>1, <2>2, <2>3 DEF JobsTyped
<1>5. CASE ComputeFails
  <2>1. PICK j \in Tasks : worker' = [worker EXCEPT ![j].at = "failing"] /\ UNCHANGED <<task, route, batch, done, served>>
    BY <1>5 DEF ComputeFails, genRows
  <2>2. worker' \in [Tasks -> WorkerType]
    BY <1>1, <2>1 DEF JobsTyped
  <2>3. QED
    BY <2>1, <2>2 DEF JobsTyped
<1>6. CASE FailTask
  <2>1. PICK j \in Tasks :
          /\ worker' = [worker EXCEPT ![j] = NoWorker] /\ UNCHANGED <<route, batch, done, served>>
          /\ task' = [task EXCEPT ![j].status = "failed"] \/ UNCHANGED task
    BY <1>6 DEF FailTask
  <2>2. task' \in [Tasks -> TaskType] /\ worker' \in [Tasks -> WorkerType]
    BY <1>1, <2>1, GenStarts DEF JobsTyped
  <2>3. QED
    BY <2>1, <2>2 DEF JobsTyped
<1>7. QED
  BY <1>2, <1>3, <1>4, <1>5, <1>6

LEMMA JobsTypedBatch ==
  ASSUME JobsTyped, StartBatch \/ NextAnalysis \/ AddAnalysis \/ AnalysisEnds \/ EndBatch
  PROVE  JobsTyped'
<1>1. CASE StartBatch
  <2>1. PICK fs \in SUBSET Features \ {{}} :
          /\ batch' = [NoBatch EXCEPT !.at = "next", !.todo = Circulars \X fs]
          /\ UNCHANGED <<task, worker, route, done, served>>
    BY <1>1 DEF StartBatch, genRows
  <2>2. batch' \in BatchType /\ batch'.at = "next"
    BY <2>1 DEF NoBatch, BatchType
  <2>3. QED
    BY <2>1, <2>2 DEF JobsTyped
<1>2. CASE NextAnalysis
  <2>1. PICK p \in batch.todo :
          /\ batch.at = "next" /\ UNCHANGED <<task, worker, route, done, served>>
          /\ batch' \in {[batch EXCEPT !.todo = @ \ {p}], [batch EXCEPT !.todo = @ \ {p}, !.at = "insert", !.pick = p]}
    BY <1>2 DEF NextAnalysis, genRows
  <2>2. p \in Circulars \X Features /\ batch \in BatchType
    BY DEF JobsTyped, BatchType
  <2>3. batch' \in BatchType /\ (batch'.at = "insert" => batch'.pick \in Circulars \X Features)
    BY <2>1, <2>2 DEF BatchType
  <2>4. QED
    BY <2>1, <2>3 DEF JobsTyped
<1>3. CASE AddAnalysis
  <2>1. /\ batch.at = "insert" /\ Unused # {} /\ UNCHANGED <<route, done, served>>
        /\ \/ /\ task' = Queued(NewTask, batch.pick[1], batch.pick[2])
              /\ worker' = [worker EXCEPT ![NewTask].at = "queued"]
              /\ batch' = [batch EXCEPT !.at = "wait", !.job = NewTask, !.pick = Nothing]
           \/ batch' = [batch EXCEPT !.at = "next", !.pick = Nothing] /\ UNCHANGED <<task, worker>>
    BY <1>3 DEF AddAnalysis
  <2>2. batch.pick[1] \in Targets \union {Nothing} /\ batch.pick[2] \in Actions \union {"none"}
    BY <2>1 DEF JobsTyped, Targets, Actions
  <2>3. /\ NewTask \in Tasks /\ Queued(NewTask, batch.pick[1], batch.pick[2]) \in [Tasks -> TaskType]
        /\ [worker EXCEPT ![NewTask].at = "queued"] \in [Tasks -> WorkerType]
    BY <2>1, <2>2, QueuedIs
  <2>4. task' \in [Tasks -> TaskType] /\ worker' \in [Tasks -> WorkerType]
    BY <2>1, <2>3 DEF JobsTyped
  <2>5. batch' \in BatchType /\ batch'.at # "insert"
    <3>1. batch \in BatchType
      BY DEF JobsTyped
    <3>2. QED
      BY <2>1, <2>3, <3>1 DEF BatchType
  <2>6. QED
    BY <2>1, <2>4, <2>5 DEF JobsTyped
<1>4. CASE AnalysisEnds
  <2>1. batch' = [batch EXCEPT !.at = "next", !.job = Nothing] /\ UNCHANGED <<task, worker, route, done, served>>
    BY <1>4 DEF AnalysisEnds, genRows
  <2>2. batch' \in BatchType /\ batch'.at = "next"
    BY <2>1 DEF JobsTyped, BatchType
  <2>3. QED
    BY <2>1, <2>2 DEF JobsTyped
<1>5. CASE EndBatch
  BY <1>5, GenStarts DEF EndBatch, genRows, JobsTyped, NoBatch
<1>6. QED
  BY <1>1, <1>2, <1>3, <1>4, <1>5

LEMMA JobsTypedRest ==
  ASSUME JobsTyped, StartCommand \/ ExtractOne \/ ReadEdges \/ WriteStatuses \/ KillCommand \/ CrashServer \/ BootServer
  PROVE  JobsTyped'
<1>1. CASE StartCommand \/ ReadEdges \/ WriteStatuses \/ KillCommand
  BY <1>1 DEF StartCommand, ReadEdges, WriteStatuses, KillCommand, genRows, JobsTyped
<1>2. CASE ExtractOne
  <2>1. PICK c : done' = [done EXCEPT ![c] = @ \union {"edges"}]
    BY <1>2 DEF ExtractOne
  <2>2. done' \in [Circulars -> SUBSET Features]
    BY <2>1 DEF JobsTyped, Features
  <2>3. QED
    BY <1>2, <2>2 DEF ExtractOne, JobsTyped
<1>3. CASE CrashServer
  BY <1>3, GenStarts DEF CrashServer, genRows, JobsTyped, NoBatch
<1>4. CASE BootServer
  <2>1. task' \in [Tasks -> TaskType]
    BY <1>4 DEF BootServer, FailedAtBoot, JobsTyped, TaskType
  <2>2. QED
    BY <1>4, <2>1 DEF BootServer, JobsTyped
<1>5. QED
  BY <1>1, <1>2, <1>3, <1>4

(* The jobs, their threads, the request, the batch and the commands keep   *)
(* their types.                                                            *)
THEOREM GenTypes == GenSpec => []GenTypeOK
<1>1. JobsTyped /\ GenInv /\ [GenNext]_genVars => JobsTyped'
  <2> SUFFICES ASSUME JobsTyped, GenInv, [GenNext]_genVars PROVE JobsTyped'
    OBVIOUS
  <2>1. CASE UNCHANGED genVars
    BY <2>1 DEF genVars, genRows, JobsTyped
  <2>2. status \in [Circulars -> CircularStatuses]
    BY DEF GenInv, GenTyped
  <2>3. QED
    BY <2>1, <2>2, JobsTypedRoute, JobsTypedTask, JobsTypedBatch, JobsTypedRest DEF GenNext
<1>2. JobsTyped /\ GenInv => GenTypeOK
  <2> SUFFICES ASSUME JobsTyped, GenInv PROVE GenTypeOK
    OBVIOUS
  <2>1. command.at \in {"off", "work", "derive"} /\ command.todo \subseteq Circulars
    BY DEF GenInv, GenTyped, CommandType
  <2>2. /\ route.at \in {"off", "body", "insert"} /\ route.target \in Targets \union {Nothing}
        /\ batch.at \in {"off", "next", "insert", "wait"} /\ batch.job \in Tasks \union {Nothing}
        /\ batch.todo \subseteq Circulars \X Features
    BY DEF JobsTyped, RouteType, BatchType
  <2>3. QED
    BY <2>1, <2>2 DEF JobsTyped, GenInv, GenTyped, GenTypeOK, TaskType, WorkerType
<1>3. QED
  BY <1>1, <1>2, JobsTypedInit, GenInvInit, GenInvNext, PTL DEF GenSpec

-----------------------------------------------------------------------------
(* Fetches (RequestPacer): requests are let go at least the delay apart.   *)

FetchType == [at: Stages, hop: Nat, attempt: Nat, until: Nat, deadline: Nat]

PacerTyped ==
  /\ now \in Nat /\ nextStart \in Nat /\ started \subseteq Nat
  /\ fetch \in [Fetches -> FetchType]

(* The fetch that waits for its start holds the lock, so that no other     *)
(* moves the next start meanwhile, and it waits for that or its deadline.  *)
WaitsForItsTurn == \A f \in Fetches : fetch[f].at = "turn" =>
  /\ holder = {f}
  /\ fetch[f].until = Earlier(nextStart, fetch[f].deadline)

(* The next start is the delay after every start.                          *)
NextIsApart == \A s \in started : nextStart >= s + Delay

PacerInv == PacerTyped /\ WaitsForItsTurn /\ NextIsApart

-----------------------------------------------------------------------------
(* Nobody has begun.                                                       *)
LEMMA PacerInvInit == PacerInit => PacerInv
<1> SUFFICES ASSUME PacerInit PROVE PacerInv
  OBVIOUS
<1>1. Resting \in FetchType /\ Resting.at = "idle"
  BY DEF Resting, FetchType, Stages
<1>2. QED
  BY <1>1 DEF PacerInit, PacerInv, PacerTyped, WaitsForItsTurn, NextIsApart

(* A step that moves one fetch to where it does not wait for its start,    *)
(* and leaves the pacer alone, preserves the invariant.                    *)
LEMMA OneFetch ==
  ASSUME PacerInv, NEW f \in Fetches, NEW x \in FetchType, x.at # "turn",
         fetch' = [fetch EXCEPT ![f] = x], UNCHANGED <<now, nextStart, started>>,
         UNCHANGED holder \/ fetch[f].at = "turn"
  PROVE  PacerInv'
<1>1. \A g \in Fetches : fetch'[g] = IF g = f THEN x ELSE fetch[g]
  BY DEF PacerInv, PacerTyped
<1>2. PacerTyped'
  BY DEF PacerInv, PacerTyped
<1>3. WaitsForItsTurn'
  BY <1>1 DEF PacerInv, WaitsForItsTurn
<1>4. NextIsApart'
  BY DEF PacerInv, NextIsApart
<1>5. QED
  BY <1>2, <1>3, <1>4 DEF PacerInv

(* Where a fetch goes after a transient error.                             *)
LEMMA AfterError ==
  ASSUME PacerInv, NEW f \in Fetches, NEW wait \in Nat
  PROVE  /\ fetch[f] \in FetchType
         /\ Rested(fetch[f], wait) \in FetchType /\ Rested(fetch[f], wait).at = "rest"
         /\ [fetch[f] EXCEPT !.at = "failed"] \in FetchType
         /\ [fetch[f] EXCEPT !.at = "failed"].at = "failed"
<1>1. fetch[f] \in FetchType
  BY DEF PacerInv, PacerTyped
<1>2. Earlier(now + wait, fetch[f].deadline) \in Nat
  BY <1>1 DEF Earlier, PacerInv, PacerTyped, FetchType
<1>3. QED
  BY <1>1, <1>2 DEF Rested, FetchType, Stages

LEMMA PacerInvNext ==
  PacerInv /\ [PacerNext]_pacerVars => PacerInv'
<1> SUFFICES ASSUME PacerInv, [PacerNext]_pacerVars PROVE PacerInv'
  OBVIOUS
<1>1. CASE UNCHANGED pacerVars
  BY <1>1 DEF pacerVars, PacerInv, PacerTyped, WaitsForItsTurn, NextIsApart
<1>2. CASE Tick
  BY <1>2 DEF Tick, PacerInv, PacerTyped, WaitsForItsTurn, NextIsApart
<1>3. CASE CancelJob
  BY <1>3 DEF CancelJob, PacerInv, PacerTyped, WaitsForItsTurn, NextIsApart
<1>4. ASSUME NEW f \in Fetches, BeginFetch(f) \/ Proceed(f) PROVE PacerInv'
  <2>1. /\ fetch[f] \in FetchType
        /\ fetch[f].hop + 1 \in Nat /\ fetch[f].attempt + 1 \in Nat /\ now + Patience \in Nat
    <3>1. fetch[f] \in FetchType /\ now \in Nat
      BY DEF PacerInv, PacerTyped
    <3>2. fetch[f].hop \in Nat /\ fetch[f].attempt \in Nat
      BY <3>1 DEF FetchType
    <3>3. QED
      BY DurationsAssumption, <3>1, <3>2
  <2>2. CASE BeginFetch(f)
    <3> DEFINE x == [fetch[f] EXCEPT !.at = "queue", !.deadline = now + Patience]
    <3>1. x \in FetchType /\ x.at = "queue"
      BY <2>1 DEF FetchType, Stages
    <3>2. fetch' = [fetch EXCEPT ![f] = x]
      BY <2>2 DEF BeginFetch, PacerInv, PacerTyped
    <3> HIDE DEF x
    <3>3. QED
      BY <2>2, <3>1, <3>2, OneFetch DEF BeginFetch
  <2>3. CASE TakeTurn(f)
    <3> DEFINE x == [fetch[f] EXCEPT !.at = "turn", !.until = Earlier(nextStart, fetch[f].deadline)]
    <3>1. /\ x \in FetchType /\ x.at = "turn" /\ x.deadline = fetch[f].deadline
          /\ x.until = Earlier(nextStart, x.deadline)
      BY <2>1 DEF Earlier, PacerInv, PacerTyped, FetchType, Stages
    <3>2. fetch' = [fetch EXCEPT ![f] = x] /\ holder = {} /\ holder' = {f}
      BY <2>3 DEF TakeTurn, PacerInv, PacerTyped
    <3> HIDE DEF x
    <3>3. \A g \in Fetches : fetch[g].at # "turn"
      BY <3>2 DEF PacerInv, WaitsForItsTurn
    <3>4. PacerTyped' /\ NextIsApart'
      BY <2>3, <3>1, <3>2 DEF TakeTurn, PacerInv, PacerTyped, NextIsApart
    <3>5. WaitsForItsTurn'
      <4>1. \A g \in Fetches : fetch'[g] = IF g = f THEN x ELSE fetch[g]
        BY <3>2 DEF PacerInv, PacerTyped
      <4>2. nextStart' = nextStart
        BY <2>3 DEF TakeTurn
      <4>3. QED
        BY <3>1, <3>2, <3>3, <4>1, <4>2 DEF WaitsForItsTurn
    <3>6. QED
      BY <3>4, <3>5 DEF PacerInv
  <2>4. CASE Grant(f)
    <3> DEFINE x == [fetch[f] EXCEPT !.at = "go"]
    <3>1. x \in FetchType /\ x.at = "go"
      BY <2>1 DEF FetchType, Stages
    <3>2. /\ fetch' = [fetch EXCEPT ![f] = x] /\ fetch[f].at = "turn" /\ holder = {f}
          /\ started' = {now} /\ nextStart' = now + Delay /\ now' = now
      BY <2>4 DEF Grant, Following, PacerInv, PacerTyped, WaitsForItsTurn
    <3> HIDE DEF x
    <3>3. \A g \in Fetches : g # f => fetch[g].at # "turn"
      BY <3>2 DEF PacerInv, WaitsForItsTurn
    <3>4. PacerTyped' /\ NextIsApart'
      BY DurationsAssumption, <3>1, <3>2 DEF PacerInv, PacerTyped, NextIsApart
    <3>5. WaitsForItsTurn'
      <4>1. \A g \in Fetches : fetch'[g] = IF g = f THEN x ELSE fetch[g]
        BY <3>2 DEF PacerInv, PacerTyped
      <4>2. QED
        BY <3>1, <3>3, <4>1 DEF WaitsForItsTurn
    <3>6. QED
      BY <3>4, <3>5 DEF PacerInv
  <2>5. CASE TooLate(f)
    <3>1. Tried(fetch[f]) \in FetchType /\ Tried(fetch[f]).at # "turn"
      BY AfterError DEF Tried
    <3>2. QED
      BY <2>5, <3>1, OneFetch DEF TooLate
  <2>6. CASE Stop(f)
    <3> DEFINE x == [fetch[f] EXCEPT !.at = "failed"]
    <3>1. x \in FetchType /\ x.at # "turn"
      BY AfterError
    <3>2. fetch' = [fetch EXCEPT ![f] = x] /\ (UNCHANGED holder \/ fetch[f].at = "turn")
      BY <2>6 DEF Stop, PacerInv, PacerTyped
    <3> HIDE DEF x
    <3>3. QED
      BY <2>6, <3>1, <3>2, OneFetch DEF Stop
  <2>7. CASE Request(f)
    <3> DEFINE x == [fetch[f] EXCEPT !.at = IF now < fetch[f].deadline THEN "asked" ELSE "failed"]
    <3>1. x \in FetchType /\ x.at # "turn"
      BY <2>1 DEF FetchType, Stages
    <3>2. fetch' = [fetch EXCEPT ![f] = x]
      BY <2>7 DEF Request, PacerInv, PacerTyped
    <3> HIDE DEF x
    <3>3. QED
      BY <2>7, <3>1, <3>2, OneFetch DEF Request
  <2>8. CASE Answer(f)
    <3>1. ASSUME NEW x \in FetchType, x.at # "turn", Ends(f, x) PROVE PacerInv'
      BY <3>1, OneFetch DEF Ends
    <3>2. [fetch[f] EXCEPT !.at = "got"] \in FetchType /\ [fetch[f] EXCEPT !.at = "got"].at = "got"
      BY <2>1 DEF FetchType, Stages
    <3>3. /\ [fetch[f] EXCEPT !.at = "queue", !.hop = @ + 1, !.attempt = 0] \in FetchType
          /\ [fetch[f] EXCEPT !.at = "queue", !.hop = @ + 1, !.attempt = 0].at = "queue"
      BY <2>1 DEF FetchType, Stages
    <3>4. CASE Page(f)
      BY <3>1, <3>2, <3>4 DEF Page
    <3>5. CASE Redirect(f)
      BY <3>1, <3>3, <3>5, AfterError DEF Redirect
    <3>6. CASE Busy(f)
      <4>1. PICK wait \in 1..2 :
              Ends(f, IF fetch[f].attempt = Attempts - 1
                      THEN [fetch[f] EXCEPT !.at = "failed"] ELSE Rested(fetch[f], wait))
        BY <3>6 DEF Busy
      <4>2. wait \in Nat
        OBVIOUS
      <4>3. Rested(fetch[f], wait) \in FetchType /\ Rested(fetch[f], wait).at = "rest"
        BY <4>2, AfterError
      <4>4. [fetch[f] EXCEPT !.at = "failed"] \in FetchType /\ [fetch[f] EXCEPT !.at = "failed"].at = "failed"
        BY <4>2, AfterError
      <4>5. QED
        BY <3>1, <4>1, <4>3, <4>4
    <3>7. CASE Broken(f)
      BY <3>1, <3>7, AfterError DEF Broken, Tried
    <3>8. CASE Refused(f)
      BY <3>1, <3>8, AfterError DEF Refused
    <3>9. QED
      BY <2>8, <3>4, <3>5, <3>6, <3>7, <3>8 DEF Answer
  <2>9. CASE Again(f)
    <3> DEFINE x == [fetch[f] EXCEPT !.at = "queue", !.attempt = @ + 1]
    <3>1. x \in FetchType /\ x.at # "turn"
      BY <2>1 DEF FetchType, Stages
    <3>2. fetch' = [fetch EXCEPT ![f] = x]
      BY <2>9 DEF Again, PacerInv, PacerTyped
    <3> HIDE DEF x
    <3>3. QED
      BY <2>9, <3>1, <3>2, OneFetch DEF Again
  <2>10. QED
    BY <1>4, <2>2, <2>3, <2>4, <2>5, <2>6, <2>7, <2>8, <2>9 DEF Proceed
<1>5. QED
  BY <1>1, <1>2, <1>3, <1>4 DEF PacerNext

(* Whoever is let go waited for the next start with the lock in hand, and  *)
(* not for its deadline alone, or it would have timed out (_Pacer.wait).   *)
LEMMA GrantIsOnTime ==
  ASSUME PacerInv, NEW f \in Fetches, Grant(f)
  PROVE  OnTime(now)
<1>1. /\ fetch[f].until = Earlier(nextStart, fetch[f].deadline)
      /\ now >= fetch[f].until /\ now < fetch[f].deadline
  BY DEF Grant, PacerInv, WaitsForItsTurn
<1>2. now \in Nat /\ nextStart \in Nat /\ fetch[f].deadline \in Nat /\ \A s \in started : s \in Nat
  BY DEF PacerInv, PacerTyped, FetchType
<1>3. now >= nextStart
  BY <1>1, <1>2 DEF Earlier
<1>4. QED
  BY DurationsAssumption, <1>2, <1>3 DEF PacerInv, NextIsApart, OnTime

LEMMA RequestsWait == PacerInit /\ [][PacerNext]_pacerVars => RequestsKeepTheirDistance
<1>1. PacerInv /\ [PacerNext]_pacerVars => [\A f \in Fetches : Grant(f) => OnTime(now)]_pacerVars
  BY GrantIsOnTime
<1>2. QED
  BY <1>1, PacerInvInit, PacerInvNext, PTL DEF RequestsKeepTheirDistance

(* Two requests of a job are never let go less than the delay apart,       *)
(* however the fetches queue, oversleep, retry, redirect and give up.      *)
THEOREM RequestsAreSpaced ==
  PacerSpec => RequestsKeepTheirDistance
  BY RequestsWait, PTL DEF PacerSpec


(* A fetch that rests before another attempt has one left, so that no      *)
(* fetch asks more often than it may, nor follows more redirects.          *)
RestsForAnother == \A f \in Fetches : fetch[f].at = "rest" => fetch[f].attempt # Attempts - 1

BoundedFetch == [at: Stages, hop: 0..(Hops - 1), attempt: 0..(Attempts - 1), until: 0..ClockBound,
                 deadline: 0..ClockBound]

(* A fetch goes where its parts keep their types.                          *)
LEMMA BoundedMove ==
  ASSUME PacerTypeOK, RestsForAnother, NEW f \in Fetches, NEW x \in BoundedFetch,
         x.at = "rest" => x.attempt # Attempts - 1,
         fetch' = [fetch EXCEPT ![f] = x], holder' \subseteq Fetches, UNCHANGED <<now, cancelled>>,
         nextStart' \in 0..(ClockBound + Delay), started' \subseteq 0..ClockBound
  PROVE  PacerTypeOK' /\ RestsForAnother'
<1>1. fetch \in [Fetches -> BoundedFetch]
  BY DEF PacerTypeOK, BoundedFetch
<1>2. fetch' \in [Fetches -> BoundedFetch] /\ \A g \in Fetches : fetch'[g] = IF g = f THEN x ELSE fetch[g]
  BY <1>1
<1>3. PacerTypeOK'
  BY <1>2 DEF PacerTypeOK, BoundedFetch
<1>4. RestsForAnother'
  BY <1>2 DEF RestsForAnother
<1>5. QED
  BY <1>3, <1>4

LEMMA BoundedRest ==
  ASSUME now \in 0..ClockBound, NEW y \in BoundedFetch, NEW wait \in Nat, y.attempt # Attempts - 1
  PROVE  Rested(y, wait) \in BoundedFetch /\ Rested(y, wait).attempt # Attempts - 1
<1>1. Earlier(now + wait, y.deadline) \in 0..ClockBound
  <2>1. y.deadline \in 0..ClockBound
    BY DEF BoundedFetch
  <2>2. QED
    BY <2>1, TriesAssumption DEF Earlier
<1>2. QED
  BY <1>1 DEF Rested, BoundedFetch, Stages

(* A fetch that has failed, or is left where it may try again.             *)
LEMMA BoundedTried ==
  ASSUME now \in 0..ClockBound, NEW y \in BoundedFetch
  PROVE  /\ [y EXCEPT !.at = "failed"] \in BoundedFetch /\ [y EXCEPT !.at = "failed"].at = "failed"
         /\ Tried(y) \in BoundedFetch
         /\ Tried(y).at = "rest" => Tried(y).attempt # Attempts - 1
<1>1. [y EXCEPT !.at = "failed"] \in BoundedFetch /\ [y EXCEPT !.at = "failed"].at = "failed"
  BY DEF BoundedFetch, Stages
<1>2. CASE y.attempt = Attempts - 1
  BY <1>1, <1>2 DEF Tried
<1>3. CASE y.attempt # Attempts - 1
  BY <1>1, <1>3, BoundedRest DEF Tried
<1>4. QED
  BY <1>2, <1>3

LEMMA PacerKeepsItsTypes == PacerInit /\ [][PacerNext]_pacerVars => []PacerTypeOK
<1> DEFINE Bounded == PacerTypeOK /\ RestsForAnother
<1>1. PacerInit => Bounded
  <2> SUFFICES ASSUME PacerInit PROVE Bounded
    OBVIOUS
  <2>1. 0 \in 0..(Hops - 1) /\ 0 \in 0..(Attempts - 1) /\ 0 \in 0..ClockBound /\ 0 \in 0..(ClockBound + Delay)
    BY TriesAssumption, DurationsAssumption
  <2>2. Resting \in BoundedFetch /\ Resting.at = "idle"
    BY <2>1 DEF Resting, BoundedFetch, Stages
  <2>3. fetch \in [Fetches -> BoundedFetch]
    BY <2>2 DEF PacerInit
  <2>4. QED
    BY <2>1, <2>2, <2>3 DEF PacerInit, PacerTypeOK, RestsForAnother, BoundedFetch
<1>2. Bounded /\ [PacerNext]_pacerVars => Bounded'
  <2> SUFFICES ASSUME PacerTypeOK, RestsForAnother, [PacerNext]_pacerVars PROVE PacerTypeOK' /\ RestsForAnother'
    OBVIOUS
  <2>1. CASE UNCHANGED pacerVars
    BY <2>1 DEF pacerVars, PacerTypeOK, RestsForAnother
  <2>2. CASE Tick \/ CancelJob
    <3>1. now' \in 0..ClockBound /\ cancelled' \in BOOLEAN /\ UNCHANGED <<nextStart, holder, fetch, started>>
      <4>1. now \in 0..ClockBound /\ cancelled \in BOOLEAN
        BY DEF PacerTypeOK
      <4>2. CASE Tick
        BY <4>1, <4>2, TriesAssumption DEF Tick
      <4>3. CASE CancelJob
        BY <4>1, <4>3 DEF CancelJob
      <4>4. QED
        BY <2>2, <4>2, <4>3
    <3>2. QED
      BY <3>1 DEF PacerTypeOK, RestsForAnother
  <2>3. ASSUME NEW f \in Fetches, BeginFetch(f) \/ Proceed(f) PROVE PacerTypeOK' /\ RestsForAnother'
    <3>1. /\ fetch \in [Fetches -> BoundedFetch] /\ fetch[f] \in BoundedFetch /\ now \in 0..ClockBound
          /\ holder \subseteq Fetches /\ nextStart \in 0..(ClockBound + Delay) /\ started \subseteq 0..ClockBound
      BY DEF PacerTypeOK, BoundedFetch
    <3>2. CASE BeginFetch(f)
      <4> DEFINE x == [fetch[f] EXCEPT !.at = "queue", !.deadline = now + Patience]
      <4>1. x \in BoundedFetch /\ x.at = "queue"
        <5>1. now + Patience \in 0..ClockBound
          BY <3>1, <3>2, DurationsAssumption, TriesAssumption DEF BeginFetch
        <5>2. QED
          BY <3>1, <5>1 DEF BoundedFetch, Stages
      <4>2. fetch' = [fetch EXCEPT ![f] = x]
        BY <3>1, <3>2 DEF BeginFetch
      <4> HIDE DEF x
      <4>3. QED
        BY <3>1, <3>2, <4>1, <4>2, BoundedMove DEF BeginFetch
    <3>3. CASE TakeTurn(f)
      <4> DEFINE x == [fetch[f] EXCEPT !.at = "turn", !.until = Earlier(nextStart, fetch[f].deadline)]
      <4>1. x \in BoundedFetch /\ x.at = "turn"
        <5>1. fetch[f].deadline \in 0..ClockBound
          BY <3>1 DEF BoundedFetch
        <5>2. Earlier(nextStart, fetch[f].deadline) \in 0..ClockBound
          BY <3>1, <5>1, TriesAssumption, DurationsAssumption DEF Earlier
        <5>3. QED
          BY <3>1, <5>2 DEF BoundedFetch, Stages
      <4>2. fetch' = [fetch EXCEPT ![f] = x]
        BY <3>1, <3>3 DEF TakeTurn
      <4> HIDE DEF x
      <4>3. QED
        BY <3>1, <3>3, <4>1, <4>2, BoundedMove DEF TakeTurn
    <3>4. CASE Grant(f)
      <4> DEFINE x == [fetch[f] EXCEPT !.at = "go"]
      <4>1. x \in BoundedFetch /\ x.at = "go"
        BY <3>1 DEF BoundedFetch, Stages
      <4>2. fetch' = [fetch EXCEPT ![f] = x]
        BY <3>1, <3>4 DEF Grant
      <4>3. nextStart' \in 0..(ClockBound + Delay) /\ started' \subseteq 0..ClockBound /\ holder' = {}
        BY <3>1, <3>4, TriesAssumption, DurationsAssumption DEF Grant, Following, Released
      <4> HIDE DEF x
      <4>4. QED
        BY <3>1, <3>4, <4>1, <4>2, <4>3, BoundedMove DEF Grant
    <3>5. CASE TooLate(f)
      <4>1. Tried(fetch[f]) \in BoundedFetch /\ (Tried(fetch[f]).at = "rest" => Tried(fetch[f]).attempt # Attempts - 1)
        BY <3>1, BoundedTried
      <4>2. QED
        BY <3>1, <3>5, <4>1, BoundedMove DEF TooLate, Released
    <3>6. CASE Stop(f)
      <4> DEFINE x == [fetch[f] EXCEPT !.at = "failed"]
      <4>1. x \in BoundedFetch /\ x.at = "failed"
        BY <3>1, BoundedTried
      <4>2. fetch' = [fetch EXCEPT ![f] = x] /\ holder' \subseteq Fetches
        BY <3>1, <3>6 DEF Stop, Released
      <4> HIDE DEF x
      <4>3. QED
        BY <3>1, <3>6, <4>1, <4>2, BoundedMove DEF Stop
    <3>7. CASE Request(f)
      <4> DEFINE x == [fetch[f] EXCEPT !.at = IF now < fetch[f].deadline THEN "asked" ELSE "failed"]
      <4>1. x \in BoundedFetch /\ x.at \in {"asked", "failed"}
        BY <3>1 DEF BoundedFetch, Stages
      <4>2. fetch' = [fetch EXCEPT ![f] = x]
        BY <3>1, <3>7 DEF Request
      <4> HIDE DEF x
      <4>3. QED
        BY <3>1, <3>7, <4>1, <4>2, BoundedMove DEF Request
    <3>8. CASE Again(f)
      <4> DEFINE x == [fetch[f] EXCEPT !.at = "queue", !.attempt = @ + 1]
      <4>1. x \in BoundedFetch /\ x.at = "queue"
        <5>1. fetch[f].attempt \in 0..(Attempts - 1) /\ fetch[f].attempt # Attempts - 1
          BY <3>1, <3>8 DEF Again, RestsForAnother, BoundedFetch
        <5>2. fetch[f].attempt + 1 \in 0..(Attempts - 1)
          BY <5>1, TriesAssumption
        <5>3. QED
          BY <3>1, <5>2 DEF BoundedFetch, Stages
      <4>2. fetch' = [fetch EXCEPT ![f] = x]
        BY <3>1, <3>8 DEF Again
      <4> HIDE DEF x
      <4>3. QED
        BY <3>1, <3>8, <4>1, <4>2, BoundedMove DEF Again
    <3>9. CASE Answer(f)
      <4>1. PICK x \in BoundedFetch : Ends(f, x) /\ (x.at = "rest" => x.attempt # Attempts - 1)
        <5>1. CASE Page(f)
          <6>1. [fetch[f] EXCEPT !.at = "got"] \in BoundedFetch /\ [fetch[f] EXCEPT !.at = "got"].at = "got"
            BY <3>1 DEF BoundedFetch, Stages
          <6>2. QED
            BY <5>1, <6>1 DEF Page
        <5>2. CASE Refused(f)
          BY <3>1, <5>2, BoundedTried DEF Refused
        <5>3. CASE Broken(f)
          BY <3>1, <5>3, BoundedTried DEF Broken
        <5>4. CASE Busy(f)
          <6>1. PICK wait \in 1..2 : Ends(f, IF fetch[f].attempt = Attempts - 1
                                           THEN [fetch[f] EXCEPT !.at = "failed"] ELSE Rested(fetch[f], wait))
            BY <5>4 DEF Busy
          <6>2. CASE fetch[f].attempt = Attempts - 1
            BY <3>1, <6>1, <6>2, BoundedTried
          <6>3. CASE fetch[f].attempt # Attempts - 1
            <7>1. Rested(fetch[f], wait) \in BoundedFetch /\ Rested(fetch[f], wait).attempt # Attempts - 1
              BY <3>1, <6>3, BoundedRest
            <7>2. QED
              BY <6>1, <6>3, <7>1
          <6>4. QED
            BY <6>2, <6>3
        <5>5. CASE Redirect(f)
          <6> DEFINE y == [fetch[f] EXCEPT !.at = "queue", !.hop = @ + 1, !.attempt = 0]
          <6>1. CASE fetch[f].hop = Hops - 1
            BY <3>1, <5>5, <6>1, BoundedTried DEF Redirect
          <6>2. CASE fetch[f].hop # Hops - 1
            <7>1. fetch[f].hop \in 0..(Hops - 1)
              BY <3>1 DEF BoundedFetch
            <7>2. fetch[f].hop + 1 \in 0..(Hops - 1) /\ 0 \in 0..(Attempts - 1)
              BY <6>2, <7>1, TriesAssumption
            <7>3. y \in BoundedFetch /\ y.at = "queue"
              BY <3>1, <7>2 DEF BoundedFetch, Stages
            <7>4. Ends(f, y)
              BY <5>5, <6>2 DEF Redirect
            <7> HIDE DEF y
            <7>5. QED
              BY <7>3, <7>4
          <6>3. QED
            BY <6>1, <6>2
        <5>6. QED
          BY <3>9, <5>1, <5>2, <5>3, <5>4, <5>5 DEF Answer
      <4>2. QED
        BY <3>1, <4>1, BoundedMove DEF Ends
    <3>10. QED
      BY <2>3, <3>2, <3>3, <3>4, <3>5, <3>6, <3>7, <3>8, <3>9 DEF Proceed
  <2>4. QED
    BY <2>1, <2>2, <2>3 DEF PacerNext
<1>3. QED
  BY <1>1, <1>2, PTL

(* The fetches keep their types: none makes more attempts than it may, or  *)
(* follows more redirects, and the clock is bounded.                       *)
THEOREM PacerTypes == PacerSpec => []PacerTypeOK
  BY PacerKeepsItsTypes, PTL DEF PacerSpec

=============================================================================
