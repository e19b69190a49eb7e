---------------------- MODULE IdentityMaintenance_proofs ----------------------
(***************************************************************************)
(* Safety of identity maintenance, for every set of circulars, requests    *)
(* and uploads, and any number of crashes, failures and timeouts; and the  *)
(* refinement of IdentityChange.                                           *)
(***************************************************************************)
EXTENDS IdentityMaintenance, TLAPS

-----------------------------------------------------------------------------
(* Type correctness.                                                       *)

StateType   == [status: Statuses, maintenance: BOOLEAN, started: BOOLEAN, op: Ops \union {"none"}]
FileType    == [contents: Contents, stale: BOOLEAN, backup: {"none", "partial", "complete"}]
JournalType == [op: Ops \union {"none"}, phase: Phases]

(* The record types of the variables, under their names.                   *)
LEMMA Types ==
  ASSUME TypeOK
  PROVE  state \in StateType /\ file \in [Ops -> FileType] /\ journal \in JournalType
BY DEF TypeOK, StateType, FileType, JournalType

(* What the console's state becomes is a state.                            *)
LEMMA StateTypes ==
  ASSUME TypeOK
  PROVE  /\ \A t \in Tasks : Announced(t) \in StateType
         /\ Submitted \in StateType /\ Recovered \in StateType /\ Unstarted \in StateType
         /\ \A s \in Statuses : [state EXCEPT !.status = s] \in StateType
<1>1. state \in StateType /\ journal.op \in Ops \union {"none"}
  BY Types DEF JournalType
<1>2. ASSUME NEW t \in Tasks
      PROVE  Announced(t) \in StateType
  <2>1. Named(t) \in Statuses
    BY DEF Named, Tasks, Ops, Statuses
  <2>2. (IF t \in Ops THEN t ELSE state.op) \in Ops \union {"none"}
    BY <1>1 DEF StateType
  <2>3. QED
    BY <1>1, <2>1, <2>2 DEF Announced, StateType
<1>3. Submitted \in StateType
  BY <1>1 DEF Submitted, Statuses, StateType
<1>4. Recovered \in StateType
  BY <1>1 DEF Recovered, Statuses, StateType
<1>5. Unstarted \in StateType
  BY <1>1 DEF Unstarted, StateType
<1>6. ASSUME NEW s \in Statuses PROVE [state EXCEPT !.status = s] \in StateType
  BY <1>1 DEF StateType
<1>7. QED
  BY <1>2, <1>3, <1>4, <1>5, <1>6

(* So are the files that the worker writes, and a fault is counted.        *)
LEMMA FileTypes ==
  ASSUME TypeOK, NEW o \in Ops
  PROVE  /\ \A f \in Contents : File(f) \in FileType
         /\ [file[o] EXCEPT !.stale = TRUE] \in FileType
         /\ [file[o] EXCEPT !.backup = "partial"] \in FileType
         /\ [file[o] EXCEPT !.backup = "complete"] \in FileType
<1>1. file[o] \in FileType
  BY Types
<1>2. QED
  BY <1>1 DEF File, FileType

(* A disturbance that happens is counted by a natural number.              *)
LEMMA CountType ==
  ASSUME TypeOK, NEW k \in Disturbances, Happens(k)
  PROVE  count' \in [Disturbances -> Nat]
<1>1. count \in [Disturbances -> Nat] /\ count[k] \in Nat
  BY DEF TypeOK
<1>2. count[k] + 1 \in Nat
  BY <1>1
<1>3. QED
  BY <1>1, <1>2 DEF Happens

(* The types of pc and journal rest on what the worker does where, and on  *)
(* a journalled operation having a phase to resume at.                     *)
WorkerHasTask == operation =>
  /\ pc \in {"drain", "lock"} => task # "review"
  /\ pc \in Planning \union {"submit"} => task \notin Ops
  /\ pc \in Inner \union {"begin", "undo", "check", "close"} => task \in Ops
  /\ pc \in {"app", "mark"} => task = "migrate"

JournalHasPhase == journal.op # "none" => journal.phase # "none"

Typed == TypeOK /\ JournalHasPhase /\ WorkerHasTask

(* A fresh installation is well typed.                                     *)
LEMMA TypeInit == Init => Typed
<1>1. SUFFICES ASSUME Init PROVE Typed
  OBVIOUS
<1>2. file \in [Ops -> FileType] /\ \A o \in Ops : file[o] = File("absent")
  BY <1>1 DEF Init, File, FileType, Contents
<1>3. QED
  BY <1>1, <1>2 DEF Init, Typed, JournalHasPhase, WorkerHasTask, TypeOK, Schemes, FileType, Statuses, Phases, Tasks, Ops, Steps, Disturbances, Writers

(* The requests, jobs and uploads, and their reads and writes.             *)
LEMMA TypeTraffic == TypeOK /\ Traffic => TypeOK'
<1>1. SUFFICES ASSUME TypeOK, Traffic PROVE TypeOK'
  OBVIOUS
<1>2. CASE \E r \in Requests : Enter(r) \/ Leave(r) \/ StartJob(r)
  BY <1>1, <1>2 DEF TypeOK, Enter, Leave, StartJob, Writers, vars, stores, console, worker, traffic
<1>3. CASE \E r \in Requests, u \in Uploads : StartUpload(r, u)
  BY <1>1, <1>3 DEF TypeOK, StartUpload, stores, console, worker
<1>4. CASE \E u \in Uploads : EndUpload(u)
  BY <1>1, <1>4 DEF TypeOK, EndUpload, Writers, stores, console, worker
<1>5. CASE \E w \in Writers : Read(w)
  BY <1>1, <1>5 DEF TypeOK, Read, stores, console, worker
<1>6. ASSUME NEW w \in Writers, Write(w) PROVE TypeOK'
  <2>1. file' \in [Ops -> FileType]
    BY <1>1, <1>6, FileTypes DEF Write
  <2>2. stray' \subseteq Writers
    BY <1>1, <1>6 DEF Write, TypeOK
  <2>3. QED
    BY <1>1, <1>6, <2>1, <2>2 DEF TypeOK, FileType, Write, worker, traffic
<1>7. CASE EndJob
  BY <1>1, <1>7 DEF TypeOK, EndJob, Writers, stores, console, worker
<1>8. QED
  BY <1>1, <1>2, <1>3, <1>4, <1>5, <1>6, <1>7 DEF Traffic

(* The console's requests.                                                 *)
LEMMA TypeOperator == TypeOK /\ Operator => TypeOK'
<1>1. SUFFICES ASSUME TypeOK, Operator PROVE TypeOK'
  OBVIOUS
<1>2. {"start", "record"} \subseteq Disturbances /\ {"drain", "plan"} \subseteq Steps /\ {"failed", "cancelled"} \subseteq Statuses
  BY DEF Disturbances, Steps, Planning, Statuses
<1>3. ASSUME NEW t \in Tasks, Start(t) PROVE TypeOK'
  <2>1. state' \in StateType
    BY <1>1, <1>3, StateTypes, Types DEF Start
  <2>2. count' \in [Disturbances -> Nat]
    BY <1>1, <1>2, <1>3, CountType DEF Start, TypeOK
  <2>3. operation' \in BOOLEAN /\ task' \in Tasks /\ pc' \in Steps /\ late' \in BOOLEAN /\ fresh' \subseteq Ops
    BY <1>1, <1>2, <1>3 DEF Start, TypeOK, First, worker
  <2>4. QED
    BY <1>1, <1>3, <2>1, <2>2, <2>3 DEF Start, TypeOK, StateType, stores, traffic
<1>4. CASE RecordLate
  <2>1. state' \in StateType
    BY <1>1, <1>2, <1>4, StateTypes, Types DEF RecordLate
  <2>2. count' \in [Disturbances -> Nat]
    BY <1>1, <1>2, <1>4, CountType DEF RecordLate, TypeOK
  <2>3. QED
    BY <1>1, <1>4, <2>1, <2>2 DEF RecordLate, TypeOK, StateType, stores, worker, traffic
<1>5. CASE Cancel
  <2>1. state' \in StateType
    BY <1>1, <1>2, <1>5, Types DEF Cancel, StateType
  <2>2. QED
    BY <1>1, <1>5, <2>1 DEF Cancel, TypeOK, StateType, stores, worker, traffic
<1>6. QED
  BY <1>1, <1>3, <1>4, <1>5 DEF Operator

(* The worker's steps before the journal, and after it.                    *)
Plans == \E o \in Ops : Plan(o) \/ WritePlan(o)
Early == Drain \/ TakeJobLock \/ Plans \/ Submit \/ Begin \/ Open \/ Copy \/ Copied

(* The worker's steps up to the backups keep the types.                    *)
LEMMA TypeEarly == Typed /\ Early => TypeOK'
<1>1. SUFFICES ASSUME TypeOK, JournalHasPhase, Early PROVE TypeOK'
  BY DEF Typed
<1>2. {"lock", "begin", "submit", "free", "open", "copy", "undo", "copied", "log", "corpus", "app", "index", "finish", "check"} \subseteq Steps
      /\ Planning \subseteq Steps /\ Planning = {"plan", "list", "manifest", "removal"}
  BY DEF Steps, Inner, Recording, Planning, Failing, Ending
<1>3. ASSUME Drain \/ TakeJobLock PROVE TypeOK'
  BY <1>1, <1>2, <1>3 DEF Drain, TakeJobLock, Goto, TypeOK, stores, console, worker, traffic
<1>4. ASSUME NEW o \in Ops, Plan(o) PROVE TypeOK'
  <2>1. pc' \in Steps /\ fresh' \subseteq Ops
    BY <1>1, <1>2, <1>4 DEF Plan, TypeOK
  <2>2. QED
    BY <1>1, <1>4, <2>1 DEF Plan, TypeOK, stores, console, traffic
<1>11. ASSUME NEW o \in Ops, WritePlan(o) PROVE TypeOK'
  <2>1. pc' \in Steps /\ fresh' \subseteq Ops
    BY <1>1, <1>2, <1>11 DEF WritePlan, TypeOK
  <2>2. PICK f \in Contents : file' = [file EXCEPT ![o] = [File(f) EXCEPT !.stale = o \notin fresh]]
    BY <1>11 DEF WritePlan, Planned, Contents
  <2>3. [File(f) EXCEPT !.stale = o \notin fresh] \in FileType
    BY DEF File, FileType
  <2>4. file' \in [Ops -> FileType]
    BY <1>1, <2>2, <2>3, Types
  <2>5. QED
    BY <1>1, <1>11, <2>1, <2>4 DEF WritePlan, TypeOK, FileType, stores, traffic
<1>5. CASE Submit
  <2>1. state' \in StateType
    BY <1>1, <1>5, StateTypes DEF Submit
  <2>2. QED
    BY <1>1, <1>2, <1>5, <2>1 DEF Submit, Goto, TypeOK, StateType, stores, traffic
<1>6. CASE Begin
  <2>1. state' \in StateType
    BY <1>1, <1>6, Types DEF Begin, StateType
  <2>2. QED
    BY <1>1, <1>2, <1>6, <2>1 DEF Begin, Goto, TypeOK, StateType, stores, traffic
<1>7. CASE Open
  <2>1. pc' \in Steps
    <3>1. CASE Journaled
      <4>1. journal.op # "none" /\ journal.phase \in Phases \ {"none"}
        BY <1>1, <3>1, Types DEF Journaled, JournalHasPhase, TypeOK, Tasks, Ops, JournalType
      <4>2. Resumed(journal.phase) \in Steps
        BY <1>2, <4>1 DEF Resumed, Phases
      <4>3. pc' = Resumed(journal.phase)
        BY <1>7, <3>1 DEF Open, Goto, Journaled
      <4>4. QED
        BY <4>2, <4>3
    <3>2. CASE ~Journaled
      BY <1>2, <1>7, <3>2 DEF Open, Goto
    <3>3. QED
      BY <3>1, <3>2
  <2>2. UNCHANGED <<operation, task, fresh>>
    BY <1>7 DEF Open, Goto
  <2>3. QED
    BY <1>1, <1>7, <2>1, <2>2 DEF Open, TypeOK, stores, console, traffic
<1>8. CASE Copy
  <2>1. file' \in [Ops -> FileType]
    BY <1>1, <1>8, FileTypes, Types DEF Copy
  <2>2. QED
    BY <1>1, <1>2, <1>8, <2>1 DEF Copy, Goto, TypeOK, FileType, stores, traffic
<1>9. CASE Copied
  <2>1. file' \in [Ops -> FileType]
    BY <1>1, <1>9, FileTypes, Types DEF Copied
  <2>2. QED
    BY <1>1, <1>2, <1>9, <2>1 DEF Copied, Goto, TypeOK, FileType, stores, traffic
<1>10. QED
  BY <1>1, <1>3, <1>4, <1>5, <1>6, <1>7, <1>8, <1>9, <1>11 DEF Early, Plans

Late == Log \/ Rekey \/ RekeyApp \/ Mark \/ Verified \/ Finish \/ Check \/ Close \/ FreeJobLock \/ Release

(* So do its steps from the journal to the release.                        *)
LEMMA TypeLate == Typed /\ Late => TypeOK'
<1>1. SUFFICES ASSUME TypeOK, WorkerHasTask, Late PROVE TypeOK'
  BY DEF Typed
<1>2. {"corpus", "app", "index", "mark", "undo", "finish", "check", "close", "failing", "free", "unlock", "release", "off"} \subseteq Steps
  BY DEF Steps, Inner, Recording, Failing, Ending
<1>3. {"new", "gone"} \subseteq Schemes /\ "complete" \in Statuses
  BY DEF Schemes, Statuses
<1>4. \A p \in Phases : [journal EXCEPT !.phase = p] \in JournalType
  BY <1>1, Types DEF JournalType
<1>5. {"planned", "corpus_committed", "app_committed", "indexes_verified", "complete"} \subseteq Phases
  BY DEF Phases
<1>6. CASE Log
  <2>1. task \in Ops
    BY <1>1, <1>6 DEF Log, At, WorkerHasTask, Inner
  <2>2. journal' \in JournalType
    BY <1>5, <1>6, <2>1 DEF Log, JournalType
  <2>3. QED
    BY <1>1, <1>2, <1>6, <2>2 DEF Log, Goto, TypeOK, JournalType, stores, traffic
<1>7. CASE Rekey
  <2>1. corpus' \in Schemes
    BY <1>1, <1>3, <1>7 DEF Rekey, TypeOK
  <2>2. journal' \in JournalType
    BY <1>1, <1>4, <1>5, <1>7, Types DEF Rekey
  <2>3. pc' \in Steps /\ UNCHANGED <<operation, task, fresh>>
    BY <1>2, <1>7 DEF Rekey, Goto, Resumed
  <2>4. QED
    BY <1>1, <1>7, <2>1, <2>2, <2>3 DEF Rekey, TypeOK, JournalType, traffic
<1>8. CASE RekeyApp
  <2>1. app' \in Schemes
    BY <1>1, <1>3, <1>8 DEF RekeyApp, TypeOK
  <2>2. pc' \in Steps /\ UNCHANGED <<operation, task, fresh>>
    BY <1>2, <1>8 DEF RekeyApp, Goto
  <2>3. QED
    BY <1>1, <1>8, <2>1, <2>2 DEF RekeyApp, TypeOK, console, traffic
<1>9. CASE Mark \/ Verified \/ Finish
  <2>1. journal' \in JournalType
    BY <1>4, <1>5, <1>9 DEF Mark, Verified, Finish
  <2>2. QED
    BY <1>1, <1>2, <1>9, <2>1 DEF Mark, Verified, Finish, Goto, TypeOK, JournalType, stores, traffic
<1>10. CASE Check
  BY <1>1, <1>2, <1>10 DEF Check, Goto, TypeOK, stores, console, traffic
<1>11. CASE Close
  <2>1. state' \in StateType
    BY <1>1, <1>3, <1>11, Types DEF Close, StateType
  <2>2. QED
    BY <1>1, <1>2, <1>11, <2>1 DEF Close, Goto, TypeOK, StateType, stores, traffic
<1>12. CASE FreeJobLock \/ Release
  BY <1>1, <1>2, <1>12 DEF Release, FreeJobLock, Goto, Gone, TypeOK, stores, console, traffic
<1>13. QED
  BY <1>1, <1>6, <1>7, <1>8, <1>9, <1>10, <1>11, <1>12 DEF Late

(* Exceptions, crashes and boots.                                          *)
Faults == Undo \/ Fail \/ GiveUp \/ Raise \/ Crash \/ Boot

(* So do exceptions, timeouts, crashes and boots.                          *)
LEMMA TypeFaults == TypeOK /\ Faults => TypeOK'
<1>1. SUFFICES ASSUME TypeOK, Faults PROVE TypeOK'
  OBVIOUS
<1>2. {"failing", "off", "undo", "unlock", "release"} \subseteq Steps /\ "failed" \in Statuses
  BY DEF Steps, Inner, Failing, Ending, Statuses
<1>3. {"record", "work", "timeout", "crash"} \subseteq Disturbances
  BY DEF Disturbances
<1>4. CASE Undo
  <2>1. state' \in StateType
    BY <1>1, <1>4, StateTypes, Types DEF Undo
  <2>2. count' \in [Disturbances -> Nat]
    BY <1>1, <1>3, <1>4, CountType DEF Undo, TypeOK
  <2>3. QED
    BY <1>1, <1>2, <1>4, <2>1, <2>2 DEF Undo, Goto, TypeOK, StateType, stores, traffic
<1>5. CASE Fail
  <2>1. state' \in StateType
    BY <1>1, <1>2, <1>5, StateTypes, Types DEF Fail
  <2>2. count' \in [Disturbances -> Nat]
    BY <1>1, <1>3, <1>5, CountType DEF Fail, TypeOK
  <2>3. QED
    BY <1>1, <1>2, <1>5, <2>1, <2>2 DEF Fail, Goto, TypeOK, StateType, stores, traffic
<1>6. CASE GiveUp \/ Raise
  <2>1. count' \in [Disturbances -> Nat]
    BY <1>1, <1>3, <1>6, CountType DEF GiveUp, Raise
  <2>2. pc' \in Steps /\ UNCHANGED <<operation, task, fresh>>
    BY <1>2, <1>6 DEF GiveUp, Raise, Goto
  <2>3. QED
    BY <1>1, <1>6, <2>1, <2>2 DEF GiveUp, Raise, TypeOK, stores, console, traffic
<1>7. CASE Crash
  <2>1. count' \in [Disturbances -> Nat]
    BY <1>1, <1>3, <1>7, CountType DEF Crash
  <2>2. QED
    BY <1>1, <1>2, <1>7, <2>1 DEF Crash, Gone, TypeOK, stores, console
<1>8. CASE Boot
  <2>1. state' \in StateType
    BY <1>1, <1>8, StateTypes DEF Boot
  <2>2. QED
    BY <1>1, <1>8, <2>1 DEF Boot, TypeOK, StateType, stores, worker, traffic
<1>9. QED
  BY <1>1, <1>4, <1>5, <1>6, <1>7, <1>8 DEF Faults

(* So does the repair of one circular's search entries.                    *)
LEMMA TypeRepair == TypeOK /\ (\E c \in Mapped : Repair(c)) => TypeOK'
BY DEF TypeOK, Repair, console, worker, traffic

(* Every step is of one of these groups.                                   *)
LEMMA StepGroups == Next => Traffic \/ Operator \/ Early \/ Late \/ Faults \/ \E c \in Mapped : Repair(c)
BY DEF Next, Work, Early, Plans, Late, Faults

(* Every step sends the worker where its task belongs.                     *)
LEMMA TaskNext == Typed /\ Next => WorkerHasTask'
<1>1. SUFFICES ASSUME TypeOK, JournalHasPhase, WorkerHasTask, Next PROVE WorkerHasTask'
  BY DEF Typed
<1>2. ASSUME UNCHANGED <<operation, task, pc>> PROVE WorkerHasTask'
  BY <1>1, <1>2 DEF WorkerHasTask
<1>3. CASE Traffic
  BY <1>2, <1>3 DEF Traffic, Enter, Leave, StartJob, StartUpload, EndUpload, Read, Write, EndJob, worker
<1>4. ASSUME NEW t \in Tasks, Start(t) PROVE WorkerHasTask'
  BY <1>1, <1>2, <1>4 DEF Start, First, Tasks, Ops, WorkerHasTask, Inner, Planning, worker
<1>5. CASE RecordLate \/ Cancel \/ (\E c \in Mapped : Repair(c)) \/ Boot
  BY <1>2, <1>5 DEF RecordLate, Cancel, Repair, Boot, worker
<1>6. CASE Early
  <2>1. CASE Drain \/ TakeJobLock
    BY <1>1, <2>1, Types DEF Drain, TakeJobLock, At, Goto, WorkerHasTask, Inner, Planning, TypeOK, Tasks, Ops
  <2>2. CASE Plans \/ Submit \/ Begin \/ Copy \/ Copied
    BY <1>1, <2>2 DEF Plans, Plan, WritePlan, LastPlan, Planning, Submit, Begin, Copy, Copied, At, Goto, WorkerHasTask, Inner
  <2>3. CASE Open
    <3>1. task \in Ops /\ UNCHANGED <<operation, task>>
      BY <1>1, <2>3 DEF Open, At, Goto, WorkerHasTask, Inner
    <3>2. pc' \in {"undo", "copy", "corpus", "index", "finish", "check"} \/ (pc' = "app" /\ task = "migrate")
      <4>1. CASE Journaled
        <5>1. journal.phase \in Phases \ {"none"}
          BY <1>1, <3>1, <4>1, Types DEF Journaled, JournalHasPhase, Ops, JournalType
        <5>2. pc' = Resumed(journal.phase)
          BY <2>3, <4>1 DEF Open, Goto, Journaled
        <5>3. QED
          BY <5>1, <5>2 DEF Resumed, Phases
      <4>2. CASE ~Journaled
        BY <2>3, <4>2 DEF Open, Goto
      <4>3. QED
        BY <4>1, <4>2
    <3>3. QED
      BY <3>1, <3>2 DEF WorkerHasTask, Planning
  <2>4. QED
    BY <1>6, <2>1, <2>2, <2>3 DEF Early
<1>7. CASE Late
  BY <1>1, <1>7 DEF Late, Log, Rekey, RekeyApp, Mark, Verified, Finish, Check, Close, FreeJobLock, Release, Resumed, At, Goto, Gone, WorkerHasTask, Inner, Planning
<1>8. CASE Undo \/ Fail \/ GiveUp \/ Raise \/ Crash
  BY <1>1, <1>8 DEF Undo, Fail, GiveUp, Raise, Crash, At, Goto, Gone, WorkerHasTask, Inner, Planning
<1>9. QED
  BY <1>1, <1>3, <1>4, <1>5, <1>6, <1>7, <1>8, StepGroups DEF Operator, Faults

(* No step names an operation in the journal without a phase.              *)
LEMMA PhaseNext == Typed /\ Next => JournalHasPhase'
<1>1. SUFFICES ASSUME TypeOK, JournalHasPhase, Next PROVE JournalHasPhase'
  BY DEF Typed
<1>2. ASSUME UNCHANGED journal PROVE JournalHasPhase'
  BY <1>1, <1>2 DEF JournalHasPhase
<1>3. CASE Log \/ Rekey \/ Mark \/ Verified \/ Finish
  BY <1>1, <1>3, Types DEF Log, Rekey, Mark, Verified, Finish, JournalHasPhase, JournalType
<1>4. CASE Traffic \/ Operator
  BY <1>2, <1>4 DEF Traffic, Enter, Leave, StartJob, StartUpload, EndUpload, Read, Write, EndJob,
                    Operator, Start, RecordLate, Cancel, console
<1>5. CASE Early
  BY <1>2, <1>5 DEF Early, Drain, TakeJobLock, Plans, Plan, WritePlan, LastPlan, Planning, Submit, Begin, Open, Copy, Copied, console
<1>6. CASE RekeyApp \/ Check \/ Close \/ FreeJobLock \/ Release
  BY <1>2, <1>6 DEF RekeyApp, Check, Close, FreeJobLock, Release, console
<1>7. CASE Faults \/ \E c \in Mapped : Repair(c)
  BY <1>2, <1>7 DEF Faults, Undo, Fail, GiveUp, Raise, Crash, Boot, Repair, console
<1>8. QED
  BY <1>1, <1>3, <1>4, <1>5, <1>6, <1>7, StepGroups DEF Late

(* Every step keeps the types.                                             *)
LEMMA TypeNext == Typed /\ [Next]_vars => Typed'
<1>1. CASE Typed /\ Next
  BY <1>1, StepGroups, TypeTraffic, TypeOperator, TypeEarly, TypeLate, TypeFaults, TypeRepair, TaskNext, PhaseNext DEF Typed
<1>2. CASE Typed /\ UNCHANGED vars
  BY <1>2 DEF Typed, TypeOK, JournalHasPhase, WorkerHasTask, vars, stores, console, worker, traffic
<1>3. QED
  BY <1>1, <1>2

(* Every reachable state is typed.                                         *)
LEMMA AlwaysTyped == Spec => []Typed
<1>1. QED
  BY TypeInit, TypeNext, PTL DEF Spec

(* Every reachable state of identity maintenance is well typed, and the    *)
(* worker is never sent to a step that is not one.                         *)
THEOREM TypeCorrect == Spec => []TypeOK
<1>1. Typed => TypeOK
  BY DEF Typed
<1>2. QED
  BY <1>1, AlwaysTyped, PTL

-----------------------------------------------------------------------------
(* The inductive invariant.                                                *)

Committing == Inner \union {"undo", "check", "close"}
Alone      == Committing \union {"begin"}

(* A process that is down runs no worker.                                  *)
DownIsIdle == ~up => ~operation

(* The gate is closed until the worker is done; behind it, whoever was     *)
(* counted is drained, and the job lock keeps jobs out.                    *)
GateIsClosed   == operation /\ pc \notin Ending => Paused
DrainedIsEmpty == operation /\ pc \in Alone \union {"lock"} => active = {}
LockIsHeld     == operation /\ pc \in Alone => joblock = "worker"

(* What the console says of a started operation is what its worker and the *)
(* journal say.                                                            *)
WorkerIsKnown == operation /\ pc \notin Ending =>
  /\ task \in Ops => state.op = task
  /\ pc \in Inner \union {"check", "close"} => state.started
  /\ Incomplete => Journaled

(* Where the worker is, the journal has the phase it resumes at.           *)
JournalHasOp  == journal.phase # "none" => journal.op # "none"
WorkerFollows == operation =>
  /\ pc \in {"copy", "copied", "log"} => journal.phase = "none"
  /\ pc \in {"corpus", "app", "mark", "index", "finish", "check", "close"} => Journaled
  /\ pc = "corpus" => journal.phase = "planned"
  /\ pc \in {"app", "mark"} => journal.phase = "corpus_committed"
  /\ pc = "index" => journal.phase = IF task = "migrate" THEN "app_committed" ELSE "corpus_committed"
  /\ pc = "finish" => journal.phase = "indexes_verified"
  /\ pc \in {"check", "close"} => journal.phase = "complete"

(* What the stores hold follows from the journal, up to the commit that    *)
(* the journal does not know of yet.                                       *)
StoresFollow ==
  /\ journal.phase \in {"none", "planned"} => corpus = "old" /\ app = "old"
  /\ journal.phase \notin {"none", "planned"} => corpus = IF journal.op = "migrate" THEN "new" ELSE "gone"
  /\ journal.op = "remove" => app = "old" /\ journal.phase # "app_committed"
  /\ app \in {"old", "new"}
  /\ journal.op = "migrate" /\ journal.phase \in {"app_committed", "indexes_verified", "complete"} => app = "new"
  /\ operation /\ pc = "mark" => app = "new"
  /\ \A c \in Mapped : vectors[c] \in {"old", corpus}
  /\ journal.phase \in {"indexes_verified", "complete"} => \A c \in Mapped : vectors[c] = corpus

(* What is journalled was backed up before.                                *)
BackedUp ==
  /\ Incomplete => file[journal.op].backup = "complete"
  /\ operation /\ pc = "log" => file[task].backup = "complete"

(* A request or a job that is over remembers nothing of what it read, and  *)
(* one that goes on read what is there.                                    *)
ReadsAreCurrent ==
  /\ \A r \in Requests : r \notin active => seen[r] = "nothing"
  /\ joblock # "job" => seen[Job] = "nothing"
  /\ \A w \in Requests \union {Job} : seen[w] = "old" => corpus = "old"

Inv ==
  /\ Typed /\ DownIsIdle /\ GateIsClosed /\ DrainedIsEmpty /\ LockIsHeld
  /\ StartedIsKnown /\ WorkerIsKnown /\ JournalHasOp /\ WorkerFollows
  /\ StoresFollow /\ BackedUp /\ ReadsAreCurrent /\ ReferencesResolve

(* The inductive invariant holds of a fresh installation.                  *)
LEMMA InvInit == Init => Inv
<1>1. SUFFICES ASSUME Init PROVE Inv
  OBVIOUS
<1>2. Typed
  BY <1>1, TypeInit
<1>3. DownIsIdle /\ GateIsClosed /\ DrainedIsEmpty /\ LockIsHeld /\ WorkerIsKnown /\ WorkerFollows
  BY <1>1 DEF Init, DownIsIdle, GateIsClosed, DrainedIsEmpty, LockIsHeld, WorkerIsKnown, WorkerFollows
<1>4. StartedIsKnown /\ JournalHasOp /\ StoresFollow /\ BackedUp
  BY <1>1 DEF Init, StartedIsKnown, JournalHasOp, StoresFollow, BackedUp, Incomplete
<1>5. ReadsAreCurrent /\ ReferencesResolve
  BY <1>1 DEF Init, ReadsAreCurrent, ReferencesResolve, Writers
<1>6. QED
  BY <1>2, <1>3, <1>4, <1>5 DEF Inv

(* A process that goes down loses its worker.                              *)
LEMMA DownNext == Inv /\ Next => DownIsIdle'
<1>1. SUFFICES ASSUME DownIsIdle, Next PROVE DownIsIdle'
  BY DEF Inv
<1>2. ASSUME UNCHANGED <<up, operation>> PROVE DownIsIdle'
  BY <1>1, <1>2 DEF DownIsIdle
<1>3. CASE Traffic
  BY <1>2, <1>3 DEF Traffic, Enter, Leave, StartJob, StartUpload, EndUpload, Read, Write, EndJob, worker
<1>4. CASE Operator
  BY <1>1, <1>4 DEF Operator, Start, RecordLate, Cancel, DownIsIdle, worker
<1>5. CASE Early
  BY <1>2, <1>5 DEF Early, Drain, TakeJobLock, Plans, Plan, WritePlan, LastPlan, Planning, Submit, Begin, Open, Copy, Copied, Goto
<1>6. CASE Late
  BY <1>1, <1>6 DEF Late, Log, Rekey, RekeyApp, Mark, Verified, Finish, Check, Close, FreeJobLock, Release, Gone, Goto, At, DownIsIdle
<1>7. CASE Faults \/ \E c \in Mapped : Repair(c)
  BY <1>1, <1>7 DEF Faults, Undo, Fail, GiveUp, Raise, Crash, Boot, Repair, Gone, Goto, At, DownIsIdle, worker
<1>8. QED
  BY <1>1, <1>3, <1>4, <1>5, <1>6, <1>7, StepGroups

(* The gate opens with the last step of an operation, or without one.      *)
LEMMA GateNext == Inv /\ Next => GateIsClosed'
<1>1. SUFFICES ASSUME TypeOK, DownIsIdle, GateIsClosed, Next PROVE GateIsClosed'
  BY DEF Inv, Typed
<1>2. state \in StateType
  BY <1>1, Types
<1>3. ASSUME UNCHANGED <<state, operation, pc>> PROVE GateIsClosed'
  BY <1>1, <1>3 DEF GateIsClosed, Paused
<1>4. CASE Traffic
  BY <1>3, <1>4 DEF Traffic, Enter, Leave, StartJob, StartUpload, EndUpload, Read, Write, EndJob, console, worker
<1>5. ASSUME NEW t \in Tasks, Start(t) PROVE GateIsClosed'
  BY <1>2, <1>5 DEF Start, Announced, GateIsClosed, Paused, StateType, worker
<1>6. CASE RecordLate \/ Cancel
  BY <1>1, <1>2, <1>6 DEF RecordLate, Cancel, Cancellable, GateIsClosed, Paused, StateType, worker
<1>7. CASE Early
  BY <1>1, <1>2, <1>7 DEF Early, Drain, TakeJobLock, Plans, Plan, WritePlan, LastPlan, Planning, Submit, Submitted, Begin, Open, Copy, Copied, Goto, At,
                          GateIsClosed, Ending, Paused, StateType, console
<1>8. CASE Late
  BY <1>1, <1>2, <1>8 DEF Late, Log, Rekey, RekeyApp, Mark, Verified, Finish, Check, Close, FreeJobLock, Release, Gone, Goto, At,
                          GateIsClosed, Ending, Paused, StateType, console
<1>9. CASE Faults \/ \E c \in Mapped : Repair(c)
  BY <1>1, <1>2, <1>9 DEF Faults, Undo, Unstarted, Fail, GiveUp, Raise, Crash, Boot, Repair, Gone, Goto, At,
                          DownIsIdle, GateIsClosed, Ending, Failing, Paused, StateType, console, worker
<1>10. QED
  BY <1>1, <1>4, <1>5, <1>6, <1>7, <1>8, <1>9, StepGroups DEF Operator

(* Behind a closed gate nobody enters, and the job lock has one holder.    *)
LEMMA AloneNext == Inv /\ Next => DrainedIsEmpty' /\ LockIsHeld'
<1>1. SUFFICES ASSUME TypeOK, GateIsClosed, DrainedIsEmpty, LockIsHeld, WorkerHasTask, Next
               PROVE  DrainedIsEmpty' /\ LockIsHeld'
  BY DEF Inv, Typed
<1>2. CASE Traffic
  BY <1>1, <1>2 DEF Traffic, Enter, GateOpen, Leave, StartJob, StartUpload, EndUpload, Read, Write, EndJob, worker, traffic,
                    GateIsClosed, Ending, DrainedIsEmpty, LockIsHeld, Alone, Committing, Inner
<1>3. CASE Operator
  BY <1>1, <1>3 DEF Operator, Start, First, RecordLate, Cancel, worker, traffic,
                    DrainedIsEmpty, LockIsHeld, Alone, Committing, Inner
<1>4. CASE Drain \/ TakeJobLock \/ Plans \/ Submit \/ Begin \/ Copy \/ Copied
  BY <1>1, <1>4 DEF Drain, Drained, TakeJobLock, Plans, Plan, WritePlan, LastPlan, Planning, Submit, Begin, Copy, Copied, Goto, At, traffic,
                    DrainedIsEmpty, LockIsHeld, Alone, Committing, Inner
<1>5. CASE Open
  <2>1. operation /\ active = {} /\ joblock = "worker"
    BY <1>1, <1>5 DEF Open, At, DrainedIsEmpty, LockIsHeld, Alone, Committing, Inner
  <2>2. QED
    BY <1>5, <2>1 DEF Open, traffic, DrainedIsEmpty, LockIsHeld
<1>6. CASE Late
  BY <1>1, <1>6 DEF Late, Log, Rekey, Resumed, RekeyApp, Mark, Verified, Finish, Check, Close, FreeJobLock, Release, Gone, Goto, At, traffic,
                    DrainedIsEmpty, LockIsHeld, Alone, Committing, Inner
<1>7. CASE Faults \/ \E c \in Mapped : Repair(c)
  BY <1>1, <1>7 DEF Faults, Undo, Fail, GiveUp, Raise, Crash, Boot, Repair, Gone, Goto, At, worker, traffic,
                    DrainedIsEmpty, LockIsHeld, Alone, Committing, Inner
<1>8. QED
  BY <1>1, <1>2, <1>3, <1>4, <1>5, <1>6, <1>7, StepGroups DEF Early

(* The journal moves only with the worker, from phase to phase.            *)
LEMMA FollowsNext == Inv /\ Next => JournalHasOp' /\ WorkerFollows'
<1>1. SUFFICES ASSUME TypeOK, WorkerHasTask, WorkerIsKnown, JournalHasOp, JournalHasPhase, WorkerFollows, StoresFollow, Next
               PROVE  JournalHasOp' /\ WorkerFollows'
  BY DEF Inv, Typed
<1>2. journal \in JournalType /\ task \in Tasks
  BY <1>1, Types DEF TypeOK
<1>3. ASSUME UNCHANGED <<journal, operation, task, pc>> PROVE JournalHasOp' /\ WorkerFollows'
  BY <1>1, <1>3 DEF JournalHasOp, WorkerFollows, Journaled
<1>4. CASE Traffic
  BY <1>3, <1>4 DEF Traffic, Enter, Leave, StartJob, StartUpload, EndUpload, Read, Write, EndJob, console, worker
<1>5. ASSUME NEW t \in Tasks, Start(t) PROVE JournalHasOp' /\ WorkerFollows'
  BY <1>1, <1>3, <1>5 DEF Start, First, JournalHasOp, WorkerFollows, worker
<1>6. CASE RecordLate \/ Cancel \/ Boot \/ \E c \in Mapped : Repair(c)
  BY <1>3, <1>6 DEF RecordLate, Cancel, Boot, Repair, console, worker
<1>7. CASE Drain \/ TakeJobLock \/ Plans \/ Submit \/ Begin \/ Copy \/ Copied
  BY <1>1, <1>7 DEF Drain, TakeJobLock, Plans, Plan, WritePlan, LastPlan, Planning, Submit, Begin, Copy, Copied, Goto, At, console,
                    JournalHasOp, WorkerFollows, Journaled
<1>8. CASE Open
  <2>1. operation /\ task \in Ops /\ UNCHANGED <<journal, task>>
    BY <1>1, <1>8 DEF Open, At, Goto, WorkerHasTask, Inner, console
  <2>2. CASE Journaled
    <3>1. journal.phase \in Phases \ {"none"} /\ (task = "remove" => journal.phase # "app_committed")
      BY <1>1, <1>2, <2>1, <2>2 DEF Journaled, StoresFollow, JournalType, Ops, JournalHasPhase
    <3>2. pc' = Resumed(journal.phase)
      BY <1>8, <2>2 DEF Open, Goto, Journaled
    <3>3. QED
      BY <1>1, <2>1, <2>2, <3>1, <3>2 DEF Resumed, Ops, Phases, JournalHasOp, WorkerFollows, Journaled
  <2>3. CASE ~Journaled
    <3>1. ~Incomplete
      BY <1>1, <1>8, <2>1, <2>3 DEF Open, At, WorkerIsKnown, Ending
    <3>2. corpus = "old" => journal.phase = "none"
      BY <1>1, <1>2, <3>1 DEF Incomplete, StoresFollow, JournalType
    <3>3. pc' \in {"undo", "copy"} /\ (pc' = "copy" => corpus = "old")
      BY <1>8, <2>3 DEF Open, Goto, Describes
    <3>4. QED
      BY <1>1, <2>1, <3>2, <3>3 DEF JournalHasOp, WorkerFollows
  <2>4. QED
    BY <2>2, <2>3
<1>9. CASE Log \/ Mark \/ Verified \/ Finish
  BY <1>1, <1>2, <1>9 DEF Log, Mark, Verified, Finish, Goto, At, WorkerHasTask, Inner, Ops,
                          JournalHasOp, WorkerFollows, Journaled, JournalType
<1>10. CASE Rekey
  BY <1>1, <1>2, <1>10 DEF Rekey, Resumed, Goto, At, WorkerHasTask, Inner, Ops,
                          JournalHasOp, WorkerFollows, Journaled, JournalType
<1>11. CASE RekeyApp \/ Check \/ Close \/ FreeJobLock \/ Release
  BY <1>1, <1>11 DEF RekeyApp, Check, Close, FreeJobLock, Release, Gone, Goto, At, console,
                     JournalHasOp, WorkerFollows, Journaled
<1>12. CASE Undo \/ Fail \/ GiveUp \/ Raise \/ Crash
  BY <1>1, <1>12 DEF Undo, Fail, GiveUp, Raise, Crash, Gone, Goto, At, console,
                     JournalHasOp, WorkerFollows, Journaled, Failing
<1>13. QED
  BY <1>1, <1>4, <1>5, <1>6, <1>7, <1>8, <1>9, <1>10, <1>11, <1>12, StepGroups DEF Operator, Early, Late, Faults

(* An operation that has started stays known: only its own worker, once it *)
(* is complete, and a failure before the journal make it forgotten.        *)
LEMMA KnownNext == Inv /\ Next => StartedIsKnown' /\ WorkerIsKnown'
<1>1. SUFFICES ASSUME Inv, Next PROVE StartedIsKnown' /\ WorkerIsKnown'
  OBVIOUS
<1>2. state \in StateType /\ journal \in JournalType /\ task \in Tasks
  BY <1>1, Types DEF Inv, Typed, TypeOK
<1>3. StartedIsKnown /\ WorkerIsKnown /\ DownIsIdle /\ WorkerHasTask /\ WorkerFollows /\ GateIsClosed /\ JournalHasOp
  BY <1>1 DEF Inv, Typed
<1>4. ASSUME UNCHANGED <<journal, state, up, operation, task, pc>> PROVE StartedIsKnown' /\ WorkerIsKnown'
  BY <1>3, <1>4 DEF StartedIsKnown, WorkerIsKnown, Ending, Incomplete, Journaled
<1>5. CASE Traffic
  BY <1>4, <1>5 DEF Traffic, Enter, Leave, StartJob, StartUpload, EndUpload, Read, Write, EndJob, console, worker
<1>6. ASSUME NEW t \in Tasks, Start(t) PROVE StartedIsKnown' /\ WorkerIsKnown'
  <2>1. CASE UNCHANGED <<state, worker>>
    BY <1>4, <1>6, <2>1 DEF Start, worker
  <2>2. CASE state' = Announced(t)
    <3>1. up /\ Allowed(t) /\ UNCHANGED <<up, journal>>
      BY <1>6 DEF Start
    <3>2. /\ state'.maintenance /\ state'.started = state.started
          /\ state'.op = IF t \in Ops THEN t ELSE state.op
      BY <1>2, <2>2 DEF Announced, StateType
    <3>3. Incomplete => state.started /\ state.op = journal.op /\ journal.op \in Ops
      BY <1>2, <1>3, <3>1 DEF StartedIsKnown, Incomplete, JournalHasOp, JournalType
    <3>4. Incomplete => t \in Ops
      BY <3>1, <3>3 DEF Allowed, Tasks
    <3>5. Incomplete => t = journal.op
      BY <3>1, <3>3, <3>4 DEF Allowed, SameOp, Ops
    <3>6. StartedIsKnown'
      BY <3>1, <3>2, <3>3, <3>5 DEF StartedIsKnown, Incomplete
    <3>7. WorkerIsKnown'
      <4>1. CASE UNCHANGED worker
        BY <1>6, <4>1 DEF Start, WorkerIsKnown, Ending, worker
      <4>2. CASE task' = t /\ pc' = First(t)
        BY <3>1, <3>2, <3>5, <4>2 DEF First, WorkerIsKnown, Incomplete, Journaled, Inner, Ending
      <4>3. QED
        BY <1>6, <4>1, <4>2 DEF Start
    <3>8. QED
      BY <3>6, <3>7
  <2>3. QED
    BY <1>6, <2>1, <2>2 DEF Start
<1>7. CASE RecordLate
  BY <1>2, <1>3, <1>7 DEF RecordLate, StartedIsKnown, WorkerIsKnown, Ending, Incomplete, Journaled, StateType, worker
<1>8. CASE Cancel
  BY <1>2, <1>3, <1>8 DEF Cancel, Cancellable, StartedIsKnown, WorkerIsKnown, Ending, Incomplete, worker
<1>9. CASE Boot
  <2>1. ~operation' /\ UNCHANGED journal /\ (Incomplete => state' =
          [status |-> "interrupted", maintenance |-> TRUE, started |-> TRUE, op |-> journal.op])
    BY <1>3, <1>9 DEF Boot, Recovered, DownIsIdle, worker
  <2>2. QED
    BY <2>1 DEF StartedIsKnown, WorkerIsKnown, Ending, Incomplete
<1>10. CASE Drain \/ TakeJobLock \/ Plans \/ Begin \/ Copy \/ Copied
  BY <1>2, <1>3, <1>10 DEF Drain, TakeJobLock, Plans, Plan, WritePlan, LastPlan, Planning, Begin, Copy, Copied, Goto, At, Inner, console,
                           StartedIsKnown, WorkerIsKnown, Ending, Incomplete, Journaled, StateType
<1>11. CASE Open
  <2>1. operation /\ task \in Ops /\ UNCHANGED <<operation, task, journal, state, up>>
    BY <1>3, <1>11 DEF Open, At, Goto, WorkerHasTask, Inner, console
  <2>2. state.op = task /\ state.started /\ (Incomplete => Journaled)
    BY <1>3, <1>11, <2>1 DEF Open, At, WorkerIsKnown, Ending, Inner
  <2>3. QED
    BY <1>3, <2>1, <2>2 DEF StartedIsKnown, WorkerIsKnown, Ending, Incomplete, Journaled
<1>12. CASE Submit
  <2>1. ~Incomplete /\ UNCHANGED journal /\ pc' = "free"
    BY <1>2, <1>3, <1>12 DEF Submit, At, Goto, WorkerHasTask, WorkerIsKnown, Ending, Journaled, Incomplete, JournalHasOp, JournalType
  <2>2. QED
    BY <2>1 DEF StartedIsKnown, WorkerIsKnown, Ending, Incomplete
<1>13. ASSUME Log \/ Rekey \/ Mark \/ Verified \/ Finish PROVE StartedIsKnown' /\ WorkerIsKnown'
  <2>1. operation /\ pc \in Inner /\ task \in Ops
    BY <1>3, <1>13 DEF Log, Rekey, Mark, Verified, Finish, At, WorkerHasTask, Inner
  <2>2. state.maintenance /\ state.started /\ state.op = task
    BY <1>3, <2>1 DEF GateIsClosed, Paused, WorkerIsKnown, Ending, Inner
  <2>3. journal'.op = task /\ UNCHANGED <<state, operation, task>>
    BY <1>2, <1>3, <1>13 DEF Log, Rekey, Mark, Verified, Finish, At, Goto, WorkerFollows, Journaled, console, JournalType
  <2>4. QED
    BY <2>2, <2>3 DEF StartedIsKnown, WorkerIsKnown, Ending, Incomplete, Journaled
<1>14. CASE RekeyApp \/ Check \/ FreeJobLock \/ Release
  BY <1>3, <1>14 DEF RekeyApp, Check, FreeJobLock, Release, Gone, Goto, At, Inner, console,
                     StartedIsKnown, WorkerIsKnown, Ending, Incomplete, Journaled
<1>15. CASE Close
  BY <1>3, <1>15 DEF Close, Goto, At, StartedIsKnown, WorkerIsKnown, Ending, WorkerFollows, Incomplete
<1>16. CASE Undo
  <2>1. operation /\ pc = "undo" /\ task \in Ops /\ UNCHANGED <<operation, task, journal, up>> /\ pc' = "unlock"
    BY <1>3, <1>16 DEF Undo, At, Goto, WorkerHasTask
  <2>2. state'.op = state.op /\ state'.maintenance = state.maintenance /\ (Journaled => state' = state)
    BY <1>2, <1>16 DEF Undo, Unstarted, StateType
  <2>3. QED
    BY <1>3, <2>1, <2>2 DEF StartedIsKnown, WorkerIsKnown, Ending, Incomplete, Journaled, Inner
<1>17. CASE Fail \/ GiveUp \/ Raise \/ Crash
  BY <1>2, <1>3, <1>17 DEF Fail, GiveUp, Raise, Crash, Gone, Goto, At, Inner, console, Failing, Planning,
                           StartedIsKnown, WorkerIsKnown, Ending, Incomplete, Journaled, StateType
<1>18. CASE \E c \in Mapped : Repair(c)
  BY <1>4, <1>18 DEF Repair, console, worker
<1>19. QED
  BY <1>1, <1>5, <1>6, <1>7, <1>8, <1>9, <1>10, <1>11, <1>12, <1>13, <1>14, <1>15, <1>16, <1>17, <1>18, StepGroups
     DEF Operator, Early, Late, Faults

(* The stores change where the journal says that they do.                  *)
LEMMA StoresNext == Inv /\ Next => StoresFollow'
<1>1. SUFFICES ASSUME Inv, Next PROVE StoresFollow'
  OBVIOUS
<1>2. journal \in JournalType /\ task \in Tasks /\ vectors \in [Mapped -> Schemes]
  BY <1>1, Types DEF Inv, Typed, TypeOK
<1>3. StoresFollow /\ WorkerHasTask /\ WorkerFollows /\ JournalHasOp /\ JournalHasPhase
  BY <1>1 DEF Inv, Typed
<1>4. ASSUME UNCHANGED <<journal, corpus, app, vectors>>, operation' /\ pc' = "mark" => operation /\ pc = "mark"
      PROVE  StoresFollow'
  BY <1>3, <1>4 DEF StoresFollow
<1>5. CASE Traffic
  BY <1>4, <1>5 DEF Traffic, Enter, Leave, StartJob, StartUpload, EndUpload, Read, Write, EndJob, stores, console, worker
<1>6. CASE Operator \/ Boot
  BY <1>4, <1>6 DEF Operator, Start, First, RecordLate, Cancel, Boot, stores, console, worker
<1>7. CASE Drain \/ TakeJobLock \/ Plans \/ Submit \/ Begin \/ Copy \/ Copied
  BY <1>4, <1>7 DEF Drain, TakeJobLock, Plans, Plan, WritePlan, LastPlan, Planning, Submit, Begin, Copy, Copied, Goto, At, stores, console
<1>8. CASE Open
  <2>1. pc' # "mark"
    <3>1. CASE Journaled
      <4>1. journal.phase \in Phases \ {"none"}
        BY <1>2, <1>3, <1>8, <3>1 DEF Open, At, WorkerHasTask, Inner, Ops, Journaled, JournalHasPhase, JournalType
      <4>2. pc' = Resumed(journal.phase)
        BY <1>8, <3>1 DEF Open, Goto, Journaled
      <4>3. QED
        BY <4>1, <4>2 DEF Resumed, Phases
    <3>2. CASE ~Journaled
      BY <1>8, <3>2 DEF Open, Goto
    <3>3. QED
      BY <3>1, <3>2
  <2>2. QED
    BY <1>4, <1>8, <2>1 DEF Open, stores, console
<1>9. CASE Log
  <2>1. task \in Ops /\ journal.phase = "none" /\ UNCHANGED <<corpus, app, vectors>>
    BY <1>3, <1>9 DEF Log, At, WorkerHasTask, WorkerFollows, Inner, stores
  <2>2. journal' = [op |-> task, phase |-> "planned"] /\ pc' = "corpus"
    BY <1>9 DEF Log, Goto
  <2>3. QED
    BY <1>3, <2>1, <2>2 DEF StoresFollow
<1>10. CASE Rekey
  <2>1. /\ task \in Ops /\ journal.op = task /\ journal.phase = "planned"
        /\ UNCHANGED <<app, vectors>> /\ pc' # "mark"
    BY <1>3, <1>10 DEF Rekey, At, Goto, Resumed, WorkerHasTask, WorkerFollows, Inner, Journaled
  <2>2. corpus = "old" /\ app = "old" /\ \A c \in Mapped : vectors[c] = "old"
    BY <1>3, <2>1 DEF StoresFollow
  <2>3. \/ UNCHANGED <<corpus, journal>>
        \/ /\ corpus' = IF task = "migrate" THEN "new" ELSE "gone"
           /\ journal' = [journal EXCEPT !.phase = "corpus_committed"]
    BY <1>10 DEF Rekey
  <2>4. QED
    BY <1>2, <1>3, <1>4, <2>1, <2>2, <2>3 DEF StoresFollow, JournalType
<1>11. CASE RekeyApp
  <2>1. /\ task = "migrate" /\ journal.op = task /\ journal.phase = "corpus_committed"
        /\ UNCHANGED <<corpus, vectors, journal>>
    BY <1>3, <1>11 DEF RekeyApp, At, WorkerHasTask, WorkerFollows, Journaled, console
  <2>2. app' = "new"
    BY <1>3, <1>11 DEF RekeyApp, Rekeyable, StoresFollow
  <2>3. QED
    BY <1>3, <2>1, <2>2 DEF StoresFollow
<1>12. CASE Mark
  <2>1. /\ task = "migrate" /\ journal.op = task /\ journal.phase = "corpus_committed" /\ app = "new"
        /\ UNCHANGED <<corpus, app, vectors>>
    BY <1>3, <1>12 DEF Mark, At, WorkerHasTask, WorkerFollows, StoresFollow, Journaled, stores
  <2>2. journal'.op = journal.op /\ journal'.phase = "app_committed" /\ pc' = "index"
    BY <1>2, <1>12 DEF Mark, Goto, JournalType
  <2>3. QED
    BY <1>3, <2>1, <2>2 DEF StoresFollow
<1>13. CASE \E c \in Mapped : Repair(c)
  <2>1. PICK c \in Mapped : Repair(c)
    BY <1>13
  <2>2. UNCHANGED <<journal, corpus, app>> /\ operation' = operation /\ pc' = "index"
    BY <2>1 DEF Repair, At, console, worker
  <2>3. journal.phase \in {"app_committed", "corpus_committed"}
    BY <1>3, <2>1 DEF Repair, At, WorkerFollows
  <2>4. \A d \in Mapped : vectors'[d] \in {"old", corpus}
    BY <1>2, <1>3, <2>1 DEF Repair, StoresFollow
  <2>5. QED
    BY <1>3, <2>2, <2>3, <2>4 DEF StoresFollow
<1>14. CASE Verified
  <2>1. /\ \A c \in Mapped : vectors[c] = corpus
        /\ journal.op = task /\ task \in Ops
        /\ journal.phase = IF task = "migrate" THEN "app_committed" ELSE "corpus_committed"
        /\ UNCHANGED <<corpus, app, vectors>>
    BY <1>3, <1>14 DEF Verified, Repaired, At, WorkerHasTask, Inner, WorkerFollows, Journaled, stores
  <2>2. journal'.op = journal.op /\ journal'.phase = "indexes_verified" /\ pc' = "finish"
    BY <1>2, <1>14 DEF Verified, Goto, JournalType
  <2>3. QED
    BY <1>3, <2>1, <2>2 DEF StoresFollow
<1>15. CASE Finish
  <2>1. journal.phase = "indexes_verified" /\ UNCHANGED <<corpus, app, vectors>>
    BY <1>3, <1>15 DEF Finish, At, WorkerFollows, stores
  <2>2. journal'.op = journal.op /\ journal'.phase = "complete" /\ pc' = "check"
    BY <1>2, <1>15 DEF Finish, Goto, JournalType
  <2>3. QED
    BY <1>3, <2>1, <2>2 DEF StoresFollow
<1>16. CASE Check \/ Close \/ FreeJobLock \/ Release \/ Undo \/ Fail \/ GiveUp \/ Raise \/ Crash
  BY <1>4, <1>16 DEF Check, Close, FreeJobLock, Release, Undo, Fail, GiveUp, Raise, Crash, Gone, Goto, At, stores, console
<1>17. QED
  BY <1>1, <1>5, <1>6, <1>7, <1>8, <1>9, <1>10, <1>11, <1>12, <1>13, <1>14, <1>15, <1>16, StepGroups
     DEF Early, Late, Faults

(* Nobody touches the backups of what is journalled.                       *)
LEMMA BackedNext == Inv /\ Next => BackedUp'
<1>1. SUFFICES ASSUME Inv, Next PROVE BackedUp'
  OBVIOUS
<1>2. journal \in JournalType /\ task \in Tasks /\ file \in [Ops -> FileType]
  BY <1>1, Types DEF Inv, Typed, TypeOK
<1>3. BackedUp /\ WorkerHasTask /\ WorkerIsKnown /\ WorkerFollows /\ JournalHasOp
  BY <1>1 DEF Inv, Typed
<1>4. Incomplete => journal.op \in Ops
  BY <1>2, <1>3 DEF Incomplete, JournalHasOp, JournalType
<1>5. ASSUME UNCHANGED <<journal, file>>, operation' /\ pc' = "log" => operation /\ pc = "log" /\ task' = task
      PROVE  BackedUp'
  BY <1>3, <1>5 DEF BackedUp, Incomplete
<1>6. ASSUME NEW w \in Writers, Write(w) PROVE BackedUp'
  <2>1. UNCHANGED <<journal, operation, task, pc>> /\ \A o \in Ops : file'[o].backup = file[o].backup
    BY <1>2, <1>6 DEF Write, FileType, worker
  <2>2. operation /\ pc = "log" => task \in Ops
    BY <1>3 DEF WorkerHasTask, Inner
  <2>3. QED
    BY <1>3, <1>4, <2>1, <2>2 DEF BackedUp, Incomplete
<1>7. CASE Traffic
  BY <1>5, <1>6, <1>7 DEF Traffic, Enter, Leave, StartJob, StartUpload, EndUpload, Read, EndJob, console, worker
<1>8. CASE Operator \/ Boot
  BY <1>5, <1>8 DEF Operator, Start, First, RecordLate, Cancel, Boot, console, worker
<1>9. CASE Drain \/ TakeJobLock \/ Submit \/ Begin
  BY <1>5, <1>9 DEF Drain, TakeJobLock, Submit, Begin, Goto, console
<1>10. CASE Plans
  <2>1. ~Incomplete /\ UNCHANGED journal /\ pc' # "log"
    BY <1>3, <1>4, <1>10 DEF Plans, Plan, WritePlan, LastPlan, Planning, Ending, At, WorkerHasTask, WorkerIsKnown, Journaled, console
  <2>2. QED
    BY <2>1 DEF BackedUp, Incomplete
<1>11. CASE Open
  <2>1. pc' # "log"
    <3>1. CASE Journaled
      <4>1. journal.phase \in Phases \ {"none"}
        BY <1>1, <1>2, <1>3, <1>11, <3>1 DEF Open, At, WorkerHasTask, Inner, Ops, Journaled, Inv, Typed, JournalHasPhase, JournalType
      <4>2. pc' = Resumed(journal.phase)
        BY <1>11, <3>1 DEF Open, Goto, Journaled
      <4>3. QED
        BY <4>1, <4>2 DEF Resumed, Phases
    <3>2. CASE ~Journaled
      BY <1>11, <3>2 DEF Open, Goto
    <3>3. QED
      BY <3>1, <3>2
  <2>2. QED
    BY <1>5, <1>11, <2>1 DEF Open, console
<1>12. CASE Copy
  <2>1. ~Incomplete /\ UNCHANGED journal /\ pc' # "log"
    BY <1>3, <1>12 DEF Copy, At, Goto, WorkerFollows, Incomplete
  <2>2. QED
    BY <2>1 DEF BackedUp, Incomplete
<1>13. CASE Copied
  <2>1. ~Incomplete /\ UNCHANGED <<journal, task>> /\ task \in Ops
    BY <1>3, <1>13 DEF Copied, At, Goto, WorkerFollows, WorkerHasTask, Incomplete, Inner
  <2>2. file'[task].backup = "complete"
    BY <1>2, <1>13, <2>1 DEF Copied, FileType
  <2>3. QED
    BY <2>1, <2>2 DEF BackedUp, Incomplete
<1>14. CASE Log
  <2>1. file[task].backup = "complete" /\ UNCHANGED file /\ pc' = "corpus"
    BY <1>3, <1>14 DEF Log, At, Goto, BackedUp
  <2>2. journal'.op = task
    BY <1>14 DEF Log
  <2>3. QED
    BY <2>1, <2>2 DEF BackedUp, Incomplete
<1>15. CASE Rekey \/ Mark \/ Verified \/ Finish
  <2>1. Incomplete /\ journal'.op = journal.op /\ UNCHANGED file /\ pc' # "log"
    BY <1>2, <1>3, <1>15 DEF Rekey, Resumed, Mark, Verified, Finish, At, Goto, WorkerFollows, Incomplete, JournalType
  <2>2. QED
    BY <1>3, <2>1 DEF BackedUp
<1>16. CASE RekeyApp \/ Check \/ Close \/ FreeJobLock \/ Release \/ Undo \/ Fail \/ GiveUp \/ Raise \/ Crash \/ \E c \in Mapped : Repair(c)
  BY <1>5, <1>16 DEF RekeyApp, Check, Close, FreeJobLock, Release, Undo, Fail, GiveUp, Raise, Crash, Repair, Gone, Goto, console, worker
<1>17. QED
  BY <1>1, <1>7, <1>8, <1>9, <1>10, <1>11, <1>12, <1>13, <1>14, <1>15, <1>16, StepGroups DEF Early, Late, Faults

(* The corpus changes its scheme when nobody who may write has read it.    *)
LEMMA ReadsNext == Inv /\ Next => ReadsAreCurrent' /\ ReferencesResolve'
<1>1. SUFFICES ASSUME Inv, Next PROVE ReadsAreCurrent' /\ ReferencesResolve'
  OBVIOUS
<1>2. /\ seen \in [Writers -> Schemes \union {"nothing"}] /\ "nothing" \notin Schemes /\ corpus \in Schemes
      /\ uploading \subseteq Uploads /\ active \subseteq Requests
  BY <1>1 DEF Inv, Typed, TypeOK, Schemes
<1>3. ReadsAreCurrent /\ ReferencesResolve /\ DrainedIsEmpty /\ LockIsHeld
  BY <1>1 DEF Inv
<1>4. Requests \subseteq Writers /\ Job \in Writers /\ Uploads \subseteq Writers /\ Job \notin Requests \union Uploads
      /\ Requests \intersect Uploads = {}
  BY WriterAssumption DEF Writers
<1>6. CASE \E r \in Requests : Enter(r) \/ StartJob(r)
  BY <1>3, <1>6 DEF Enter, StartJob, stores, traffic, ReadsAreCurrent, ReferencesResolve
<1>7. CASE (\E r \in Requests : Leave(r)) \/ (\E u \in Uploads : EndUpload(u)) \/ EndJob
  BY <1>2, <1>3, <1>4, <1>7 DEF Leave, EndUpload, EndJob, stores, ReadsAreCurrent, ReferencesResolve
<1>8. ASSUME NEW w \in Writers, Read(w) PROVE ReadsAreCurrent' /\ ReferencesResolve'
  <2>1. seen' = [seen EXCEPT ![w] = corpus] /\ UNCHANGED <<corpus, stray, active, joblock>>
    BY <1>8 DEF Read, stores
  <2>2. (w = Job => joblock = "job") /\ (w \in Requests => w \in active)
    BY <1>2, <1>4, <1>8 DEF Read, Holds
  <2>3. QED
    BY <1>2, <1>3, <1>4, <2>1, <2>2 DEF ReadsAreCurrent, ReferencesResolve
<1>9. ASSUME NEW w \in Writers, Write(w) PROVE ReadsAreCurrent' /\ ReferencesResolve'
  <2>1. UNCHANGED <<corpus, active, seen, joblock>>
    BY <1>9 DEF Write, traffic
  <2>2. seen[w] = "old" /\ corpus # "old" => w \in Uploads
    BY <1>3, <1>4 DEF ReadsAreCurrent, Writers
  <2>3. stray' \subseteq Uploads
    BY <1>3, <1>9, <2>2 DEF Write, ReferencesResolve
  <2>4. QED
    BY <1>3, <2>1, <2>3 DEF ReadsAreCurrent, ReferencesResolve
<1>10. CASE \E r \in Requests, u \in Uploads : StartUpload(r, u)
  BY <1>3, <1>10 DEF StartUpload, stores, ReadsAreCurrent, ReferencesResolve
<1>11. CASE Operator \/ Early
  BY <1>3, <1>11 DEF Operator, Start, RecordLate, Cancel, Early, Drain, TakeJobLock, Plans, Plan, WritePlan, LastPlan, Planning, Submit, Begin, Open, Copy, Copied,
                     stores, traffic, ReadsAreCurrent, ReferencesResolve
<1>12. CASE Rekey
  <2>1. active = {} /\ joblock = "worker" /\ UNCHANGED <<active, seen, joblock, stray>>
    BY <1>3, <1>12 DEF Rekey, At, DrainedIsEmpty, LockIsHeld, Alone, Committing, Inner, traffic
  <2>2. \A w \in Requests \union {Job} : seen[w] = "nothing"
    BY <1>3, <2>1 DEF ReadsAreCurrent
  <2>3. QED
    BY <1>3, <2>1, <2>2 DEF ReadsAreCurrent, ReferencesResolve
<1>13. CASE Log \/ RekeyApp \/ Mark \/ Verified \/ Finish \/ Check \/ Close \/ FreeJobLock \/ Release
  BY <1>3, <1>13 DEF Log, RekeyApp, Mark, Verified, Finish, Check, Close, Release, FreeJobLock, stores, traffic,
                     ReadsAreCurrent, ReferencesResolve
<1>14. CASE Crash
  BY <1>3, <1>4, <1>14 DEF Crash, stores, ReadsAreCurrent, ReferencesResolve
<1>15. CASE Undo \/ Fail \/ GiveUp \/ Raise \/ Boot \/ \E c \in Mapped : Repair(c)
  BY <1>3, <1>15 DEF Undo, Fail, GiveUp, Raise, Boot, Repair, FreeJobLock, stores, traffic, ReadsAreCurrent, ReferencesResolve
<1>16. QED
  BY <1>1, <1>6, <1>7, <1>8, <1>9, <1>10, <1>11, <1>12, <1>13, <1>14, <1>15, StepGroups DEF Traffic, Late, Faults

(* Every step keeps the inductive invariant.                               *)
LEMMA InvNext == Inv /\ [Next]_vars => Inv'
<1>1. CASE Inv /\ Next
  BY <1>1, TypeNext, DownNext, GateNext, AloneNext, FollowsNext, KnownNext, StoresNext, BackedNext, ReadsNext DEF Inv
<1>2. CASE Inv /\ UNCHANGED vars
  <2>1. Typed'
    BY <1>2, TypeNext DEF Inv
  <2>2. UNCHANGED <<corpus, app, vectors, stray, file, journal, state, up, operation, task, pc, joblock, active, seen>>
    BY <1>2 DEF vars, stores, console, worker, traffic
  <2>3. DownIsIdle' /\ GateIsClosed' /\ DrainedIsEmpty' /\ LockIsHeld' /\ StartedIsKnown' /\ WorkerIsKnown'
    BY <1>2, <2>2 DEF Inv, DownIsIdle, GateIsClosed, DrainedIsEmpty, LockIsHeld, StartedIsKnown, WorkerIsKnown,
                      Paused, Incomplete, Journaled
  <2>4. JournalHasOp' /\ WorkerFollows' /\ StoresFollow' /\ BackedUp'
    BY <1>2, <2>2 DEF Inv, JournalHasOp, WorkerFollows, StoresFollow, BackedUp, Incomplete, Journaled
  <2>5. ReadsAreCurrent' /\ ReferencesResolve'
    BY <1>2, <2>2 DEF Inv, ReadsAreCurrent, ReferencesResolve
  <2>6. QED
    BY <2>1, <2>3, <2>4, <2>5 DEF Inv
<1>3. QED
  BY <1>1, <1>2

(* The inductive invariant holds of every reachable state.                 *)
LEMMA AlwaysInv == Spec => []Inv
<1>1. QED
  BY InvInit, InvNext, PTL DEF Spec

-----------------------------------------------------------------------------
(* A way out.                                                              *)

(* Whatever has started, is journalled or is at work has a manifest that   *)
(* is ready, and plans are made only before anything has started.          *)
FilesAreReady ==
  /\ state.started => state.op \in Ops /\ file[state.op].contents = "ready"
  /\ Incomplete => file[journal.op].contents = "ready"
  /\ operation /\ task \in Ops => file[task].contents = "ready"
  /\ operation /\ task \notin Ops => ~state.started

(* With the gate closed and nobody at work, or only to let go, the status  *)
(* is one that can be resumed.                                             *)
RestIsResumable == up /\ Paused /\ ~late /\ (~operation \/ pc \in Ending) => state.status \in Resumable

LEMMA ReadyNext == Inv /\ FilesAreReady /\ Next => FilesAreReady'
<1> SUFFICES ASSUME Inv, FilesAreReady, Next PROVE FilesAreReady'
  OBVIOUS
<1>1. state \in StateType /\ journal \in JournalType /\ task \in Tasks /\ file \in [Ops -> FileType]
  BY Types DEF Inv, Typed, TypeOK
<1>2. WorkerHasTask /\ WorkerIsKnown /\ WorkerFollows /\ JournalHasOp /\ StartedIsKnown
  BY DEF Inv, Typed
<1>3. Incomplete => journal.op \in Ops
  BY <1>1, <1>2 DEF Incomplete, JournalHasOp, JournalType
<1>4. ASSUME UNCHANGED <<journal, state, task>>, operation' => operation,
             \A o \in Ops : file'[o].contents = file[o].contents
      PROVE  FilesAreReady'
  BY <1>3, <1>4 DEF FilesAreReady, Incomplete
<1>5. ASSUME UNCHANGED <<journal, file, task>>, operation' => operation,
             state'.started => state.started, state'.op = state.op
      PROVE  FilesAreReady'
  BY <1>3, <1>5 DEF FilesAreReady, Incomplete
<1>6. CASE Traffic
  <2>1. ASSUME NEW w \in Writers, Write(w) PROVE FilesAreReady'
    <3>1. \A o \in Ops : file'[o].contents = file[o].contents
      BY <1>1, <2>1 DEF Write, FileType
    <3>2. QED
      BY <1>4, <2>1, <3>1 DEF Write, worker
  <2>2. QED
    BY <1>4, <1>6, <2>1
       DEF Traffic, Enter, Leave, StartJob, StartUpload, EndUpload, Read, EndJob, console, worker
<1>7. ASSUME NEW t \in Tasks, Start(t) PROVE FilesAreReady'
  <2>1. Allowed(t) /\ ~operation /\ UNCHANGED <<journal, file>>
    BY <1>7 DEF Start
  <2>2. CASE UNCHANGED <<state, worker>>
    BY <1>5, <2>1, <2>2 DEF worker
  <2>3. CASE state' = Announced(t)
    <3>1. state'.started = state.started /\ state'.op = IF t \in Ops THEN t ELSE state.op
      BY <1>1, <2>3 DEF Announced, StateType
    <3>2. t \in Ops => file[t].contents = "ready" /\ (state.started => state.op = t)
      BY <2>1 DEF Allowed, SameOp, Ops, FilesAreReady
    <3>3. t \notin Ops => ~state.started
      BY <2>1 DEF Allowed, Tasks, Ops
    <3>4. (operation' = FALSE \/ task' = t)
      BY <1>7, <2>1 DEF Start, worker
    <3>5. QED
      BY <1>3, <2>1, <3>1, <3>2, <3>3, <3>4 DEF FilesAreReady, Incomplete
  <2>4. QED
    BY <1>7, <2>2, <2>3 DEF Start
<1>8. CASE RecordLate \/ Cancel
  <2>1. state'.started = state.started /\ state'.op = state.op
    BY <1>1, <1>8 DEF RecordLate, Cancel, StateType
  <2>2. QED
    BY <1>5, <1>8, <2>1 DEF RecordLate, Cancel, worker
<1>9. CASE Drain \/ TakeJobLock \/ Open \/ RekeyApp \/ Check \/ FreeJobLock \/ Release \/ GiveUp \/ Raise \/ Crash
             \/ \E c \in Mapped : Repair(c)
  BY <1>4, <1>9 DEF Drain, TakeJobLock, Open, RekeyApp, Check, FreeJobLock, Release, GiveUp, Raise, Crash, Repair, Goto, Gone,
                    At, console, worker
<1>10. CASE Plans
  <2>1. operation /\ pc \in Planning
    BY <1>10 DEF Plans, Plan, WritePlan, At, Planning
  <2>4. task \notin Ops /\ UNCHANGED <<journal, state, operation, task>>
    BY <1>2, <1>10, <2>1 DEF Plans, Plan, WritePlan, WorkerHasTask, console
  <2>2. ~Incomplete /\ ~state.started
    BY <1>2, <1>3, <2>1, <2>4 DEF Planning, Ending, WorkerIsKnown, Journaled, FilesAreReady
  <2>3. QED
    BY <2>1, <2>2, <2>4 DEF FilesAreReady, Incomplete
<1>11. CASE Submit
  <2>1. state'.started => state.started /\ state'.op = state.op
    BY <1>1, <1>11 DEF Submit, Submitted, StateType
  <2>2. operation /\ task \notin Ops /\ UNCHANGED <<journal, file, operation, task>>
    BY <1>2, <1>11 DEF Submit, At, Goto, WorkerHasTask
  <2>3. ~Incomplete /\ ~state.started
    BY <1>2, <1>3, <1>11, <2>2 DEF Submit, At, WorkerIsKnown, Ending, Journaled, FilesAreReady
  <2>4. QED
    BY <2>1, <2>2, <2>3 DEF FilesAreReady, Incomplete
<1>12. CASE Begin
  <2>1. operation /\ task \in Ops /\ state.op = task /\ UNCHANGED <<journal, file, operation, task>>
    BY <1>2, <1>12 DEF Begin, At, Goto, WorkerHasTask, WorkerIsKnown, Ending
  <2>2. state'.op = state.op
    BY <1>1, <1>12 DEF Begin, StateType
  <2>3. QED
    BY <2>1, <2>2 DEF FilesAreReady, Incomplete
<1>13. CASE Copy \/ Copied
  <2>1. \A o \in Ops : file'[o].contents = file[o].contents
    BY <1>1, <1>13 DEF Copy, Copied, FileType
  <2>2. QED
    BY <1>4, <1>13, <2>1 DEF Copy, Copied, Goto
<1>14. CASE Log
  <2>1. operation /\ task \in Ops /\ UNCHANGED <<file, state, operation, task>> /\ journal'.op = task
    BY <1>2, <1>14 DEF Log, At, Goto, WorkerHasTask, Inner
  <2>2. QED
    BY <2>1 DEF FilesAreReady
<1>15. CASE Rekey \/ Mark \/ Verified \/ Finish
  <2>1. Incomplete /\ journal'.op = journal.op /\ UNCHANGED <<file, state, operation, task>>
    BY <1>1, <1>2, <1>15 DEF Rekey, Mark, Verified, Finish, At, Goto, WorkerFollows, Incomplete, JournalType
  <2>2. QED
    BY <2>1 DEF FilesAreReady
<1>16. CASE Close \/ Undo \/ Fail
  <2>1. (state'.started => state.started) /\ state'.op = state.op
    BY <1>1, <1>16 DEF Close, Undo, Unstarted, Fail, StateType
  <2>2. QED
    BY <1>5, <1>16, <2>1 DEF Close, Undo, Fail, Goto, Gone
<1>17. CASE Boot
  <2>1. UNCHANGED <<journal, file, operation, task>> /\ ~operation
    BY <1>17 DEF Boot, worker, Inv, DownIsIdle
  <2>2. CASE Incomplete
    <3>1. state' = [status |-> "interrupted", maintenance |-> TRUE, started |-> TRUE, op |-> journal.op]
      BY <1>17, <2>2 DEF Boot, Recovered
    <3>2. QED
      BY <1>3, <2>1, <2>2, <3>1 DEF FilesAreReady, Incomplete
  <2>3. CASE ~Incomplete
    <3>1. state'.started = state.started /\ state'.op = state.op
      BY <1>1, <1>17, <2>3 DEF Boot, Recovered, StateType
    <3>2. QED
      BY <1>5, <2>1, <3>1
  <2>4. QED
    BY <2>2, <2>3
<1>18. QED
  BY <1>6, <1>7, <1>8, <1>9, <1>10, <1>11, <1>12, <1>13, <1>14, <1>15, <1>16, <1>17, StepGroups
     DEF Operator, Early, Late, Faults

LEMMA RestNext ==
  ASSUME Bound["record"] = 0
  PROVE  Inv /\ RestIsResumable /\ Next => RestIsResumable'
<1> SUFFICES ASSUME Inv, RestIsResumable, Next PROVE RestIsResumable'
  OBVIOUS
<1>1. state \in StateType
  BY Types DEF Inv, Typed
<1>2. ~Happens("record")
  BY DEF Happens, Inv, Typed, TypeOK, Disturbances
<1>3. DownIsIdle /\ GateIsClosed
  BY DEF Inv
<1>4. ASSUME UNCHANGED <<state, up, late>>, ~operation' \/ pc' \in Ending => ~operation \/ pc \in Ending
      PROVE  RestIsResumable'
  BY <1>4 DEF RestIsResumable, Paused
<1>5. ASSUME state'.status \in Resumable PROVE RestIsResumable'
  BY <1>5 DEF RestIsResumable
<1>6. CASE Traffic
  BY <1>4, <1>6
     DEF Traffic, Enter, Leave, StartJob, StartUpload, EndUpload, Read, Write, EndJob, console, worker
<1>7. ASSUME NEW t \in Tasks, Start(t) PROVE RestIsResumable'
  <2>1. CASE late' = TRUE
    BY <2>1 DEF RestIsResumable
  <2>2. CASE operation' = TRUE /\ pc' = First(t)
    BY <2>2 DEF RestIsResumable, First, Ending
  <2>3. QED
    BY <1>7, <2>1, <2>2 DEF Start
<1>8. CASE RecordLate
  BY <1>1, <1>2, <1>5, <1>8 DEF RecordLate, StateType, Resumable
<1>9. CASE Cancel
  BY <1>1, <1>9 DEF Cancel, StateType, RestIsResumable, Paused
<1>10. CASE Submit
  BY <1>1, <1>5, <1>10 DEF Submit, Submitted, StateType, Resumable
<1>11. CASE Close
  BY <1>1, <1>11 DEF Close, StateType, RestIsResumable, Paused
<1>12. CASE Fail
  BY <1>1, <1>2, <1>5, <1>12 DEF Fail, StateType, Resumable
<1>13. CASE FreeJobLock \/ Release
  <2>1. UNCHANGED <<state, up, late>>
    BY <1>13 DEF FreeJobLock, Release, console
  <2>2. pc \in Ending \/ (operation' /\ pc' \notin Ending)
    <3>1. CASE FreeJobLock
      BY <3>1 DEF FreeJobLock, Goto, At, Ending
    <3>2. CASE Release
      BY <3>2 DEF Release, At, Ending
    <3>3. QED
      BY <1>13, <3>1, <3>2
  <2>3. QED
    BY <1>4, <2>1, <2>2
<1>14. CASE Undo \/ Begin
  <2>1. operation' /\ pc' \notin Ending
    BY <1>14 DEF Undo, Begin, At, Goto, Ending, Inner
  <2>2. QED
    BY <2>1 DEF RestIsResumable
<1>15. CASE Drain \/ TakeJobLock \/ Plans \/ Copy \/ Copied \/ Log \/ Mark \/ Verified \/ Finish \/ RekeyApp \/ Check
              \/ GiveUp \/ Raise
  <2>1. CASE GiveUp \/ Raise
    <3>1. operation' /\ pc' \notin Ending
      BY <2>1 DEF GiveUp, Raise, At, Goto, Ending, Inner
    <3>2. QED
      BY <3>1 DEF RestIsResumable
  <2>2. CASE Drain \/ TakeJobLock \/ Plans \/ Copy \/ Copied
    <3>1. operation' /\ pc' \notin Ending
      BY <2>2 DEF Drain, TakeJobLock, Plans, Plan, WritePlan, LastPlan, Planning, Copy, Copied, At, Goto, Ending, Inner
    <3>2. QED
      BY <3>1 DEF RestIsResumable
  <2>3. CASE Log \/ Mark \/ Verified \/ Finish \/ RekeyApp \/ Check
    <3>1. operation' /\ pc' \notin Ending
      BY <2>3 DEF Log, Mark, Verified, Finish, RekeyApp, Check, At, Goto, Ending, Inner
    <3>2. QED
      BY <3>1 DEF RestIsResumable
  <2>4. QED
    BY <1>15, <2>1, <2>2, <2>3
<1>16. CASE Open \/ Rekey
  <2>1. operation' = operation /\ operation /\ pc' \notin Ending
    <3>1. \A p \in Phases \ {"none"} : Resumed(p) \notin Ending
      BY DEF Resumed, Phases, Ending
    <3>2. Open /\ Journaled => journal.phase \in Phases \ {"none"}
      BY Types DEF Inv, Typed, JournalHasPhase, Journaled, JournalType, Open, At, WorkerHasTask, Inner, Ops
    <3>3. QED
      BY <1>16, <3>1, <3>2 DEF Open, Rekey, At, Goto, Phases, Ending
  <2>2. QED
    BY <2>1 DEF RestIsResumable
<1>17. CASE Crash
  BY <1>17 DEF Crash, RestIsResumable
<1>18. CASE Boot
  <2>1. CASE Incomplete \/ state.maintenance
    BY <1>1, <1>5, <1>18, <2>1 DEF Boot, Recovered, StateType, Resumable
  <2>2. CASE ~Incomplete /\ ~state.maintenance
    BY <1>18, <2>2 DEF Boot, Recovered, RestIsResumable, Paused
  <2>3. QED
    BY <2>1, <2>2
<1>19. CASE \E c \in Mapped : Repair(c)
  BY <1>4, <1>19 DEF Repair, console, worker
<1>20. QED
  BY <1>6, <1>7, <1>8, <1>9, <1>10, <1>11, <1>12, <1>13, <1>14, <1>15, <1>16, <1>17, <1>18, <1>19, StepGroups
     DEF Operator, Early, Late, Faults

(* Where failures can be recorded the console always offers its operator a *)
(* next step: whatever has started can be resumed as what it is, and what  *)
(* has not can be left (migration_console.py:78, 137, 275).                *)
THEOREM MaintenanceCanAlwaysGoOn ==
  ASSUME Bound["record"] = 0
  PROVE  Spec => []MaintenanceHasAWayOut
<1>1. Init => FilesAreReady /\ RestIsResumable
  BY DEF Init, FilesAreReady, RestIsResumable, Paused, Incomplete
<1>2. Inv /\ FilesAreReady /\ RestIsResumable /\ [Next]_vars => FilesAreReady' /\ RestIsResumable'
  <2>1. CASE Next
    BY <2>1, ReadyNext, RestNext
  <2>2. CASE UNCHANGED vars
    BY <2>2 DEF vars, console, worker, FilesAreReady, RestIsResumable, Paused, Incomplete
  <2>3. QED
    BY <2>1, <2>2
<1>3. ASSUME Inv, FilesAreReady, RestIsResumable PROVE MaintenanceHasAWayOut
  <2> SUFFICES ASSUME up, Paused, ~operation, ~late, ~Cancellable PROVE \E t \in Tasks : Allowed(t)
    BY DEF MaintenanceHasAWayOut
  <2>1. state.started
    BY <1>3 DEF Cancellable, Inv, StartedIsKnown
  <2>2. state.op \in Ops /\ file[state.op].contents = "ready" /\ state.status \in Resumable
    BY <1>3, <2>1 DEF FilesAreReady, RestIsResumable
  <2>3. Allowed(state.op)
    BY <2>2 DEF Allowed, SameOp, Ops
  <2>4. QED
    BY <2>2, <2>3 DEF Tasks
<1>4. QED
  BY <1>1, <1>2, <1>3, AlwaysInv, PTL DEF Spec

-----------------------------------------------------------------------------
(* Safety.                                                                 *)

(* While the worker may change identities no counted request is in flight  *)
(* and no circular job runs, also when it resumes.                         *)
THEOREM MaintenanceExcludesWriters == Spec => []MaintenanceIsAlone
<1>1. Inv => MaintenanceIsAlone
  BY DEF Inv, DrainedIsEmpty, LockIsHeld, MaintenanceIsAlone, Alone, Committing
<1>2. QED
  BY <1>1, AlwaysInv, PTL

(* Between operations the stores agree.                                    *)
LEMMA CompleteIsWhole ==
  ASSUME Inv, ~Incomplete
  PROVE  Whole /\ (journal.op # "none" => corpus # "old")
<1>1. journal \in JournalType /\ StoresFollow /\ JournalHasOp /\ JournalHasPhase
  BY Types DEF Inv, Typed
<1>2. journal.phase \in {"none", "complete"}
  BY DEF Incomplete
<1>3. CASE journal.phase = "none"
  BY <1>1, <1>3 DEF StoresFollow, JournalHasPhase, Whole
<1>4. CASE journal.phase = "complete"
  <2>1. journal.op \in Ops
    BY <1>1, <1>4 DEF JournalHasOp, JournalType
  <2>2. QED
    BY <1>1, <1>4, <2>1 DEF StoresFollow, Whole, Ops
<1>5. QED
  BY <1>2, <1>3, <1>4

(* Whoever is served sees one scheme in both databases and in the search   *)
(* entries, and no operation under way.                                    *)
THEOREM ServedCorpusIsWhole == Spec => []ServedIsWhole
<1>1. Inv => ServedIsWhole
  <2>1. SUFFICES ASSUME Inv, up, ~Paused PROVE Whole /\ ~Incomplete
    BY DEF ServedIsWhole
  <2>2. ~Incomplete
    BY <2>1 DEF Inv, StartedIsKnown, Paused
  <2>3. QED
    BY <2>1, <2>2, CompleteIsWhole
<1>2. QED
  BY <1>1, AlwaysInv, PTL

(* Whatever failed or crashed, the console knows which operation is under  *)
(* way and keeps the gate closed until it is complete.                     *)
THEOREM StartedOperationsAreKnown == Spec => []StartedIsKnown
<1>1. Inv => StartedIsKnown
  BY DEF Inv
<1>2. QED
  BY <1>1, AlwaysInv, PTL

(* No request and no job leaves a row that refers to an identity that      *)
(* maintenance has taken away.                                             *)
THEOREM CountedReferencesResolve == Spec => []ReferencesResolve
<1>1. Inv => ReferencesResolve
  BY DEF Inv
<1>2. QED
  BY <1>1, AlwaysInv, PTL

(* The steps that change a store.                                          *)
LEMMA StoreSteps ==
  ASSUME Next, <<corpus, app, vectors>>' # <<corpus, app, vectors>>
  PROVE  Rekey \/ RekeyApp \/ \E c \in Mapped : Repair(c)
<1>1. CASE Traffic \/ Operator
  BY <1>1 DEF Traffic, Enter, Leave, StartJob, StartUpload, EndUpload, Read, Write, EndJob, Operator, Start, RecordLate, Cancel, stores
<1>2. CASE Early
  BY <1>2 DEF Early, Drain, TakeJobLock, Plans, Plan, WritePlan, LastPlan, Planning, Submit, Begin, Open, Copy, Copied, stores
<1>3. CASE Late
  BY <1>3 DEF Late, Log, Mark, Verified, Finish, Check, Close, FreeJobLock, Release, stores
<1>4. CASE Faults
  BY <1>4 DEF Faults, Undo, Fail, GiveUp, Raise, Crash, Boot, stores
<1>5. QED
  BY <1>1, <1>2, <1>3, <1>4, StepGroups

(* At those steps an operation is journalled, backed up, and alone.        *)
LEMMA StoreStepsAreJournalled ==
  ASSUME Inv, Rekey \/ RekeyApp \/ \E c \in Mapped : Repair(c)
  PROVE  Incomplete /\ Journaled /\ Paused /\ journal.op \in Ops
<1>1. operation /\ pc \in {"corpus", "app", "index"}
  BY DEF Rekey, RekeyApp, Repair, At
<1>2. WorkerFollows /\ WorkerHasTask /\ GateIsClosed
  BY DEF Inv, Typed
<1>3. Journaled /\ task \in Ops /\ Paused
  BY <1>1, <1>2 DEF WorkerFollows, WorkerHasTask, GateIsClosed, Inner, Ending
<1>4. Incomplete
  BY <1>1, <1>2 DEF WorkerFollows, Incomplete
<1>5. QED
  BY <1>3, <1>4 DEF Journaled

(* No store changes its identities but for a journalled operation whose    *)
(* backups are complete.                                                   *)
THEOREM EveryChangeIsBackedUp == Spec => ChangesAreBackedUp
<1> DEFINE Backed == <<corpus, app, vectors>>' # <<corpus, app, vectors>> =>
                       Incomplete /\ file[journal.op].backup = "complete"
<1>1. Inv /\ [Next]_vars => Backed
  <2>1. SUFFICES ASSUME Inv, Next, <<corpus, app, vectors>>' # <<corpus, app, vectors>>
                 PROVE  Incomplete /\ file[journal.op].backup = "complete"
    BY DEF vars, stores
  <2>2. Incomplete
    BY <2>1, StoreSteps, StoreStepsAreJournalled
  <2>3. QED
    BY <2>1, <2>2 DEF Inv, BackedUp
<1>2. Spec => [][Backed]_vars
  BY <1>1, AlwaysInv, PTL DEF Spec
<1>3. QED
  BY <1>2 DEF ChangesAreBackedUp

-----------------------------------------------------------------------------
(* Identity maintenance implements IdentityChange.                         *)

Served  == up /\ ~Paused
Decided == journal.op # "none"
Known   == IF Whole THEN corpus ELSE "old"

(* A fresh installation is an unchanged, open service.                     *)
LEMMA ChangeInit == Init => Change!Init
<1>1. SUFFICES ASSUME Init PROVE Change!Init
  OBVIOUS
<1>2. Whole /\ corpus = "old"
  BY <1>1 DEF Init, Whole
<1>3. up = TRUE /\ Paused = FALSE /\ journal.op = "none"
  BY <1>1 DEF Init, Paused
<1>4. QED
  BY <1>2, <1>3 DEF Change!Init

(* Each commit to a store makes the change, or is not noticed.             *)
LEMMA CommitIsMake ==
  ASSUME Inv, Rekey \/ RekeyApp \/ \E c \in Mapped : Repair(c)
  PROVE  /\ ~Served /\ ~Served' /\ Decided /\ Decided'
         /\ Known' = Known \/ (Known = "old" /\ Known' \in {"new", "gone"})
<1>1. journal \in JournalType /\ vectors \in [Mapped -> Schemes] /\ StoresFollow /\ WorkerHasTask /\ WorkerFollows
  BY Types DEF Inv, Typed, TypeOK
<1>2. Incomplete /\ Journaled /\ Paused /\ journal.op \in Ops
  BY StoreStepsAreJournalled
<1>3. UNCHANGED <<state, up>> /\ journal'.op = journal.op
  BY <1>1 DEF Rekey, RekeyApp, Repair, console, JournalType
<1>4. CASE Rekey
  <2>1. corpus = "old" /\ (corpus' = corpus \/ corpus' \in {"new", "gone"}) /\ UNCHANGED <<app, vectors>>
    BY <1>1, <1>4 DEF Rekey, At, WorkerFollows, StoresFollow
  <2>2. QED
    BY <1>2, <1>3, <2>1 DEF Served, Decided, Known, Whole, Paused, Ops
<1>5. CASE RekeyApp
  <2>1. corpus \in {"new", "gone"} /\ app' \in {app, "new"} /\ app \in {"old", "new"} /\ UNCHANGED <<corpus, vectors>>
    BY <1>1, <1>2, <1>5 DEF RekeyApp, At, WorkerFollows, StoresFollow
  <2>2. corpus = "new"
    BY <1>1, <1>2, <1>5 DEF RekeyApp, At, WorkerFollows, WorkerHasTask, StoresFollow, Journaled
  <2>3. QED
    BY <1>2, <1>3, <2>1, <2>2 DEF Served, Decided, Known, Whole, Paused, Ops
<1>6. CASE \E c \in Mapped : Repair(c)
  <2>1. PICK c \in Mapped : Repair(c)
    BY <1>6
  <2>2. corpus \in {"new", "gone"} /\ UNCHANGED <<corpus, app>> /\ vectors' = [vectors EXCEPT ![c] = corpus]
    BY <1>1, <1>2, <2>1 DEF Repair, At, WorkerFollows, StoresFollow
  <2>3. Whole => Whole'
    BY <1>1, <2>2 DEF Whole
  <2>4. QED
    BY <1>2, <1>3, <2>2, <2>3 DEF Served, Decided, Known, Paused, Ops
<1>7. QED
  BY <1>4, <1>5, <1>6

(* The journal row saves the change, behind the closed gate.               *)
LEMMA LogIsSave ==
  ASSUME Inv, Log
  PROVE  ~Served /\ ~Served' /\ ~Decided /\ Decided' /\ Known' = Known
<1>1. operation /\ pc = "log" /\ GateIsClosed /\ WorkerFollows /\ WorkerHasTask /\ JournalHasPhase
  BY DEF Inv, Typed, Log, At
<1>2. Paused /\ journal.op = "none" /\ task \in Ops
  BY <1>1 DEF GateIsClosed, WorkerFollows, WorkerHasTask, JournalHasPhase, Inner, Ending
<1>3. UNCHANGED <<state, corpus, app, vectors>> /\ journal'.op = task
  BY DEF Log, stores
<1>4. QED
  BY <1>2, <1>3 DEF Served, Decided, Known, Whole, Paused, Ops

(* A step that changes no store and not the journal closes the service, or *)
(* opens it on a change that has been made.                                *)
LEMMA GateIsCloseOrOpen ==
  ASSUME Inv, Inv', UNCHANGED <<corpus, app, vectors, journal>>
  PROVE  /\ Decided' = Decided /\ Known' = Known
         /\ Served' /\ Decided => Known # "old"
<1>1. Decided' = Decided /\ Known' = Known
  BY DEF Decided, Known, Whole
<1>2. ASSUME Served', Decided PROVE Known # "old"
  <2>1. ~Incomplete'
    BY <1>2 DEF Inv, StartedIsKnown, Served, Paused
  <2>2. ~Incomplete
    BY <2>1 DEF Incomplete
  <2>3. Whole /\ corpus # "old"
    BY <1>2, <2>2, CompleteIsWhole DEF Decided
  <2>4. QED
    BY <2>3 DEF Known
<1>3. QED
  BY <1>1, <1>2

(* The journal changes with the worker's commits only.                     *)
LEMMA JournalSteps ==
  ASSUME Next, journal' # journal
  PROVE  Log \/ Rekey \/ Mark \/ Verified \/ Finish
<1>1. CASE Traffic \/ Operator
  BY <1>1 DEF Traffic, Enter, Leave, StartJob, StartUpload, EndUpload, Read, Write, EndJob, Operator, Start, RecordLate, Cancel, console
<1>2. CASE Early
  BY <1>2 DEF Early, Drain, TakeJobLock, Plans, Plan, WritePlan, LastPlan, Planning, Submit, Begin, Open, Copy, Copied, console
<1>3. CASE Late
  BY <1>3 DEF Late, RekeyApp, Check, Close, FreeJobLock, Release, console
<1>4. CASE Faults \/ \E c \in Mapped : Repair(c)
  BY <1>4 DEF Faults, Undo, Fail, GiveUp, Raise, Crash, Boot, Repair, console
<1>5. QED
  BY <1>1, <1>2, <1>3, <1>4, StepGroups

(* Every step is a step of IdentityChange or leaves it as it is.           *)
LEMMA ChangeNext == Inv /\ Inv' /\ [Next]_vars => [Change!Next]_<<Served, Decided, Known>>
<1>1. SUFFICES ASSUME Inv, Inv', [Next]_vars
               PROVE  Change!Next \/ (Served' = Served /\ Decided' = Decided /\ Known' = Known)
  OBVIOUS
<1>2. CASE Rekey \/ RekeyApp \/ \E c \in Mapped : Repair(c)
  BY <1>1, <1>2, CommitIsMake DEF Change!Next, Change!Make, Served, Decided, Known
<1>3. CASE Log
  BY <1>1, <1>3, LogIsSave DEF Change!Next, Change!Save, Served, Decided, Known
<1>4. CASE Mark \/ Verified \/ Finish
  <2>1. UNCHANGED <<corpus, app, vectors, state, up>> /\ journal'.op = journal.op
    BY <1>1, <1>4, Types DEF Mark, Verified, Finish, stores, Inv, Typed, JournalType
  <2>2. QED
    BY <2>1 DEF Served, Decided, Known, Whole, Paused
<1>5. CASE UNCHANGED <<corpus, app, vectors, journal>>
  BY <1>1, <1>5, GateIsCloseOrOpen DEF Change!Next, Change!Close, Change!Open, Served, Decided, Known
<1>6. QED
  <2>1. CASE UNCHANGED vars
    BY <1>5, <2>1 DEF vars, stores, console
  <2>2. CASE Next
    BY <1>2, <1>3, <1>4, <1>5, <2>2, StoreSteps, JournalSteps
  <2>3. QED
    BY <1>1, <2>1, <2>2

(* Readers never notice more than one change of identities, made while the *)
(* service was closed, saved before, and finished before it was opened.    *)
THEOREM MaintenanceImplementsChange == Spec => ChangeIsAtomic
<1>1. Spec => Change!Init /\ [][Change!Next]_<<Served, Decided, Known>>
  BY ChangeInit, ChangeNext, AlwaysInv, PTL DEF Spec
<1>2. QED
  BY <1>1 DEF ChangeIsAtomic, Change!Spec, Served, Decided, Known

=============================================================================
