------------------------------ MODULE TraceLog -------------------------------
(***************************************************************************)
(* The trace of one operation that calls the model (llm_debug.py): its     *)
(* threads append events to a timeline, under a lock that only their own   *)
(* process holds, while a booting server closes what it finds running and  *)
(* administrators delete.  A trace may fail to be written; the operation   *)
(* goes on.  Sizes, times and tokens are left out.                         *)
(***************************************************************************)
EXTENDS Naturals, Sequences, FiniteSets

CONSTANTS
  Callers,    \* the threads that call the model, once each
  MishapBound \* how many failures, deaths and deletions there may be

Threads == Callers \union {"owner", "boot"}

VARIABLES
  command,  \* a command runs the operation, and the server may boot beside it
  record,   \* the row of the trace
  timeline, \* its events, in the order they were committed
  latch,    \* the thread of the operation that holds the trace's lock
  emitter,  \* the event each thread is at
  stand,    \* where each thread is
  number,   \* the attempt number each call was given, 0: none
  lost,     \* an event was given up after three tries
  mishaps

traceVars == <<command, record, timeline, latch, emitter, stand, number, lost, mishaps>>

-----------------------------------------------------------------------------
NoRecord  == [is |-> FALSE, status |-> "running", attempts |-> 0]
NoEvent   == [at |-> "idle", kind |-> "none", saw |-> 0, sequence |-> 0, tries |-> 0]
Terminals == {"completed", "failed", "cancelled"}
Kinds     == Terminals \union {"started", "request", "answer"}
Places    == {"off", "working", "calling", "asked", "completing", "failing", "cancelling", "closing", "ended", "dead"}

TraceTypeOK ==
  /\ command \in BOOLEAN
  /\ record.status \in Terminals \union {"running"} /\ record.attempts \in 0..Cardinality(Callers)
  /\ \A i \in DOMAIN timeline : timeline[i].kind \in Kinds /\ timeline[i].by \in Threads
  /\ latch \in Threads \union {"free"}
  /\ \A t \in Threads : /\ emitter[t].at \in {"idle", "read", "number", "commit"} /\ stand[t] \in Places
                        /\ emitter[t].kind \in Kinds \union {"none"}
  /\ number \in [Callers -> 0..Cardinality(Callers)] /\ lost \in BOOLEAN /\ mishaps \in 0..MishapBound

TraceInit ==
  /\ command \in BOOLEAN
  /\ record = NoRecord /\ timeline = <<>> /\ latch = "free"
  /\ emitter = [t \in Threads |-> NoEvent] /\ stand = [t \in Threads |-> "off"]
  /\ number = [c \in Callers |-> 0] /\ lost = FALSE /\ mishaps = 0

Mishap == mishaps < MishapBound /\ mishaps' = mishaps + 1
Idle(t) == emitter[t].at = "idle"
Emits(t, kind) == emitter' = [emitter EXCEPT ![t] = [NoEvent EXCEPT !.at = "read", !.kind = kind]]
At(t, place) == stand[t] = place /\ Idle(t)

-----------------------------------------------------------------------------
(* emit_event.                                                             *)

\* The lock of a trace is one of its process: the server that boots has another.
\* Faulty variant: there is none.
LatchedNot(t) == TRUE
Latched(t) == t = "boot" \/ latch \in {"free", t}
Held(t) == IF t = "boot" THEN latch ELSE t
LetGo(t) == IF latch = t THEN "free" ELSE latch

\* The event is given up, or it is recorded.
Gives(t) == emitter' = [emitter EXCEPT ![t] = NoEvent] /\ latch' = LetGo(t)

ReadTrace(t) ==
  /\ emitter[t].at = "read" /\ Latched(t)
  /\ IF record.is
     THEN /\ emitter' = [emitter EXCEPT ![t].at = "number", ![t].saw = record.attempts]
          /\ latch' = Held(t)
     ELSE Gives(t)
  /\ UNCHANGED <<command, record, timeline, stand, number, lost, mishaps>>

ReadSequence(t) ==
  /\ emitter[t].at = "number"
  /\ emitter' = [emitter EXCEPT ![t].at = "commit", ![t].sequence = Len(timeline) + 1]
  /\ UNCHANGED <<command, record, timeline, latch, stand, number, lost, mishaps>>

Retries(t) ==
  IF emitter[t].tries = 2 THEN Gives(t) /\ lost' = TRUE
  ELSE /\ emitter' = [emitter EXCEPT ![t].at = "read", ![t].tries = @ + 1]
       /\ UNCHANGED <<latch, lost>>

\* What begins an attempt.  Faulty variant: the answer does, too.
AsksOrAnswers(kind) == kind \in {"request", "answer"}
Asks(kind) == kind = "request"

Attempt(t) ==
  CASE Asks(emitter[t].kind) -> emitter[t].saw + 1
    [] emitter[t].kind = "answer" -> number[t]
    [] OTHER -> 0

\* The row is updated with the event: if it was deleted, both fail.  The number may be taken.
CommitEvent(t) ==
  LET e == emitter[t]  asks == Asks(e.kind) IN
  /\ e.at = "commit"
  /\ CASE ~record.is -> Gives(t) /\ UNCHANGED <<record, timeline, number, lost>>
       [] record.is /\ \E i \in DOMAIN timeline : timeline[i].sequence = e.sequence ->
            Retries(t) /\ UNCHANGED <<record, timeline, number>>
       [] OTHER ->
            /\ timeline' = Append(timeline, [sequence |-> e.sequence, kind |-> e.kind, by |-> t, attempt |-> Attempt(t)])
            /\ record' = IF asks THEN [record EXCEPT !.attempts = e.saw + 1] ELSE record
            /\ number' = IF asks THEN [number EXCEPT ![t] = Attempt(t)] ELSE number
            /\ Gives(t) /\ UNCHANGED lost
  /\ UNCHANGED <<command, stand, mishaps>>

EventFails(t) ==
  /\ emitter[t].at = "commit" /\ Mishap /\ Retries(t)
  /\ UNCHANGED <<command, record, timeline, stand, number>>

-----------------------------------------------------------------------------
(* The operation.                                                          *)

\* _create_trace
Open ==
  /\ At("owner", "off")
  /\ record' = [NoRecord EXCEPT !.is = TRUE]
  /\ Emits("owner", "started")
  /\ stand' = [t \in Threads |-> CASE t = "owner" -> "working" [] t \in Callers -> "calling" [] OTHER -> stand[t]]
  /\ UNCHANGED <<command, timeline, latch, number, lost, mishaps>>

\* _create_traced_completion: the request is on record before the call is made.
Request(c) ==
  /\ At(c, "calling") /\ Idle("owner")
  /\ Emits(c, "request") /\ stand' = [stand EXCEPT ![c] = "asked"]
  /\ UNCHANGED <<command, record, timeline, latch, number, lost, mishaps>>

\* The response, or the error.
Answer(c) ==
  /\ At(c, "asked")
  /\ Emits(c, "answer") /\ stand' = [stand EXCEPT ![c] = "ended"]
  /\ UNCHANGED <<command, record, timeline, latch, number, lost, mishaps>>

Endings == [completing |-> "completed", failing |-> "failed", cancelling |-> "cancelled"]

\* finish_trace: the pool has been joined.  What another has ended is left as it is.
Finish ==
  /\ At("owner", "working") /\ \A c \in Callers : At(c, "ended")
  /\ IF record.is /\ record.status # "running"
     THEN stand' = [stand EXCEPT !["owner"] = "ended"] /\ UNCHANGED emitter
     ELSE \E ending \in DOMAIN Endings :
            stand' = [stand EXCEPT !["owner"] = ending] /\ Emits("owner", Endings[ending])
  /\ UNCHANGED <<command, record, timeline, latch, number, lost, mishaps>>

SetStatus ==
  /\ stand["owner"] \in DOMAIN Endings /\ Idle("owner")
  /\ record' = IF record.is THEN [record EXCEPT !.status = Endings[stand["owner"]]] ELSE record
  /\ stand' = [stand EXCEPT !["owner"] = "ended"]
  /\ UNCHANGED <<command, timeline, latch, emitter, number, lost, mishaps>>

\* The process dies, and its lock with it.
Die ==
  /\ stand["owner"] \notin {"off", "dead"} /\ Mishap
  /\ stand' = [t \in Threads |-> IF t = "boot" THEN stand[t] ELSE "dead"]
  /\ emitter' = [t \in Threads |-> IF t = "boot" THEN emitter[t] ELSE NoEvent]
  /\ latch' = "free"
  /\ UNCHANGED <<command, record, timeline, number, lost>>

-----------------------------------------------------------------------------
(* Others.                                                                 *)

\* fail_interrupted_traces: what says running is closed, be it at work in another process.
Boot ==
  /\ At("boot", "off") /\ (command \/ stand["owner"] = "dead")
  /\ record.is /\ record.status = "running"
  /\ Emits("boot", "failed") /\ stand' = [stand EXCEPT !["boot"] = "closing"]
  /\ UNCHANGED <<command, record, timeline, latch, number, lost, mishaps>>

Closed(r) == IF r.status = "running" THEN [r EXCEPT !.status = "failed"] ELSE r
CloseTrace ==
  /\ At("boot", "closing")
  /\ record' = IF record.is THEN Closed(record) ELSE record
  /\ stand' = [stand EXCEPT !["boot"] = "off"]
  /\ UNCHANGED <<command, timeline, latch, emitter, number, lost, mishaps>>

\* The row cannot be written: it stays as it is.
StatusFails ==
  /\ Mishap
  /\ \/ stand["owner"] \in DOMAIN Endings /\ Idle("owner") /\ stand' = [stand EXCEPT !["owner"] = "ended"]
     \/ At("boot", "closing") /\ stand' = [stand EXCEPT !["boot"] = "off"]
  /\ UNCHANGED <<command, record, timeline, latch, emitter, number, lost>>

\* delete_trace and delete_all_traces leave alone what is running; the script that prunes does not.
DeleteTrace(prunes) ==
  /\ record.is /\ (prunes \/ record.status # "running")
  /\ Mishap
  /\ record' = NoRecord /\ timeline' = <<>>
  /\ UNCHANGED <<command, latch, emitter, stand, number, lost>>

TraceNext ==
  \/ Open \/ Finish \/ SetStatus \/ Die \/ Boot \/ CloseTrace \/ StatusFails
  \/ \E prunes \in BOOLEAN : DeleteTrace(prunes)
  \/ \E c \in Callers : Request(c) \/ Answer(c)
  \/ \E t \in Threads : ReadTrace(t) \/ ReadSequence(t) \/ CommitEvent(t) \/ EventFails(t)

TraceSpec == TraceInit /\ [][TraceNext]_traceVars

-----------------------------------------------------------------------------
(* Properties.                                                             *)

\* The events of a trace are numbered from one, without a gap or a repeat, whichever processes
\* append to it; a trace that is deleted leaves none behind.
EventsAreNumbered ==
  /\ \A i \in DOMAIN timeline : timeline[i].sequence = i
  /\ ~record.is => timeline = <<>>

\* The calls of the model are numbered in the order of their requests, an answer carries the number
\* of its request, and the row counts them all, however many threads call at once (llm_debug.py:348).
Asked == {i \in DOMAIN timeline : timeline[i].kind = "request"}
AttemptsAreNumbered ==
  /\ \A i \in Asked : timeline[i].attempt = Cardinality({j \in Asked : j <= i})
  /\ record.is => record.attempts = Cardinality(Asked)
  /\ \A i \in DOMAIN timeline, j \in Asked :
       timeline[i].by = timeline[j].by => timeline[i].attempt = timeline[j].attempt

\* A trace that says how it ended has the event that says so, unless that could not be written.
EndIsOnRecord ==
  record.is /\ record.status # "running" /\ ~lost
  => \E i \in DOMAIN timeline : timeline[i].kind = record.status
=============================================================================
