---------------------------- MODULE RequestPacer ----------------------------
(***************************************************************************)
(* scraper/http.py: the fetches of one job share a pacer that spaces their *)
(* requests; each fetch follows redirects and retries what was transient   *)
(* until its deadline, and any wait ends when the job is cancelled.        *)
(***************************************************************************)
EXTENDS Naturals

CONSTANTS
  Fetches,   \* calls of get, each made once
  Hops,      \* addresses one fetch may visit: 6 in the code
  Attempts,  \* tries at each: 4 in the code
  Delay,     \* between the starts of two requests
  Patience,  \* deadline_seconds
  ClockBound \* bounds the model's time

ASSUME DurationsAssumption == Delay \in Nat /\ Patience \in Nat
ASSUME TriesAssumption == Hops \in Nat \ {0} /\ Attempts \in Nat \ {0} /\ ClockBound \in Nat

VARIABLES
  now,       \* time.monotonic()
  nextStart, \* the pacer's next_start
  cancelled, \* the job's cancel event
  holder,    \* the fetch that holds the pacer's lock, as a set
  fetch,     \* where each fetch is
  started    \* when the pacer last let a request go, as a set

pacerVars == <<now, nextStart, cancelled, holder, fetch, started>>

Stages  == {"idle", "queue", "turn", "go", "asked", "rest", "got", "failed"}
Resting == [at |-> "idle", hop |-> 0, attempt |-> 0, until |-> 0, deadline |-> 0]
Running(f) == fetch[f].at \notin {"idle", "got", "failed"}
Earlier(a, b) == IF a < b THEN a ELSE b

PacerTypeOK ==
  /\ now \in 0..ClockBound /\ nextStart \in 0..(ClockBound + Delay)
  /\ cancelled \in BOOLEAN /\ holder \subseteq Fetches /\ started \subseteq 0..ClockBound
  /\ fetch \in [Fetches -> [at: Stages, hop: 0..(Hops - 1), attempt: 0..(Attempts - 1),
                            until: 0..ClockBound, deadline: 0..ClockBound]]

PacerInit ==
  /\ now = 0 /\ nextStart = 0 /\ cancelled = FALSE
  /\ holder = {} /\ fetch = [f \in Fetches |-> Resting] /\ started = {}

Tick ==
  /\ now < ClockBound /\ now' = now + 1
  /\ UNCHANGED <<nextStart, cancelled, holder, fetch, started>>

CancelJob ==
  /\ ~cancelled /\ cancelled' = TRUE
  /\ UNCHANGED <<now, nextStart, holder, fetch, started>>

-----------------------------------------------------------------------------
(* The pacer.                                                              *)

BeginFetch(f) ==
  /\ fetch[f].at = "idle" /\ now + Patience <= ClockBound
  /\ fetch' = [fetch EXCEPT ![f].at = "queue", ![f].deadline = now + Patience]
  /\ UNCHANGED <<now, nextStart, cancelled, holder, started>>

\* The lock is awaited without a limit; how long to sleep is settled once it is held.
TakeTurn(f) ==
  /\ fetch[f].at = "queue" /\ holder = {}
  /\ holder' = {f}
  /\ fetch' = [fetch EXCEPT ![f].at = "turn", ![f].until = Earlier(nextStart, fetch[f].deadline)]
  /\ UNCHANGED <<now, nextStart, cancelled, started>>

\* A transient error is tried again after a rest that ends at the deadline; the last is raised.
Rested(x, wait) == [x EXCEPT !.at = "rest", !.until = Earlier(now + wait, x.deadline)]
Tried(x) == IF x.attempt = Attempts - 1 THEN [x EXCEPT !.at = "failed"] ELSE Rested(x, 1)

\* `with self.lock` gives it back however the wait ends.
ReleasedGranted(f, granted) == IF granted THEN {} ELSE {f}
Released(f, granted) == {}

\* The next start counts from this one, however late it is.
FollowingDue(f) == fetch[f].until + Delay
Following(f) == now + Delay

\* A request that starts on time.
OnTime(t) == \A s \in started : t >= s + Delay

Grant(f) ==
  /\ fetch[f].at = "turn" /\ ~cancelled /\ now >= fetch[f].until
  /\ now < fetch[f].deadline
  /\ holder' = Released(f, TRUE) /\ nextStart' = Following(f) /\ started' = {now}
  /\ fetch' = [fetch EXCEPT ![f].at = "go"]
  /\ UNCHANGED <<now, cancelled>>

\* Timeout, which counts as transient: the attempts left run through at once.
TooLate(f) ==
  /\ fetch[f].at = "turn" /\ ~cancelled /\ now >= fetch[f].until
  /\ now >= fetch[f].deadline
  /\ holder' = Released(f, FALSE) /\ fetch' = [fetch EXCEPT ![f] = Tried(@)]
  /\ UNCHANGED <<now, nextStart, cancelled, started>>

\* Every sleep watches the cancel event, one of no length too.
Stop(f) ==
  /\ cancelled /\ fetch[f].at \in {"turn", "rest"}
  /\ holder' = IF fetch[f].at = "turn" THEN Released(f, FALSE) ELSE holder
  /\ fetch' = [fetch EXCEPT ![f].at = "failed"]
  /\ UNCHANGED <<now, nextStart, cancelled, started>>

-----------------------------------------------------------------------------
(* One address: the request and what comes of it.                          *)

\* requests refuses a timeout that is not positive.
Request(f) ==
  /\ fetch[f].at = "go"
  /\ fetch' = [fetch EXCEPT ![f].at = IF now < fetch[f].deadline THEN "asked" ELSE "failed"]
  /\ UNCHANGED <<now, nextStart, cancelled, holder, started>>

Ends(f, x) == /\ fetch[f].at = "asked" /\ fetch' = [fetch EXCEPT ![f] = x]
              /\ UNCHANGED <<now, nextStart, cancelled, holder, started>>

Page(f) == Ends(f, [fetch[f] EXCEPT !.at = "got"])

\* A redirect starts the attempts again at the new address.
Redirect(f) == Ends(f, IF fetch[f].hop = Hops - 1 THEN [fetch[f] EXCEPT !.at = "failed"]
                       ELSE [fetch[f] EXCEPT !.at = "queue", !.hop = @ + 1, !.attempt = 0])

\* 429, 500, 502, 503, 504: unless it is the last attempt or the server asks for more than a
\* minute, wait as long as it asks.
Busy(f) == \E wait \in 1..2 : Ends(f, IF fetch[f].attempt = Attempts - 1
                                     THEN [fetch[f] EXCEPT !.at = "failed"] ELSE Rested(fetch[f], wait))
Broken(f)  == Ends(f, Tried(fetch[f]))
Refused(f) == Ends(f, [fetch[f] EXCEPT !.at = "failed"])

Again(f) ==
  /\ fetch[f].at = "rest" /\ ~cancelled /\ now >= fetch[f].until
  /\ fetch' = [fetch EXCEPT ![f].at = "queue", ![f].attempt = @ + 1]
  /\ UNCHANGED <<now, nextStart, cancelled, holder, started>>

Answer(f) == Page(f) \/ Redirect(f) \/ Busy(f) \/ Broken(f) \/ Refused(f)
Proceed(f) == TakeTurn(f) \/ Grant(f) \/ TooLate(f) \/ Stop(f) \/ Request(f) \/ Answer(f) \/ Again(f)
PacerNext == Tick \/ CancelJob \/ \E f \in Fetches : BeginFetch(f) \/ Proceed(f)

\* Time passes; a thread that can go on does, and a request is answered or times out.
PacerFair == WF_pacerVars(Tick) /\ \A f \in Fetches : WF_pacerVars(Proceed(f))
PacerSpec == PacerInit /\ [][PacerNext]_pacerVars /\ PacerFair

-----------------------------------------------------------------------------
(* Properties.                                                             *)

\* Two requests of a job are never let go less than the delay apart, however the fetches queue,
\* oversleep, retry and give up.
RequestsKeepTheirDistance == [][\A f \in Fetches : Grant(f) => OnTime(now)]_pacerVars

\* A fetch that has begun ends, with a page or an error: no wait for a turn, no chain of retries
\* and redirects, and no fetch that gave up while it held the pacer keeps another one for ever.
FetchesEnd == \A f \in Fetches : (fetch[f].at = "queue") ~> (fetch[f].at \in {"got", "failed"})
=============================================================================
