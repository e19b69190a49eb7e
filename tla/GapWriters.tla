----------------------------- MODULE GapWriters ------------------------------
(***************************************************************************)
(* The row of one missing circular in the mirror's queue, as several       *)
(* processes write it (circular_jobs.py): the server that works the queue  *)
(* and, unaware of its job lock, commands that fetch the same circular.    *)
(* A session reads a row once and later writes the columns it has changed  *)
(* since; a read is a transaction of its own.  Counters, errors, variants, *)
(* eligibility and ambiguous matches are left out.                         *)
(***************************************************************************)
EXTENDS Naturals, FiniteSets

CONSTANTS
  Backfills,  \* the attempts of the server, one at a time
  Outsiders,  \* the attempts of commands, each once
  UpsetBound  \* how often a process dies, a session fails or an administrator acts

Attempts == Backfills \union Outsiders

VARIABLES
  gap,     \* the row
  stored,  \* the circular is in the corpus
  attempt, \* the rows of the attempts, and whether a running one names the gap
  doing,   \* where each attempt is, and what it has read
  server,  \* the process of the server, and what its recovery has read
  click,   \* what an administrator is about to write
  upsets

writerVars == <<gap, stored, attempt, doing, server, click, upsets>>

-----------------------------------------------------------------------------
NoGap   == [is |-> FALSE, status |-> "none", claim |-> "nobody"]
Row(status, claim) == [is |-> TRUE, status |-> status, claim |-> claim]
Stray   == Row("failed", "nobody")
Idle    == [at |-> "idle", seen |-> NoGap, found |-> FALSE]
Gone    == [Idle EXCEPT !.at = "gone"]
Booted(at) == [at |-> at, list |-> {}, todo |-> {}, linked |-> {}, seen |-> NoGap, draft |-> NoGap,
               turn |-> "nobody", news |-> 0]
NoClick == [at |-> "none", to |-> "none", seen |-> NoGap]

Places  == {"idle", "opened", "looked", "fetching", "fetched", "reloaded", "checked", "ready", "gone"}
Gaps    == [is : BOOLEAN, status : {"none", "pending", "running", "resolved", "failed", "skipped"},
            claim : Attempts \union {"nobody"}]

GapTypeOK ==
  /\ gap \in Gaps /\ stored \in BOOLEAN
  /\ attempt \in [Attempts -> [row : {"none", "running", "over"}, linked : BOOLEAN]]
  /\ doing \in [Attempts -> [at : Places, seen : Gaps, found : BOOLEAN]]
  /\ server.at \in {"down", "recovering", "missing", "up"} /\ server.seen \in Gaps /\ server.draft \in Gaps
  /\ server.todo \subseteq server.list /\ server.list \subseteq Attempts /\ server.linked \subseteq Attempts
  /\ click.at \in {"none", "read"} /\ upsets \in 0..UpsetBound

\* There is no row, or the one an audit made.
GapInit ==
  /\ gap \in {NoGap, Row("pending", "nobody")}
  /\ stored = FALSE
  /\ attempt = [a \in Attempts |-> [row |-> "none", linked |-> FALSE]]
  /\ doing = [a \in Attempts |-> Idle]
  /\ server = Booted("up") /\ click = NoClick /\ upsets = 0

-----------------------------------------------------------------------------
\* A session writes the columns in which its row differs from what it read.
Written(seen, new) ==
  [gap EXCEPT !.status = IF new.status = seen.status THEN @ ELSE new.status,
              !.claim  = IF new.claim = seen.claim THEN @ ELSE new.claim]

\* What the end of an attempt makes of the row: the claim goes, whoever has it.
Outcome(seen, found, respects) ==
  Row(IF found THEN "resolved"
      ELSE IF respects /\ seen.status = "skipped" THEN "skipped" ELSE "failed", "nobody")

Moves(a, at) == doing' = [doing EXCEPT ![a].at = at]
Leaves(a)    == doing' = [doing EXCEPT ![a] = Gone]
Ended        == [row |-> "over", linked |-> FALSE]
Over(a)      == attempt' = [attempt EXCEPT ![a] = Ended]
Works(a)     == a \in Backfills /\ doing[a].at \notin {"idle", "gone"}
Upset        == upsets < UpsetBound /\ upsets' = upsets + 1
Reads(a, at) == doing' = [doing EXCEPT ![a].at = at, ![a].seen = gap]
Looks(a, at) == doing' = [doing EXCEPT ![a].at = at, ![a].found = stored]

\* Every read is a step of its own.  process_gap reads the row and then the corpus, and does so again
\* at its end; ordinary_attempt_start reads the row, ordinary_attempt_finish the corpus and the row.
Read(a) ==
  /\ \/ /\ a \in Backfills
        /\ \/ doing[a].at = "opened" /\ Looks(a, "looked")
           \/ doing[a].at = "fetched" /\ Reads(a, "reloaded")
           \/ doing[a].at = "reloaded" /\ Looks(a, "ready")
     \/ /\ a \in Outsiders
        /\ \/ doing[a].at = "idle" /\ Reads(a, "opened")
           \/ doing[a].at = "fetched" /\ Looks(a, "checked")
           \/ doing[a].at = "checked" /\ Reads(a, "ready")
  /\ UNCHANGED <<gap, stored, attempt, server, click, upsets>>

-----------------------------------------------------------------------------
(* process_gap, an attempt of the server, and ordinary_attempt_start and   *)
(* _finish, an attempt of a command.                                       *)

Takeable(row) == row.is /\ row.claim = "nobody" /\ row.status \in {"pending", "failed"}

OpenGap(b) ==
  /\ doing[b].at = "idle" /\ server.at = "up" /\ click.at = "none" /\ \A o \in Backfills : ~Works(o)
  /\ IF Takeable(gap) THEN Reads(b, "opened") ELSE Leaves(b)
  /\ UNCHANGED <<gap, stored, attempt, server, click, upsets>>

AlreadyPresent(b) ==
  /\ doing[b].at = "looked" /\ doing[b].found
  /\ gap' = Written(doing[b].seen, [doing[b].seen EXCEPT !.status = "resolved"])
  /\ Over(b) /\ Leaves(b)
  /\ UNCHANGED <<stored, server, click, upsets>>

\* The claim is one statement: it takes the row as it is now, or nothing.
ClaimGap(b) ==
  /\ doing[b].at = "looked" /\ ~doing[b].found
  /\ IF Takeable(gap)
     THEN /\ gap' = Row("running", b) /\ Moves(b, "fetching")
          /\ attempt' = [attempt EXCEPT ![b] = [row |-> "running", linked |-> TRUE]]
     ELSE Leaves(b) /\ UNCHANGED <<gap, attempt>>
  /\ UNCHANGED <<stored, server, click, upsets>>

Register(o) ==
  /\ doing[o].at = "opened" /\ o \in Outsiders
  /\ LET seen == doing[o].seen
         joins == seen.is /\ seen.claim = "nobody"
     IN  /\ gap' = IF joins THEN Written(seen, [seen EXCEPT !.claim = o]) ELSE gap
         /\ attempt' = [attempt EXCEPT ![o] = [row |-> "running", linked |-> joins]]
  /\ Moves(o, "fetching")
  /\ UNCHANGED <<stored, server, click, upsets>>

Fetch(a) ==
  /\ doing[a].at = "fetching" /\ stored' \in {stored, TRUE} /\ Moves(a, "fetched")
  /\ UNCHANGED <<gap, attempt, server, click, upsets>>

Settle(a) ==
  /\ doing[a].at = "ready" /\ doing[a].seen.is
  /\ gap' = Written(doing[a].seen, Outcome(doing[a].seen, doing[a].found, a \in Outsiders))
  /\ Over(a) /\ Leaves(a)
  /\ UNCHANGED <<stored, server, click, upsets>>

\* A command that found no row makes one for what is missing; if another has made it since, the
\* insertion fails and with it the record of the attempt.
SettleStray(o) ==
  /\ doing[o].at = "ready" /\ ~doing[o].seen.is
  /\ IF doing[o].found THEN Over(o) /\ UNCHANGED gap
     ELSE IF gap.is THEN UNCHANGED <<gap, attempt>>
     ELSE gap' = Stray /\ Over(o)
  /\ Leaves(o)
  /\ UNCHANGED <<stored, server, click, upsets>>

\* A command is killed, or a session of an attempt fails; what fails in a fetch is an outcome.
GiveUp(a) ==
  /\ doing[a].at \notin {"idle", "gone"} /\ (a \in Backfills => doing[a].at # "fetching")
  /\ Upset /\ Leaves(a)
  /\ UNCHANGED <<gap, stored, attempt, server, click>>

-----------------------------------------------------------------------------
(* The server dies, boots, and recovers every attempt that is running, its *)
(* own or not, in one session: recover_jobs.                               *)

Die ==
  /\ server.at # "down" /\ Upset /\ server' = Booted("down") /\ click' = NoClick
  /\ doing' = [a \in Attempts |-> IF Works(a) THEN Gone ELSE doing[a]]
  /\ UNCHANGED <<gap, stored, attempt>>

Boot ==
  /\ server.at = "down"
  /\ LET found == {a \in Attempts : attempt[a].row = "running"}
     IN  server' = [Booted("recovering") EXCEPT !.list = found, !.todo = found,
                                                !.linked = {a \in found : attempt[a].linked}]
  /\ UNCHANGED <<gap, stored, attempt, doing, click, upsets>>

\* The first attempt that names the row reads it; it is not read again.
RecoveryReads ==
  /\ server.at = "recovering" /\ server.todo \intersect server.linked # {} /\ ~server.seen.is
  /\ server' = [server EXCEPT !.seen = gap, !.draft = gap]
  /\ UNCHANGED <<gap, stored, attempt, doing, click, upsets>>

Recovers(a, draft) == [server EXCEPT !.at = "recovering", !.todo = @ \ {a}, !.draft = draft]

RecoverLinked(a) ==
  /\ server.at = "recovering" /\ a \in server.todo \intersect server.linked /\ server.seen.is
  /\ server' = Recovers(a, Outcome(server.draft, stored, FALSE))
  /\ UNCHANGED <<gap, stored, attempt, doing, click, upsets>>

RecoverStray(a) ==
  /\ server.at = "recovering" /\ a \in server.todo \ server.linked
  /\ server' = IF stored THEN Recovers(a, server.draft)
               ELSE [server EXCEPT !.at = "missing", !.turn = a]
  /\ UNCHANGED <<gap, stored, attempt, doing, click, upsets>>

\* The circular is not there: its row is the one already read, the one there is now, or a new one.
\* A new one is not seen by the next attempt, which makes another.
QueueStray ==
  /\ server.at = "missing"
  /\ LET seen == IF server.seen.is THEN server.seen ELSE gap
     IN  server' = [Recovers(server.turn, IF seen.is THEN Stray ELSE server.draft)
                      EXCEPT !.seen = seen, !.turn = "nobody", !.news = IF seen.is THEN @ ELSE @ + 1]
  /\ UNCHANGED <<gap, stored, attempt, doing, click, upsets>>

Collides == server.news > 1 \/ (server.news = 1 /\ gap.is)

\* All is written at once, or the boot fails.
\* Faulty variant: the outcome is written and the claim is left.
RecoveredLeavesClaim == Written(server.seen, [server.draft EXCEPT !.claim = server.seen.claim])
Recovered == Written(server.seen, server.draft)

EndRecovery ==
  /\ server.at = "recovering" /\ server.todo = {}
  /\ IF Collides THEN server' = Booted("down") /\ UNCHANGED <<gap, attempt>>
     ELSE /\ server' = Booted("up")
          /\ gap' = IF server.news = 1 THEN Stray ELSE IF server.seen.is THEN Recovered ELSE gap
          /\ attempt' = [a \in Attempts |-> IF a \in server.list THEN Ended ELSE attempt[a]]
  /\ UNCHANGED <<stored, doing, click, upsets>>

-----------------------------------------------------------------------------
(* An administrator skips or requeues, under the job lock.                 *)

ClickReads ==
  /\ server.at = "up" /\ click.at = "none" /\ \A b \in Backfills : ~Works(b)
  /\ gap.is /\ gap.claim = "nobody"
  /\ \/ /\ gap.status \in {"pending", "failed"}
        /\ click' = [at |-> "read", to |-> "skipped", seen |-> gap]
     \/ /\ gap.status \in {"failed", "skipped"}
        /\ click' = [at |-> "read", to |-> "pending", seen |-> gap]
  /\ Upset
  /\ UNCHANGED <<gap, stored, attempt, doing, server>>

ClickWrites ==
  /\ click.at = "read" /\ click' = NoClick
  /\ gap' = Written(click.seen, [click.seen EXCEPT !.status = click.to])
  /\ UNCHANGED <<stored, attempt, doing, server, upsets>>

-----------------------------------------------------------------------------
GapNext ==
  \/ \E b \in Backfills : OpenGap(b) \/ AlreadyPresent(b) \/ ClaimGap(b)
  \/ \E o \in Outsiders : Register(o) \/ SettleStray(o)
  \/ \E a \in Attempts : \/ Read(a) \/ Fetch(a) \/ Settle(a) \/ GiveUp(a)
                        \/ RecoverLinked(a) \/ RecoverStray(a)
  \/ Die \/ Boot \/ RecoveryReads \/ QueueStray \/ EndRecovery
  \/ ClickReads \/ ClickWrites

-----------------------------------------------------------------------------
\* What is claimed or said to be running can be released: some attempt that names the row has a row
\* that is still running, so that the next recovery finds it.
NothingIsStranded ==
  /\ gap.claim # "nobody" => attempt[gap.claim] = [row |-> "running", linked |-> TRUE]
  /\ gap.status = "running" => \E b \in Backfills : attempt[b] = [row |-> "running", linked |-> TRUE]

\* A gap is resolved only when the circular is there.
ResolvedIsHeld == gap.status = "resolved" => stored

\* An attempt that is over and did not bring the circular in has left it in the queue.
MissIsQueued == (\E a \in Attempts : attempt[a].row = "over") => stored \/ gap.is
=============================================================================
