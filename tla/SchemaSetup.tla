---------------------------- MODULE SchemaSetup -----------------------------
(***************************************************************************)
(* What every process does to the databases as it imports database.py:     *)
(* runtime tables that an earlier build kept in the corpus file move to    *)
(* files of their own, and the columns that an earlier build did not have  *)
(* are added and filled.  Servers and commands start side by side and are  *)
(* killed at any step.                                                     *)
(***************************************************************************)
EXTENDS Naturals, FiniteSets

CONSTANTS
  Starters,  \* processes
  Moved,     \* _APP_TABLES, or _TRACE_TABLES: the tables to move out of the corpus file
  Columns,   \* columns that the models have and the earlier build had not
  SetupBound \* how often a process may be killed, and how often one may write

ASSUME KillsAssumption == SetupBound \in Nat

VARIABLES
  corpus,   \* the tables of Moved still in the corpus file, with their rows
  moved,    \* the tables in the file they move to, with their rows
  columns,  \* the columns that the corpus tables have
  filled,   \* rows of before have been backfilled, and the rebuilt tables accept laws
  starter,  \* the processes
  stored,   \* every row that was ever stored
  dropped,  \* history: the rows that a process was moving when it was killed between two commits
  kills

setupVars == <<corpus, moved, columns, filled, starter, stored, dropped, kills>>

Absent == [there |-> FALSE, rows |-> {}]
Table(rs) == [there |-> TRUE, rows |-> rs]
Rows  == {"old", "new"}   \* what the earlier build stored, and what a server stores
SetupSteps == {"off", "list", "schema", "inserts", "drops", "inspect", "columns", "up", "failed"}
Off   == [at |-> "off", listed |-> {}, absent |-> {}, made |-> {}, carried |-> {}, lacks |-> {}]

SetupTypeOK ==
  /\ corpus \in [Moved -> [there: BOOLEAN, rows: SUBSET Rows]]
  /\ moved \in [Moved -> [there: BOOLEAN, rows: SUBSET Rows]]
  /\ columns \subseteq Columns /\ filled \in BOOLEAN /\ stored \subseteq (Moved \X Rows) /\ dropped \subseteq (Moved \X Rows)
  /\ starter \in [Starters -> [at: SetupSteps, listed: SUBSET Moved, absent: SUBSET Moved,
                               made: SUBSET Moved, carried: SUBSET (Moved \X Rows), lacks: SUBSET Columns]]
  /\ kills \in 0..SetupBound

SetupInit ==
  /\ corpus \in [Moved -> {Absent, Table({"old"})}]
  /\ moved = [t \in Moved |-> Absent]
  /\ columns \in SUBSET Columns /\ filled = FALSE
  /\ stored = {tr \in Moved \X Rows : tr[2] \in corpus[tr[1]].rows}
  /\ starter = [p \in Starters |-> Off]
  /\ dropped = {} /\ kills = 0

StandsAt(p, step) == starter[p].at = step

\* Who commits to both files holds the write locks of both; readers are let in.
Committing == \E p \in Starters : StandsAt(p, "inserts") \/ StandsAt(p, "drops")

Fails(p) == starter' = [starter EXCEPT ![p] = [Off EXCEPT !.at = "failed"]]

-----------------------------------------------------------------------------
(* _relocate_tables.                                                       *)

\* The tables that the corpus file still has; when there are none, nothing moves.
ListLegacy(p) ==
  LET legacy == {t \in Moved : corpus[t].there} IN
  /\ StandsAt(p, "off")
  /\ starter' = [starter EXCEPT ![p].listed = legacy,
                                ![p].at = IF legacy = {} THEN "inspect" ELSE "list"]
  /\ UNCHANGED <<corpus, moved, columns, filled, stored, dropped, kills>>

\* Which of them the other file lacks.  Each is created there by a statement of its own.
InspectMoved(p) ==
  /\ StandsAt(p, "list")
  /\ starter' = [starter EXCEPT ![p].at = "schema",
                                ![p].absent = {t \in starter[p].listed : ~moved[t].there}]
  /\ UNCHANGED <<corpus, moved, columns, filled, stored, dropped, kills>>

CreateMoved(p) == \E t \in starter[p].absent \ starter[p].made :
  /\ StandsAt(p, "schema") /\ ~Committing
  /\ IF moved[t].there THEN Fails(p) /\ UNCHANGED moved   \* another process has created it
     ELSE /\ moved' = [moved EXCEPT ![t] = Table({})]
          /\ starter' = [starter EXCEPT ![p].made = @ \union {t}]
  /\ UNCHANGED <<corpus, columns, filled, stored, dropped, kills>>

\* One transaction inserts the rows that are not there and drops the tables.  It fails on a
\* table that has gone.  The files are in WAL mode, where SQLite commits a transaction over
\* several of them file by file, the corpus file as a rule first.
CopiedIfMade(p, t) == IF t \in starter[p].made THEN corpus[t].rows ELSE {}
Copied(p, t) == corpus[t].rows

With(listed, carried) == [t \in Moved |->
  IF t \in listed THEN Table(moved[t].rows \union {r \in Rows : <<t, r>> \in carried}) ELSE moved[t]]
Without(listed) == [t \in Moved |-> IF t \in listed THEN Absent ELSE corpus[t]]

CopyRows(p) ==
  LET listed  == starter[p].listed
      carried == {tr \in listed \X Rows : tr[2] \in Copied(p, tr[1])} IN
  /\ StandsAt(p, "schema") /\ ~Committing /\ starter[p].made = starter[p].absent
  /\ \/ (\E t \in listed : ~corpus[t].there) /\ Fails(p) /\ UNCHANGED <<corpus, moved>>
     \/ /\ \A t \in listed : corpus[t].there
        /\ \/ /\ corpus' = Without(listed) /\ UNCHANGED moved
              /\ starter' = [starter EXCEPT ![p].at = "inserts", ![p].carried = carried]
           \/ /\ moved' = With(listed, carried) /\ UNCHANGED corpus
              /\ starter' = [starter EXCEPT ![p].at = "drops"]
  /\ UNCHANGED <<columns, filled, stored, dropped, kills>>

FinishCopy(p) ==
  LET listed == starter[p].listed IN
  /\ \/ StandsAt(p, "inserts") /\ moved' = With(listed, starter[p].carried) /\ UNCHANGED corpus
     \/ StandsAt(p, "drops") /\ corpus' = Without(listed) /\ UNCHANGED moved
  /\ starter' = [starter EXCEPT ![p] = [Off EXCEPT !.at = "inspect"]]
  /\ UNCHANGED <<columns, filled, stored, dropped, kills>>

-----------------------------------------------------------------------------
(* _ensure_columns and _ensure_app_columns.  Statements commit one by one  *)
(* until the first UPDATE opens a transaction, which the rest shares.      *)

InspectColumns(p) ==
  /\ StandsAt(p, "inspect")
  /\ starter' = [starter EXCEPT ![p].at = "columns", ![p].lacks = Columns \ columns]
  /\ UNCHANGED <<corpus, moved, columns, filled, stored, dropped, kills>>

AddColumn(p) == \E c \in starter[p].lacks :
  /\ StandsAt(p, "columns") /\ ~Committing
  /\ IF c \in columns THEN Fails(p) /\ UNCHANGED columns   \* another process has added it
     ELSE /\ columns' = columns \union {c}
          /\ starter' = [starter EXCEPT ![p].lacks = @ \ {c}]
  /\ UNCHANGED <<corpus, moved, filled, stored, dropped, kills>>

\* The backfills, the rebuilt tables, the indexes; then the tables that are still missing.
FillRows(p) ==
  /\ StandsAt(p, "columns") /\ ~Committing /\ starter[p].lacks = {}
  /\ filled' = TRUE
  /\ moved' = [t \in Moved |-> IF moved[t].there THEN moved[t] ELSE Table({})]
  /\ starter' = [starter EXCEPT ![p] = [Off EXCEPT !.at = "up"]]
  /\ UNCHANGED <<corpus, columns, stored, dropped, kills>>

-----------------------------------------------------------------------------
WriteRow(p) == \E t \in Moved :
  /\ StandsAt(p, "up") /\ ~Committing /\ <<t, "new">> \notin stored
  /\ moved' = [moved EXCEPT ![t].rows = @ \union {"new"}]
  /\ stored' = stored \union {<<t, "new">>}
  /\ UNCHANGED <<corpus, columns, filled, starter, dropped, kills>>

\* A process is killed, or ends, and another may start.
Kill(p) ==
  /\ ~StandsAt(p, "off") /\ kills < SetupBound
  /\ starter' = [starter EXCEPT ![p] = Off] /\ kills' = kills + 1
  /\ dropped' = IF StandsAt(p, "inserts") THEN dropped \union starter[p].carried ELSE dropped
  /\ UNCHANGED <<corpus, moved, columns, filled, stored>>

SetupNext == \E p \in Starters :
  \/ ListLegacy(p) \/ InspectMoved(p) \/ CreateMoved(p) \/ CopyRows(p) \/ FinishCopy(p)
  \/ InspectColumns(p) \/ AddColumn(p) \/ FillRows(p) \/ WriteRow(p) \/ Kill(p)

SetupSpec == SetupInit /\ [][SetupNext]_setupVars

-----------------------------------------------------------------------------
(* However many processes start at once and wherever one is killed, every  *)
(* row is in one of the files, or with the process that commits it from    *)
(* one to the other; it is lost only when that one is killed between the   *)
(* two commits.  And a process that is up has every table, column and      *)
(* backfilled row that its models assume.                                  *)
RowsAreKept ==
  /\ \A tr \in stored \ dropped :
       \/ tr[2] \in corpus[tr[1]].rows \union moved[tr[1]].rows
       \/ \E p \in Starters : StandsAt(p, "inserts") /\ tr \in starter[p].carried
  /\ \A p \in Starters : StandsAt(p, "up") =>
       /\ columns = Columns /\ filled
       /\ \A t \in Moved : moved[t].there /\ ~corpus[t].there
=============================================================================
