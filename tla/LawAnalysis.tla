---------------------------- MODULE LawAnalysis -----------------------------
(***************************************************************************)
(* What the model is asked of the laws (laws_ai.py, and the commands of    *)
(* cli/commands.py that analyse a corpus): jobs and commands draw from the *)
(* text of the edition in force while a sync brings the next, and roll the *)
(* summaries of the parts of a collection up into one.                     *)
(*                                                                         *)
(* A checklist is drawn and kept as the entities are, and is left out, as  *)
(* are the types that the links of circulars to laws are given.            *)
(***************************************************************************)
EXTENDS Naturals, FiniteSets, Sequences

CONSTANTS
  PartOrder,    \* the parts of a collection, laws with a text, by title
  Revised,      \* those of which another edition may come
  Jobs,         \* generation jobs the server may be asked for
  Commands,     \* runs of a command
  EditionBound, \* how many editions of a part there may be
  TroubleBound  \* how many calls of the model may fail, and processes die

Whole    == "whole"
Parts    == {PartOrder[i] : i \in DOMAIN PartOrder}
Laws     == Parts \union {Whole}
Editions == 1..EditionBound
Runners  == Jobs \union Commands

VARIABLES
  current, \* the edition in force of each part, 0: there is no text
  sheet,   \* what was drawn from each edition of each part
  rollup,  \* what was drawn from the parts of the collection
  edges,   \* the relationships of each law, by who wrote them and from which text
  writer,  \* the runner whose transaction has written, and is not committed
  runner,  \* the jobs and commands
  troubles

analysisVars == <<current, sheet, rollup, edges, writer, runner, troubles>>

-----------------------------------------------------------------------------
Features  == {"summary", "tags", "entities", "relationships"}
OfParts   == {"summary", "tags", "relationships"}
NoSheet   == [summary |-> 0, tags |-> 0, entities |-> {}, related |-> FALSE]
NoRollup  == [is |-> FALSE, of |-> {}, by |-> "none", tags |-> FALSE, related |-> {}]
NoRunner  == [at |-> "off", law |-> Whole, ask |-> "none", todo |-> <<>>, left |-> <<>>, force |-> FALSE,
              edition |-> 0, manifest |-> [p \in Parts |-> 0], sources |-> {}, out |-> NoSheet, has |-> {},
              relates |-> FALSE, deletes |-> FALSE, named |-> {}, pending |-> {}, alone |-> TRUE, drew |-> {}]
Busy      == {"drawing", "naming", "citing", "persisting"}
Places    == Busy \union {"off", "queued", "picking", "ended", "failed"}
Drawings  == [by : Runners, text : Editions]

AnalysisTypeOK ==
  /\ current \in [Parts -> 0..EditionBound]
  /\ \A p \in Parts, e \in Editions :
       /\ {sheet[p][e].summary, sheet[p][e].tags} \subseteq 0..EditionBound /\ sheet[p][e].related \in BOOLEAN
       /\ sheet[p][e].entities \subseteq Drawings
  /\ rollup.is \in BOOLEAN /\ rollup.of \subseteq Parts \X Editions
  /\ \A l \in Laws : edges[l] \subseteq Drawings
  /\ writer \in Runners \union {"none"}
  /\ \A r \in Runners : runner[r].at \in Places /\ runner[r].edition \in 0..EditionBound
  /\ troubles \in 0..TroubleBound

AnalysisInit ==
  /\ current \in [Parts -> 0..1] /\ \A p \in Parts \ Revised : current[p] = 1
  /\ sheet = [p \in Parts |-> [e \in Editions |-> NoSheet]]
  /\ rollup = NoRollup /\ edges = [l \in Laws |-> {}]
  /\ writer = "none" /\ runner = [r \in Runners |-> NoRunner] /\ troubles = 0

-----------------------------------------------------------------------------
(* What a law has to be drawn from, and what has been.                     *)

\* rollup_sources: the parts whose edition in force has a summary.
Sources == {<<p, current[p]>> : p \in {q \in Parts : current[q] # 0 /\ sheet[q][current[q]].summary # 0}}

\* law_corpus: the edition in force of a part; a collection has no text of its own.
EditionOf(law) == IF law \in Parts THEN current[law] ELSE 0

\* The features that are asked for, in order: what a collection cannot have is refused by name.
Requested(law, ask) ==
  IF ask # "all" THEN <<ask>>
  ELSE IF law = Whole THEN <<"summary", "tags", "relationships">>
  ELSE <<"summary", "tags", "entities", "relationships">>

Offered(law, ask) ==
  IF law = Whole THEN ask \in OfParts \union {"all"} /\ (ask \in {"summary", "all"} => Sources # {})
  ELSE current[law] # 0

\* _law_feature_done_at: of the edition in force, which of a collection is the list of its parts', or
\* of the collection.
Done(law, ask) ==
  IF law = Whole
  THEN CASE ask = "summary" -> rollup.is [] ask = "tags" -> rollup.tags
         [] ask = "relationships" -> current \in rollup.related [] OTHER -> FALSE
  ELSE current[law] # 0 /\ LET s == sheet[law][current[law]] IN
       CASE ask = "summary" -> s.summary # 0 [] ask = "tags" -> s.tags # 0
         [] ask = "entities" -> s.entities # {} [] OTHER -> s.related

-----------------------------------------------------------------------------
(* Jobs and commands.                                                      *)

Put(r, w) == runner' = [runner EXCEPT ![r] = w]
Taken(w, law, ask) ==
  [w EXCEPT !.at = "drawing", !.law = law, !.todo = Requested(law, ask), !.edition = EditionOf(law),
            !.manifest = IF law = Whole THEN current ELSE @, !.sources = Sources, !.out = NoSheet, !.has = {}]

\* generate_law_intelligence: one job of a law at a time.
AskFor(j, law, ask) ==
  /\ runner[j].at = "off" /\ Offered(law, ask)
  /\ \A k \in Jobs : runner[k].law = law => runner[k].at \notin Busy \union {"queued"}
  /\ Put(j, [NoRunner EXCEPT !.at = "queued", !.law = law, !.ask = ask])
  /\ UNCHANGED <<current, sheet, rollup, edges, writer, troubles>>

\* _run_law_generation_job: the edition is resolved once.
LoadLaw(j) ==
  LET w == runner[j] IN
  /\ w.at = "queued"
  /\ Put(j, IF Offered(w.law, w.ask) THEN Taken(w, w.law, w.ask) ELSE [w EXCEPT !.at = "failed"])
  /\ UNCHANGED <<current, sheet, rollup, edges, writer, troubles>>

\* _run_laws_feature: collections come last.  Faulty variant: in the order of the titles.
InTitleOrder(parts) == <<Whole>> \o parts
InRunOrder(parts) == Append(parts, Whole)

StartCommand(c, ask, force) ==
  /\ runner[c].at = "off"
  /\ Put(c, [NoRunner EXCEPT !.at = "picking", !.ask = ask, !.force = force, !.left = InRunOrder(PartOrder)])
  /\ UNCHANGED <<current, sheet, rollup, edges, writer, troubles>>

Pick(c) ==
  LET w == runner[c] IN
  /\ w.at = "picking" /\ w.left # <<>>
  /\ LET law == Head(w.left)  rest == [w EXCEPT !.left = Tail(w.left)] IN
     Put(c, IF (w.force \/ ~Done(law, w.ask)) /\ Offered(law, w.ask) THEN Taken(rest, law, w.ask) ELSE rest)
  /\ UNCHANGED <<current, sheet, rollup, edges, writer, troubles>>

CommandEnds(c) ==
  /\ runner[c].at = "picking" /\ runner[c].left = <<>>
  /\ Put(c, [runner[c] EXCEPT !.at = "ended"])
  /\ UNCHANGED <<current, sheet, rollup, edges, writer, troubles>>

-----------------------------------------------------------------------------
(* Drawing.                                                                *)

Next1(w) == [w EXCEPT !.todo = Tail(w.todo), !.at = IF Len(w.todo) = 1 THEN "persisting" ELSE "drawing"]

\* Tags are drawn from a summary, of which a collection must have one.
Basis(w) ==
  LET kept == IF w.law = Whole THEN 0 ELSE sheet[w.law][w.edition].summary IN
  IF "summary" \in w.has THEN w.out.summary ELSE IF kept # 0 THEN kept ELSE w.edition
Possible(w, f) ==
  \/ w.law # Whole
  \/ f = "summary" /\ w.sources # {}
  \/ f = "tags" /\ ("summary" \in w.has \/ rollup.is)

\* _compute_outputs, _compute_container_outputs: over one call of the model or more.
Draw(r) ==
  LET w == runner[r]  f == Head(w.todo)
      out == CASE f = "summary" -> [w.out EXCEPT !.summary = w.edition]
               [] f = "tags" -> [w.out EXCEPT !.tags = Basis(w)]
               [] f = "entities" -> [w.out EXCEPT !.entities = {[by |-> r, text |-> w.edition]}] IN
  /\ w.at = "drawing" /\ f # "relationships" /\ Possible(w, f)
  /\ Put(r, [Next1(w) EXCEPT !.out = out, !.has = @ \union {f}])
  /\ UNCHANGED <<current, sheet, rollup, edges, writer, troubles>>

Free(r) == writer \in {"none", r}

\* What the transaction of a runner makes of the relationships.  Faulty variant: what is there stays.
WrittenBeside(w) == edges[w.law] \union w.pending
Written(w) == IF w.deletes THEN w.pending ELSE edges[w.law] \union w.pending
Commits(r) ==
  /\ Free(r) /\ writer' = "none"
  /\ edges' = [edges EXCEPT ![runner[r].law] = Written(runner[r])]
Committed(w) == [w EXCEPT !.deletes = FALSE, !.pending = {}]

\* The law is read again where a commit has expired it: the summary's, in a job.
TextOf(r) == IF r \in Jobs /\ runner[r].ask = "all" THEN EditionOf(runner[r].law) ELSE runner[r].edition
Others(r) == {x \in Runners \ {r} : runner[x].relates /\ runner[x].law = runner[r].law}

\* _generate_relationships: what is there is deleted, before the model is asked of the laws named.
OpenEdges(r) ==
  LET w == runner[r]  found == IF TextOf(r) = 0 THEN {} ELSE {[by |-> r, text |-> TextOf(r)]} IN
  /\ w.at = "drawing" /\ Head(w.todo) = "relationships" /\ Free(r)
  /\ writer' = r
  /\ \E named \in {{}, found} :
       runner' = [x \in Runners |->
         CASE x = r -> [w EXCEPT !.at = IF named = {} THEN "citing" ELSE "naming", !.named = named,
                                 !.relates = TRUE, !.deletes = TRUE, !.alone = Others(r) = {}]
           [] x \in Others(r) -> [runner[x] EXCEPT !.alone = FALSE]
           [] OTHER -> runner[x]]
  /\ UNCHANGED <<current, sheet, rollup, edges, troubles>>

\* The progress of a job is committed, and whatever it has done so far with it.
Progress(r, w) ==
  IF r \in Jobs THEN Commits(r) /\ Put(r, Committed(w)) ELSE Put(r, w) /\ UNCHANGED <<edges, writer>>

Classify(r) ==
  LET w == runner[r] IN
  /\ w.at = "naming"
  /\ Progress(r, [w EXCEPT !.at = "citing"])
  /\ UNCHANGED <<current, sheet, rollup, troubles>>

\* The edges are added once all are classified; circulars that name the law, if any, come after.
Cite(r) ==
  LET w == [runner[r] EXCEPT !.pending = runner[r].named] IN
  /\ w.at = "citing"
  /\ \/ Put(r, Next1(w)) /\ UNCHANGED <<edges, writer>>
     \/ IF r \in Jobs
        THEN /\ Free(r) /\ writer' = "none"
             /\ edges' = [edges EXCEPT ![w.law] = Written(w)] /\ Put(r, Committed(Next1(w)))
        ELSE Put(r, Next1(w)) /\ UNCHANGED <<edges, writer>>
  /\ UNCHANGED <<current, sheet, rollup, troubles>>

-----------------------------------------------------------------------------
(* _persist_outputs.                                                       *)

\* The edition that what was drawn is kept with.  Faulty variant: the one in force.
IntoCurrent(w) == current[w.law]
Into(w) == w.edition

Kept(w, s) ==
  [summary  |-> IF "summary" \in w.has THEN w.out.summary ELSE s.summary,
   tags     |-> IF "tags" \in w.has THEN w.out.tags ELSE s.tags,
   entities |-> IF "entities" \in w.has THEN w.out.entities ELSE s.entities,
   related  |-> s.related \/ w.relates]
RolledUp(r, w) ==
  [is |-> rollup.is \/ "summary" \in w.has, tags |-> rollup.tags \/ "tags" \in w.has,
   of |-> IF "summary" \in w.has THEN w.sources ELSE rollup.of,
   by |-> IF "summary" \in w.has THEN r ELSE rollup.by, related |-> rollup.related \union {m \in {w.manifest} : w.relates}]

After(r, w, well) ==
  LET idle == [NoRunner EXCEPT !.ask = w.ask, !.force = w.force, !.left = w.left, !.law = w.law, !.alone = w.alone,
                               !.drew = IF well /\ w.law # Whole THEN w.drew \union {<<w.law, w.edition>>} ELSE w.drew] IN
  [idle EXCEPT !.at = IF r \in Commands THEN "picking" ELSE IF well THEN "ended" ELSE "failed"]

Persist(r) ==
  LET w == runner[r] IN
  /\ w.at = "persisting" /\ Commits(r)
  /\ IF w.law = Whole THEN rollup' = RolledUp(r, w) /\ UNCHANGED sheet
     ELSE sheet' = [sheet EXCEPT ![w.law][Into(w)] = Kept(w, @)] /\ UNCHANGED rollup
  /\ Put(r, After(r, w, TRUE))
  /\ UNCHANGED <<current, troubles>>

\* A call fails, or what is asked of a collection is not possible: what is not committed is undone.
Undone(r) == writer' = IF writer = r THEN "none" ELSE writer
Trouble == troubles < TroubleBound /\ troubles' = troubles + 1

DrawFails(r) ==
  LET w == runner[r] IN
  /\ w.at \in Busy
  /\ IF w.at = "drawing" /\ ~Possible(w, Head(w.todo)) /\ Head(w.todo) # "relationships"
     THEN UNCHANGED troubles ELSE Trouble
  /\ Undone(r) /\ Put(r, After(r, w, FALSE))
  /\ UNCHANGED <<current, sheet, rollup, edges>>

Dies(r) ==
  /\ runner[r].at \in Busy \union {"picking"} /\ Trouble
  /\ Undone(r) /\ Put(r, [After(r, runner[r], FALSE) EXCEPT !.at = "failed"])
  /\ UNCHANGED <<current, sheet, rollup, edges>>

\* A sync brings the next edition of a part into force.
Replace(p) ==
  /\ current[p] < EditionBound /\ writer = "none"
  /\ current' = [current EXCEPT ![p] = @ + 1]
  /\ UNCHANGED <<sheet, rollup, edges, writer, runner, troubles>>

AnalysisNext ==
  \/ \E p \in Revised : Replace(p)
  \/ \E j \in Jobs : LoadLaw(j) \/ \E law \in Laws, ask \in Features \union {"all"} : AskFor(j, law, ask)
  \/ \E c \in Commands : Pick(c) \/ CommandEnds(c) \/ \E ask \in Features, force \in BOOLEAN : StartCommand(c, ask, force)
  \/ \E r \in Runners : Draw(r) \/ OpenEdges(r) \/ Classify(r) \/ Cite(r) \/ Persist(r) \/ DrawFails(r) \/ Dies(r)

AnalysisSpec == AnalysisInit /\ [][AnalysisNext]_analysisVars

-----------------------------------------------------------------------------
(* Properties.                                                             *)

\* What is kept with an edition was drawn from its text, whatever comes into force meanwhile
\* (laws_ai.py:613), and its values from one reading of it, whoever else reads it.
KeptWithItsEdition ==
  \A p \in Parts, e \in Editions :
    LET s == sheet[p][e] IN
    /\ {s.summary, s.tags} \subseteq {0, e}
    /\ \A x \in s.entities : x.text = e /\ \A y \in s.entities : x = y

\* The summary of a collection that a command has made covers each part it summarised before, and
\* that has not changed since (commands.py:2319).
RollupSeesItsParts ==
  \A c \in Commands :
    rollup.by = c /\ runner[c].ask = "summary"
    => \A x \in runner[c].drew : x \in rollup.of \/ current[x[1]] # x[2]

\* The relationships of a law are those that one analysis found, unless two overlapped.
EdgesAreReplaced ==
  \A l \in Laws : \A x, y \in edges[l] : runner[x.by].alone /\ runner[y.by].alone => x = y
=============================================================================
