--------------------------- MODULE RelationGraph ----------------------------
(***************************************************************************)
(* The relationships between circulars (supersession.py, the commands      *)
(* `graph` and `relationships` of cli/commands.py, generation jobs): what  *)
(* a circular says it does to others is read by the model, or found in an  *)
(* annexure, or follows from its superseding all that was said of a        *)
(* subject; `graph` goes from circular to circular along what it finds;    *)
(* and an answer that cites a circular that was replaced is warned about   *)
(* (answer_checks.py).                                                     *)
(*                                                                         *)
(* A cancellation is taken for a supersession.                             *)
(***************************************************************************)
EXTENDS Naturals, FiniteSets, Sequences, SequencesExt

CONSTANTS
  Issued,         \* when each circular was issued
  Title,          \* the significant words of its title
  Says,           \* what its text says: of which circulars by name, of which subject, of which in an annexure
  Textless,       \* the circulars that have no text of their own
  Plans,          \* the commands or jobs that each driver may be, once
  ShortlistLimit, \* SHORTLIST_LIMIT
  ReviewLimit,    \* MAX_SHORTLIST_BEFORE_REVIEW
  ApplyLimit,     \* MAX_AUTO_APPLY
  AnnexureLimit,  \* MAX_ANNEXURE_REFS
  SlipBound       \* how many readings may fail, and drivers die

Corpus  == DOMAIN Issued
Drivers == DOMAIN Plans

VARIABLES
  links,   \* the relationships each circular states
  grasped, \* the circulars whose relationships were generated
  status,  \* what each circular is shown as
  driver,  \* the commands and jobs
  keeper,  \* the driver whose transaction has written, and is not committed
  told,    \* the supersessions that the statuses were derived from, and no reading since has dropped
  foreign, \* what another has stored since a driver began
  reply,   \* the warning of an answer, and whether it lets one take a circular for being in force
  slips

graphVars == <<links, grasped, status, driver, keeper, told, foreign, reply, slips>>

-----------------------------------------------------------------------------
Relations == {"amends", "clarifies", "supersedes"}
Row       == [kind : Relations, to : Corpus, by : {"name", "subject", "annexure"}]
NoPlan    == [mode |-> "none", todo |-> <<>>, depth |-> 0, limit |-> 0, refresh |-> FALSE]
NoDriver  == [at |-> "off", plan |-> NoPlan, queue |-> <<>>, seen |-> {}, now |-> <<>>, count |-> 0,
              deletes |-> FALSE, failed |-> {}]
Stopped   == [NoDriver EXCEPT !.at = "stopped"]
Ended(w)  == [NoDriver EXCEPT !.at = "ended", !.plan = w.plan, !.seen = w.seen, !.failed = w.failed]
NobodyYet == "nobody"

GraphTypeOK ==
  /\ \A c \in Corpus : links[c] \subseteq Row
  /\ grasped \subseteq Corpus /\ status \in [Corpus -> {"active", "amended", "superseded"}]
  /\ \A d \in Drivers : /\ driver[d].at \in {"reading", "off", "next", "around", "deriving", "ended", "stopped"}
                        /\ driver[d].seen \subseteq Corpus \X (0..Cardinality(Corpus))
  /\ keeper \in Drivers \union {NobodyYet} /\ slips \in 0..SlipBound

GraphInit ==
  /\ links = [c \in Corpus |-> {}] /\ grasped = {} /\ status = [c \in Corpus |-> "active"]
  /\ driver = [d \in Drivers |-> NoDriver] /\ keeper = NobodyYet
  /\ told = {} /\ foreign = [d \in Drivers |-> {}]
  /\ reply = [is |-> "none", misled |-> FALSE] /\ slips = 0

Pairs(rows) == {p \in Corpus \X Corpus : \E x \in rows[p[1]] : x.kind = "supersedes" /\ x.to = p[2]}
Move(d, w)  == driver' = [driver EXCEPT ![d] = w]
Free(d)     == keeper \in {NobodyYet, d}

-----------------------------------------------------------------------------
(* find_blanket_superseded: the earlier circulars whose titles have every  *)
(* word of the subject, the best of them, and of these what the model      *)
(* confirms; nothing where they are implausibly many.                      *)

\* Faulty variant: the later ones too.
AnyOnSubject(c) == {e \in Corpus : Issued[e] # 0 /\ e # c /\ Says[c].subject \subseteq Title[e]}
OnSubject(c) ==
  {e \in Corpus : Issued[e] # 0 /\ Issued[e] < Issued[c] /\ e # c /\ Says[c].subject \subseteq Title[e]}

Score(c, e) == Cardinality(Title[e] \intersect (Says[c].subject \union Title[c]))
Shortlists(c) ==
  {s \in SUBSET OnSubject(c) :
     /\ Cardinality(s) = IF Cardinality(OnSubject(c)) < ShortlistLimit THEN Cardinality(OnSubject(c)) ELSE ShortlistLimit
     /\ \A e \in s, f \in OnSubject(c) \ s : Score(c, f) <= Score(c, e)}
Confirmed(c) ==
  IF Issued[c] = 0 \/ Says[c].subject = {} \/ Cardinality(OnSubject(c)) > ReviewLimit THEN {{}}
  ELSE {IF Cardinality(s) > ApplyLimit THEN {} ELSE s : s \in UNION {SUBSET t : t \in Shortlists(c)}}

\* apply_blanket_supersession: what is already linked as superseded is skipped.
Blanket(targets, stored) ==
  {[kind |-> "supersedes", to |-> e, by |-> "subject"] :
     e \in {f \in targets : ~\E x \in stored : x.kind = "supersedes" /\ x.to = f}}

\* apply_annexure_supersession: so is whatever is linked at all, and the circular itself.
Annexed(c, stored) ==
  IF Cardinality(Says[c].annexed) > AnnexureLimit THEN {}
  ELSE {[kind |-> "supersedes", to |-> e, by |-> "annexure"] :
          e \in {f \in Says[c].annexed : f # c /\ ~\E x \in stored : x.to = f}}

\* extract_relationships: what the text says of others by name.
ByName(c) == {[kind |-> n[1], to |-> n[2], by |-> "name"] : n \in Says[c].names}

-----------------------------------------------------------------------------
(* The drivers.                                                            *)

\* What of a sequence is in a set.
Wanted(todo, cs) ==
  LET wanted[n \in 0..Len(todo)] ==
        IF n = 0 THEN <<>> ELSE IF todo[n] \in cs THEN Append(wanted[n - 1], todo[n]) ELSE wanted[n - 1]
  IN wanted[Len(todo)]

\* The circulars of a plan: the one `graph` is given, whatever it is; of the others, those that have a
\* text, and those of them not read yet, unless they are read anew or the one of a job; and what
\* `relationships --refresh` commits before it begins, the textless circulars' too.
Start(d, p) ==
  LET empty == p.mode = "batch" /\ p.refresh
      wants == {c \in Corpus : \/ p.mode = "graph" /\ Len(p.todo) = 1
                               \/ /\ c \notin Textless
                                  /\ \/ p.refresh \/ p.mode = "job"
                                     \/ IF p.mode = "batch" THEN links[c] = {} ELSE c \notin grasped}
      todo  == Wanted(p.todo, wants)
  IN
  /\ driver[d].at = "off" /\ empty => keeper = NobodyYet
  /\ Move(d, [NoDriver EXCEPT !.at = "next", !.plan = p, !.queue = [i \in DOMAIN todo |-> <<todo[i], 0>>]])
  /\ links' = [c \in Corpus |-> IF empty /\ c \in Range(p.todo) THEN {} ELSE links[c]]
  /\ UNCHANGED <<grasped, status, keeper, told, foreign, reply, slips>>

\* `graph` goes to a circular once; it reads one whose relationships were generated only to refresh
\* them, and one that has no text not at all, and its neighbours come next in any case.
Next1(d) ==
  LET w == driver[d]  c == w.queue[1][1]  rest == [w EXCEPT !.queue = Tail(@), !.now = w.queue[1]]
      reads == w.plan.mode # "graph" \/ (c \notin Textless /\ (w.plan.refresh \/ c \notin grasped))
      deletes == w.plan.mode = "graph" /\ w.plan.refresh /\ c \in grasped /\ c \notin Textless
  IN
  /\ w.at = "next" /\ w.queue # <<>> /\ (w.plan.limit = 0 \/ w.count < w.plan.limit)
  /\ IF w.plan.mode = "graph" /\ \E s \in w.seen : s[1] = c
     THEN Move(d, [w EXCEPT !.queue = Tail(@)]) /\ UNCHANGED keeper
     ELSE /\ deletes => Free(d)
          /\ keeper' = IF deletes THEN d ELSE keeper
          /\ Move(d, [rest EXCEPT !.seen = IF w.plan.mode = "graph" THEN @ \union {w.queue[1]} ELSE @, !.deletes = deletes,
                                  !.at = IF reads THEN "reading" ELSE "around"])
  /\ UNCHANGED <<links, grasped, status, told, foreign, reply, slips>>

\* _recompute_statuses: whatever relates to a circular without replacing it amends it.
StatusOf(rows, c) ==
  LET kinds == {x.kind : x \in {y \in UNION {rows[s] : s \in Corpus} : y.to = c}} IN
  IF "supersedes" \in kinds THEN "superseded" ELSE IF kinds # {} THEN "amended" ELSE "active"
Derives(rows) == status' = [c \in Corpus |-> StatusOf(rows, c)] /\ told' = Pairs(rows)

\* The model finds what the circular says, or nothing; what that supersedes follows, beside what is
\* stored, though not beside what is pending; and all is committed.  A job deletes what was there,
\* and derives the statuses, in the same transaction.
ReadOne(d) ==
  LET w == driver[d]  c == w.now[1]
      stored == IF w.deletes \/ w.plan.mode = "job" THEN {} ELSE links[c]
      said(targets) == ByName(c) \union Blanket(targets, stored) \union Annexed(c, stored) IN
  /\ w.at = "reading" /\ Free(d) /\ keeper' = NobodyYet
  /\ \E found \in {{}} \union {said(targets) : targets \in Confirmed(c)} :
       links' = [links EXCEPT ![c] = stored \union found]
  /\ grasped' = grasped \union {c}
  /\ IF w.plan.mode = "job" THEN Derives(links')
     ELSE UNCHANGED status /\ told' = {p \in told : p[1] = c => p \in Pairs(links')}
  /\ foreign' = [x \in Drivers |-> IF x = d THEN foreign[x] ELSE foreign[x] \union {c}]
  /\ Move(d, IF w.plan.mode = "job" THEN Ended(w)
             ELSE [w EXCEPT !.at = IF w.plan.mode = "graph" THEN "around" ELSE "next", !.count = @ + 1, !.deletes = FALSE])
  /\ UNCHANGED <<reply, slips>>

\* A reading fails and is rolled back; the provider may also refuse any further call.
FailOne(d) ==
  LET w == driver[d]  on == [w EXCEPT !.deletes = FALSE, !.failed = @ \union {w.now[1]}] IN
  /\ w.at = "reading" /\ slips < SlipBound /\ slips' = slips + 1
  /\ keeper' = IF keeper = d THEN NobodyYet ELSE keeper
  /\ \/ w.plan.mode = "graph" /\ Move(d, [on EXCEPT !.at = "around"])
     \/ w.plan.mode = "batch" /\ Move(d, [on EXCEPT !.at = "next"])
     \/ Move(d, Stopped)
  /\ UNCHANGED <<links, grasped, status, told, foreign, reply>>

\* The neighbours of a circular, both ways.  Faulty variant: what it names.
NeighboursNamed(c) == {x.to : x \in links[c]}
Neighbours(c) == {x.to : x \in links[c]} \union {s \in Corpus : \E x \in links[s] : x.to = c}

GoAround(d) ==
  LET w == driver[d]  hop == w.now[2]
      new == Neighbours(w.now[1]) \ {s[1] : s \in w.seen} IN
  /\ w.at = "around"
  /\ Move(d, [w EXCEPT !.at = "next",
                       !.queue = IF w.plan.depth = 0 \/ hop < w.plan.depth
                                 THEN @ \o [i \in 1..Cardinality(new) |-> <<SetToSeq(new)[i], hop + 1>>] ELSE @])
  /\ UNCHANGED <<links, grasped, status, keeper, told, foreign, reply, slips>>

\* When `graph` is done, or has done as many as it may, it derives the statuses.
EndOne(d) ==
  LET w == driver[d] IN
  /\ w.at = "next" /\ (w.queue = <<>> \/ (w.plan.limit # 0 /\ w.count >= w.plan.limit))
  /\ IF w.plan.mode = "graph" THEN Free(d) /\ Derives(links) ELSE UNCHANGED <<status, told>>
  /\ Move(d, Ended(w))
  /\ UNCHANGED <<links, grasped, keeper, foreign, reply, slips>>

DriverDies(d) ==
  /\ driver[d].at \in {"reading", "next", "around"} /\ slips < SlipBound /\ slips' = slips + 1
  /\ keeper' = IF keeper = d THEN NobodyYet ELSE keeper
  /\ Move(d, Stopped)
  /\ UNCHANGED <<links, grasped, status, told, foreign, reply>>

-----------------------------------------------------------------------------
(* _supersession: the warning of an answer that cites a circular, may name *)
(* another, and may say that the one it cites was replaced.                *)

By(kinds, c) == {s \in Corpus : \E x \in links[s] : x.kind \in kinds /\ x.to = c}
\* Faulty variant: a circular was withdrawn if its status says so.
WithdrawnByStatus(c) == status[c] = "superseded"
Withdrawn(c) == status[c] = "superseded" \/ By({"supersedes"}, c) # {}
Amending(c) == {s \in By({"amends"}, c) : status[s] # "superseded"}

Check(c, names, gone) ==
  LET said == {c} \union names
      high   == Withdrawn(c) /\ said \intersect By({"supersedes"}, c) = {} /\ ~gone
      medium == ~Withdrawn(c) /\ Amending(c) # {} /\ said \intersect Amending(c) = {} /\ ~gone
      replacing == {s \in Corpus : <<s, c>> \in told \union Pairs(links)} IN
  /\ reply' = [is |-> IF high \/ medium THEN "warned" ELSE "passed",
               misled |-> ~high /\ ~gone /\ replacing # {} /\ replacing \intersect said = {}]
  /\ UNCHANGED <<links, grasped, status, driver, keeper, told, foreign, slips>>

\* An answer ends a behaviour.
GraphNext ==
  /\ reply.is = "none"
  /\ \/ \E d \in Drivers : \/ Next1(d) \/ ReadOne(d) \/ FailOne(d) \/ GoAround(d) \/ EndOne(d)
                           \/ DriverDies(d) \/ \E p \in Plans[d] : Start(d, p)
     \/ \E c \in Corpus, gone \in BOOLEAN : \E names \in {{}} \union {{n} : n \in Corpus \ {c}} : Check(c, names, gone)

GraphSpec == GraphInit /\ [][GraphNext]_graphVars

-----------------------------------------------------------------------------
(* Properties.                                                             *)

\* When `graph` ends, and was neither stopped nor limited, every circular that relates to one it
\* went through has been gone through too, unless another stored that meanwhile; each that has a text
\* has been read since it began, or before, or its reading failed (commands.py:624).
GraphIsCovered ==
  \A d \in Drivers :
    LET w == driver[d]  seen == {s[1] : s \in w.seen} IN
    w.at = "ended" /\ w.plan.mode = "graph" /\ w.plan.limit = 0 =>
      /\ \A s \in w.seen : w.plan.depth = 0 \/ s[2] < w.plan.depth =>
           \A c \in Corpus \ seen :
             /\ s[1] \notin foreign[d] => ~\E x \in links[s[1]] : x.to = c
             /\ c \notin foreign[d] => ~\E x \in links[c] : x.to = s[1]
      /\ seen \subseteq grasped \union w.failed \union Textless

\* Of two circulars that say something of all that was said before on a subject, at most one
\* replaces the other, and none replaces itself, by its subject or by its annexure.
NoneReplacesItself ==
  \A c, e \in Corpus :
    [kind |-> "supersedes", to |-> e, by |-> "subject"] \in links[c] =>
      /\ [kind |-> "supersedes", to |-> c, by |-> "subject"] \notin links[e]
      /\ [kind |-> "supersedes", to |-> c, by |-> "annexure"] \notin links[c]

\* An answer that cites a circular that was replaced, without a word and without naming what
\* replaced it, is warned about: from when that is stored, though the statuses are not derived yet,
\* and while a command has removed it to read it again, until statuses are derived (answer_checks.py:16).
ReplacedIsWarned == ~reply.misled
=============================================================================
