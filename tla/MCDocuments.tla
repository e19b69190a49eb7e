---------------------------- MODULE MCDocuments -----------------------------
(***************************************************************************)
(* An instance of Documents for TLC: the kinds of documents and of errands *)
(* it looks at, and the bounds that are functions.                         *)
(***************************************************************************)
EXTENDS Documents

LOCAL Holding(says, embedded, takes) ==
  [says |-> says, permitted |-> TRUE, embedded |-> embedded, takes |-> takes]

\* A document that holds the words of the query, at length, or is not embedded; one that holds only
\* a term of the model's; one that is only near; and one the filters do not let in.
Kinds ==
  {Holding("query", TRUE, 1), Holding("query", FALSE, 2), Holding("other", FALSE, 1),
   Holding("nothing", TRUE, 1), [Holding("query", TRUE, 1) EXCEPT !.permitted = FALSE]}

ErrandsRun  ==
  {"sync", "lazy", "body", "fetch", "mend", "refresh", "view", "reload", "reextract", "anew"}
ChainLimits == [relate |-> 1, fold |-> 2, fail |-> 1]

PartsByTitle  == <<"chapter 1", "chapter 2">>
PartsReplaced == {"chapter 2"}

\* Two documents whose labels make the same slug, and one whose label is that slug with a number;
\* the first two are joined by a relationship.
Slugs  == [d \in {"d1", "d2", "d3"} |-> IF d = "d3" THEN <<1, 2>> ELSE <<1>>]
Joined == {<<"d1", "d2">>}

\* Three circulars, of which the latest amends the second by name, and replaces all on a subject that
\* both the others have in their titles; the second lists the first in an annexure, and both
\* list themselves; the first has no text.
LOCAL Text(names, about, annexed) == [names |-> names, subject |-> about, annexed |-> annexed]
IssuedIn == [c \in {"g1", "g2", "g3"} |-> CASE c = "g1" -> 1 [] c = "g2" -> 2 [] OTHER -> 3]
Titles   == [c \in {"g1", "g2", "g3"} |-> IF c = "g1" THEN {"a"} ELSE {"a", "b"}]
Texts    == [c \in {"g1", "g2", "g3"} |->
  CASE c = "g3" -> Text({<<"amends", "g2">>}, {"a"}, {"g3"})
    [] c = "g2" -> Text({}, {"b"}, {"g1", "g2"})
    [] OTHER    -> Text({}, {}, {})]
NoText   == {"g1"}

\* `graph` without end, to a depth anew, and limited; a batch that reads anew, and a job.
LOCAL Plan(mode, todo, depth, most, anew) ==
  [mode |-> mode, todo |-> todo, depth |-> depth, limit |-> most, refresh |-> anew]
PlansOf == [d \in {"d1", "d2"} |->
  IF d = "d1" THEN {Plan("graph", <<"g2">>, 0, 0, FALSE), Plan("graph", <<"g1">>, 1, 0, TRUE),
                    Plan("graph", <<"g3", "g1">>, 0, 1, FALSE)}
  ELSE {Plan("batch", <<"g3">>, 0, 0, TRUE), Plan("job", <<"g3">>, 0, 0, TRUE)}]

=============================================================================
