-------------------------- MODULE AmendmentChains ---------------------------
(***************************************************************************)
(* Consolidations of amendment chains (consolidation.py): a circular's     *)
(* chain follows from the relationships that are stored; a generation      *)
(* folds the requirements of its first circular and the changes of the     *)
(* others into one list, over many calls of the model, and stores it under *)
(* the first circular, while analyses rewrite relationships and other      *)
(* generations do the same.                                                *)
(***************************************************************************)
EXTENDS Naturals, FiniteSets, Sequences

CONSTANTS
  Lineage,   \* how many circulars there are: 1..Lineage, in order of date
  ChainMax,  \* CHAIN_MAX_MEMBERS
  Folders,   \* jobs and commands that consolidate
  FirstItems, \* the requirements a first circular may have
  ItemBound, \* how many requirements a consolidation may come to have
  ChainBound, \* how often each kind of event may happen
  ChainTotal \* how many there may be

ChainEvents == {"relate", "fold", "fail"}
Circular == 1..Lineage

VARIABLES
  amendments, \* the relationships of type amends and adds_to: <<source, target>>
  blank,      \* circulars without text
  merged,     \* the stored consolidation of each first circular
  folding,    \* what each job or command has of one
  chainCount

chainVars == <<amendments, blank, merged, folding, chainCount>>

-----------------------------------------------------------------------------
(* Chains.                                                                 *)

\* The circulars one relationship away from a set: those that amend it, or those it amends.
Beside(es, cs, forward) ==
  IF forward THEN {e[1] : e \in {x \in es : x[2] \in cs}} ELSE {e[2] : e \in {x \in es : x[1] \in cs}}

\* _closure: level by level, while there are not too many.
Closure(es, start, forward) ==
  LET go[k \in 0..Lineage] ==
        IF k = 0 THEN [seen |-> start, front |-> start]
        ELSE LET s == go[k - 1] IN
             IF Cardinality(s.seen) > ChainMax THEN s
             ELSE [seen |-> s.seen \union Beside(es, s.front, forward),
                   front |-> Beside(es, s.front, forward) \ s.seen]
  IN go[Lineage].seen

\* resolve_chain: what the circular amends, however indirectly, and what amends any of those.
ChainOf(es, c) == Closure(es, Closure(es, {c}, FALSE), TRUE)
First(cs) == CHOOSE c \in cs : \A d \in cs : c <= d
After(cs, c) == First({d \in cs : d > c})
Last(cs) == CHOOSE c \in cs : \A d \in cs : d <= c

-----------------------------------------------------------------------------
(* Requirements. A value stands for the circular that states it; an item   *)
(* is known by its place in the list, for none is ever taken out of it.    *)

NoOne == 0
Item(c, status) ==
  [value |-> c, old |-> NoOne, by |-> c, changed |-> IF status = "added" THEN c ELSE NoOne,
   status |-> status, dropped |-> NoOne,
   history |-> IF status = "added" THEN <<[by |-> c, act |-> "added", old |-> NoOne, new |-> NoOne]>> ELSE <<>>]

Extracted(c, n) == [i \in 1..n |-> Item(c, "unchanged")]
Added(items, c) == Append(items, Item(c, "added"))

Open(items) == {i \in DOMAIN items : items[i].status # "removed"}

Removed(items, c, i) ==
  [items EXCEPT ![i].status = "removed", ![i].dropped = c,
                ![i].history = Append(@, [by |-> c, act |-> "removed", old |-> NoOne, new |-> NoOne])]

\* The change gives a new value, or only a new text.
Reworded(item, c, valued) ==
  LET now == IF valued THEN c ELSE item.value IN
  [item EXCEPT !.old = item.value, !.value = now, !.changed = c,
               !.status = IF @ = "added" THEN @ ELSE "modified",
               !.history = Append(@, [by |-> c, act |-> "modified", old |-> item.value, new |-> now])]
\* Faulty variant: the old value is read once the new one is set.
RewordedLate(item, c, valued) ==
  LET now == IF valued THEN c ELSE item.value IN
  [item EXCEPT !.old = now, !.value = now, !.changed = c,
               !.status = IF @ = "added" THEN @ ELSE "modified",
               !.history = Append(@, [by |-> c, act |-> "modified", old |-> now, new |-> now])]
Modified(items, c, i, valued) == [items EXCEPT ![i] = Reworded(@, c, valued)]

\* What the model may say that a circular changes: what is removed is not changed any more.
Revisions(items, known, c) ==
  {Removed(items, c, i) : i \in Open(items) \intersect known}
    \union {Modified(items, c, i, valued) : i \in Open(items) \intersect known, valued \in BOOLEAN}
OneChange(items, c) ==
  {items} \union {Added(items, c) : n \in {Len(items)} \intersect 0..(ItemBound - 1)}
    \union Revisions(items, DOMAIN items, c)

\* _apply_changes: one, or two of the same requirement; those of others do not meet.
Twice(items, c) ==
  UNION {Revisions(x, {i \in DOMAIN items : x[i] # items[i]}, c) : x \in OneChange(items, c)}
Changes(items, c) == OneChange(items, c) \union Twice(items, c)

-----------------------------------------------------------------------------
(* State.                                                                  *)

NoMerge == [is |-> FALSE, members |-> {}, items |-> <<>>, stale |-> FALSE, of |-> {}, raced |-> FALSE]
Away == [at |-> "off", members |-> {}, upTo |-> NoOne, items |-> <<>>, saw |-> NoMerge]

MergeTypeOK(r) ==
  /\ r.is \in BOOLEAN /\ r.members \subseteq Circular /\ r.stale \in BOOLEAN
  /\ r.of \subseteq Circular /\ r.raced \in BOOLEAN
  /\ \A i \in DOMAIN r.items : r.items[i].status \in {"unchanged", "added", "modified", "removed"}

ChainTypeOK ==
  /\ amendments \subseteq Circular \X Circular /\ blank \subseteq Circular
  /\ \A c \in Circular : MergeTypeOK(merged[c])
  /\ \A f \in Folders : /\ folding[f].at \in {"off", "extract", "fold", "commit"}
                        /\ folding[f].members \subseteq Circular /\ MergeTypeOK(folding[f].saw)
  /\ \A k \in ChainEvents : chainCount[k] \in 0..ChainBound[k]

\* Every later circular amends the one before it, or the first two have one amender.
ChainInit ==
  /\ amendments \in {{<<c, c - 1>> : c \in Circular \ {1}}, {<<Lineage, c>> : c \in 1..(Lineage - 1)}}
  /\ blank \in {{}, {Lineage}}
  /\ merged = [c \in Circular |-> NoMerge]
  /\ folding = [f \in Folders |-> Away]
  /\ chainCount = [k \in ChainEvents \union {"any"} |-> 0]

ChainHappens(k) ==
  /\ chainCount[k] < ChainBound[k] /\ chainCount["any"] < ChainTotal
  /\ chainCount' = [chainCount EXCEPT ![k] = @ + 1, !["any"] = @ + 1]

-----------------------------------------------------------------------------
(* Analyses.                                                               *)

\* mark_stale: the consolidations that touch the circular or what it now names.
Marked(c, targets) ==
  [b \in Circular |-> IF merged[b].is /\ (merged[b].members \union {b}) \intersect ({c} \union targets) # {}
                      THEN [merged[b] EXCEPT !.stale = TRUE] ELSE merged[b]]

\* A circular's relationships are rewritten in one transaction, by a job, which marks the
\* consolidations, or by a command, which does not.
Relate(c) == \E targets \in SUBSET (Circular \ {c}), marks \in BOOLEAN :
  /\ ChainHappens("relate")
  /\ amendments' = {e \in amendments : e[1] # c} \union ({c} \X targets)
  /\ merged' = IF marks THEN Marked(c, targets) ELSE merged
  /\ UNCHANGED <<blank, folding>>

-----------------------------------------------------------------------------
(* generate_consolidation.                                                 *)

Refused(cs) == Cardinality(cs) < 2 \/ Cardinality(cs) > ChainMax \/ cs \intersect blank # {}

\* For a job, the circular it was asked for; for the command, one of each chain that has no
\* consolidation as it stands, or of every chain if it is forced.  The command reads what is stored
\* first, and holds on to what it has read.
BeginFold(f, c) ==
  LET cs == ChainOf(amendments, c) IN
  /\ folding[f].at = "off" /\ ~Refused(cs) /\ ChainHappens("fold")
  /\ \E saw \in {NoMerge, merged[First(cs)]} :
       folding' = [folding EXCEPT ![f] = [Away EXCEPT !.at = "extract", !.members = cs, !.upTo = First(cs), !.saw = saw]]
  /\ UNCHANGED <<amendments, blank, merged>>

ExtractFirst(f) ==
  /\ folding[f].at = "extract"
  /\ \E n \in FirstItems :
       folding' = [folding EXCEPT ![f] = IF n = 0 THEN Away
                     ELSE [@ EXCEPT !.at = "fold", !.items = Extracted(First(folding[f].members), n)]]
  /\ UNCHANGED <<amendments, blank, merged, chainCount>>

Align(f) ==
  /\ folding[f].at = "fold" /\ folding[f].upTo # Last(folding[f].members)
  /\ LET c == After(folding[f].members, folding[f].upTo) IN
     \E items \in Changes(folding[f].items, c) :
       folding' = [folding EXCEPT ![f].items = items, ![f].upTo = c]
  /\ UNCHANGED <<amendments, blank, merged, chainCount>>

\* The row is read, set and committed; nothing is locked until it is written.
LoadMerge(f) ==
  LET w == folding[f] IN
  /\ w.at = "fold" /\ w.upTo = Last(w.members)
  /\ folding' = [folding EXCEPT ![f].at = "commit", ![f].saw = IF @.is THEN @ ELSE merged[First(w.members)]]
  /\ UNCHANGED <<amendments, blank, merged, chainCount>>

\* Of a row that was there, what differs from it as it was read is written.
Written(new, saw, is) == IF new = saw THEN is ELSE new
Saved(w, is) ==
  [is |-> TRUE, members |-> Written(w.members, w.saw.members, is.members),
   items |-> Written(w.items, w.saw.items, is.items), stale |-> Written(FALSE, w.saw.stale, is.stale),
   of |-> IF w.saw # is /\ w.items = w.saw.items THEN is.of ELSE w.members,
   raced |-> w.saw # is]

\* Two that found no row insert one: the second fails.
CommitMerge(f) ==
  LET w == folding[f]  b == First(w.members) IN
  /\ w.at = "commit"
  /\ folding' = [folding EXCEPT ![f] = Away]
  /\ merged' = IF ~w.saw.is /\ merged[b].is THEN merged ELSE [merged EXCEPT ![b] = Saved(w, @)]
  /\ UNCHANGED <<amendments, blank, chainCount>>

\* A call of the model or a commit fails, or the process dies: what was stored before stays.
FoldFails(f) ==
  /\ folding[f].at # "off" /\ ChainHappens("fail")
  /\ folding' = [folding EXCEPT ![f] = Away]
  /\ UNCHANGED <<amendments, blank, merged>>

ChainNext ==
  \/ \E c \in Circular : Relate(c)
  \/ \E f \in Folders, c \in Circular : BeginFold(f, c)
  \/ \E f \in Folders : ExtractFirst(f) \/ Align(f) \/ LoadMerge(f) \/ CommitMerge(f) \/ FoldFails(f)

ChainSpec == ChainInit /\ [][ChainNext]_chainVars

-----------------------------------------------------------------------------
(* Properties.                                                             *)

\* consolidation_payload: what is shown with a circular, and whether as current.
\* Faulty variant: only what was marked is stale.
CurrentUnmarked(c, r) == ~r.stale
Current(c, r) == ~r.stale /\ r.members = ChainOf(amendments, c)
Shown(c) == merged[First(ChainOf(amendments, c))]

\* A consolidation that is shown as current was folded from the circulars of the chain as it is,
\* whatever was related, marked or stored while it was generated (consolidation.py:322), unless
\* another was stored between its last read of the row and its write.
ShownIsCurrent == \A c \in Circular :
  LET r == Shown(c) IN
  Cardinality(ChainOf(amendments, c)) >= 2 /\ r.is /\ ~r.raced /\ Current(c, r)
    => r.of = ChainOf(amendments, c)

\* The history of an item explains it: each change starts from what the one before left, the
\* changes follow the chain, nothing follows a removal, and the difference that is shown is the
\* last change (consolidation.py:114).
ModsOf(h) == {i \in DOMAIN h : h[i].act = "modified"}
ValueAfter(item, i) ==
  LET mods == {j \in ModsOf(item.history) : j <= i} IN
  IF mods = {} THEN item.by ELSE item.history[Last(mods)].new
Explained(item, members) ==
  LET h == item.history IN
  /\ item.value = ValueAfter(item, Len(h))
  /\ \A i \in ModsOf(h) : h[i].old = ValueAfter(item, i - 1)
  /\ \A i \in DOMAIN h : /\ h[i].by \in members /\ h[i].by >= item.by
                         /\ i > 1 => h[i - 1].by <= h[i].by
                         /\ h[i].act = "removed" <=> i = Len(h) /\ item.status = "removed"
  /\ ModsOf(h) # {} => item.changed = h[Last(ModsOf(h))].by /\ item.old = h[Last(ModsOf(h))].old
HistoryExplains == \A b \in Circular :
  merged[b].is /\ ~merged[b].raced => \A i \in DOMAIN merged[b].items : Explained(merged[b].items[i], merged[b].of)
=============================================================================
