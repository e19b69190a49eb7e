-------------------------- MODULE InventorySearch ---------------------------
(***************************************************************************)
(* The inventory of a subject (inventory/service.py): terms, two arms of   *)
(* retrieval, a judge in batches and a capped list, and what the chat tool *)
(* hands on of it (ai.py, _inventory_tool).  The model may fail or answer  *)
(* anything; rows may go while it is asked.                                *)
(***************************************************************************)
EXTENDS Naturals, FiniteSets, Sequences

CONSTANTS
  Shelf,       \* how many documents there are: 1..Shelf, in the order the dense arm scores them
  Band,        \* semantic_band
  MostJudged,  \* max_candidates
  PerCall,     \* BATCH_SIZE
  Limits,      \* the max_results asked for
  Room,        \* what the chat tool may hand on; a document takes 1 or 2
  Holdings     \* what a document may be like

Document == 1..Shelf

\* What a document holds: the words of the query, only a term the model thinks of, or neither;
\* whether the filters let it in; whether it is embedded; what it takes to hand on.
Documents == [says: {"query", "other", "nothing"}, permitted: BOOLEAN, embedded: BOOLEAN, takes: 1..2]

VARIABLES
  shelf,    \* the documents
  limit,    \* max_results
  inquiry   \* the search, as far as it has come

inquiryVars == <<shelf, limit, inquiry>>

-----------------------------------------------------------------------------
Unjudged == "undetermined" \* the judge was not there, or left the document out

NoInquiry ==
  [at |-> "terms", terms |-> {}, failed |-> {}, lexical |-> {}, dense |-> {}, listed |-> <<>>, cut |-> {},
   gone |-> {}, judged |-> 0, verdict |-> <<>>, shown |-> <<>>, over |-> {}, handed |-> {}, small |-> {}]

InventoryTypeOK ==
  /\ shelf \in [Document -> Holdings] /\ limit \in Limits
  /\ inquiry.at \in {"terms", "lexical", "dense", "union", "load", "judge", "cap", "hand", "end"}
  /\ inquiry.lexical \union inquiry.dense \union inquiry.cut \union inquiry.gone \subseteq Document
  /\ \A i \in DOMAIN inquiry.verdict : inquiry.verdict[i] \in {"included", "excluded", Unjudged}

InventoryInit ==
  /\ shelf \in [Document -> Holdings] /\ limit \in Limits
  /\ inquiry = NoInquiry

Becomes(fields) == inquiry' = fields /\ UNCHANGED <<shelf, limit>>

-----------------------------------------------------------------------------
(* Retrieval.                                                              *)

\* build_term_set: the words of the query, and what the model adds to them, if it answers.
\* Faulty variant: the model's terms replace them.
TermSetReplaced(added) == IF added = {} THEN {"query"} ELSE added
TermSet(added) == {"query"} \union added
ResolveTerms == \E added \in {{}, {"other"}} :
  inquiry.at = "terms" /\ Becomes([inquiry EXCEPT !.at = "lexical", !.terms = TermSet(added)])

\* lexical_candidates: whatever is permitted and holds a term. The query of one term may fail.
MatchTerms == \E failed \in SUBSET {"query", "other"} :
  /\ inquiry.at = "lexical"
  /\ Becomes([inquiry EXCEPT !.at = "dense", !.failed = failed,
             !.lexical = {d \in Document : shelf[d].permitted /\ shelf[d].says \in inquiry.terms \ failed}])

\* dense_band: the best of what is permitted and embedded.
Nearest(ds) == {d \in ds : Cardinality({e \in ds : e < d}) < Band}
ScoreChunks ==
  /\ inquiry.at = "dense"
  /\ Becomes([inquiry EXCEPT !.at = "union",
                          !.dense = Nearest({d \in Document : shelf[d].permitted /\ shelf[d].embedded})])

\* union_candidates: what holds a term first; then the best; a document without a score is last
\* of its kind.
Before(d, e) ==
  LET lex(x) == x \in inquiry.lexical  den(x) == x \in inquiry.dense IN
  \/ lex(d) /\ ~lex(e)
  \/ lex(d) = lex(e) /\ den(d) /\ ~den(e)
  \/ lex(d) = lex(e) /\ den(d) = den(e) /\ d < e
\* Faulty variant: by score alone.
BeforeScored(d, e) ==
  LET den(x) == x \in inquiry.dense IN (den(d) /\ ~den(e)) \/ (den(d) = den(e) /\ d < e)
Found == inquiry.lexical \union inquiry.dense
Ordered(ds) == CHOOSE s \in [1..Cardinality(ds) -> ds] : \A i, j \in DOMAIN s : i < j => Before(s[i], s[j])
Firsts(s, n) == SubSeq(s, 1, IF Len(s) < n THEN Len(s) ELSE n)
Members(s) == {s[i] : i \in DOMAIN s}

Unite ==
  LET kept == Firsts(Ordered(Found), MostJudged) IN
  /\ inquiry.at = "union"
  /\ Becomes([inquiry EXCEPT !.at = "load", !.listed = kept, !.cut = Found \ Members(kept)])

\* _load_records: what has gone since the index was written is passed over.
LoadRecords == \E gone \in SUBSET Members(inquiry.listed) :
  LET kept == Ordered(Members(inquiry.listed) \ gone) IN
  /\ inquiry.at = "load"
  /\ Becomes([inquiry EXCEPT !.at = "judge", !.listed = kept, !.gone = gone,
                          !.verdict = [i \in 1..Len(kept) |-> Unjudged]])

-----------------------------------------------------------------------------
(* The judge. It names documents by their numbers in the list, and may     *)
(* name some that its batch does not hold.                                 *)

Numbers == 1..Len(inquiry.listed)
Batch == {i \in Numbers : inquiry.judged < i /\ i <= inquiry.judged + PerCall}

\* What a batch that fails leaves of it, whatever was said before; and what an answer settles.
Unanswered == [i \in Numbers |-> IF i \in Batch THEN Unjudged ELSE inquiry.verdict[i]]
Answered(named, yes) ==
  [i \in Numbers |-> IF i \in named THEN (IF i \in yes THEN "included" ELSE "excluded")
                     ELSE IF i \in Batch THEN Unjudged ELSE inquiry.verdict[i]]

\* Batches are judged in parallel, and their answers gathered in order.
JudgeBatch ==
  /\ inquiry.at = "judge" /\ Batch # {}
  /\ \E verdict \in {Unanswered} \union UNION {{Answered(named, yes) : yes \in SUBSET named} : named \in SUBSET Numbers} :
       Becomes([inquiry EXCEPT !.judged = @ + PerCall, !.verdict = verdict])

\* skip_adjudication: everything is included.
SkipJudge ==
  /\ inquiry.at = "judge" /\ inquiry.judged = 0
  /\ Becomes([inquiry EXCEPT !.at = "cap", !.verdict = [i \in Numbers |-> "included"]])

JudgeEnds ==
  inquiry.at = "judge" /\ Batch = {} /\ Becomes([inquiry EXCEPT !.at = "cap"])

-----------------------------------------------------------------------------
(* The list.                                                               *)

Judged(v) == {inquiry.listed[i] : i \in {n \in Numbers : inquiry.verdict[n] = v}}

\* The rows are capped, and then sorted as they were ranked.
CapResults ==
  LET shown == Firsts(Ordered(Judged("included")), limit) IN
  /\ inquiry.at = "cap"
  /\ Becomes([inquiry EXCEPT !.at = "hand", !.shown = shown, !.over = Judged("included") \ Members(shown)])

\* _inventory_tool: a row too many for what is left is passed over, unless it is the first.
Fits(s) ==
  LET taken[n \in 0..Len(s)] ==
        IF n = 0 THEN [ds |-> {}, spent |-> 0]
        ELSE LET t == taken[n - 1]  cost == shelf[s[n]].takes IN
             IF t.ds # {} /\ t.spent + cost > Room THEN t
             ELSE [ds |-> t.ds \union {s[n]}, spent |-> t.spent + cost]
  IN taken[Len(s)].ds
HandOn ==
  /\ inquiry.at = "hand"
  /\ Becomes([inquiry EXCEPT !.at = "end", !.handed = Fits(inquiry.shown),
                          !.small = Members(inquiry.shown) \ Fits(inquiry.shown)])

InventoryNext ==
  \/ ResolveTerms \/ MatchTerms \/ ScoreChunks \/ Unite \/ LoadRecords
  \/ JudgeBatch \/ SkipJudge \/ JudgeEnds \/ CapResults \/ HandOn

InventorySpec == InventoryInit /\ [][InventoryNext]_inquiryVars

-----------------------------------------------------------------------------
(* Properties.                                                             *)

\* Whatever terms the model makes up, what holds the words of the query is found, and is not
\* dropped by either cap in favour of a document that holds no term (retrieval.py:188, terms.py:11).
Holds(d) == d \in inquiry.lexical
TermsComeFirst ==
  /\ inquiry.at \in {"union", "load", "judge", "cap", "hand", "end"} /\ "query" \notin inquiry.failed
     => \A d \in Document : shelf[d].permitted /\ shelf[d].says = "query" => d \in Found
  /\ \A d \in inquiry.cut, e \in Members(inquiry.listed) : Holds(d) => Holds(e)
  /\ \A d \in inquiry.over, e \in Members(inquiry.shown) : Holds(d) => Holds(e)

\* Nothing the judge says, or fails to say, takes a document out of the response: it is listed,
\* or excluded with a reason, or counted as left out (service.py:262).
EveryCandidateIsAccountedFor ==
  inquiry.at \in {"hand", "end"} =>
    LET parts == <<Members(inquiry.shown), Judged("excluded"), Judged(Unjudged), inquiry.over,
                   inquiry.cut, inquiry.gone>> IN
    /\ \A i, j \in DOMAIN parts : i < j => parts[i] \intersect parts[j] = {}
    /\ UNION {parts[i] : i \in DOMAIN parts} = Found

\* A list that the chat tool calls complete holds every document that was found and is there,
\* unless more was asked for than is judged, and there was more (ai.py:5474).
\* Faulty variant: rows that had no room are not counted.
CompleteButForRoom == inquiry.over = {}
Complete == Cardinality(inquiry.over) + Cardinality(inquiry.small) = 0
CompleteIsComplete ==
  inquiry.at = "end" /\ Complete /\ Judged("included") = Members(inquiry.listed) 
     /\ (limit < MostJudged \/ inquiry.cut = {}) /\ inquiry.gone = {}
    => inquiry.handed = Found
=============================================================================
