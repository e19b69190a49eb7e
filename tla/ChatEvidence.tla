---------------------------- MODULE ChatEvidence ----------------------------
(***************************************************************************)
(* One turn of the research chat (ai.py, chat_retrieval.py): rounds of     *)
(* tool calls, the ledgers of the text that the turn has handed the model, *)
(* the pointers that stand for text handed over earlier, and the rule that *)
(* ends the rounds.                                                        *)
(***************************************************************************)
EXTENDS Naturals, FiniteSets, Sequences

CONSTANTS
  Letters,   \* circulars: a covering letter of one chunk, and an annexure
  Acts,      \* laws
  Chunks,    \* how many chunks an annexure or a law has
  Rounds,    \* _MAX_TOOL_ITERATIONS
  CallBound, \* how many tools one round may call
  Clips      \* a passage may be longer than what is left of the budget

ASSUME EvidenceBounds == Rounds \in Nat \ {0} /\ CallBound \in Nat

Documents == Letters \union Acts
Letter(c) == <<c, "letter", 1>>       \* the letter as one text
Body(c)   == <<c, "body", 1>>         \* its chunk
Inside(d) == {<<d, "inside", n>> : n \in 1..Chunks} \* the chunks of an annexure or of a law
Passages(d) == IF d \in Letters THEN {Body(d)} \union Inside(d) ELSE Inside(d)
EveryText == {Letter(c) : c \in Letters} \union UNION {Passages(d) : d \in Documents}
TextKeys == {"full_circular_text", "passages"}

VARIABLES
  handed,  \* the ledgers, per document: a row of it was serialized, the keys that carried text, the passages
  context, \* the texts in front of the model
  told,    \* what the model was told that it had been given, and whether it had
  cited,   \* documents cited by the results of tools that keep no ledger
  before,  \* the evidence, and the context, as the round began
  failed,  \* a call of the round returned an error
  round, calls, stage

evidenceVars == <<handed, context, told, cited, before, failed, round, calls, stage>>

NoEntry == [row |-> FALSE, keys |-> {}, passages |-> {}]
TurnStages  == {"thinking", "tools", "synthesis", "answered", "raised"}

EvidenceTypeOK ==
  /\ handed \in [Documents -> [row: BOOLEAN, keys: SUBSET TextKeys, passages: SUBSET EveryText]]
  /\ context \subseteq EveryText /\ told \subseteq BOOLEAN /\ cited \subseteq Documents
  /\ before.context \subseteq EveryText /\ failed \in BOOLEAN
  /\ round \in 0..Rounds /\ calls \in 0..CallBound /\ stage \in TurnStages

\* What the turn has shown, as the ledgers have it.
EvidenceUnread(l, refs) ==
  [rows |-> {<<d, l[d].keys>> : d \in {x \in Documents : l[x].row}},
   passages |-> {}, cited |-> refs]
Evidence(l, refs) ==
  [rows |-> {<<d, l[d].keys>> : d \in {x \in Documents : l[x].row}},
   passages |-> UNION {l[d].passages : d \in Documents}, cited |-> refs]
NothingFound(e) == e.rows = {} /\ e.passages = {} /\ e.cited = {}

EvidenceInit ==
  /\ handed = [d \in Documents |-> NoEntry]
  /\ context = {} /\ told = {} /\ cited = {} /\ failed = FALSE
  /\ before = [evidence |-> Evidence(handed, cited), context |-> {}]
  /\ round = 0 /\ calls = 0 /\ stage = "thinking"

-----------------------------------------------------------------------------
(* What a call does to the ledgers and the context.  s is [entry: the      *)
(* document's entry, context, told].                                       *)

\* A chunk of a letter is there once the letter is.
Has(ctx, d, t) == t \in ctx \/ (t = Body(d) /\ Letter(d) \in ctx)
HasKey(ctx, d, k) ==
  IF k = "full_circular_text" THEN Letter(d) \in ctx ELSE \E t \in Passages(d) : Has(ctx, d, t)

\* _inline_body_texts grants the letter; _passage_sets picks the passages, a chunk of a
\* granted letter left out, and those sent before; the passages that are left are recorded.
FreshRepeated(s, d, letter, hits) == hits \ (IF letter THEN {Body(d)} ELSE {})
Fresh(s, d, letter, hits) ==
  hits \ ((IF letter THEN {Body(d)} ELSE {}) \union s.entry.passages)

\* A later row of a document is a pointer, and carries only what no earlier row did.
SearchRow(s, d, letter, hits) ==
  LET new    == Fresh(s, d, letter, hits)
      keys   == (IF letter THEN {"full_circular_text"} ELSE {})
                \union (IF new # {} THEN {"passages"} ELSE {})
      sends  == new \union (IF letter /\ (~s.entry.row \/ "full_circular_text" \notin s.entry.keys)
                            THEN {Letter(d)} ELSE {})
      \* the first row calls an annexure "provided_earlier" that passages of were sent
      points == IF s.entry.row THEN {HasKey(s.context, d, k) : k \in s.entry.keys}
                ELSE IF d \in Letters /\ s.entry.passages \intersect Inside(d) # {} /\ new \intersect Inside(d) = {}
                     THEN {\E t \in Inside(d) : t \in s.context} ELSE {}
  IN  [entry   |-> [row |-> TRUE, keys |-> s.entry.keys \union keys,
                    passages |-> s.entry.passages \union new],
       context |-> s.context \union sends,
       told    |-> s.told \union points]

\* A scoped search ranks passages: those sent before come back as pointers.  A passage that
\* exceeds what is left of the budget is cut to an excerpt, and ends the search.
ScopedSearch(s, d, hits, cut) ==
  LET new == hits \ s.entry.passages IN
  [entry   |-> [s.entry EXCEPT !.passages = @ \union new],
   context |-> s.context \union (new \ cut),
   told    |-> s.told \union {Has(s.context, d, t) : t \in hits \intersect s.entry.passages}]

\* Documents that the turn holds whole are named instead of repeated; short ones are
\* included; the rest is searched.
Held(s, c, doc) ==
  \/ doc = "letter" /\ "full_circular_text" \in s.entry.keys
  \/ (IF doc = "letter" THEN {Body(c)} ELSE Inside(c)) \subseteq s.entry.passages
ReadLetter(s, c, short, hits, cut) ==
  LET held   == {doc \in {"letter", "inside"} : Held(s, c, doc)}
      direct == short \ held
      whole  == UNION {IF doc = "letter" THEN {Body(c)} ELSE Inside(c) : doc \in direct}
      out    == UNION {IF doc = "letter" THEN {Body(c)} ELSE Inside(c) : doc \in direct \union held}
      found  == ScopedSearch(s, c, hits \ out, cut)
      sent   == (hits \ out) \ s.entry.passages
      keys   == (IF "letter" \in direct THEN {"full_circular_text"} ELSE {})
                \union (IF sent # {} THEN {"passages"} ELSE {})
  IN  [entry   |-> [row |-> s.entry.row \/ keys # {}, keys |-> s.entry.keys \union keys,
                    passages |-> found.entry.passages \union whole],
       context |-> found.context \union whole
                   \union (IF "letter" \in direct THEN {Letter(c)} ELSE {}),
       told    |-> found.told
                   \union (IF "letter" \in held THEN {Has(s.context, c, Body(c))} ELSE {})
                   \union (IF "inside" \in held THEN {Inside(c) \subseteq s.context} ELSE {})]

\* A drill-in call: the chunks around the hits, without those sent before, which are named.
ReadInsideBlind(s, d, window) ==
  [entry   |-> s.entry,
   context |-> s.context \union (window \ s.entry.passages),
   told    |-> s.told \union {Has(s.context, d, t) : t \in window \intersect s.entry.passages}]
ReadInside(s, d, window) ==
  [entry   |-> [s.entry EXCEPT !.passages = @ \union window],
   context |-> s.context \union (window \ s.entry.passages),
   told    |-> s.told \union {Has(s.context, d, t) : t \in window \intersect s.entry.passages}]

-----------------------------------------------------------------------------
Call(d, s, refs) ==
  /\ stage = "tools" /\ calls < CallBound
  /\ calls' = calls + 1
  /\ handed' = [handed EXCEPT ![d] = s.entry]
  /\ context' = s.context /\ told' = s.told /\ cited' = cited \union refs
  /\ UNCHANGED <<before, failed, round, stage>>

Now(d) == [entry |-> handed[d], context |-> context, told |-> told]
\* At most one passage is cut, and no more follow it.
Cuts(ts) == {{}} \union IF Clips THEN {{t} : t \in ts} ELSE {}

\* search_corpus: a circular has a row in each arm that found it, from the same texts.
SearchCircular(c) == \E letter \in BOOLEAN, hits \in SUBSET Passages(c), both \in BOOLEAN :
  LET once == SearchRow(Now(c), c, letter, hits) IN
  Call(c, IF both THEN SearchRow(once, c, letter, hits) ELSE once, {})

SearchLaw(l) == \E hits \in SUBSET Passages(l) : Call(l, SearchRow(Now(l), l, FALSE, hits), {})

\* search_corpus over the selected circulars, and the tool it replaced, which a replayed
\* conversation may still call: only the results of that one count as citing.
SearchSelected(c) ==
  \E hits \in SUBSET Passages(c), refs \in {{}, {c}} : \E cut \in Cuts(hits \ handed[c].passages) :
    Call(c, ScopedSearch(Now(c), c, hits, cut), refs)

\* open_document and get_circular_details: its letter and what its annexure says of a query.
OpenCircular(c) ==
  \E short \in SUBSET {"letter", "inside"}, hits \in SUBSET Passages(c) :
  \E cut \in Cuts(hits \ handed[c].passages) :
    Call(c, ReadLetter(Now(c), c, short, hits, cut), {c})

\* open_document, read_attachment and get_law_details inside an annexure or a law.
OpenInside(d) == \E window \in SUBSET Inside(d) : Call(d, ReadInside(Now(d), d, window), {d})

\* Listings, the inventory and the values cite documents and keep no ledger.
ListDocuments == \E d \in Documents : Call(d, Now(d), {d})

\* _execute_tool turns every failure into a result with an error.
ToolFails ==
  /\ stage = "tools" /\ calls < CallBound
  /\ calls' = calls + 1 /\ failed' = TRUE
  /\ UNCHANGED <<handed, context, told, cited, before, round, stage>>

-----------------------------------------------------------------------------
\* The model asks for tools.
BeginRound ==
  /\ stage = "thinking"
  /\ stage' = "tools" /\ calls' = 0 /\ failed' = FALSE
  /\ before' = [evidence |-> Evidence(handed, cited), context |-> context]
  /\ UNCHANGED <<handed, context, told, cited, round>>

\* The rounds end early when one added nothing, something was found, and no call failed.
RoundAddedNothing ==
  LET after == Evidence(handed, cited) IN
  /\ after = before.evidence /\ ~NothingFound(after) /\ ~failed /\ round + 1 < Rounds

EndRound ==
  /\ stage = "tools" /\ calls > 0
  /\ round' = round + 1
  /\ stage' = IF RoundAddedNothing \/ round + 1 = Rounds THEN "synthesis" ELSE "thinking"
  /\ UNCHANGED <<handed, context, told, cited, before, failed, calls>>

AnswerTurn ==
  /\ stage \in {"thinking", "synthesis"} /\ stage' = "answered"
  /\ UNCHANGED <<handed, context, told, cited, before, failed, round, calls>>

\* The provider fails, or answers with nothing.
Raise ==
  /\ stage \in {"thinking", "synthesis"} /\ stage' = "raised"
  /\ UNCHANGED <<handed, context, told, cited, before, failed, round, calls>>

EvidenceNext ==
  \/ \E c \in Letters : SearchCircular(c) \/ SearchSelected(c) \/ OpenCircular(c)
  \/ \E l \in Acts : SearchLaw(l)
  \/ \E d \in Documents : OpenInside(d)
  \/ ListDocuments \/ ToolFails \/ BeginRound \/ EndRound \/ AnswerTurn \/ Raise

EvidenceSpec == EvidenceInit /\ [][EvidenceNext]_evidenceVars

-----------------------------------------------------------------------------
(* Text that a result points back to instead of repeating it is in front   *)
(* of the model, whichever tool handed it over: no pointer stands for text *)
(* that the model never got, or got only an excerpt of.                    *)
PointersAreHonest == FALSE \notin told

(* The rounds do not end before the last one on a round that handed over a *)
(* letter or a passage the model had not read.                             *)
ReadingGoesOn ==
  [][stage = "tools" /\ stage' = "synthesis" /\ context # before.context => round' = Rounds]_evidenceVars
=============================================================================
