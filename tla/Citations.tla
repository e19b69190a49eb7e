----------------------------- MODULE Citations ------------------------------
(***************************************************************************)
(* The citations of one streamed answer (citation_handles.py,              *)
(* answer_checks.py): the model is shown handles in place of the ids of    *)
(* documents, writes them back in pieces that break anywhere, and what it  *)
(* cites is checked against what it was shown.                             *)
(*                                                                         *)
(* A text is a sequence of units.  Of the brackets around what is dropped  *)
(* only the round ones are here; white space, what labels say, and the     *)
(* check of superseded circulars are left out.                             *)
(***************************************************************************)
EXTENDS Naturals, FiniteSets, Sequences, SequencesExt

CONSTANTS
  SlugOf,     \* the slug that the label of each document makes
  Related,    \* the pairs of circulars a relationship joins
  MaxHold,    \* StreamExpander.MAX_HOLD
  Phrases,    \* how many phrases an answer may have
  RoundBound  \* how often the model may call tools

Documents == DOMAIN SlugOf

VARIABLES
  offer,  \* the document of each handle that was minted in the turn
  read,   \* documents whose text was sent, or that a tool listed, or the user selected
  draft,  \* what the model writes, and how much of it has come
  held,   \* what has come and is not shown
  shown,  \* what the reader sees of the segment
  spilt,  \* a text was held for so long that it was let go
  cited   \* the warnings of the answer that is saved

citationVars == <<offer, read, draft, held, shown, spilt, cited>>

-----------------------------------------------------------------------------
(* Units.                                                                  *)

Unit(u, name, doc) == [u |-> u, name |-> name, doc |-> doc]
NoDoc   == "none"
Word    == Unit("word", <<>>, NoDoc)
Bracket == Unit("bracket", <<>>, NoDoc)
Close   == Unit("close", <<>>, NoDoc)
Head1   == Unit("idHead", <<>>, NoDoc)
Tail1   == Unit("idTail", <<>>, NoDoc)
Open    == Unit("open", <<>>, NoDoc)
Shut    == Unit("shut", <<>>, NoDoc)
Blank   == Unit("blank", <<>>, NoDoc) \* a token of an id that was not offered, without a label
Handle(name) == Unit("handle", name, NoDoc)
Token(d)     == Unit("token", <<>>, d)
Link(d)      == Unit("link", <<>>, d)

Cited(unit) == <<Bracket, Bracket, unit, Close>>
Unknown     == <<0>>

Names == DOMAIN offer

-----------------------------------------------------------------------------
(* CitationHandles.                                                        *)

\* _unique_slug: the first of slug, slug-2, slug-3 that no other document has.
\* Faulty variant: the slug.
CandidateBare(o, d) == SlugOf[d]
Candidate(o, d) ==
  LET tried == <<SlugOf[d]>> \o [k \in 1..Cardinality(Documents) |-> Append(SlugOf[d], k + 1)]
      i == CHOOSE j \in DOMAIN tried : tried[j] \notin DOMAIN o /\ \A k \in 1..(j - 1) : tried[k] \in DOMAIN o
  IN tried[i]

\* mint, to_handles: a document keeps the handle it has.
Mint(o, d) == IF \E n \in DOMAIN o : o[n] = d THEN o
              ELSE [n \in DOMAIN o \union {Candidate(o, d)} |-> IF n = Candidate(o, d) THEN d ELSE o[n]]

\* _resolve_handle, _keep_or_drop_token.  Faulty variant: a token is kept whatever its document.
ResolvedAny(unit) == IF unit.u = "handle" THEN IF unit.name \in Names THEN Link(offer[unit.name]) ELSE Word ELSE Link(unit.doc)
Resolved(unit) ==
  CASE unit.u = "handle" /\ unit.name \in Names -> Link(offer[unit.name])
    [] unit.u = "token" /\ \E n \in Names : offer[n] = unit.doc -> Link(unit.doc)
    [] OTHER -> Word

IsCitation(t, i) ==
  /\ i + 3 <= Len(t) /\ t[i] = Bracket /\ t[i + 1] = Bracket /\ t[i + 3] = Close
  /\ t[i + 2].u \in {"handle", "token", "blank"}
IsId(t, i) == i < Len(t) /\ t[i] = Head1 /\ t[i + 1] = Tail1

\* strip_bare_uuids: an id that stands alone goes, with the brackets around it.
Around(t, k, n) == k > 1 /\ k + n <= Len(t) /\ t[k - 1] = Open /\ t[k + n] = Shut
Stripped(t, i) ==
  \E k \in 1..Len(t) : IsId(t, k) /\ (i \in {k, k + 1} \/ (Around(t, k, 2) /\ i \in {k - 1, k + 2}))

\* _close_gap: so do the brackets around a citation that is dropped, and beside it nothing that stays.
ClosesGap(t, i) ==
  \E k \in 2..Len(t) :
    /\ IsCitation(t, k) /\ t[k + 2] = Blank /\ k + 4 <= Len(t) /\ t[k + 4] = Shut
    /\ \E j \in 1..(k - 1) : /\ t[j] = Open /\ \A m \in (j + 1)..(k - 1) : Stripped(t, m)
                             /\ i \in {j, k + 4}
Goes(t, i) == t[i] \in {Open, Shut} /\ (Stripped(t, i) \/ ClosesGap(t, i))

\* expand.  Neither citations nor ids overlap.
Within(t, i) == \E k \in 1..(i - 1) : (IsCitation(t, k) /\ i <= k + 3) \/ (IsId(t, k) /\ i = k + 1)
Replacement(unit) == IF unit.u = "blank" THEN <<>> ELSE <<Resolved(unit)>>
Piece(t, i) ==
  IF IsCitation(t, i) THEN Replacement(t[i + 2])
  ELSE IF IsId(t, i) \/ Within(t, i) \/ Goes(t, i) THEN <<>> ELSE <<t[i]>>
Expand(t) == FlattenSeq([i \in 1..Len(t) |-> Piece(t, i)])

-----------------------------------------------------------------------------
(* StreamExpander.                                                         *)

\* What may still grow into a citation, or into an id, is held; a bracket before it is not.
OpenAt(t) == {i \in 1..(Len(t) - 1) : t[i] = Bracket /\ t[i + 1] = Bracket /\ \A j \in i..Len(t) : t[j] # Close}
\* Faulty variant: only what opens a citation is held.
HeldFromOpen(t) == {i \in OpenAt(t) : \A j \in OpenAt(t) : j <= i}
HeldFrom(t) ==
  LET n == Len(t) IN
  {i \in OpenAt(t) : \A j \in OpenAt(t) : j <= i}
  \union {i \in {n} : n > 0 /\ OpenAt(t) = {} /\ t[n] = Bracket}
  \union {i \in {n} : n > 0 /\ t[n] = Head1}
  \union {i \in {n - 1} : n > 1 /\ IsId(t, n - 1)}

\* _safe_cut
SafeCut(t) ==
  LET cut == CHOOSE c \in 0..Len(t) : /\ \A i \in HeldFrom(t) : c < i
                                      /\ c = Len(t) \/ c + 1 \in HeldFrom(t)
  IN IF Len(t) - cut > MaxHold THEN Len(t) ELSE cut
Overflows(t) == \E i \in HeldFrom(t) : Len(t) - i + 1 > MaxHold

-----------------------------------------------------------------------------
(* The turn.                                                               *)

NoDraft == [at |-> "none", text |-> <<>>, come |-> 0, rounds |-> 0]

CitationTypeOK ==
  /\ \A n \in Names : offer[n] \in Documents
  /\ read \subseteq Documents /\ cited \subseteq Documents
  /\ draft.at \in {"none", "writing", "written", "saved"} /\ draft.come \in 0..Len(draft.text)
  /\ draft.rounds \in 0..RoundBound /\ spilt \in BOOLEAN
  /\ \A i \in DOMAIN shown : shown[i].u \in {"word", "bracket", "close", "idHead", "idTail", "handle", "token", "blank", "link", "open", "shut"}

\* What was cited before in the conversation is minted anew; what the user selects is sent.
CitationInit ==
  /\ \E before \in {<<>>} \union {Mint(<<>>, d) : d \in Documents} :
       \/ offer = before /\ read = {}
       \/ \E selected \in Documents : offer = Mint(before, selected) /\ read = {selected}
  /\ draft = NoDraft /\ held = <<>> /\ shown = <<>> /\ spilt = FALSE /\ cited = {}

\* _apply_tool_calls: a tool sends or lists a document, and may name another without its text.
CallTool(d, named) ==
  /\ draft.at \in {"none", "written"} /\ draft.rounds < RoundBound
  /\ offer' = Mint(Mint(offer, d), named)
  /\ read' = read \union {d}
  /\ draft' = [NoDraft EXCEPT !.rounds = draft.rounds + 1]
  /\ held' = <<>> /\ shown' = <<>> /\ spilt' = FALSE
  /\ UNCHANGED cited

\* The model cites what it was shown, what it was not, and ids that it makes up, which it may put in
\* brackets; and it opens brackets.
Sayings ==
  {<<Word>>, <<Bracket, Bracket, Word>>, <<Head1, Tail1>>, Cited(Handle(Unknown)), Cited(Blank)}
  \union {<<Open, Head1, Tail1, Shut>>, <<Open>> \o Cited(Blank) \o <<Shut>>}
  \union {Cited(Handle(n)) : n \in Names} \union {Cited(Token(d)) : d \in Documents}

Write(said) ==
  /\ draft.at = "none" /\ said # <<>>
  /\ draft' = [draft EXCEPT !.at = "writing", !.text = FlattenSeq(said)]
  /\ UNCHANGED <<offer, read, held, shown, spilt, cited>>

\* feed
Feed(n) ==
  LET come == held \o SubSeq(draft.text, draft.come + 1, draft.come + n)  cut == SafeCut(come) IN
  /\ draft.at = "writing" /\ draft.come + n <= Len(draft.text)
  /\ draft' = [draft EXCEPT !.come = @ + n]
  /\ shown' = shown \o Expand(SubSeq(come, 1, cut))
  /\ held' = SubSeq(come, cut + 1, Len(come))
  /\ spilt' = (spilt \/ Overflows(come))
  /\ UNCHANGED <<offer, read, cited>>

\* close
CloseStream ==
  /\ draft.at = "writing" /\ draft.come = Len(draft.text)
  /\ draft' = [draft EXCEPT !.at = "written"]
  /\ shown' = shown \o Expand(held) /\ held' = <<>>
  /\ UNCHANGED <<offer, read, spilt, cited>>

\* _lineage: what a relationship joins to a document that was read, or cited.
Links(t) == {t[i].doc : i \in {j \in DOMAIN t : t[j].u = "link"}}
Kindred(ds) == {d \in ds : \E e \in ds \union read : <<d, e>> \in Related \/ <<e, d>> \in Related}

\* verify_answer, _grounding: of the segment that is saved.
\* Faulty variant: a document is grounded if the model was shown its handle.
GroundedIfShown(ds) == {d \in ds : \E n \in Names : offer[n] = d}
Grounded(ds) == {d \in ds : d \in read \/ d \in Kindred(ds)}

SaveAnswer ==
  /\ draft.at = "written"
  /\ draft' = [draft EXCEPT !.at = "saved"]
  /\ cited' = Links(shown) \ Grounded(Links(shown))
  /\ UNCHANGED <<offer, read, held, shown, spilt>>

CitationNext ==
  \/ CloseStream \/ SaveAnswer
  \/ \E d, named \in Documents : CallTool(d, named)
  \/ \E k \in 1..Phrases : \E said \in [1..k -> Sayings] : Write(said)
  \/ \E n \in 1..2 : Feed(n)

CitationSpec == CitationInit /\ [][CitationNext]_citationVars

-----------------------------------------------------------------------------
(* Properties.                                                             *)

\* A handle is the address of one document, and a document has one handle (citation_handles.py:187).
HandlesAreAddresses ==
  /\ \A m, n \in Names : offer[m] = offer[n] => m = n
  /\ \A n \in Names : n = SlugOf[offer[n]] \/ Front(n) = SlugOf[offer[n]]

\* Whatever the pieces in which an answer comes, the reader sees what its whole text says, but for
\* round brackets, which the stream may leave where the whole has lost them with what they held; a
\* link is to a document that the model was shown; and no part of an id is seen.
Bare(t) == FlattenSeq([i \in 1..Len(t) |-> IF t[i].u \in {"open", "shut"} THEN <<>> ELSE <<t[i]>>])
StreamIsTheAnswer ==
  /\ \A d \in Links(shown) : \E n \in Names : offer[n] = d
  /\ ~spilt =>
       /\ \A i \in DOMAIN shown : shown[i].u \notin {"idHead", "idTail", "handle", "token", "blank"}
       /\ draft.at \in {"written", "saved"} => Bare(shown) = Bare(Expand(draft.text))

\* A link of the saved answer that has no warning is to a document that was read, or that a
\* relationship joins to one that was, or to another link.
UnreadIsWarned ==
  draft.at = "saved" =>
    \A d \in Links(shown) \ cited :
      d \in read \/ \E e \in read \union Links(shown) : {<<d, e>>, <<e, d>>} \intersect Related # {}
=============================================================================
