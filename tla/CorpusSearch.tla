---------------------------- MODULE CorpusSearch ----------------------------
(***************************************************************************)
(* SearchEngine (search.py): what becomes of the hits of its retrievers.   *)
(* A question is put to a corpus whose indexes may name circulars that are *)
(* gone and miss others.  For chat, the two arms are cut and answered      *)
(* apart, withdrawn hits as pointers; for the search page they are fused   *)
(* and read a page at a time; the passages of one document are gathered    *)
(* with their neighbours and put in order.                                 *)
(***************************************************************************)
EXTENDS Naturals, SequencesExt

CONSTANTS
  Indexed,    \* circulars some index names
  Law,        \* the owner of a law's chunks, which share the vector store
  Candidates, \* CANDIDATE_COUNT
  Reach,      \* CANDIDATE_COUNT * VECTOR_OVERFETCH
  ArmLimit,   \* limit: results in an arm, or on a page
  Paragraphs, \* chunks of a document
  StoreBound  \* bounds the vector store

VARIABLES
  question, \* what is asked, and what the indexes and the database hold
  answer    \* what has been answered

searchVars == <<question, answer>>

Radius == 1  \* EVIDENCE_NEIGHBOURS
RrfK   == 60 \* RRF_K

Rankings == {r \in UNION {[1..n -> Indexed] : n \in 0..Cardinality(Indexed)} : IsInjective(r)}
Stores   == UNION {[1..n -> Indexed \union {Law}] : n \in 0..StoreBound}
Hits     == {h \in UNION {[1..n -> 1..Paragraphs] : n \in 1..3} : IsInjective(h)}

\* held: the circulars that exist and pass the filters, the others being what the indexes
\* still name; withdrawn: those the caller wants demoted.
Asked(kind, held, withdrawn, words, store, named, hits, chunks) ==
  [kind |-> kind, held |-> held, withdrawn |-> withdrawn, words |-> words, store |-> store,
   named |-> named, hits |-> hits, chunks |-> chunks]

Open == [done |-> FALSE, lexical |-> <<>>, semantic |-> <<>>, named |-> {}, pointers |-> {},
         shown |-> <<>>, offset |-> 0, passages |-> <<>>]

SearchInit ==
  /\ \/ \E held \in SUBSET Indexed : \E withdrawn \in SUBSET held, words \in Rankings,
          store \in Stores, named \in SUBSET Indexed :
          question = Asked("chat", held, withdrawn, words, store, named, <<>>, {})
     \/ \E held \in SUBSET Indexed : \E words \in Rankings, store \in Stores :
          question = Asked("page", held, {}, words, store, {}, <<>>, {})
     \/ \E hits \in Hits, chunks \in SUBSET (1..Paragraphs) :
          question = Asked("order", {}, {}, <<>>, <<>>, {}, hits, chunks \union Range(hits))
  /\ answer = Open

-----------------------------------------------------------------------------
(* The retrievers.                                                         *)

\* What of a sequence is in a set.
Only(s, T) ==
  LET only[n \in 0..Len(s)] ==
        IF n = 0 THEN <<>> ELSE IF s[n] \in T THEN Append(only[n - 1], s[n]) ELSE only[n - 1]
  IN only[Len(s)]
OwnChunks(store) == Only(store, Indexed)
First(s, n) == SubSeq(s, 1, IF n < Len(s) THEN n ELSE Len(s))

\* The nearest chunks of circulars: out of a wider search of the whole store, or, when that
\* comes up short and the store held more, by the slow filter.
NearestUnfiltered(store) == First(OwnChunks(First(store, Reach)), Candidates)
Nearest(store) ==
  LET near == OwnChunks(First(store, Reach)) IN
  IF Len(near) < Candidates /\ Len(First(store, Reach)) >= Reach
  THEN First(OwnChunks(store), Candidates) ELSE First(near, Candidates)

\* A circular ranks where its first chunk does.
Ranked(chunks) ==
  LET ranked[n \in 0..Len(chunks)] ==
        IF n = 0 THEN <<>>
        ELSE IF chunks[n] \in Range(ranked[n - 1]) THEN ranked[n - 1] ELSE Append(ranked[n - 1], chunks[n])
  IN ranked[Len(chunks)]
Semantic(q) == Ranked(Nearest(q.store))
Found(q) == Range(q.words) \union Range(Semantic(q)) \union q.named

-----------------------------------------------------------------------------
(* Chat: dual_arm_search.                                                  *)

\* An arm is cut first, and its withdrawn hits are taken out of what is left.
Cut(q, ranks) == First(Only(ranks, q.held), ArmLimit)
Kept(q, ranks) == Only(Cut(q, ranks), q.held \ q.withdrawn)
Demoted(q, ranks) == Range(Cut(q, ranks)) \intersect q.withdrawn

AnswerChat ==
  /\ question.kind = "chat" /\ ~answer.done
  /\ answer' = [answer EXCEPT
       !.done = TRUE,
       !.lexical = Kept(question, question.words),
       !.semantic = Kept(question, Semantic(question)),
       !.named = question.named \intersect question.held,
       !.pointers = (Demoted(question, question.words) \union Demoted(question, Semantic(question)))
                    \ question.named]
  /\ UNCHANGED question

-----------------------------------------------------------------------------
(* The search page: fused ranks, page after page.                          *)

Share(ranks, c) == IF Contains(ranks, c)
                   THEN (1000000 * RrfK) \div (RrfK + CHOOSE i \in DOMAIN ranks : ranks[i] = c) ELSE 0
Score(q, c) == Share(q.words, c) + Share(Semantic(q), c)

\* Candidates by score, those that are gone too: they take a place and are not shown.
Fused(q) == CHOOSE s \in [1..Cardinality(Found(q)) -> Found(q)] :
              IsInjective(s) /\ \A i, j \in DOMAIN s : i < j => Score(q, s[i]) >= Score(q, s[j])
\* Faulty variant: the total counts the circulars there are.
TotalHeld(q) == Cardinality(Found(q) \intersect q.held)
Total(q) == Len(Fused(q))

NextPage ==
  /\ question.kind = "page" /\ ~answer.done
  /\ LET read == First(Fused(question), answer.offset + ArmLimit)
         page == SubSeq(read, answer.offset + 1, Len(read)) IN
     answer' = [answer EXCEPT
       !.shown = @ \o Only(page, question.held),
       !.offset = @ + ArmLimit,
       !.done = answer.offset + ArmLimit >= Total(question)]
  /\ UNCHANGED question

-----------------------------------------------------------------------------
(* One document's passages: the hits, densest first, with the chunks next  *)
(* to them.  hits are those that are hits of the chunks retrieved.         *)

Around(p, chunks) == {c \in chunks : c + Radius >= p /\ c <= p + Radius}

\* A hit's window joins the first passage it overlaps, or starts one.
Joined(runs, window) ==
  IF \E i \in DOMAIN runs : runs[i] \intersect window # {}
  THEN LET i == CHOOSE i \in DOMAIN runs : /\ runs[i] \intersect window # {}
                                           /\ \A j \in 1..(i - 1) : runs[j] \intersect window = {}
       IN [runs EXCEPT ![i] = @ \union window]
  ELSE Append(runs, window)
\* A neighbour whose own hit was cut is a passage by itself.
Orphans(q) == SetToSeq(q.chunks \ Range(q.hits))
Windows(q) == [i \in DOMAIN q.hits |-> Around(q.hits[i], q.chunks)] \o [i \in DOMAIN Orphans(q) |-> {Orphans(q)[i]}]
Runs(q) ==
  LET runs[n \in 0..Len(Windows(q))] == IF n = 0 THEN <<>> ELSE Joined(runs[n - 1], Windows(q)[n])
  IN runs[Len(Windows(q))]
InPageOrder(run) == CHOOSE s \in [1..Cardinality(run) -> run] : \A i, j \in DOMAIN s : i < j => s[i] < s[j]

OrderPassages ==
  /\ question.kind = "order" /\ ~answer.done
  /\ answer' = [answer EXCEPT !.done = TRUE,
                !.passages = FlattenSeq([i \in DOMAIN Runs(question) |-> InPageOrder(Runs(question)[i])])]
  /\ UNCHANGED question

SearchNext == AnswerChat \/ NextPage \/ OrderPassages
SearchSpec == SearchInit /\ [][SearchNext]_searchVars

SearchTypeOK ==
  /\ question.kind \in {"chat", "page", "order"} /\ question.withdrawn \subseteq question.held
  /\ answer.done \in BOOLEAN /\ answer.offset \in 0..(ArmLimit + Cardinality(Indexed))
  /\ Range(answer.passages) \subseteq question.chunks

-----------------------------------------------------------------------------
(* Properties.                                                             *)

\* The best circular hits of the whole store, and those of the lexical index, that exist.
Best(q, ranks) == Range(First(Only(ranks, q.held), ArmLimit))
NearestByFilter(q) == Ranked(First(OwnChunks(q.store), Candidates))

\* Chat is told of every circular at the top of either arm: as a result, by its reference, or as
\* a pointer when it is withdrawn; and is given no withdrawn one as a result of an arm.
ChatIsToldOfTheBest ==
  question.kind = "chat" /\ answer.done =>
    /\ Best(question, question.words) \union Best(question, NearestByFilter(question))
         \subseteq Range(answer.lexical) \union Range(answer.semantic)
                   \union answer.named \union answer.pointers
    /\ (Range(answer.lexical) \union Range(answer.semantic)) \intersect question.withdrawn = {}

\* A reader who pages until the total is reached has seen every circular found, once.
PagesCoverTheHits ==
  question.kind = "page" /\ answer.done =>
    /\ Range(answer.shown) = Found(question) \intersect question.held
    /\ IsInjective(answer.shown)

\* No passage retrieved for a document is lost when overlapping ones are put together.
PassagesAreKept ==
  question.kind = "order" /\ answer.done => Range(answer.passages) = question.chunks

\* Nothing the retrievers found is lost on the way to whoever asked.
NothingFoundIsLost == ChatIsToldOfTheBest /\ PagesCoverTheHits /\ PassagesAreKept
=============================================================================
