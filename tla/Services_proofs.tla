--------------------------- MODULE Services_proofs ---------------------------
(***************************************************************************)
(* Proofs about what is kept beside the rows, about the chat and about the *)
(* application (Services).  The vector store is vouched for truly by the   *)
(* ledger and the flags, and no row is lost when tables move to files of   *)
(* their own, for any sources, texts, threads, processes, tables and       *)
(* columns.  The rounds of a turn go on as long as they hand over text,    *)
(* for any documents and any bounds on chunks, rounds and calls, excerpts  *)
(* included; whatever becomes of a turn that streams, the answer that is   *)
(* saved is the one its reader was shown, for any sessions and turns.  And *)
(* each part behaves in the application as it does alone, so what is       *)
(* proved of a part holds in all.                                          *)
(***************************************************************************)
EXTENDS Services, Jobs_proofs, Laws_proofs, SemanticIndex, SchemaSetup, SequenceTheorems, TLAPS

-----------------------------------------------------------------------------
(* The semantic index (SemanticIndex).                                     *)

Singles == Bodies \union Annexes   \* the sources that one thread indexes at a time

(* A thread is on its way with the text the source has; what it has done   *)
(* so far shows in the store and in the flag.                              *)
IndexerFits(w) ==
  LET x == indexer[w].source  at == indexer[w].at IN
  /\ at = "off" <=> x = NoText
  /\ at = "swap" => ~indexer[w].failed
  /\ at = "reread" => /\ x \in Singles /\ chunks[x] = NoText
                      /\ x \in Bodies => indexer[w].text \in Texts
  /\ x \in Singles =>
       /\ at # "reread" => indexer[w].text = text[x]
       /\ at # "law"
       /\ at = "flag" => x \in Annexes
       /\ at \in {"flag", "ledger"} /\ ~indexer[w].failed => chunks[x] = text[x]
       /\ at = "ledger" /\ x \in Annexes => flag[x] = MarkOf(w)

OneAtATime == \A v, w \in Indexers :
  indexer[v].source = indexer[w].source /\ indexer[v].source \in Singles => v = w

RebuildIsAlone == ~StoreIsUp => NoText \in rebuild /\ ~audit.on /\ \A w \in Indexers : indexer[w].at = "off"

(* What an audit has read of a source holds until it is written, or the    *)
(* source is torn.                                                         *)
AuditFits == audit.on => \A x \in Singles :
  /\ x \in audit.clean \union torn
  /\ x \in audit.clean => ~UnderWay(x) /\ audit.rows[x] = Audited(x)

HasText   == \A x \in Bodies : text[x] \in Texts
FlagsFit  == \A x \in Annexes : flag[x] \in {NoText, text[x]}

IndexInv ==
  /\ IndexTypeOK /\ (\A w \in Indexers : IndexerFits(w)) /\ OneAtATime /\ RebuildIsAlone
  /\ AuditFits /\ HasText /\ FlagsFit /\ StoreIsVouchedFor

-----------------------------------------------------------------------------
LEMMA SinglesAre ==
  /\ Singles \subseteq Sources /\ Annexes \subseteq Singles /\ Bodies \subseteq Singles
  /\ Laws \subseteq Sources /\ Sources = Singles \union Laws
  /\ \A x \in Singles : x \notin Laws /\ (x \in Bodies <=> x \notin Annexes)
  /\ \A x \in Sources : x # NoText
  /\ NoText \notin Texts
BY IndexSources DEF Singles, Sources

LEMMA StartTypes ==
  /\ NoLedger \in Ledgers /\ NoChunks \in [Sources -> MaybeText] /\ NotIndexing \in IndexerAt
  /\ NoAudit \in [on: BOOLEAN, rows: Ledgers, clean: SUBSET Sources]
  /\ NoCache \in [on: BOOLEAN, key: Ledgers, view: [Sources -> MaybeText]]
  /\ NoQuery \in [on: BOOLEAN, key: Ledgers]
<1>1. NoLedger \in Ledgers
  BY DEF NoLedger, NoRows, RowStates, Ledgers
<1>2. NoChunks \in [Sources -> MaybeText] /\ NotIndexing \in IndexerAt
  BY DEF NoChunks, MaybeText, NotIndexing, IndexerAt
<1>3. QED
  BY <1>1, <1>2 DEF NoAudit, NoCache, NoQuery

LEMMA HappensTypes ==
  ASSUME IndexTypeOK, NEW k \in IndexEvents, IndexHappens(k)
  PROVE  indexCount' \in [IndexEvents \union {"any"} -> Nat]
BY DEF IndexTypeOK, IndexHappens

(* The ledger's row of one source is all that vouches for it.              *)
LEMMA VouchedByRow ==
  ASSUME NEW rows, NEW others, NEW x, rows[x] = others[x]
  PROVE  Vouched(rows, x) = Vouched(others, x)
BY DEF Vouched

LEMMA IndexInvInit == IndexInit => IndexInv
<1> SUFFICES ASSUME IndexInit PROVE IndexInv
  OBVIOUS
<1> DEFINE first == CHOOSE t \in Texts : TRUE
<1>1. first \in Texts
  BY IndexSources
<1> HIDE DEF first
<1>2. /\ text = [x \in Sources |-> first] /\ chunks = text
      /\ flag = [x \in Sources |-> IF x \in Bodies THEN NoText ELSE text[x]]
      /\ ledger = [x \in Sources |-> [t \in Texts |-> IF t = text[x] THEN "indexed" ELSE "none"]]
  BY DEF IndexInit, first
<1>3. IndexTypeOK
  <2>1. text \in [Sources -> MaybeText] /\ flag \in [Sources -> MaybeText] /\ ledger \in Ledgers
    BY <1>1, <1>2 DEF MaybeText, Ledgers, RowStates
  <2>2. indexer \in [Indexers -> IndexerAt]
    BY StartTypes DEF IndexInit
  <2>3. indexCount \in [IndexEvents \union {"any"} -> Nat]
    BY DEF IndexInit
  <2>4. QED
    BY <1>2, <2>1, <2>2, <2>3, StartTypes DEF IndexInit, IndexTypeOK
<1>4. \A w \in Indexers : indexer[w].at = "off" /\ indexer[w].source = NoText
  BY DEF IndexInit, NotIndexing
<1>5. (\A w \in Indexers : IndexerFits(w)) /\ OneAtATime
  BY <1>4, SinglesAre DEF IndexerFits, OneAtATime
<1>6. RebuildIsAlone /\ AuditFits
  BY DEF IndexInit, RebuildIsAlone, StoreIsUp, AuditFits, NoAudit
<1>7. HasText /\ FlagsFit /\ StoreIsVouchedFor
  BY <1>1, <1>2, SinglesAre DEF HasText, FlagsFit, StoreIsVouchedFor, VouchedIsStored, RereadIsGone, MarkedIsStored, SeemsStored,
     Singles, IndexInit
<1>8. QED
  BY <1>3, <1>5, <1>6, <1>7 DEF IndexInv

-----------------------------------------------------------------------------
(* A thread begins.                                                        *)
LEMMA BeginKeeps ==
  ASSUME IndexInv, NEW w \in Indexers, NEW x \in Sources, NEW t \in MaybeText,
         t \in Texts \/ x \in Laws, BeginIndexing(w, x, t),
         indexCount' \in [IndexEvents \union {"any"} -> Nat]
  PROVE  IndexInv'
<1> DEFINE at == [at |-> "swap", source |-> x, text |-> t, failed |-> FALSE]
<1>1. /\ indexer[w].at = "off" /\ StoreIsUp /\ (x \in Laws \/ ~UnderWay(x))
      /\ text' = [text EXCEPT ![x] = t]
      /\ flag' = IF x \in Annexes /\ t # text[x] THEN [flag EXCEPT ![x] = NoText] ELSE flag
      /\ indexer' = [indexer EXCEPT ![w] = at]
      /\ torn' = (IF audit.on THEN torn \union {x} ELSE torn)
      /\ audit' = [audit EXCEPT !.clean = @ \ {x}]
      /\ UNCHANGED <<chunks, ledger, rebuild, cache, query, unindexed>>
  BY DEF BeginIndexing, Overtakes
<1>2. IndexTypeOK /\ at \in IndexerAt
  BY DEF IndexInv, IndexerAt
<1>3. audit'.on = audit.on /\ audit'.rows = audit.rows /\ audit'.clean = audit.clean \ {x}
  BY <1>1, <1>2 DEF IndexTypeOK
<1>4. IndexTypeOK'
  <2>1. text' \in [Sources -> MaybeText] /\ flag' \in [Sources -> MaybeText]
    BY <1>1, <1>2 DEF IndexTypeOK, MaybeText
  <2>2. indexer' \in [Indexers -> IndexerAt]
    BY <1>1, <1>2 DEF IndexTypeOK
  <2>3. audit' \in [on: BOOLEAN, rows: Ledgers, clean: SUBSET Sources] /\ torn' \subseteq Sources
    BY <1>1, <1>2 DEF IndexTypeOK
  <2>4. QED
    BY <1>1, <1>2, <2>1, <2>2, <2>3 DEF IndexTypeOK
<1>5. /\ indexer'[w] = at /\ \A v \in Indexers : v # w => indexer'[v] = indexer[v]
      /\ indexer[w].source = NoText
      /\ text'[x] = t /\ \A y \in Sources : y # x => text'[y] = text[y] /\ flag'[y] = flag[y]
  BY <1>1, <1>2 DEF IndexTypeOK, IndexInv, IndexerFits
<1>6. \A v \in Indexers : v # w /\ indexer[v].source \in Singles => indexer[v].source # x
  BY <1>1, SinglesAre DEF UnderWay
<1>7. \A y \in Sources : UnderWay(y)' <=> UnderWay(y) \/ y = x
  <2>1. \A y \in Sources : y # NoText
    BY SinglesAre
  <2>2. QED
    BY <1>5, <2>1 DEF UnderWay
<1>8. \A v \in Indexers : IndexerFits(v)'
  <2>1. IndexerFits(w)'
    BY <1>5, SinglesAre DEF IndexerFits
  <2>2. ASSUME NEW v \in Indexers, v # w PROVE IndexerFits(v)'
    <3>1. IndexerFits(v) /\ indexer'[v] = indexer[v] /\ MarkOf(v)' = MarkOf(v)
      BY <1>5, <2>2 DEF IndexInv, MarkOf
    <3>2. indexer[v].source \in Singles => text'[indexer[v].source] = text[indexer[v].source]
                                           /\ flag'[indexer[v].source] = flag[indexer[v].source]
      BY <1>5, <1>6, <2>2, SinglesAre
    <3>3. QED
      BY <1>1, <3>1, <3>2 DEF IndexerFits
  <2>3. QED
    BY <2>1, <2>2
<1>9. OneAtATime'
  BY <1>5, <1>6 DEF IndexInv, OneAtATime
<1>10. RebuildIsAlone'
  BY <1>1 DEF RebuildIsAlone, StoreIsUp
<1>11. AuditFits'
  <2> SUFFICES ASSUME audit'.on, NEW y \in Singles
               PROVE  /\ y \in audit'.clean \union torn'
                      /\ y \in audit'.clean => ~UnderWay(y)' /\ audit'.rows[y] = Audited(y)'
    BY DEF AuditFits
  <2>1. /\ y \in audit.clean \union torn
        /\ y \in audit.clean => ~UnderWay(y) /\ audit.rows[y] = Audited(y)
    BY <1>3 DEF IndexInv, AuditFits
  <2>2. y # x => Audited(y)' = Audited(y)
    BY <1>1, <1>5, SinglesAre DEF Audited, SeemsStored
  <2>3. QED
    BY <1>1, <1>3, <1>7, <2>1, <2>2, SinglesAre
<1>12. HasText'
  BY <1>5, SinglesAre DEF HasText, IndexInv
<1>13. FlagsFit'
  BY <1>1, <1>2, <1>5, SinglesAre DEF FlagsFit, IndexInv, IndexTypeOK
<1>14. StoreIsVouchedFor'
  <2>1. \A y \in Singles : ~UnderWay(y)' => y # x /\ ~UnderWay(y) /\ text'[y] = text[y] /\ flag'[y] = flag[y]
                                       /\ chunks'[y] = chunks[y] /\ ledger'[y] = ledger[y]
                                       /\ (y \notin torn' => y \notin torn)
    BY <1>1, <1>5, <1>7, SinglesAre
  <2>2. VouchedIsStored'
    BY <1>1, <2>1, VouchedByRow DEF IndexInv, StoreIsVouchedFor, VouchedIsStored, SeemsStored, Singles
  <2>3. MarkedIsStored'
    BY <1>1, <2>1 DEF IndexInv, StoreIsVouchedFor, MarkedIsStored, SeemsStored, Singles
  <2>4. RereadIsGone'
    BY <1>1, <2>1 DEF IndexInv, StoreIsVouchedFor, RereadIsGone, Singles
  <2>5. QED
    BY <2>2, <2>3, <2>4 DEF StoreIsVouchedFor
<1>15. QED
  BY <1>4, <1>8, <1>9, <1>10, <1>11, <1>12, <1>13, <1>14 DEF IndexInv

(* A thread goes on with its source, or is done with it.                   *)
VouchedAtEnd(x) ==
  /\ x \notin torn' /\ x \notin unindexed' /\ Vouched(ledger', x) # {} => SeemsStored(x, text[x])'
  /\ x \in Bodies /\ x \in unindexed' /\ x \notin torn' => chunks'[x] = NoText
  /\ x \in Annexes /\ x \notin torn' /\ flag'[x] # NoText
       => flag'[x] = text'[x] /\ (SeemsStored(x, text[x])' \/ ledger'[x][text'[x]] = "stale")

LEMMA MoveKeeps ==
  ASSUME IndexInv, NEW w \in Indexers, NEW x \in Sources, NEW r \in IndexerAt,
         x = indexer[w].source, r.source \in {x, NoText}, indexer' = [indexer EXCEPT ![w] = r],
         IndexTypeOK', UNCHANGED <<audit, rebuild>>,
         \A y \in Sources : y # x => /\ chunks'[y] = chunks[y] /\ flag'[y] = flag[y] /\ ledger'[y] = ledger[y]
                                     /\ y \in torn' <=> y \in torn,
         \A y \in Sources : y # x => text'[y] = text[y] /\ (y \in unindexed' <=> y \in unindexed),
         x \in Bodies => text'[x] \in Texts,
         x \in Singles /\ audit.on /\ x \in torn => x \in torn',
         IndexerFits(w)', x \in Annexes => flag'[x] \in {NoText, text'[x]},
         r.source = NoText /\ x \in Singles => VouchedAtEnd(x)
  PROVE  IndexInv'
<1>1. /\ indexer'[w] = r /\ \A v \in Indexers : v # w => indexer'[v] = indexer[v]
      /\ indexer[w].at # "off"
  BY SinglesAre DEF IndexInv, IndexTypeOK, IndexerFits
<1>2. \A v \in Indexers : v # w /\ indexer[v].source \in Singles => indexer[v].source # x
  BY DEF IndexInv, OneAtATime
<1>3. \A y \in Singles : y # x => (UnderWay(y)' <=> UnderWay(y))
  BY <1>1, SinglesAre DEF UnderWay
<1>4. UnderWay(x)
  BY DEF UnderWay
<1>5. \A v \in Indexers : IndexerFits(v)'
  <2>1. ASSUME NEW v \in Indexers, v # w PROVE IndexerFits(v)'
    <3>1. IndexerFits(v) /\ indexer'[v] = indexer[v] /\ MarkOf(v)' = MarkOf(v)
      BY <1>1, <2>1 DEF IndexInv, MarkOf
    <3>2. indexer[v].source \in Singles => flag'[indexer[v].source] = flag[indexer[v].source]
                                           /\ chunks'[indexer[v].source] = chunks[indexer[v].source]
                                           /\ text'[indexer[v].source] = text[indexer[v].source]
      BY <1>2, <2>1, SinglesAre
    <3>3. QED
      BY <3>1, <3>2 DEF IndexerFits
  <2>2. QED
    BY <2>1
<1>6. OneAtATime'
  BY <1>1, <1>2, SinglesAre DEF IndexInv, OneAtATime
<1>7. RebuildIsAlone'
  BY <1>1 DEF IndexInv, RebuildIsAlone, StoreIsUp
<1>8. AuditFits'
  <2> SUFFICES ASSUME audit.on, NEW y \in Singles
               PROVE  /\ y \in audit.clean \union torn'
                      /\ y \in audit.clean => ~UnderWay(y)' /\ audit.rows[y] = Audited(y)'
    BY DEF AuditFits
  <2>1. /\ y \in audit.clean \union torn
        /\ y \in audit.clean => ~UnderWay(y) /\ audit.rows[y] = Audited(y)
    BY DEF IndexInv, AuditFits
  <2>2. CASE y = x
    BY <1>4, <2>1, <2>2
  <2>3. CASE y # x
    <3>1. Audited(y)' = Audited(y)
      BY <2>3, SinglesAre DEF Audited, SeemsStored
    <3>2. QED
      BY <1>3, <2>1, <2>3, <3>1, SinglesAre
  <2>4. QED
    BY <2>2, <2>3
<1>9. HasText' /\ FlagsFit'
  BY SinglesAre DEF IndexInv, HasText, FlagsFit
<1>10. StoreIsVouchedFor'
  <2>1. ASSUME NEW y \in Singles, ~UnderWay(y)', StoreIsUp', y \notin torn'
        PROVE  /\ y \notin unindexed' /\ Vouched(ledger', y) # {} => SeemsStored(y, text[y])'
               /\ y \in Bodies /\ y \in unindexed' => chunks'[y] = NoText
               /\ y \in Annexes /\ flag'[y] # NoText
                    => flag'[y] = text'[y] /\ (SeemsStored(y, text[y])' \/ ledger'[y][text'[y]] = "stale")
    <3>1. CASE y = x
      <4>1. r.source = NoText
        BY <1>1, <2>1, <3>1 DEF UnderWay
      <4>2. QED
        BY <2>1, <3>1, <4>1 DEF VouchedAtEnd, SeemsStored
    <3>2. CASE y # x
      <4>1. /\ ~UnderWay(y) /\ StoreIsUp /\ y \notin torn /\ chunks'[y] = chunks[y] /\ flag'[y] = flag[y]
            /\ ledger'[y] = ledger[y] /\ text'[y] = text[y] /\ (y \in unindexed' <=> y \in unindexed)
        BY <1>3, <2>1, <3>2, SinglesAre DEF StoreIsUp
      <4>2. Vouched(ledger', y) = Vouched(ledger, y)
        BY <4>1, VouchedByRow
      <4>3. QED
        BY <4>1, <4>2 DEF IndexInv, StoreIsVouchedFor, VouchedIsStored, RereadIsGone, MarkedIsStored, SeemsStored,
           Singles
    <3>3. QED
      BY <3>1, <3>2
  <2>2. VouchedIsStored'
    BY <2>1 DEF VouchedIsStored, SeemsStored, Singles, Vouched
  <2>3. MarkedIsStored'
    BY <2>1, SinglesAre DEF MarkedIsStored, SeemsStored
  <2>4. RereadIsGone'
    BY <2>1, SinglesAre DEF RereadIsGone
  <2>5. QED
    BY <2>2, <2>3, <2>4 DEF StoreIsVouchedFor
<1>11. QED
  BY <1>5, <1>6, <1>7, <1>8, <1>9, <1>10 DEF IndexInv

(* The record of a thread that goes on with its source.                    *)
MovedTo(w, at, fails) == [indexer[w] EXCEPT !.at = at, !.failed = fails]

LEMMA MovedIs ==
  ASSUME IndexTypeOK, NEW w \in Indexers, NEW at
  PROVE  /\ indexer[w].failed = FALSE
              => [indexer EXCEPT ![w].at = at] = [indexer EXCEPT ![w] = MovedTo(w, at, FALSE)]
         /\ [indexer EXCEPT ![w].at = at, ![w].failed = TRUE]
              = [indexer EXCEPT ![w] = MovedTo(w, at, TRUE)]
<1>1. indexer \in [Indexers -> IndexerAt] /\ indexer[w] \in IndexerAt
  BY DEF IndexTypeOK
<1>2. /\ indexer[w].failed = FALSE => [indexer[w] EXCEPT !.at = at] = MovedTo(w, at, FALSE)
      /\ [indexer[w] EXCEPT !.at = at, !.failed = TRUE] = MovedTo(w, at, TRUE)
  BY <1>1 DEF IndexerAt, MovedTo
<1>3. [indexer EXCEPT ![w].at = at] = [indexer EXCEPT ![w] = [indexer[w] EXCEPT !.at = at]]
  OBVIOUS
<1>4. [indexer EXCEPT ![w].at = at, ![w].failed = TRUE]
        = [indexer EXCEPT ![w] = [indexer[w] EXCEPT !.at = at, !.failed = TRUE]]
  BY <1>1
<1>5. QED
  BY <1>2, <1>3, <1>4

(* The swap, done or failed, whatever comes next.                          *)
LEMMA SwapMoves ==
  ASSUME IndexInv, NEW w \in Indexers, NEW x \in Sources, NEW r \in IndexerAt,
         x = indexer[w].source, indexer[w].at = "swap",
         r.source = x, r.text = indexer[w].text, r.at \in {"flag", "ledger", "law"},
         x \in Singles => r.at # "law" /\ (r.at = "flag" <=> x \in Annexes),
         indexer' = [indexer EXCEPT ![w] = r], chunks' \in [Sources -> MaybeText],
         \A y \in Sources : y # x => chunks'[y] = chunks[y],
         r.failed = TRUE \/ chunks'[x] = r.text, indexCount' \in [IndexEvents \union {"any"} -> Nat],
         UNCHANGED <<text, ledger, flag, audit, rebuild, cache, query, torn, unindexed>>
  PROVE  IndexInv'
<1>1. IndexTypeOK'
  <2>1. IndexTypeOK
    BY DEF IndexInv
  <2>2. indexer' \in [Indexers -> IndexerAt]
    BY <2>1 DEF IndexTypeOK
  <2>3. QED
    BY <2>1, <2>2 DEF IndexTypeOK
<1>2. IndexerFits(w)'
  <2>1. indexer'[w] = r
    BY DEF IndexInv, IndexTypeOK
  <2>2. x \in Singles => r.text = text[x]
    BY DEF IndexInv, IndexerFits
  <2>3. x # NoText
    BY SinglesAre
  <2>4. QED
    BY <2>1, <2>2, <2>3 DEF IndexerFits
<1>3. x \in Annexes => flag'[x] \in {NoText, text[x]}
  BY DEF IndexInv, FlagsFit
<1>4. r.source \in {x, NoText} /\ r.source # NoText
  BY SinglesAre
<1>5. x \in Bodies => text'[x] \in Texts
  BY DEF IndexInv, HasText
<1>6. QED
  BY <1>1, <1>2, <1>3, <1>4, <1>5, MoveKeeps

LEMMA SwapKeeps == ASSUME IndexInv, Swap PROVE IndexInv'
<1>1. PICK w \in Indexers :
        /\ indexer[w].at = "swap"
        /\ \/ /\ chunks' = [chunks EXCEPT ![indexer[w].source] = indexer[w].text] /\ UNCHANGED indexCount
              /\ indexer' = [indexer EXCEPT ![w].at = Next1(indexer[w].source, FALSE, indexer[w].text)]
           \/ /\ IndexHappens("fail")
              /\ chunks' \in {chunks, [chunks EXCEPT ![indexer[w].source] = NoText]}
              /\ indexer' = [indexer EXCEPT ![w].at = Next1(indexer[w].source, TRUE, indexer[w].text),
                                            ![w].failed = TRUE]
        /\ UNCHANGED <<text, ledger, flag, audit, rebuild, cache, query, torn, unindexed>>
  BY DEF Swap
<1> DEFINE x == indexer[w].source
           t == indexer[w].text
<1>2. IndexTypeOK /\ indexer[w] \in IndexerAt /\ IndexerFits(w) /\ t \in MaybeText
  BY DEF IndexInv, IndexTypeOK, IndexerAt
<1>3. x \in Sources /\ indexer[w].failed = FALSE
  BY <1>1, <1>2 DEF IndexerFits, IndexerAt
<1> HIDE DEF x, t
<1>4. ASSUME NEW fails \in BOOLEAN
      PROVE  /\ Next1(x, fails, t) \in {"flag", "ledger", "law"}
             /\ x \in Singles => /\ Next1(x, fails, t) # "law"
                                 /\ Next1(x, fails, t) = "flag" <=> x \in Annexes
  BY <1>3, SinglesAre DEF Next1
<1>5. x = indexer[w].source /\ t = indexer[w].text /\ UNCHANGED <<text, ledger, flag, audit, rebuild, cache, query, torn, unindexed>>
  BY <1>1 DEF x, t
<1>6. CASE /\ chunks' = [chunks EXCEPT ![x] = t] /\ UNCHANGED indexCount
           /\ indexer' = [indexer EXCEPT ![w].at = Next1(x, FALSE, t)]
  <2> DEFINE n == Next1(x, FALSE, t)
  <2>1. /\ n \in {"flag", "ledger", "law"}
        /\ x \in Singles => n # "law" /\ (n = "flag" <=> x \in Annexes)
        /\ indexer' = [indexer EXCEPT ![w].at = n]
    BY <1>4, <1>6
  <2> HIDE DEF n
  <2>2. PICK r : r = MovedTo(w, n, FALSE)
    OBVIOUS
  <2>3. /\ r \in IndexerAt /\ r.source = x /\ r.text = t /\ r.at = n /\ r.failed = FALSE
        /\ indexer' = [indexer EXCEPT ![w] = r]
    <3>1. /\ r \in IndexerAt /\ r.at = n /\ r.source = indexer[w].source /\ r.text = indexer[w].text
          /\ r.failed = FALSE
      BY <1>2, <2>1, <2>2 DEF MovedTo, IndexerAt
    <3>2. indexer' = [indexer EXCEPT ![w] = r]
      BY <1>2, <1>3, <2>1, <2>2, MovedIs
    <3>3. QED
      BY <1>5, <3>1, <3>2
  <2>4. /\ chunks' \in [Sources -> MaybeText]
        /\ \A y \in Sources : y # x => chunks'[y] = chunks[y]
        /\ FALSE \/ chunks'[x] = t
    BY <1>2, <1>3, <1>6 DEF IndexTypeOK, MaybeText
  <2>5. indexCount' \in [IndexEvents \union {"any"} -> Nat]
    BY <1>2, <1>6 DEF IndexTypeOK
  <2>6. QED
    <3>1. \A y \in Sources : y # x => chunks'[y] = chunks[y]
      BY <2>4
    <3>2. IndexInv
      OBVIOUS
    <3>3. UNCHANGED <<text, ledger, flag, audit, rebuild, cache, query, torn, unindexed>>
      BY <1>5
    <3>4. r \in IndexerAt
      BY <2>3
    <3>5. /\ x = indexer[w].source /\ indexer[w].at = "swap"
          /\ r.source = x /\ r.text = indexer[w].text /\ r.at \in {"flag", "ledger", "law"}
      BY <1>1, <1>5, <2>1, <2>3
    <3>6. x \in Singles => r.at # "law" /\ (r.at = "flag" <=> x \in Annexes)
      BY <2>1, <2>3
    <3>7. r.failed = TRUE \/ chunks'[x] = r.text
      BY <2>3, <2>4
    <3>8. indexer' = [indexer EXCEPT ![w] = r]
      BY <2>3
    <3> QED
      BY <1>3, <2>4, <2>5, <3>1, <3>2, <3>3, <3>4, <3>5, <3>6, <3>7, <3>8, SwapMoves
<1>7. CASE /\ IndexHappens("fail") /\ chunks' \in {chunks, [chunks EXCEPT ![x] = NoText]}
           /\ indexer' = [indexer EXCEPT ![w].at = Next1(x, TRUE, t), ![w].failed = TRUE]
  <2> DEFINE n == Next1(x, TRUE, t)
  <2>1. /\ n \in {"flag", "ledger", "law"}
        /\ x \in Singles => n # "law" /\ (n = "flag" <=> x \in Annexes)
        /\ indexer' = [indexer EXCEPT ![w].at = n, ![w].failed = TRUE]
    BY <1>4, <1>7
  <2> HIDE DEF n
  <2>2. PICK r : r = MovedTo(w, n, TRUE)
    OBVIOUS
  <2>3. /\ r \in IndexerAt /\ r.source = x /\ r.text = t /\ r.at = n /\ r.failed = TRUE
        /\ indexer' = [indexer EXCEPT ![w] = r]
    <3>1. /\ r \in IndexerAt /\ r.at = n /\ r.source = indexer[w].source /\ r.text = indexer[w].text
          /\ r.failed = TRUE
      BY <1>2, <2>1, <2>2 DEF MovedTo, IndexerAt
    <3>2. indexer' = [indexer EXCEPT ![w] = r]
      BY <1>2, <1>3, <2>1, <2>2, MovedIs
    <3>3. QED
      BY <1>5, <3>1, <3>2
  <2>4. /\ chunks' \in [Sources -> MaybeText]
        /\ \A y \in Sources : y # x => chunks'[y] = chunks[y]
        /\ TRUE \/ chunks'[x] = t
    BY <1>2, <1>3, <1>7 DEF IndexTypeOK, MaybeText
  <2>5. indexCount' \in [IndexEvents \union {"any"} -> Nat]
    BY <1>2, <1>7, HappensTypes DEF IndexEvents
  <2>6. QED
    <3>1. \A y \in Sources : y # x => chunks'[y] = chunks[y]
      BY <2>4
    <3>2. IndexInv
      OBVIOUS
    <3>3. UNCHANGED <<text, ledger, flag, audit, rebuild, cache, query, torn, unindexed>>
      BY <1>5
    <3>4. r \in IndexerAt
      BY <2>3
    <3>5. /\ x = indexer[w].source /\ indexer[w].at = "swap"
          /\ r.source = x /\ r.text = indexer[w].text /\ r.at \in {"flag", "ledger", "law"}
      BY <1>1, <1>5, <2>1, <2>3
    <3>6. x \in Singles => r.at # "law" /\ (r.at = "flag" <=> x \in Annexes)
      BY <2>1, <2>3
    <3>7. r.failed = TRUE \/ chunks'[x] = r.text
      BY <2>3, <2>4
    <3>8. indexer' = [indexer EXCEPT ![w] = r]
      BY <2>3
    <3> QED
      BY <1>3, <2>4, <2>5, <3>1, <3>2, <3>3, <3>4, <3>5, <3>6, <3>7, <3>8, SwapMoves
<1>8. QED
  BY <1>1, <1>6, <1>7 DEF x, t

-----------------------------------------------------------------------------
LEMMA BeginsKeep == ASSUME IndexInv, IndexChanged \/ IndexPending \/ RepairStale PROVE IndexInv'
<1>1. IndexTypeOK /\ indexCount \in [IndexEvents \union {"any"} -> Nat]
  BY DEF IndexInv, IndexTypeOK
<1>2. CASE IndexChanged
  <2>1. PICK w \in Indexers, x \in Sources, t \in MaybeText :
          (t \in Texts \/ x \in Laws) /\ IndexHappens("change") /\ BeginIndexing(w, x, t)
    BY <1>2 DEF IndexChanged
  <2>2. indexCount' \in [IndexEvents \union {"any"} -> Nat]
    BY <1>1, <2>1, HappensTypes DEF IndexEvents
  <2>3. QED
    BY <2>1, <2>2, BeginKeeps
<1>3. CASE IndexPending \/ RepairStale
  <2>1. PICK w \in Indexers, x \in Sources :
          text[x] # NoText /\ BeginIndexing(w, x, text[x]) /\ UNCHANGED indexCount
    BY <1>3 DEF IndexPending, RepairStale, Sources
  <2>2. text[x] \in MaybeText /\ text[x] \in Texts
    BY <1>1, <2>1 DEF IndexTypeOK, MaybeText
  <2>3. QED
    BY <1>1, <2>1, <2>2, BeginKeeps
<1>4. QED
  BY <1>2, <1>3

(* A thread that has something left to do has a source.                    *)
LEMMA HasSource ==
  ASSUME IndexInv, NEW w \in Indexers, indexer[w].at # "off"
  PROVE  IndexTypeOK /\ indexer[w] \in IndexerAt /\ IndexerFits(w) /\ indexer[w].source \in Sources
<1>1. IndexTypeOK /\ indexer[w] \in IndexerAt /\ IndexerFits(w)
  BY DEF IndexInv, IndexTypeOK
<1>2. QED
  BY <1>1 DEF IndexerFits, IndexerAt

-----------------------------------------------------------------------------
(* A text is read again: its chunks go, and whoever comes for it waits.    *)
LEMMA BeginRereadKeeps == ASSUME IndexInv, BeginReread PROVE IndexInv'
<1>1. PICK w \in Indexers, x \in Singles, t \in MaybeText :
        /\ indexer[w].at = "off" /\ StoreIsUp /\ ~UnderWay(x) /\ IndexHappens("change")
        /\ t \in Texts \/ x \in Annexes
        /\ chunks' = [chunks EXCEPT ![x] = NoText]
        /\ indexer' = [indexer EXCEPT ![w] = [at |-> "reread", source |-> x, text |-> t, failed |-> FALSE]]
        /\ torn' = (IF audit.on THEN torn \union {x} ELSE torn)
        /\ audit' = [audit EXCEPT !.clean = @ \ {x}]
        /\ UNCHANGED <<text, ledger, flag, rebuild, cache, query, unindexed>>
  BY DEF BeginReread, Overtakes, Singles
<1> DEFINE at == [at |-> "reread", source |-> x, text |-> t, failed |-> FALSE]
<1>2. IndexTypeOK /\ at \in IndexerAt /\ x \in Sources /\ x # NoText
  BY SinglesAre DEF IndexInv, IndexerAt
<1>3. audit'.on = audit.on /\ audit'.rows = audit.rows /\ audit'.clean = audit.clean \ {x}
  BY <1>1, <1>2 DEF IndexTypeOK
<1>4. IndexTypeOK'
  <2>1. chunks' \in [Sources -> MaybeText] /\ indexer' \in [Indexers -> IndexerAt]
    BY <1>1, <1>2 DEF IndexTypeOK, MaybeText
  <2>2. audit' \in [on: BOOLEAN, rows: Ledgers, clean: SUBSET Sources] /\ torn' \subseteq Sources
    BY <1>1, <1>2 DEF IndexTypeOK
  <2>3. indexCount' \in [IndexEvents \union {"any"} -> Nat]
    BY <1>1, <1>2, HappensTypes DEF IndexEvents
  <2>4. QED
    BY <1>1, <1>2, <2>1, <2>2, <2>3 DEF IndexTypeOK
<1>5. /\ indexer'[w] = at /\ \A v \in Indexers : v # w => indexer'[v] = indexer[v]
      /\ indexer[w].source = NoText
      /\ chunks'[x] = NoText /\ \A y \in Sources : y # x => chunks'[y] = chunks[y]
  BY <1>1, <1>2 DEF IndexTypeOK, IndexInv, IndexerFits
<1>6. \A v \in Indexers : v # w => indexer[v].source # x
  BY <1>1 DEF UnderWay
<1>7. \A y \in Sources : UnderWay(y)' <=> UnderWay(y) \/ y = x
  BY <1>5, SinglesAre DEF UnderWay
<1>8. \A v \in Indexers : IndexerFits(v)'
  <2>1. IndexerFits(w)'
    BY <1>1, <1>2, <1>5, SinglesAre DEF IndexerFits
  <2>2. ASSUME NEW v \in Indexers, v # w PROVE IndexerFits(v)'
    <3>1. IndexerFits(v) /\ indexer'[v] = indexer[v] /\ MarkOf(v)' = MarkOf(v)
      BY <1>5, <2>2 DEF IndexInv, MarkOf
    <3>2. indexer[v].source \in Singles => chunks'[indexer[v].source] = chunks[indexer[v].source]
      BY <1>5, <1>6, <2>2, SinglesAre
    <3>3. QED
      BY <1>1, <3>1, <3>2 DEF IndexerFits
  <2>3. QED
    BY <2>1, <2>2
<1>9. OneAtATime'
  BY <1>5, <1>6 DEF IndexInv, OneAtATime
<1>10. RebuildIsAlone' /\ HasText' /\ FlagsFit'
  BY <1>1 DEF IndexInv, RebuildIsAlone, StoreIsUp, HasText, FlagsFit
<1>11. AuditFits'
  <2> SUFFICES ASSUME audit'.on, NEW y \in Singles
               PROVE  /\ y \in audit'.clean \union torn'
                      /\ y \in audit'.clean => ~UnderWay(y)' /\ audit'.rows[y] = Audited(y)'
    BY DEF AuditFits
  <2>1. /\ y \in audit.clean \union torn
        /\ y \in audit.clean => ~UnderWay(y) /\ audit.rows[y] = Audited(y)
    BY <1>3 DEF IndexInv, AuditFits
  <2>2. y # x => Audited(y)' = Audited(y)
    BY <1>1, <1>5, SinglesAre DEF Audited, SeemsStored
  <2>3. QED
    BY <1>1, <1>3, <1>7, <2>1, <2>2, SinglesAre
<1>12. StoreIsVouchedFor'
  <2>1. \A y \in Singles : ~UnderWay(y)' => /\ ~UnderWay(y) /\ chunks'[y] = chunks[y]
                                            /\ y \notin torn' => y \notin torn
    BY <1>1, <1>5, <1>7, SinglesAre
  <2>2. VouchedIsStored'
    BY <1>1, <2>1, VouchedByRow DEF IndexInv, StoreIsVouchedFor, VouchedIsStored, SeemsStored, Singles
  <2>3. MarkedIsStored'
    BY <1>1, <2>1 DEF IndexInv, StoreIsVouchedFor, MarkedIsStored, SeemsStored, Singles
  <2>4. RereadIsGone'
    BY <1>1, <2>1 DEF IndexInv, StoreIsVouchedFor, RereadIsGone, Singles
  <2>5. QED
    BY <2>2, <2>3, <2>4 DEF StoreIsVouchedFor
<1>13. QED
  BY <1>4, <1>8, <1>9, <1>10, <1>11, <1>12 DEF IndexInv

LEMMA CommitRereadKeeps == ASSUME IndexInv, CommitReread PROVE IndexInv'
<1>1. PICK w \in Indexers :
        /\ indexer[w].at = "reread"
        /\ text' = [text EXCEPT ![indexer[w].source] = indexer[w].text]
        /\ unindexed' = unindexed \union {indexer[w].source}
        /\ flag' = [flag EXCEPT ![indexer[w].source] = NoText]
        /\ indexer' = [indexer EXCEPT ![w] = NotIndexing]
        /\ UNCHANGED <<chunks, ledger, audit, rebuild, cache, query, torn, indexCount>>
  BY DEF CommitReread
<1>2. PICK x \in Sources : x = indexer[w].source
  BY <1>1, HasSource
<1>3. IndexTypeOK /\ indexer[w] \in IndexerAt /\ IndexerFits(w)
  BY <1>1, HasSource
<1>4. /\ indexer[w].text \in MaybeText /\ chunks[x] = NoText
      /\ x \in Bodies => indexer[w].text \in Texts
  BY <1>1, <1>2, <1>3 DEF IndexerFits, IndexerAt
<1>5. NotIndexing \in IndexerAt /\ NotIndexing.source = NoText /\ NotIndexing.at = "off"
  BY StartTypes DEF NotIndexing
<1>6. /\ text' \in [Sources -> MaybeText] /\ flag' \in [Sources -> MaybeText] /\ unindexed' \subseteq Sources
      /\ text'[x] = indexer[w].text /\ flag'[x] = NoText /\ x \in unindexed'
      /\ \A y \in Sources : y # x => text'[y] = text[y] /\ flag'[y] = flag[y] /\ (y \in unindexed' <=> y \in unindexed)
  BY <1>1, <1>2, <1>3, <1>4 DEF IndexTypeOK, MaybeText
<1>7. indexer' \in [Indexers -> IndexerAt] /\ indexer'[w] = NotIndexing
  BY <1>1, <1>3, <1>5 DEF IndexTypeOK
<1>8. IndexTypeOK'
  BY <1>1, <1>3, <1>6, <1>7 DEF IndexTypeOK
<1>9. IndexerFits(w)'
  BY <1>5, <1>7, SinglesAre DEF IndexerFits
<1>10. VouchedAtEnd(x)
  BY <1>1, <1>4, <1>6 DEF VouchedAtEnd
<1>11. \A y \in Sources : y # x => /\ chunks'[y] = chunks[y] /\ flag'[y] = flag[y] /\ ledger'[y] = ledger[y]
                                   /\ y \in torn' <=> y \in torn
  BY <1>1, <1>6
<1>12. UNCHANGED <<audit, rebuild>> /\ indexer' = [indexer EXCEPT ![w] = NotIndexing] /\ torn' = torn
  BY <1>1
<1>13. x \in Bodies => text'[x] \in Texts
  BY <1>4, <1>6
<1>14. QED
  BY <1>2, <1>5, <1>6, <1>8, <1>9, <1>10, <1>11, <1>12, <1>13, MoveKeeps

LEMMA AbandonRereadKeeps == ASSUME IndexInv, AbandonReread PROVE IndexInv'
<1>1. PICK w \in Indexers :
        /\ indexer[w].at = "reread" /\ IndexHappens("fail")
        /\ torn' = torn \union {indexer[w].source}
        /\ indexer' = [indexer EXCEPT ![w] = NotIndexing]
        /\ UNCHANGED <<text, chunks, ledger, flag, audit, rebuild, cache, query, unindexed>>
  BY DEF AbandonReread, durables
<1>2. PICK x \in Sources : x = indexer[w].source
  BY <1>1, HasSource
<1>3. IndexTypeOK /\ indexer[w] \in IndexerAt /\ IndexerFits(w)
  BY <1>1, HasSource
<1>4. NotIndexing \in IndexerAt /\ NotIndexing.source = NoText /\ NotIndexing.at = "off"
  BY StartTypes DEF NotIndexing
<1>5. indexer' \in [Indexers -> IndexerAt] /\ indexer'[w] = NotIndexing
  BY <1>1, <1>3, <1>4 DEF IndexTypeOK
<1>6. torn' \subseteq Sources /\ x \in torn' /\ \A y \in Sources : y # x => (y \in torn' <=> y \in torn)
  BY <1>1, <1>2, <1>3 DEF IndexTypeOK
<1>7. indexCount' \in [IndexEvents \union {"any"} -> Nat]
  BY <1>1, <1>3, HappensTypes DEF IndexEvents
<1>8. IndexTypeOK'
  BY <1>1, <1>3, <1>5, <1>6, <1>7 DEF IndexTypeOK
<1>9. IndexerFits(w)'
  BY <1>4, <1>5, SinglesAre DEF IndexerFits
<1>10. VouchedAtEnd(x)
  BY <1>6 DEF VouchedAtEnd
<1>11. \A y \in Sources : y # x => /\ chunks'[y] = chunks[y] /\ flag'[y] = flag[y] /\ ledger'[y] = ledger[y]
                                   /\ y \in torn' <=> y \in torn
  BY <1>1, <1>6
<1>12. UNCHANGED <<text, audit, rebuild, unindexed>> /\ indexer' = [indexer EXCEPT ![w] = NotIndexing]
  BY <1>1
<1>13. /\ x \in Bodies => text'[x] \in Texts
       /\ x \in Annexes => flag'[x] \in {NoText, text'[x]}
  BY <1>1 DEF IndexInv, HasText, FlagsFit
<1>14. QED
  BY <1>2, <1>4, <1>6, <1>8, <1>9, <1>10, <1>11, <1>12, <1>13, MoveKeeps

LEMMA ReloadAnnexKeeps == ASSUME IndexInv, ReloadAnnex PROVE IndexInv'
<1>1. PICK x \in Annexes, t \in MaybeText :
        /\ StoreIsUp /\ ~UnderWay(x) /\ IndexHappens("change")
        /\ text' = [text EXCEPT ![x] = t] /\ unindexed' = unindexed \union {x}
        /\ flag' = [flag EXCEPT ![x] = NoText]
        /\ torn' = (IF audit.on THEN torn \union {x} ELSE torn)
        /\ audit' = [audit EXCEPT !.clean = @ \ {x}]
        /\ UNCHANGED <<chunks, ledger, indexer, rebuild, cache, query>>
  BY DEF ReloadAnnex, Overtakes
<1>2. IndexTypeOK /\ x \in Sources /\ x \notin Bodies /\ x \in Singles
  BY SinglesAre DEF IndexInv
<1>3. audit'.on = audit.on /\ audit'.rows = audit.rows /\ audit'.clean = audit.clean \ {x}
  BY <1>1, <1>2 DEF IndexTypeOK
<1>4. /\ text' \in [Sources -> MaybeText] /\ flag' \in [Sources -> MaybeText] /\ flag'[x] = NoText
      /\ \A y \in Sources : y # x => /\ text'[y] = text[y] /\ flag'[y] = flag[y]
                                     /\ y \in unindexed' <=> y \in unindexed
                                     /\ y \in torn' <=> y \in torn
  BY <1>1, <1>2 DEF IndexTypeOK, MaybeText
<1>5. IndexTypeOK'
  <2>1. audit' \in [on: BOOLEAN, rows: Ledgers, clean: SUBSET Sources] /\ torn' \subseteq Sources
        /\ unindexed' \subseteq Sources
    BY <1>1, <1>2 DEF IndexTypeOK
  <2>2. indexCount' \in [IndexEvents \union {"any"} -> Nat]
    BY <1>1, <1>2, HappensTypes DEF IndexEvents
  <2>3. QED
    BY <1>1, <1>2, <1>4, <2>1, <2>2 DEF IndexTypeOK
<1>6. ASSUME NEW v \in Indexers PROVE IndexerFits(v)'
  <2>1. IndexerFits(v) /\ MarkOf(v)' = MarkOf(v) /\ indexer[v].source # x
    BY <1>1 DEF IndexInv, MarkOf, UnderWay
  <2>2. indexer[v].source \in Singles => text'[indexer[v].source] = text[indexer[v].source]
                                         /\ flag'[indexer[v].source] = flag[indexer[v].source]
    BY <1>4, <2>1, SinglesAre
  <2>3. QED
    BY <1>1, <2>1, <2>2 DEF IndexerFits
<1>7. OneAtATime' /\ RebuildIsAlone'
  BY <1>1, <1>3 DEF IndexInv, OneAtATime, RebuildIsAlone, StoreIsUp
<1>8. HasText' /\ FlagsFit'
  BY <1>2, <1>4, SinglesAre DEF IndexInv, HasText, FlagsFit
<1>9. \A y \in Sources : UnderWay(y)' = UnderWay(y)
  BY <1>1 DEF UnderWay
<1>10. AuditFits'
  <2> SUFFICES ASSUME audit'.on, NEW y \in Singles
               PROVE  /\ y \in audit'.clean \union torn'
                      /\ y \in audit'.clean => ~UnderWay(y)' /\ audit'.rows[y] = Audited(y)'
    BY DEF AuditFits
  <2>1. /\ y \in audit.clean \union torn
        /\ y \in audit.clean => ~UnderWay(y) /\ audit.rows[y] = Audited(y)
    BY <1>3 DEF IndexInv, AuditFits
  <2>2. y # x => Audited(y)' = Audited(y)
    BY <1>1, <1>4, SinglesAre DEF Audited, SeemsStored
  <2>3. QED
    BY <1>1, <1>3, <1>9, <2>1, <2>2, SinglesAre
<1>11. StoreIsVouchedFor'
  <2>1. \A y \in Singles : y # x => /\ text'[y] = text[y] /\ flag'[y] = flag[y] /\ UnderWay(y)' = UnderWay(y)
                                    /\ y \in unindexed' <=> y \in unindexed
                                    /\ y \in torn' <=> y \in torn
    BY <1>4, <1>9, SinglesAre
  <2>2. VouchedIsStored'
    BY <1>1, <2>1, VouchedByRow DEF IndexInv, StoreIsVouchedFor, VouchedIsStored, SeemsStored, StoreIsUp, Singles
  <2>3. MarkedIsStored'
    BY <1>1, <1>4, <2>1 DEF IndexInv, StoreIsVouchedFor, MarkedIsStored, SeemsStored, StoreIsUp, Singles
  <2>4. RereadIsGone'
    BY <1>1, <1>2, <2>1 DEF IndexInv, StoreIsVouchedFor, RereadIsGone, StoreIsUp, Singles
  <2>5. QED
    BY <2>2, <2>3, <2>4 DEF StoreIsVouchedFor
<1>12. QED
  BY <1>5, <1>6, <1>7, <1>8, <1>10, <1>11 DEF IndexInv

LEMMA MarkAnnexKeeps == ASSUME IndexInv, MarkAnnex PROVE IndexInv'
<1>1. PICK w \in Indexers :
        /\ indexer[w].at = "flag" /\ flag' = [flag EXCEPT ![indexer[w].source] = MarkOf(w)]
        /\ indexer' = [indexer EXCEPT ![w].at = "ledger"]
        /\ UNCHANGED <<text, chunks, ledger, audit, rebuild, cache, query, torn, unindexed, indexCount>>
  BY DEF MarkAnnex
<1>2. PICK x \in Sources : x = indexer[w].source
  BY <1>1, HasSource
<1>3. IndexTypeOK /\ indexer[w] \in IndexerAt /\ IndexerFits(w)
  BY <1>1, HasSource
<1>4. PICK r : r = [indexer[w] EXCEPT !.at = "ledger"]
  OBVIOUS
<1>5. /\ r \in IndexerAt /\ r.at = "ledger" /\ r.source = x /\ r.text = indexer[w].text
      /\ r.failed = indexer[w].failed
  BY <1>2, <1>3, <1>4 DEF IndexerAt
<1>6. indexer' = [indexer EXCEPT ![w] = r]
  BY <1>1, <1>4
<1>7. MarkOf(w) \in MaybeText /\ (x \in Annexes => MarkOf(w) \in {NoText, text[x]})
  BY <1>1, <1>2, <1>3, SinglesAre DEF MarkOf, IndexerAt, MaybeText, IndexerFits
<1>8. flag' \in [Sources -> MaybeText] /\ flag'[x] = MarkOf(w) /\ \A y \in Sources : y # x => flag'[y] = flag[y]
  BY <1>1, <1>2, <1>3, <1>7 DEF IndexTypeOK
<1>9. indexer' \in [Indexers -> IndexerAt] /\ indexer'[w] = r
  BY <1>3, <1>5, <1>6 DEF IndexTypeOK
<1>10. IndexTypeOK'
  BY <1>1, <1>3, <1>8, <1>9 DEF IndexTypeOK
<1>11. IndexerFits(w)'
  <2>1. MarkOf(w)' = MarkOf(w)
    BY <1>5, <1>9 DEF MarkOf
  <2>2. QED
    BY <1>1, <1>2, <1>3, <1>5, <1>8, <1>9, <2>1, SinglesAre DEF IndexerFits
<1>12. x \in Annexes => flag'[x] \in {NoText, text[x]}
  BY <1>7, <1>8
<1>13. r.source # NoText
  BY <1>5, SinglesAre
<1>14. UNCHANGED <<text, audit, rebuild>>
  BY <1>1
<1>15. \A y \in Sources : y # x => /\ chunks'[y] = chunks[y] /\ flag'[y] = flag[y] /\ ledger'[y] = ledger[y]
                                   /\ y \in torn' <=> y \in torn
  BY <1>1, <1>8
<1>16. x \in Bodies => text'[x] \in Texts
  BY <1>1 DEF IndexInv, HasText
<1>17. QED
  BY <1>1, <1>2, <1>5, <1>6, <1>10, <1>11, <1>12, <1>13, <1>14, <1>15, <1>16, MoveKeeps

LEMMA MarkLawKeeps == ASSUME IndexInv, MarkLaw PROVE IndexInv'
<1>1. PICK w \in Indexers :
        /\ indexer[w].at = "law"
        /\ flag' = IF indexer[w].failed THEN flag ELSE [flag EXCEPT ![indexer[w].source] = indexer[w].text]
        /\ indexer' = [indexer EXCEPT ![w] = NotIndexing]
        /\ UNCHANGED <<text, chunks, ledger, audit, rebuild, cache, query, torn, unindexed, indexCount>>
  BY DEF MarkLaw
<1>2. PICK x \in Sources : x = indexer[w].source
  BY <1>1, HasSource
<1>3. IndexTypeOK /\ indexer[w] \in IndexerAt /\ IndexerFits(w)
  BY <1>1, HasSource
<1>4. x \notin Singles /\ x \notin Annexes
  BY <1>1, <1>2, <1>3, SinglesAre DEF IndexerFits
<1>5. NotIndexing \in IndexerAt /\ NotIndexing.source = NoText /\ NotIndexing.at = "off"
  BY StartTypes DEF NotIndexing
<1>6. flag' \in [Sources -> MaybeText] /\ \A y \in Sources : y # x => flag'[y] = flag[y]
  <2>1. indexer[w].text \in MaybeText
    BY <1>3 DEF IndexerAt
  <2>2. QED
    BY <1>1, <1>2, <1>3, <2>1 DEF IndexTypeOK
<1>7. indexer' \in [Indexers -> IndexerAt] /\ indexer'[w] = NotIndexing
  BY <1>1, <1>3, <1>5 DEF IndexTypeOK
<1>8. IndexTypeOK'
  BY <1>1, <1>3, <1>6, <1>7 DEF IndexTypeOK
<1>9. IndexerFits(w)'
  BY <1>5, <1>7, SinglesAre DEF IndexerFits
<1>10. UNCHANGED <<text, audit, rebuild>>
  BY <1>1
<1>11. \A y \in Sources : y # x => /\ chunks'[y] = chunks[y] /\ flag'[y] = flag[y] /\ ledger'[y] = ledger[y]
                                   /\ y \in torn' <=> y \in torn
  BY <1>1, <1>6
<1>12. indexer' = [indexer EXCEPT ![w] = NotIndexing] /\ x \notin Bodies
  BY <1>1, <1>4, SinglesAre
<1>13. QED
  BY <1>1, <1>2, <1>4, <1>5, <1>8, <1>9, <1>10, <1>11, <1>12, MoveKeeps

(* The row that is written for a circular or an attachment stands alone.   *)
LEMMA RecordedIs ==
  ASSUME IndexTypeOK, NEW x \in Sources, NEW t \in MaybeText, NEW row \in RowStates
  PROVE  /\ Recorded(x, t, row) \in Ledgers
         /\ \A y \in Sources : y # x => Recorded(x, t, row)[y] = ledger[y]
         /\ x \in Singles => \A u \in Texts : Recorded(x, t, row)[x][u] = IF u = t THEN row ELSE "none"
<1> DEFINE rows == [u \in Texts |-> IF u = t THEN row ELSE IF x \in Laws THEN ledger[x][u] ELSE "none"]
<1>1. ledger \in [Sources -> [Texts -> RowStates]]
  BY DEF IndexTypeOK, Ledgers
<1>2. Recorded(x, t, row) = [ledger EXCEPT ![x] = rows]
  BY DEF Recorded
<1>3. rows \in [Texts -> RowStates]
  BY <1>1 DEF RowStates
<1>4. x \in Singles => \A u \in Texts : rows[u] = IF u = t THEN row ELSE "none"
  BY SinglesAre
<1> HIDE DEF rows
<1>5. QED
  BY <1>1, <1>2, <1>3, <1>4 DEF Ledgers

LEMMA RecordRowKeeps == ASSUME IndexInv, RecordRow PROVE IndexInv'
<1>1. PICK w \in Indexers :
        /\ indexer[w].at = "ledger"
        /\ \/ /\ ledger' = Recorded(indexer[w].source, indexer[w].text,
                                   IF indexer[w].failed THEN "error" ELSE "indexed")
              /\ UNCHANGED indexCount /\ torn' = Settles(indexer[w].source)
           \/ /\ IndexHappens("fail") /\ UNCHANGED ledger
              /\ torn' = IF indexer[w].failed THEN torn \union {indexer[w].source}
                         ELSE Settles(indexer[w].source)
        /\ indexer' = [indexer EXCEPT ![w] = IF indexer[w].source \in Laws
                                             THEN [indexer[w] EXCEPT !.at = "law"] ELSE NotIndexing]
        /\ unindexed' = unindexed \ {indexer[w].source}
        /\ UNCHANGED <<text, chunks, flag, audit, rebuild, cache, query>>
  BY DEF RecordRow
<1>2. PICK x \in Sources : x = indexer[w].source
  BY <1>1, HasSource
<1>3. IndexTypeOK /\ indexer[w] \in IndexerAt /\ IndexerFits(w)
  BY <1>1, HasSource
<1> DEFINE row == IF indexer[w].failed THEN "error" ELSE "indexed"
           t   == indexer[w].text
<1>4. row \in RowStates /\ t \in MaybeText
  BY <1>3 DEF RowStates, IndexerAt
<1>5. \/ ledger' = Recorded(x, t, row) /\ UNCHANGED indexCount /\ torn' = Settles(x)
      \/ /\ IndexHappens("fail") /\ UNCHANGED ledger
         /\ torn' = IF indexer[w].failed THEN torn \union {x} ELSE Settles(x)
  BY <1>1, <1>2
<1>6. /\ indexer[w].failed \in BOOLEAN
      /\ x \in Singles => t = text[x]
      /\ x \in Singles /\ indexer[w].failed = FALSE => chunks[x] = text[x]
      /\ x \in Annexes /\ indexer[w].failed = TRUE => flag[x] = NoText
      /\ x \in Annexes /\ indexer[w].failed = FALSE => flag[x] = text[x]
  <2>1. indexer[w].failed \in BOOLEAN
    BY <1>3 DEF IndexerAt
  <2>2. QED
    BY <1>1, <1>2, <1>3, <2>1, SinglesAre DEF IndexerFits, MarkOf
<1>7. PICK r : r = IF x \in Laws THEN [indexer[w] EXCEPT !.at = "law"] ELSE NotIndexing
  OBVIOUS
<1>8. /\ r \in IndexerAt /\ r.source \in {x, NoText}
      /\ (x \in Laws => r.source = x /\ r.at = "law") /\ (x \notin Laws => r.source = NoText /\ r.at = "off")
  BY <1>2, <1>3, <1>7 DEF IndexerAt, NotIndexing, MaybeText
<1>9. indexer' = [indexer EXCEPT ![w] = r] /\ indexer' \in [Indexers -> IndexerAt] /\ indexer'[w] = r
  BY <1>1, <1>2, <1>3, <1>7, <1>8 DEF IndexTypeOK
<1>10. ledger' \in Ledgers /\ \A y \in Sources : y # x => ledger'[y] = ledger[y]
  BY <1>3, <1>4, <1>5, RecordedIs DEF IndexTypeOK
<1>11. indexCount' \in [IndexEvents \union {"any"} -> Nat]
  BY <1>3, <1>5, HappensTypes DEF IndexTypeOK, IndexEvents
<1>12. /\ torn' \subseteq Sources /\ unindexed' \subseteq Sources /\ x \notin unindexed'
       /\ \A y \in Sources : y # x => (y \in unindexed' <=> y \in unindexed)
       /\ \A y \in Sources : y # x => (y \in torn' <=> y \in torn)
       /\ audit.on /\ x \in torn => x \in torn'
  BY <1>1, <1>2, <1>3, <1>5 DEF IndexTypeOK, Settles
<1>13. IndexTypeOK'
  BY <1>1, <1>3, <1>9, <1>10, <1>11, <1>12 DEF IndexTypeOK
<1>14. IndexerFits(w)'
  BY <1>8, <1>9, SinglesAre DEF IndexerFits
<1>17. UNCHANGED <<text, chunks, flag, audit, rebuild>>
  BY <1>1
<1>15. x \in Singles => VouchedAtEnd(x)
  <2> SUFFICES ASSUME x \in Singles, x \notin torn' PROVE VouchedAtEnd(x)
    BY <1>12 DEF VouchedAtEnd, SeemsStored
  <2>1. CASE indexer[w].failed = TRUE
    <3>1. row = "error"
      BY <2>1
    <3> HIDE DEF row, t
    <3>2. ledger' = Recorded(x, t, row)
      BY <1>5, <2>1
    <3>3. \A u \in Texts : Recorded(x, t, row)[x][u] = IF u = t THEN row ELSE "none"
      BY <1>3, <1>4, RecordedIs
    <3>4. \A u \in Texts : ledger'[x][u] # "indexed"
      BY <3>1, <3>2, <3>3
    <3>5. x \in Annexes => flag'[x] = NoText
      BY <1>6, <1>17, <2>1
    <3>6. Vouched(ledger', x) = {}
      BY <3>4 DEF Vouched
    <3>7. QED
      BY <1>12, <3>5, <3>6 DEF VouchedAtEnd, SeemsStored
  <2>2. CASE indexer[w].failed = FALSE
    <3>1. chunks'[x] = text[x] /\ (x \in Annexes => flag'[x] = text[x])
      BY <1>6, <1>17, <2>2
    <3>2. QED
      BY <1>12, <1>17, <3>1 DEF VouchedAtEnd, SeemsStored
  <2>3. QED
    BY <1>6, <2>1, <2>2
<1>16. x \in Annexes => flag'[x] \in {NoText, text[x]}
  BY <1>1 DEF IndexInv, FlagsFit
<1>18. \A y \in Sources : y # x => /\ chunks'[y] = chunks[y] /\ flag'[y] = flag[y] /\ ledger'[y] = ledger[y]
                                   /\ y \in torn' <=> y \in torn
  BY <1>1, <1>10, <1>12
<1>19. indexer' = [indexer EXCEPT ![w] = r] /\ x \in Singles /\ audit.on /\ x \in torn => x \in torn'
  BY <1>9, <1>12
<1>20. x \in Bodies => text'[x] \in Texts
  BY <1>17 DEF IndexInv, HasText
<1>21. x \in Annexes => flag'[x] \in {NoText, text'[x]}
  BY <1>16, <1>17
<1>22. QED
  BY <1>2, <1>8, <1>9, <1>12, <1>13, <1>14, <1>15, <1>17, <1>18, <1>20, <1>21, MoveKeeps

LEMMA KillKeeps == ASSUME IndexInv, KillIndexing PROVE IndexInv'
<1>1. /\ torn' = torn \union {x \in Sources : UnderWay(x)} \union (IF rebuild = {} THEN {} ELSE Sources)
      /\ indexer' = [w \in Indexers |-> NotIndexing] /\ audit' = NoAudit /\ rebuild' = {}
      /\ cache' = NoCache /\ query' = NoQuery /\ IndexHappens("kill")
      /\ text' = text /\ chunks' = chunks /\ ledger' = ledger /\ flag' = flag /\ unindexed' = unindexed
  BY DEF KillIndexing, durables
<1>2. IndexTypeOK'
  <2>1. IndexTypeOK /\ indexCount' \in [IndexEvents \union {"any"} -> Nat]
    BY <1>1, HappensTypes DEF IndexInv, IndexEvents
  <2>2. torn' \subseteq Sources
    BY <1>1, <2>1 DEF IndexTypeOK
  <2>3. QED
    BY <1>1, <2>1, <2>2, StartTypes DEF IndexTypeOK
<1>3. \A w \in Indexers : indexer'[w].at = "off" /\ indexer'[w].source = NoText
  BY <1>1 DEF NotIndexing
<1>4. (\A w \in Indexers : IndexerFits(w)') /\ OneAtATime'
  BY <1>3, SinglesAre DEF IndexerFits, OneAtATime
<1>5. RebuildIsAlone' /\ AuditFits'
  BY <1>1 DEF RebuildIsAlone, StoreIsUp, AuditFits, NoAudit
<1>6. HasText' /\ FlagsFit'
  BY <1>1 DEF IndexInv, HasText, FlagsFit
<1>7. StoreIsVouchedFor'
  <2>1. \A x \in Sources : x \notin torn' => ~UnderWay(x) /\ StoreIsUp /\ x \notin torn
    BY <1>1 DEF StoreIsUp
  <2>2. VouchedIsStored'
    BY <1>1, <2>1, VouchedByRow DEF IndexInv, StoreIsVouchedFor, VouchedIsStored, SeemsStored, Sources
  <2>3. MarkedIsStored'
    BY <1>1, <2>1 DEF IndexInv, StoreIsVouchedFor, MarkedIsStored, SeemsStored, Sources
  <2>4. RereadIsGone'
    BY <1>1, <2>1 DEF IndexInv, StoreIsVouchedFor, RereadIsGone, Sources
  <2>5. QED
    BY <2>2, <2>3, <2>4 DEF StoreIsVouchedFor
<1>8. QED
  BY <1>2, <1>4, <1>5, <1>6, <1>7 DEF IndexInv

-----------------------------------------------------------------------------
LEMMA AuditedTypes ==
  ASSUME IndexTypeOK, NEW x \in Sources
  PROVE  /\ Audited(x) \in [Texts -> RowStates]
         /\ \A t \in Texts : t # text[x] => Audited(x)[t] = "none"
         /\ text[x] \in Texts
              => Audited(x)[text[x]] = IF SeemsStored(x, text[x]) THEN "indexed" ELSE "stale"
BY DEF Audited, SeemsStored, RowStates

LEMMA AuditReadKeeps == ASSUME IndexInv, AuditRead PROVE IndexInv'
<1>1. /\ StoreIsUp /\ IndexHappens("audit")
      /\ audit' = [on |-> TRUE, rows |-> [x \in Sources |-> Audited(x)], clean |-> {x \in Sources : ~UnderWay(x)}]
      /\ torn' = torn \union {x \in Sources : UnderWay(x)}
      /\ UNCHANGED <<text, chunks, ledger, flag, indexer, rebuild, cache, query, unindexed>>
  BY DEF AuditRead, durables
<1>2. IndexTypeOK'
  <2>1. IndexTypeOK /\ indexCount' \in [IndexEvents \union {"any"} -> Nat]
    BY <1>1, HappensTypes DEF IndexInv, IndexEvents
  <2>2. [x \in Sources |-> Audited(x)] \in Ledgers
    BY <2>1, AuditedTypes DEF Ledgers
  <2>3. audit' \in [on: BOOLEAN, rows: Ledgers, clean: SUBSET Sources] /\ torn' \subseteq Sources
    BY <1>1, <2>1, <2>2 DEF IndexTypeOK
  <2>4. QED
    BY <1>1, <2>1, <2>3 DEF IndexTypeOK
<1>3. ASSUME NEW w \in Indexers PROVE IndexerFits(w)'
  <2>1. IndexerFits(w) /\ MarkOf(w)' = MarkOf(w)
    BY <1>1 DEF IndexInv, MarkOf
  <2>2. QED
    BY <1>1, <2>1 DEF IndexerFits
<1>4. OneAtATime' /\ RebuildIsAlone' /\ HasText' /\ FlagsFit'
  BY <1>1 DEF IndexInv, OneAtATime, RebuildIsAlone, StoreIsUp, HasText, FlagsFit
<1>5. \A x \in Sources : UnderWay(x)' = UnderWay(x) /\ Audited(x)' = Audited(x)
  BY <1>1 DEF UnderWay, Audited, SeemsStored
<1>6. AuditFits'
  BY <1>1, <1>5, SinglesAre DEF AuditFits
<1>7. StoreIsVouchedFor'
  <2>1. VouchedIsStored'
    BY <1>1, <1>5, VouchedByRow DEF IndexInv, StoreIsVouchedFor, VouchedIsStored, SeemsStored, StoreIsUp, Sources
  <2>2. MarkedIsStored'
    BY <1>1, <1>5 DEF IndexInv, StoreIsVouchedFor, MarkedIsStored, SeemsStored, StoreIsUp, Sources
  <2>3. RereadIsGone'
    BY <1>1, <1>5 DEF IndexInv, StoreIsVouchedFor, RereadIsGone, StoreIsUp, Sources
  <2>4. QED
    BY <2>1, <2>2, <2>3 DEF StoreIsVouchedFor
<1>8. QED
  BY <1>2, <1>3, <1>4, <1>6, <1>7 DEF IndexInv

(* What the audit writes agrees with the store for every source that was   *)
(* left alone in between, and for no other does the invariant say anything.*)
LEMMA AuditWriteKeeps == ASSUME IndexInv, AuditWrite PROVE IndexInv'
<1>1. /\ audit.on /\ ledger' = audit.rows /\ audit' = NoAudit /\ torn' = torn \ audit.clean
      /\ unindexed' = unindexed \ audit.clean
      /\ UNCHANGED <<text, flag, indexer, rebuild, cache, query, indexCount>>
  BY DEF AuditWrite
<1>2. chunks' \in [Sources -> MaybeText] /\ \A x \in Singles : chunks'[x] = chunks[x]
  <2>1. chunks \in [Sources -> MaybeText]
    BY DEF IndexInv, IndexTypeOK
  <2>2. PICK purge \in BOOLEAN :
          chunks' = IF purge THEN [x \in Sources |-> IF x \in Laws /\ chunks[x] # NoText /\ audit.rows[x][chunks[x]] = "none"
                                                     THEN NoText ELSE chunks[x]]
                    ELSE chunks
    BY DEF AuditWrite
  <2>3. QED
    BY <2>1, <2>2, SinglesAre DEF MaybeText
<1>3. IndexTypeOK'
  BY <1>1, <1>2, StartTypes DEF IndexInv, IndexTypeOK
<1>4. ASSUME NEW w \in Indexers PROVE IndexerFits(w)'
  <2>1. IndexerFits(w) /\ MarkOf(w)' = MarkOf(w)
    BY <1>1 DEF IndexInv, MarkOf
  <2>2. QED
    BY <1>1, <1>2, <2>1 DEF IndexerFits
<1>5. OneAtATime' /\ RebuildIsAlone' /\ AuditFits' /\ HasText' /\ FlagsFit'
  BY <1>1 DEF IndexInv, OneAtATime, RebuildIsAlone, StoreIsUp, AuditFits, NoAudit, HasText, FlagsFit
<1>6. ASSUME NEW x \in Singles, x \notin torn'
      PROVE  /\ Vouched(ledger', x) # {} => SeemsStored(x, text[x])'
             /\ text[x] \in Texts => SeemsStored(x, text[x])' \/ ledger'[x][text'[x]] = "stale"
  <2>1. x \in Sources /\ IndexTypeOK
    BY SinglesAre DEF IndexInv
  <2>2. audit.rows[x] = Audited(x)
    BY <1>1, <1>6 DEF IndexInv, AuditFits
  <2>3. ledger'[x] = Audited(x)
    BY <1>1, <2>2
  <2>4. /\ \A t \in Texts : ledger'[x][t] = "indexed" => SeemsStored(x, text[x])
        /\ text[x] \in Texts => SeemsStored(x, text[x]) \/ ledger'[x][text[x]] = "stale"
    BY <1>6, <2>1, <2>3, AuditedTypes
  <2>5. QED
    BY <1>1, <1>2, <2>4 DEF Vouched, SeemsStored
<1>7. StoreIsVouchedFor'
  <2>1. VouchedIsStored'
    BY <1>6 DEF VouchedIsStored, SeemsStored, Singles, Vouched
  <2>2. MarkedIsStored'
    <3>1. FlagsFit'
      BY <1>5
    <3>2. \A x \in Annexes : flag'[x] # NoText => text'[x] = flag'[x] /\ text[x] \in Texts
      BY <1>1, <1>3, <3>1, SinglesAre DEF FlagsFit, IndexTypeOK, MaybeText
    <3>3. QED
      BY <1>6, <3>2, SinglesAre DEF MarkedIsStored, SeemsStored
  <2>3. RereadIsGone'
    <3>1. \A x \in Bodies : x \notin torn' => x \notin torn \/ x \in audit.clean
      BY <1>1
    <3>2. QED
      BY <1>1, <1>2, <3>1, SinglesAre DEF IndexInv, StoreIsVouchedFor, RereadIsGone, StoreIsUp, UnderWay
  <2>4. QED
    BY <2>1, <2>2, <2>3 DEF StoreIsVouchedFor
<1>8. QED
  BY <1>3, <1>4, <1>5, <1>7 DEF IndexInv

-----------------------------------------------------------------------------
(* While `reindex` runs no thread is under way, and nothing is asked of    *)
(* the store before its last step, which makes all agree.                  *)
LEMMA RebuildKeeps ==
  ASSUME IndexInv, IndexTypeOK', NoText \in rebuild', ~audit.on, \A w \in Indexers : indexer[w].at = "off",
         UNCHANGED <<text, flag, indexer, audit>>
  PROVE  IndexInv'
<1>1. \A w \in Indexers : IndexerFits(w)' /\ indexer'[w].at = "off" /\ indexer'[w].source = NoText
  BY SinglesAre DEF IndexInv, IndexerFits
<1>2. OneAtATime' /\ RebuildIsAlone'
  BY <1>1, SinglesAre DEF OneAtATime, RebuildIsAlone
<1>3. AuditFits' /\ HasText' /\ FlagsFit'
  BY DEF IndexInv, AuditFits, HasText, FlagsFit
<1>4. StoreIsVouchedFor'
  BY DEF StoreIsVouchedFor, VouchedIsStored, RereadIsGone, MarkedIsStored, SeemsStored, StoreIsUp
<1>5. QED
  BY <1>1, <1>2, <1>3, <1>4 DEF IndexInv

LEMMA ResetStoreKeeps == ASSUME IndexInv, ResetStore PROVE IndexInv'
<1>1. /\ ~audit.on /\ (\A w \in Indexers : indexer[w].at = "off") /\ IndexHappens("rebuild")
      /\ chunks' = NoChunks /\ rebuild' = Bodies \union Annexes \union {NoText}
      /\ cache' = NoCache /\ query' = NoQuery
      /\ UNCHANGED <<text, ledger, flag, indexer, audit, torn, unindexed>>
  BY DEF ResetStore
<1>2. IndexTypeOK /\ indexCount' \in [IndexEvents \union {"any"} -> Nat]
  BY <1>1, HappensTypes DEF IndexInv, IndexEvents
<1>3. IndexTypeOK'
  BY <1>1, <1>2, StartTypes DEF IndexTypeOK, Sources
<1>4. QED
  BY <1>1, <1>3, RebuildKeeps

LEMMA AddBatchKeeps == ASSUME IndexInv, AddBatch PROVE IndexInv'
<1>1. PICK x \in rebuild \ {NoText} :
        /\ chunks' = [chunks EXCEPT ![x] = text[x]] /\ rebuild' = rebuild \ {x}
        /\ UNCHANGED <<text, ledger, flag, indexer, audit, cache, query, torn, unindexed, indexCount>>
  BY DEF AddBatch
<1>2. IndexTypeOK /\ x \in Sources
  BY <1>1 DEF IndexInv, IndexTypeOK
<1>3. IndexTypeOK'
  BY <1>1, <1>2 DEF IndexTypeOK
<1>4. NoText \in rebuild' /\ ~audit.on /\ \A w \in Indexers : indexer[w].at = "off"
  BY <1>1 DEF IndexInv, RebuildIsAlone, StoreIsUp
<1>5. QED
  BY <1>1, <1>3, <1>4, RebuildKeeps

LEMMA FinishRebuildKeeps == ASSUME IndexInv, FinishRebuild PROVE IndexInv'
<1>1. /\ flag' = [x \in Sources |-> IF x \in Bodies THEN NoText ELSE text[x]]
      /\ chunks' = [x \in Sources |-> text[x]]
      /\ ledger' = [x \in Sources |-> [t \in Texts |-> IF t = text[x] THEN "indexed" ELSE "none"]]
      /\ rebuild' = {} /\ torn' = {} /\ unindexed' = {} /\ UNCHANGED <<text, indexer, audit, cache, query, indexCount>>
  BY DEF FinishRebuild
<1>2. IndexTypeOK /\ text \in [Sources -> MaybeText]
  BY DEF IndexInv, IndexTypeOK
<1>3. flag' \in [Sources -> MaybeText] /\ chunks' \in [Sources -> MaybeText]
  BY <1>1, <1>2 DEF MaybeText
<1>4. ledger' \in Ledgers
  BY <1>1 DEF Ledgers, RowStates
<1>5. IndexTypeOK'
  BY <1>1, <1>2, <1>3, <1>4 DEF IndexTypeOK
<1>6. ~audit.on /\ \A w \in Indexers : indexer[w].at = "off" /\ indexer[w].source = NoText
  BY DEF FinishRebuild, IndexInv, RebuildIsAlone, StoreIsUp, IndexerFits
<1>7. (\A w \in Indexers : IndexerFits(w)') /\ OneAtATime'
  BY <1>1, <1>6, SinglesAre DEF IndexerFits, OneAtATime
<1>8. RebuildIsAlone' /\ AuditFits' /\ HasText'
  BY <1>1, <1>6 DEF RebuildIsAlone, StoreIsUp, AuditFits, HasText, IndexInv
<1>9. \A x \in Singles : chunks'[x] = text'[x] /\ flag'[x] \in {NoText, text'[x]}
  BY <1>1, SinglesAre
<1>10. FlagsFit' /\ StoreIsVouchedFor'
  BY <1>1, <1>9, SinglesAre DEF FlagsFit, StoreIsVouchedFor, VouchedIsStored, RereadIsGone, MarkedIsStored,
     SeemsStored, Singles
<1>11. QED
  BY <1>5, <1>7, <1>8, <1>10 DEF IndexInv

-----------------------------------------------------------------------------
(* Searches write nothing that is kept.                                    *)
LEMMA SearchKeeps ==
  ASSUME IndexInv, IndexTypeOK', UNCHANGED <<text, chunks, ledger, flag, indexer, audit, rebuild, torn, unindexed>>
  PROVE  IndexInv'
<1>1. ASSUME NEW w \in Indexers PROVE IndexerFits(w)'
  <2>1. IndexerFits(w) /\ MarkOf(w)' = MarkOf(w)
    BY DEF IndexInv, MarkOf
  <2>2. QED
    BY <2>1 DEF IndexerFits
<1>2. OneAtATime' /\ RebuildIsAlone' /\ HasText' /\ FlagsFit'
  BY DEF IndexInv, OneAtATime, RebuildIsAlone, StoreIsUp, HasText, FlagsFit
<1>3. \A x \in Sources : UnderWay(x)' = UnderWay(x) /\ Audited(x)' = Audited(x)
  BY DEF UnderWay, Audited, SeemsStored
<1>4. AuditFits'
  BY <1>3, SinglesAre DEF AuditFits, IndexInv
<1>5. StoreIsVouchedFor'
  <2>1. VouchedIsStored'
    BY <1>3, VouchedByRow DEF IndexInv, StoreIsVouchedFor, VouchedIsStored, SeemsStored, StoreIsUp, Sources
  <2>2. MarkedIsStored'
    BY <1>3 DEF IndexInv, StoreIsVouchedFor, MarkedIsStored, SeemsStored, StoreIsUp, Sources
  <2>3. RereadIsGone'
    BY <1>3 DEF IndexInv, StoreIsVouchedFor, RereadIsGone, StoreIsUp, Sources
  <2>4. QED
    BY <2>1, <2>2, <2>3 DEF StoreIsVouchedFor
<1>6. QED
  BY <1>1, <1>2, <1>4, <1>5 DEF IndexInv

LEMMA StartSearchKeeps == ASSUME IndexInv, StartSearch PROVE IndexInv'
<1>1. /\ query' = [on |-> TRUE, key |-> ledger] /\ IndexHappens("search")
      /\ UNCHANGED <<text, chunks, ledger, flag, indexer, audit, rebuild, cache, torn, unindexed>>
  BY DEF StartSearch, durables
<1>2. IndexTypeOK /\ indexCount' \in [IndexEvents \union {"any"} -> Nat]
  BY <1>1, HappensTypes DEF IndexInv, IndexEvents
<1>3. query' \in [on: BOOLEAN, key: Ledgers]
  BY <1>1, <1>2 DEF IndexTypeOK
<1>4. IndexTypeOK'
  BY <1>1, <1>2, <1>3 DEF IndexTypeOK
<1>5. QED
  BY <1>1, <1>4, SearchKeeps

LEMMA TakeSnapshotKeeps == ASSUME IndexInv, TakeSnapshot PROVE IndexInv'
<1>1. /\ query' = NoQuery
      /\ cache' = IF cache.on /\ cache.key = query.key THEN cache
                  ELSE [on |-> TRUE, key |-> query.key, view |-> View(query.key)]
      /\ UNCHANGED <<text, chunks, ledger, flag, indexer, audit, rebuild, torn, unindexed, indexCount>>
  BY DEF TakeSnapshot, durables
<1>2. IndexTypeOK /\ chunks \in [Sources -> MaybeText] /\ query.key \in Ledgers
  BY DEF IndexInv, IndexTypeOK
<1>3. View(query.key) \in [Sources -> MaybeText]
  BY <1>2 DEF View, MaybeText
<1>4. cache' \in [on: BOOLEAN, key: Ledgers, view: [Sources -> MaybeText]]
  BY <1>1, <1>2, <1>3 DEF IndexTypeOK
<1>5. IndexTypeOK'
  BY <1>1, <1>2, <1>4, StartTypes DEF IndexTypeOK
<1>6. QED
  BY <1>1, <1>5, SearchKeeps

LEMMA IndexInvNext == ASSUME IndexInv, [IndexNext]_indexVars PROVE IndexInv'
<1>1. CASE IndexNext
  BY <1>1, BeginsKeep, BeginRereadKeeps, CommitRereadKeeps, AbandonRereadKeeps, ReloadAnnexKeeps, SwapKeeps, MarkAnnexKeeps, RecordRowKeeps, MarkLawKeeps, KillKeeps, AuditReadKeeps,
     AuditWriteKeeps, ResetStoreKeeps, AddBatchKeeps, FinishRebuildKeeps, StartSearchKeeps, TakeSnapshotKeeps
  DEF IndexNext
<1>2. CASE UNCHANGED indexVars
  <2>1. UNCHANGED <<text, chunks, ledger, flag, indexer, audit, rebuild, torn, unindexed>> /\ UNCHANGED <<cache, query, indexCount>>
    BY <1>2 DEF indexVars, durables
  <2>2. IndexTypeOK'
    BY <2>1 DEF IndexInv, IndexTypeOK
  <2>3. QED
    BY <2>1, <2>2, SearchKeeps
<1>3. QED
  BY <1>1, <1>2

LEMMA IndexInvHolds == IndexSpec => []IndexInv
  BY IndexInvInit, IndexInvNext, PTL DEF IndexSpec

(* The store, the ledger, the flags and their threads keep their types.    *)
THEOREM IndexTypes == IndexSpec => []IndexTypeOK
<1>1. IndexInv => IndexTypeOK
  BY DEF IndexInv
<1>2. QED
  BY IndexInvHolds, <1>1, PTL

(* Whatever changes, fails or is killed, and however audits, repairs and   *)
(* rebuilds fall among it: what the ledger vouches for and what is marked  *)
(* is stored, as far as counting its chunks can tell, but for texts that a *)
(* command put in without indexing them.                                   *)
THEOREM TheStoreIsVouchedFor == IndexSpec => []StoreIsVouchedFor
<1>1. IndexInv => StoreIsVouchedFor
  BY DEF IndexInv
<1>2. QED
  BY IndexInvHolds, <1>1, PTL

-----------------------------------------------------------------------------
(* The move of the tables (SchemaSetup): no row is lost on its way.        *)

TableType   == [there: BOOLEAN, rows: SUBSET Rows]
StarterType == [at: SetupSteps, listed: SUBSET Moved, absent: SUBSET Moved,
                made: SUBSET Moved, carried: SUBSET (Moved \X Rows), lacks: SUBSET Columns]

(* SetupTypeOK without the bound of the kills, which plays no part.        *)
SetupTyped ==
  /\ corpus \in [Moved -> TableType] /\ moved \in [Moved -> TableType]
  /\ columns \subseteq Columns /\ filled \in BOOLEAN
  /\ starter \in [Starters -> StarterType]

(* A table that is not there has no rows.                                  *)
AbsentIsEmpty == \A t \in Moved : ~moved[t].there => moved[t].rows = {}

(* Every stored row is in one of the files, on its way, or was lost there. *)
OnItsWay(tr) == \E p \in Starters : StandsAt(p, "inserts") /\ tr \in starter[p].carried
StoredIsKept == \A tr \in stored \ dropped : tr[2] \in corpus[tr[1]].rows \union moved[tr[1]].rows \/ OnItsWay(tr)

(* What a process has yet to move, or to add, is among what it has listed: *)
(* tables never come back to the corpus file, nor do columns go.           *)
ListsAreComplete == \A p \in Starters :
  /\ StandsAt(p, "list") \/ StandsAt(p, "schema") \/ StandsAt(p, "drops") =>
       \A t \in Moved : corpus[t].there => t \in starter[p].listed
  /\ StandsAt(p, "inserts") \/ StandsAt(p, "inspect") \/ StandsAt(p, "columns") \/ StandsAt(p, "up")
       => \A t \in Moved : ~corpus[t].there
  /\ StandsAt(p, "columns") => Columns \ columns \subseteq starter[p].lacks

(* Between the two commits: what is to be inserted is of listed tables,    *)
(* what is to be dropped has been inserted.                                *)
HalfIsSafe == \A p \in Starters :
  /\ StandsAt(p, "inserts") => \A tr \in starter[p].carried : tr[1] \in starter[p].listed
  /\ StandsAt(p, "drops") => \A t \in starter[p].listed : corpus[t].rows \subseteq moved[t].rows

(* A process that is up finds what its models assume.                      *)
UpIsComplete == \A p \in Starters : StandsAt(p, "up") =>
  columns = Columns /\ filled /\ \A t \in Moved : moved[t].there

SetupInv ==
  /\ SetupTyped /\ stored \subseteq Moved \X Rows
  /\ AbsentIsEmpty /\ StoredIsKept /\ ListsAreComplete /\ HalfIsSafe /\ UpIsComplete

-----------------------------------------------------------------------------
(* The initial state: an earlier build, or a new one, and nobody started.  *)
LEMMA SetupInvInit == SetupInit => SetupInv
<1> SUFFICES ASSUME SetupInit PROVE SetupInv
  OBVIOUS
<1>1. Absent \in TableType /\ Table({"old"}) \in TableType
  BY DEF Absent, Table, TableType, Rows
<1>2. Off \in StarterType /\ Off.at = "off"
  BY DEF Off, StarterType, SetupSteps
<1>3. SetupTyped
  BY <1>1, <1>2 DEF SetupTyped, SetupInit
<1>4. stored \subseteq Moved \X Rows /\ StoredIsKept
  BY DEF SetupInit, StoredIsKept
<1>5. AbsentIsEmpty
  BY DEF SetupInit, AbsentIsEmpty, Absent
<1>6. \A p \in Starters : StandsAt(p, "off")
  BY <1>2 DEF SetupInit, StandsAt
<1>7. ListsAreComplete /\ HalfIsSafe /\ UpIsComplete
  BY <1>6 DEF ListsAreComplete, HalfIsSafe, UpIsComplete, StandsAt
<1>8. QED
  BY <1>3, <1>4, <1>5, <1>7 DEF SetupInv

-----------------------------------------------------------------------------
(* What is common to the steps.                                            *)

(* A step that leaves the tables and the columns alone, and moves one      *)
(* process, need only show of that process that its lists are complete.    *)
LEMMA OneProcess ==
  ASSUME SetupInv, NEW p \in Starters, NEW x \in StarterType,
         starter' = [starter EXCEPT ![p] = x],
         UNCHANGED <<corpus, moved, columns, filled, stored>>, dropped \subseteq dropped',
         StandsAt(p, "inserts") => starter[p].carried \subseteq dropped',
         x.at \notin {"inserts", "drops"},
         x.at \in {"list", "schema"} => \A t \in Moved : corpus[t].there => t \in x.listed,
         x.at \in {"inspect", "columns"} => \A t \in Moved : ~corpus[t].there,
         x.at = "columns" => Columns \ columns \subseteq x.lacks,
         x.at # "up"
  PROVE  SetupInv'
<1>1. SetupTyped'
  BY DEF SetupInv, SetupTyped
<1>2. \A q \in Starters : starter'[q] = IF q = p THEN x ELSE starter[q]
  BY DEF SetupInv, SetupTyped
<1>3. AbsentIsEmpty' /\ StoredIsKept' /\ (stored \subseteq Moved \X Rows)'
  <2>1. \A tr \in stored \ dropped' : OnItsWay(tr) => OnItsWay(tr)'
    BY <1>2 DEF OnItsWay, StandsAt
  <2>2. QED
    BY <2>1 DEF SetupInv, AbsentIsEmpty, StoredIsKept
<1>4. ListsAreComplete' /\ HalfIsSafe'
  BY <1>2 DEF SetupInv, ListsAreComplete, HalfIsSafe, StandsAt
<1>5. UpIsComplete'
  BY <1>2 DEF SetupInv, UpIsComplete, StandsAt
<1>6. QED
  BY <1>1, <1>3, <1>4, <1>5 DEF SetupInv

(* A process is one of StarterType, and so is what its steps make of it.   *)
LEMMA StarterParts ==
  ASSUME SetupTyped, NEW p \in Starters
  PROVE  /\ starter[p] \in StarterType
         /\ Off \in StarterType
         /\ [Off EXCEPT !.at = "failed"] \in StarterType
         /\ [Off EXCEPT !.at = "inspect"] \in StarterType
         /\ [Off EXCEPT !.at = "up"] \in StarterType
BY DEF SetupTyped, StarterType, Off, SetupSteps

(* A process that fails leaves everything as it is.                        *)
LEMMA SetupInvFails ==
  ASSUME SetupInv, NEW p \in Starters, Fails(p), ~StandsAt(p, "inserts"),
         UNCHANGED <<corpus, moved, columns, filled, stored, dropped>>
  PROVE  SetupInv'
<1>1. [Off EXCEPT !.at = "failed"] \in StarterType
  BY StarterParts DEF SetupInv
<1>2. [Off EXCEPT !.at = "failed"].at = "failed"
  BY DEF Off
<1>3. QED
  BY <1>1, <1>2, OneProcess DEF Fails

-----------------------------------------------------------------------------
(* The move.                                                               *)

LEMMA SetupInvListLegacy == ASSUME SetupInv, NEW p \in Starters, ListLegacy(p) PROVE SetupInv'
<1> DEFINE legacy == {t \in Moved : corpus[t].there}
           x == [starter[p] EXCEPT !.listed = legacy, !.at = IF legacy = {} THEN "inspect" ELSE "list"]
<1>1. starter[p] \in StarterType
  BY StarterParts DEF SetupInv
<1>2. x \in StarterType /\ x.listed = legacy /\ x.at = IF legacy = {} THEN "inspect" ELSE "list"
  BY <1>1 DEF StarterType, SetupSteps
<1>3. starter' = [starter EXCEPT ![p] = x]
  BY DEF ListLegacy, SetupInv, SetupTyped
<1>4. x.at = "inspect" => \A t \in Moved : ~corpus[t].there
  BY <1>2
<1>5. UNCHANGED <<corpus, moved, columns, filled, stored, dropped>> /\ ~StandsAt(p, "inserts")
  BY DEF ListLegacy, StandsAt
<1> HIDE DEF x
<1>6. QED
  BY <1>2, <1>3, <1>4, <1>5, OneProcess

LEMMA SetupInvInspectMoved == ASSUME SetupInv, NEW p \in Starters, InspectMoved(p) PROVE SetupInv'
<1> DEFINE x == [starter[p] EXCEPT !.at = "schema", !.absent = {t \in starter[p].listed : ~moved[t].there}]
<1>1. starter[p] \in StarterType /\ starter[p].at = "list"
  BY StarterParts DEF SetupInv, InspectMoved, StandsAt
<1>2. x \in StarterType /\ x.listed = starter[p].listed /\ x.at = "schema"
  BY <1>1 DEF StarterType, SetupSteps
<1>3. /\ starter' = [starter EXCEPT ![p] = x] /\ UNCHANGED <<corpus, moved, columns, filled, stored, dropped>>
      /\ ~StandsAt(p, "inserts")
  BY DEF InspectMoved, SetupInv, SetupTyped, StandsAt
<1>4. \A t \in Moved : corpus[t].there => t \in x.listed
  BY <1>1, <1>2 DEF SetupInv, ListsAreComplete, StandsAt
<1> HIDE DEF x
<1>5. QED
  BY <1>2, <1>3, <1>4, OneProcess

LEMMA SetupInvCreateMoved == ASSUME SetupInv, NEW p \in Starters, CreateMoved(p) PROVE SetupInv'
<1>1. PICK t \in starter[p].absent \ starter[p].made :
        /\ StandsAt(p, "schema")
        /\ IF moved[t].there THEN Fails(p) /\ UNCHANGED moved
           ELSE /\ moved' = [moved EXCEPT ![t] = Table({})]
                /\ starter' = [starter EXCEPT ![p].made = @ \union {t}]
        /\ UNCHANGED <<corpus, columns, filled, stored, dropped, kills>>
  BY DEF CreateMoved
<1>2. CASE moved[t].there
  BY <1>1, <1>2, SetupInvFails DEF StandsAt
<1>3. CASE ~moved[t].there
  <2> DEFINE x == [starter[p] EXCEPT !.made = @ \union {t}]
  <2>1. starter[p] \in StarterType /\ t \in Moved
    BY <1>1, StarterParts DEF SetupInv, StarterType
  <2>2. /\ x \in StarterType /\ x.at = starter[p].at /\ x.listed = starter[p].listed /\ x.lacks = starter[p].lacks
        /\ x.carried = starter[p].carried
    BY <2>1 DEF StarterType
  <2>3. starter' = [starter EXCEPT ![p] = x]
    BY <1>1, <1>3 DEF SetupInv, SetupTyped
  <2> HIDE DEF x
  <2>4. \A q \in Starters : /\ starter'[q] \in StarterType /\ starter'[q].at = starter[q].at
                            /\ starter'[q].listed = starter[q].listed /\ starter'[q].lacks = starter[q].lacks
                            /\ starter'[q].carried = starter[q].carried
    BY <2>2, <2>3 DEF SetupInv, SetupTyped
  <2>5. moved' \in [Moved -> TableType]
    <3>1. Table({}) \in TableType
      BY DEF Table, TableType
    <3>2. QED
      BY <1>1, <1>3, <3>1 DEF SetupInv, SetupTyped
  <2>6. /\ \A u \in Moved : moved[u].there => moved'[u] = moved[u]
        /\ \A u \in Moved : moved[u].rows \subseteq moved'[u].rows
        /\ \A u \in Moved : moved'[u] = moved[u] \/ moved'[u].there
    BY <1>1, <1>3, <2>1 DEF SetupInv, SetupTyped, Table, AbsentIsEmpty
  <2>7. SetupTyped'
    BY <1>1, <2>3, <2>2, <2>5 DEF SetupInv, SetupTyped
  <2>8. AbsentIsEmpty' /\ StoredIsKept' /\ (stored \subseteq Moved \X Rows)'
    <3>1. \A tr \in stored : tr[1] \in Moved /\ (OnItsWay(tr) => OnItsWay(tr)')
      BY <2>4 DEF SetupInv, OnItsWay, StandsAt
    <3>2. StoredIsKept'
      BY <1>1, <2>6, <3>1 DEF SetupInv, StoredIsKept
    <3>3. QED
      BY <1>1, <2>6, <3>2 DEF SetupInv, AbsentIsEmpty
  <2>9. ListsAreComplete' /\ HalfIsSafe' /\ UpIsComplete'
    <3>1. \A q \in Starters : starter[q].listed \subseteq Moved
      BY DEF SetupInv, SetupTyped, StarterType
    <3>2. ListsAreComplete' /\ UpIsComplete'
      BY <1>1, <2>4, <2>6 DEF SetupInv, ListsAreComplete, UpIsComplete, StandsAt
    <3>3. HalfIsSafe'
      BY <1>1, <2>4, <2>6, <3>1 DEF SetupInv, HalfIsSafe, StandsAt
    <3>4. QED
      BY <3>2, <3>3
  <2>10. QED
    BY <2>7, <2>8, <2>9 DEF SetupInv
<1>4. QED
  BY <1>2, <1>3

(* What a commit makes of the tables.                                      *)
LEMMA TablesAre ==
  ASSUME SetupInv, NEW listed \in SUBSET Moved, NEW carried \in SUBSET (listed \X Rows)
  PROVE  /\ With(listed, carried) \in [Moved -> TableType] /\ Without(listed) \in [Moved -> TableType]
         /\ \A t \in Moved :
              /\ moved[t].there => With(listed, carried)[t].there
              /\ moved[t].rows \subseteq With(listed, carried)[t].rows
              /\ ~With(listed, carried)[t].there => With(listed, carried)[t] = moved[t]
              /\ t \in listed => ~Without(listed)[t].there /\ Without(listed)[t].rows = {}
              /\ t \notin listed => Without(listed)[t] = corpus[t]
         /\ \A tr \in carried : tr[2] \in With(listed, carried)[tr[1]].rows
<1>1. \A t \in Moved : /\ moved[t].rows \subseteq Rows /\ moved[t] \in TableType /\ corpus[t] \in TableType
  BY DEF SetupInv, SetupTyped, TableType
<1>2. Without(listed) \in [Moved -> TableType]
  BY <1>1 DEF Without, Absent, TableType
<1>3. With(listed, carried) \in [Moved -> TableType]
  BY <1>1 DEF With, Table, TableType
<1>4. \A tr \in carried : tr[1] \in listed /\ tr[1] \in Moved /\ tr[2] \in Rows /\ tr = <<tr[1], tr[2]>>
  OBVIOUS
<1>5. \A tr \in carried : tr[2] \in With(listed, carried)[tr[1]].rows
  BY <1>4 DEF With, Table
<1>6. QED
  BY <1>2, <1>3, <1>5 DEF With, Without, Table, Absent

(* The first of two commits: what is dropped is carried, or it has been    *)
(* inserted.                                                               *)
LEMMA SetupInvCopyRows == ASSUME SetupInv, NEW p \in Starters, CopyRows(p) PROVE SetupInv'
<1> DEFINE listed  == starter[p].listed
           carried == {tr \in listed \X Rows : tr[2] \in corpus[tr[1]].rows}
<1>1. StandsAt(p, "schema") /\ UNCHANGED <<columns, filled, stored, dropped>>
  BY DEF CopyRows
<1>2. CASE Fails(p) /\ UNCHANGED <<corpus, moved>>
  BY <1>1, <1>2, SetupInvFails DEF StandsAt
<1>3. /\ starter[p] \in StarterType /\ listed \subseteq Moved /\ carried \subseteq listed \X Rows
      /\ carried \subseteq Moved \X Rows
      /\ \A t \in Moved : corpus[t].there => t \in listed
      /\ \A t \in Moved : corpus[t].rows \subseteq Rows
      /\ \A tr \in stored : tr[1] \in Moved /\ tr[2] \in Rows /\ tr = <<tr[1], tr[2]>>
  <2>1. starter[p] \in StarterType /\ listed \subseteq Moved
    BY StarterParts DEF SetupInv, StarterType
  <2>2. \A t \in Moved : corpus[t].there => t \in listed
    BY <1>1 DEF SetupInv, ListsAreComplete
  <2>3. \A t \in Moved : corpus[t].rows \subseteq Rows
    BY DEF SetupInv, SetupTyped, TableType
  <2>4. QED
    BY <2>1, <2>2, <2>3 DEF SetupInv
<1>4. \A tr \in carried : tr[1] \in listed /\ tr[2] \in corpus[tr[1]].rows
  OBVIOUS
<1>5. /\ \A tr \in stored : tr[1] \in listed /\ tr[2] \in corpus[tr[1]].rows => tr \in carried
      /\ \A t \in listed : \A r \in corpus[t].rows : <<t, r>> \in carried
      /\ listed \in SUBSET Moved /\ carried \in SUBSET (listed \X Rows) /\ listed = starter[p].listed
      /\ CopyRows(p) => \/ Fails(p) /\ UNCHANGED <<corpus, moved>>
                        \/ /\ corpus' = Without(listed) /\ UNCHANGED moved
                           /\ starter' = [starter EXCEPT ![p].at = "inserts", ![p].carried = carried]
                        \/ /\ moved' = With(listed, carried) /\ UNCHANGED corpus
                           /\ starter' = [starter EXCEPT ![p].at = "drops"]
  BY <1>3 DEF CopyRows, Copied
<1> HIDE DEF listed, carried
<1>6. CASE /\ corpus' = Without(listed) /\ UNCHANGED moved
           /\ starter' = [starter EXCEPT ![p].at = "inserts", ![p].carried = carried]
  <2> DEFINE x == [starter[p] EXCEPT !.at = "inserts", !.carried = carried]
  <2>1. x \in StarterType /\ x.at = "inserts" /\ x.carried = carried /\ x.listed = listed
    BY <1>3, <1>5 DEF StarterType, SetupSteps
  <2>2. starter' = [starter EXCEPT ![p] = x]
    BY <1>6
  <2> HIDE DEF x
  <2>3. \A q \in Starters : starter'[q] = IF q = p THEN x ELSE starter[q]
    BY <2>2 DEF SetupInv, SetupTyped
  <2>4. SetupTyped'
    <3>1. corpus' \in [Moved -> TableType]
      BY <1>5, <1>6, TablesAre
    <3>2. QED
      BY <1>1, <1>6, <2>1, <2>2, <3>1 DEF SetupInv, SetupTyped
  <2>5. \A t \in Moved : ~corpus'[t].there /\ (t \notin listed => corpus'[t] = corpus[t])
    BY <1>3, <1>5, <1>6, TablesAre
  <2>6. \A q \in Starters : q # p => StandsAt(q, "inserts")' = StandsAt(q, "inserts")
                                     /\ starter'[q].carried = starter[q].carried
    BY <2>3 DEF StandsAt
  <2>7. StandsAt(p, "inserts")' /\ starter'[p].carried = carried /\ ~StandsAt(p, "inserts")
    BY <1>1, <2>1, <2>3 DEF StandsAt
  <2>8. StoredIsKept'
    <3> SUFFICES ASSUME NEW tr \in stored \ dropped
                 PROVE  tr[2] \in corpus'[tr[1]].rows \union moved'[tr[1]].rows \/ OnItsWay(tr)'
      BY <1>1 DEF StoredIsKept
    <3>1. tr[2] \in corpus[tr[1]].rows \union moved[tr[1]].rows \/ OnItsWay(tr)
      BY DEF SetupInv, StoredIsKept
    <3>2. CASE OnItsWay(tr)
      BY <2>6, <2>7, <3>2 DEF OnItsWay
    <3>3. CASE tr[2] \in moved[tr[1]].rows
      BY <1>6, <3>3
    <3>4. CASE tr[2] \in corpus[tr[1]].rows
      <4>1. CASE tr[1] \in listed
        BY <1>5, <2>7, <3>4, <4>1 DEF OnItsWay
      <4>2. CASE tr[1] \notin listed
        BY <1>3, <2>5, <3>4, <4>2
      <4>3. QED
        BY <4>1, <4>2
    <3>5. QED
      BY <3>1, <3>2, <3>3, <3>4
  <2>9. AbsentIsEmpty' /\ (stored \subseteq Moved \X Rows)'
    BY <1>1, <1>6 DEF SetupInv, AbsentIsEmpty
  <2>10. ListsAreComplete'
    BY <1>1, <2>1, <2>3, <2>5 DEF SetupInv, ListsAreComplete, StandsAt
  <2>11. HalfIsSafe'
    <3>1. \A t \in Moved : corpus'[t].rows \subseteq corpus[t].rows
      BY <1>3, <1>5, <1>6, TablesAre
    <3>2. \A q \in Starters : starter[q].listed \subseteq Moved
      BY DEF SetupInv, SetupTyped, StarterType
    <3>3. ASSUME NEW q \in Starters, q # p
          PROVE  /\ StandsAt(q, "inserts")' => \A tr \in starter'[q].carried : tr[1] \in starter'[q].listed
                 /\ StandsAt(q, "drops")' => \A t \in starter'[q].listed : corpus'[t].rows \subseteq moved'[t].rows
      BY <1>6, <2>3, <3>1, <3>2, <3>3 DEF SetupInv, HalfIsSafe, StandsAt
    <3>4. ~StandsAt(p, "drops")' /\ \A tr \in starter'[p].carried : tr[1] \in starter'[p].listed
      BY <1>4, <2>1, <2>3 DEF StandsAt
    <3>5. QED
      BY <3>3, <3>4 DEF HalfIsSafe
  <2>12. UpIsComplete'
    BY <1>1, <1>6, <2>1, <2>3 DEF SetupInv, UpIsComplete, StandsAt
  <2>13. QED
    BY <2>4, <2>8, <2>9, <2>10, <2>11, <2>12 DEF SetupInv
<1>7. CASE /\ moved' = With(listed, carried) /\ UNCHANGED corpus
           /\ starter' = [starter EXCEPT ![p].at = "drops"]
  <2> DEFINE x == [starter[p] EXCEPT !.at = "drops"]
  <2>1. x \in StarterType /\ x.at = "drops" /\ x.listed = listed
    BY <1>3, <1>5 DEF StarterType, SetupSteps
  <2>2. starter' = [starter EXCEPT ![p] = x]
    BY <1>7
  <2> HIDE DEF x
  <2>3. \A q \in Starters : starter'[q] = IF q = p THEN x ELSE starter[q]
    BY <2>2 DEF SetupInv, SetupTyped
  <2>4. SetupTyped'
    <3>1. moved' \in [Moved -> TableType]
      BY <1>5, <1>7, TablesAre
    <3>2. QED
      BY <1>1, <1>7, <2>1, <2>2, <3>1 DEF SetupInv, SetupTyped
  <2>5. \A t \in Moved : /\ moved[t].there => moved'[t].there
                         /\ moved[t].rows \subseteq moved'[t].rows
                         /\ ~moved'[t].there => moved'[t] = moved[t]
    BY <1>3, <1>5, <1>7, TablesAre
  <2>6. \A t \in listed : corpus[t].rows \subseteq moved'[t].rows
    <3>1. \A tr \in carried : tr[2] \in moved'[tr[1]].rows
      BY <1>5, <1>7, TablesAre
    <3>2. QED
      BY <1>5, <3>1
  <2>7. \A tr \in stored \ dropped : OnItsWay(tr) => OnItsWay(tr)'
    BY <1>1, <2>3 DEF OnItsWay, StandsAt
  <2>8. StoredIsKept'
    BY <1>1, <1>3, <1>7, <2>5, <2>7 DEF SetupInv, StoredIsKept
  <2>9. AbsentIsEmpty' /\ (stored \subseteq Moved \X Rows)'
    BY <1>1, <2>5 DEF SetupInv, AbsentIsEmpty
  <2>10. ListsAreComplete'
    BY <1>1, <1>3, <1>7, <2>1, <2>3 DEF SetupInv, ListsAreComplete, StandsAt
  <2>11. HalfIsSafe'
    <3>1. \A q \in Starters : starter[q].listed \subseteq Moved
      BY DEF SetupInv, SetupTyped, StarterType
    <3>2. ASSUME NEW q \in Starters, q # p
          PROVE  /\ StandsAt(q, "inserts")' => \A tr \in starter'[q].carried : tr[1] \in starter'[q].listed
                 /\ StandsAt(q, "drops")' => \A t \in starter'[q].listed : corpus'[t].rows \subseteq moved'[t].rows
      BY <1>7, <2>3, <2>5, <3>1, <3>2 DEF SetupInv, HalfIsSafe, StandsAt
    <3>3. ~StandsAt(p, "inserts")' /\ \A t \in starter'[p].listed : corpus'[t].rows \subseteq moved'[t].rows
      BY <1>7, <2>1, <2>3, <2>6 DEF StandsAt
    <3>4. QED
      BY <3>2, <3>3 DEF HalfIsSafe
  <2>12. UpIsComplete'
    BY <1>1, <1>7, <2>1, <2>3, <2>5 DEF SetupInv, UpIsComplete, StandsAt
  <2>13. QED
    BY <2>4, <2>8, <2>9, <2>10, <2>11, <2>12 DEF SetupInv
<1>8. QED
  BY <1>2, <1>5, <1>6, <1>7

(* The second.                                                             *)
LEMMA SetupInvFinishCopy == ASSUME SetupInv, NEW p \in Starters, FinishCopy(p) PROVE SetupInv'
<1> DEFINE listed == starter[p].listed
           x      == [Off EXCEPT !.at = "inspect"]
<1>1. starter' = [starter EXCEPT ![p] = x] /\ UNCHANGED <<columns, filled, stored, dropped>>
  BY DEF FinishCopy
<1>2. x \in StarterType /\ x.at = "inspect"
  BY StarterParts DEF SetupInv, Off
<1> HIDE DEF x
<1>3. \A q \in Starters : starter'[q] = IF q = p THEN x ELSE starter[q]
  BY <1>1 DEF SetupInv, SetupTyped
<1>4. /\ listed \subseteq Moved /\ (stored \subseteq Moved \X Rows)'
      /\ \A q \in Starters : starter[q].listed \subseteq Moved
      /\ \A tr \in stored : tr[1] \in Moved
  BY <1>1 DEF SetupInv, SetupTyped, StarterType
<1>5. ASSUME \A t \in Moved : /\ moved[t].there => moved'[t].there
                              /\ moved[t].rows \subseteq moved'[t].rows
                              /\ ~moved'[t].there => moved'[t] = moved[t]
                              /\ ~corpus'[t].there /\ corpus'[t].rows \subseteq corpus[t].rows,
             corpus' \in [Moved -> TableType], moved' \in [Moved -> TableType], StoredIsKept'
      PROVE  SetupInv'
  <2>1. SetupTyped'
    BY <1>1, <1>2, <1>5 DEF SetupInv, SetupTyped
  <2>2. AbsentIsEmpty'
    BY <1>5 DEF SetupInv, AbsentIsEmpty
  <2>3. ListsAreComplete'
    BY <1>1, <1>2, <1>3, <1>5 DEF SetupInv, ListsAreComplete, StandsAt
  <2>4. HalfIsSafe'
    <3>1. ASSUME NEW q \in Starters, q # p
          PROVE  /\ StandsAt(q, "inserts")' => \A tr \in starter'[q].carried : tr[1] \in starter'[q].listed
                 /\ StandsAt(q, "drops")' => \A t \in starter'[q].listed : corpus'[t].rows \subseteq moved'[t].rows
      <4>1. starter'[q] = starter[q] /\ starter[q].listed \subseteq Moved
        BY <1>3, <1>4, <3>1
      <4>2. StandsAt(q, "drops") => \A t \in starter[q].listed : corpus[t].rows \subseteq moved[t].rows
        BY DEF SetupInv, HalfIsSafe
      <4>3. StandsAt(q, "drops")' => \A t \in starter[q].listed : corpus'[t].rows \subseteq moved'[t].rows
        BY <1>5, <4>1, <4>2 DEF StandsAt
      <4>4. QED
        BY <4>1, <4>3 DEF SetupInv, HalfIsSafe, StandsAt
    <3>2. ~StandsAt(p, "inserts")' /\ ~StandsAt(p, "drops")'
      BY <1>2, <1>3 DEF StandsAt
    <3>3. QED
      BY <3>1, <3>2 DEF HalfIsSafe
  <2>5. UpIsComplete'
    BY <1>1, <1>2, <1>3, <1>5 DEF SetupInv, UpIsComplete, StandsAt
  <2>6. QED
    BY <1>4, <1>5, <2>1, <2>2, <2>3, <2>4, <2>5 DEF SetupInv
<1>6. \A tr \in stored, q \in Starters : q # p /\ StandsAt(q, "inserts") /\ tr \in starter[q].carried => OnItsWay(tr)'
  BY <1>3 DEF OnItsWay, StandsAt
<1>7. corpus \in [Moved -> TableType] /\ moved \in [Moved -> TableType]
  BY DEF SetupInv, SetupTyped
<1>8. CASE StandsAt(p, "inserts") /\ moved' = With(listed, starter[p].carried) /\ UNCHANGED corpus
  <2>1. starter[p].carried \subseteq listed \X Rows
    <3>1. starter[p].carried \subseteq Moved \X Rows
      BY DEF SetupInv, SetupTyped, StarterType
    <3>2. \A tr \in starter[p].carried : tr[1] \in listed
      BY <1>8 DEF SetupInv, HalfIsSafe
    <3>3. QED
      BY <3>1, <3>2
  <2>2. /\ moved' \in [Moved -> TableType]
        /\ \A t \in Moved : /\ moved[t].there => moved'[t].there
                            /\ moved[t].rows \subseteq moved'[t].rows
                            /\ ~moved'[t].there => moved'[t] = moved[t]
        /\ \A tr \in starter[p].carried : tr[2] \in moved'[tr[1]].rows
    BY <1>4, <1>8, <2>1, TablesAre
  <2>3. \A t \in Moved : ~corpus'[t].there /\ corpus'[t].rows = corpus[t].rows
    BY <1>8 DEF SetupInv, ListsAreComplete
  <2>4. StoredIsKept'
    <3> SUFFICES ASSUME NEW tr \in stored \ dropped
                 PROVE  tr[2] \in corpus'[tr[1]].rows \union moved'[tr[1]].rows \/ OnItsWay(tr)'
      BY <1>1 DEF StoredIsKept
    <3>1. tr[2] \in corpus[tr[1]].rows \union moved[tr[1]].rows \/ OnItsWay(tr)
      BY DEF SetupInv, StoredIsKept
    <3>2. OnItsWay(tr) => tr \in starter[p].carried \/ OnItsWay(tr)'
      BY <1>6 DEF OnItsWay
    <3>3. QED
      BY <1>4, <2>2, <2>3, <3>1, <3>2
  <2>5. QED
    BY <1>5, <1>7, <1>8, <2>2, <2>3, <2>4
<1>9. CASE StandsAt(p, "drops") /\ corpus' = Without(listed) /\ UNCHANGED moved
  <2>1. /\ corpus' \in [Moved -> TableType]
        /\ \A t \in Moved : /\ t \in listed => ~corpus'[t].there /\ corpus'[t].rows = {}
                            /\ t \notin listed => corpus'[t] = corpus[t]
    <3>1. {} \in SUBSET (listed \X Rows)
      OBVIOUS
    <3>2. QED
      BY <1>4, <1>9, <3>1, TablesAre
  <2>2. \A t \in Moved : /\ corpus[t].there => t \in listed
                         /\ t \in listed => corpus[t].rows \subseteq moved[t].rows
    BY <1>9 DEF SetupInv, ListsAreComplete, HalfIsSafe
  <2>3. \A t \in Moved : ~corpus'[t].there /\ corpus'[t].rows \subseteq corpus[t].rows
    BY <2>1, <2>2
  <2>4. StoredIsKept'
    <3> SUFFICES ASSUME NEW tr \in stored \ dropped
                 PROVE  tr[2] \in corpus'[tr[1]].rows \union moved'[tr[1]].rows \/ OnItsWay(tr)'
      BY <1>1 DEF StoredIsKept
    <3>1. tr[2] \in corpus[tr[1]].rows \union moved[tr[1]].rows \/ OnItsWay(tr)
      BY DEF SetupInv, StoredIsKept
    <3>2. OnItsWay(tr) => OnItsWay(tr)'
      BY <1>6, <1>9 DEF OnItsWay, StandsAt
    <3>3. QED
      BY <1>4, <1>9, <2>1, <2>2, <3>1, <3>2
  <2>5. QED
    BY <1>5, <1>7, <1>9, <2>1, <2>3, <2>4
<1>10. QED
  BY <1>8, <1>9 DEF FinishCopy

-----------------------------------------------------------------------------
(* The columns.                                                            *)

LEMMA SetupInvInspectColumns == ASSUME SetupInv, NEW p \in Starters, InspectColumns(p) PROVE SetupInv'
<1> DEFINE x == [starter[p] EXCEPT !.at = "columns", !.lacks = Columns \ columns]
<1>1. starter[p] \in StarterType /\ starter[p].at = "inspect"
  BY StarterParts DEF SetupInv, InspectColumns, StandsAt
<1>2. x \in StarterType /\ x.at = "columns" /\ x.lacks = Columns \ columns
  BY <1>1 DEF StarterType, SetupSteps
<1>3. /\ starter' = [starter EXCEPT ![p] = x] /\ UNCHANGED <<corpus, moved, columns, filled, stored, dropped>>
      /\ ~StandsAt(p, "inserts")
  BY DEF InspectColumns, SetupInv, SetupTyped, StandsAt
<1>4. \A t \in Moved : ~corpus[t].there
  BY <1>1 DEF SetupInv, ListsAreComplete, StandsAt
<1> HIDE DEF x
<1>5. QED
  BY <1>2, <1>3, <1>4, OneProcess

LEMMA SetupInvAddColumn == ASSUME SetupInv, NEW p \in Starters, AddColumn(p) PROVE SetupInv'
<1>1. PICK c \in starter[p].lacks :
        /\ StandsAt(p, "columns")
        /\ IF c \in columns THEN Fails(p) /\ UNCHANGED columns
           ELSE /\ columns' = columns \union {c}
                /\ starter' = [starter EXCEPT ![p].lacks = @ \ {c}]
        /\ UNCHANGED <<corpus, moved, filled, stored, dropped, kills>>
  BY DEF AddColumn
<1>2. CASE c \in columns
  BY <1>1, <1>2, SetupInvFails DEF StandsAt
<1>3. CASE c \notin columns
  <2> DEFINE x == [starter[p] EXCEPT !.lacks = @ \ {c}]
  <2>1. starter[p] \in StarterType /\ c \in Columns
    BY <1>1, StarterParts DEF SetupInv, StarterType
  <2>2. x \in StarterType /\ x.at = starter[p].at /\ x.listed = starter[p].listed
        /\ x.lacks = starter[p].lacks \ {c} /\ x.carried = starter[p].carried
    BY <2>1 DEF StarterType
  <2>3. starter' = [starter EXCEPT ![p] = x] /\ columns' = columns \union {c}
    BY <1>1, <1>3 DEF SetupInv, SetupTyped
  <2> HIDE DEF x
  <2>4. \A q \in Starters : /\ starter'[q].at = starter[q].at /\ starter'[q].listed = starter[q].listed
                            /\ starter[q].lacks \ {c} \subseteq starter'[q].lacks
                            /\ starter'[q].carried = starter[q].carried
    BY <2>2, <2>3 DEF SetupInv, SetupTyped
  <2>5. SetupTyped'
    BY <1>1, <2>1, <2>2, <2>3 DEF SetupInv, SetupTyped
  <2>6. AbsentIsEmpty' /\ StoredIsKept' /\ (stored \subseteq Moved \X Rows)'
    <3>1. \A tr \in stored : OnItsWay(tr) => OnItsWay(tr)'
      BY <2>4 DEF OnItsWay, StandsAt
    <3>2. QED
      BY <1>1, <3>1 DEF SetupInv, AbsentIsEmpty, StoredIsKept
  <2>7. ListsAreComplete' /\ HalfIsSafe'
    BY <1>1, <2>3, <2>4 DEF SetupInv, ListsAreComplete, HalfIsSafe, StandsAt
  <2>8. UpIsComplete'
    BY <1>1, <2>1, <2>3, <2>4 DEF SetupInv, UpIsComplete, StandsAt
  <2>9. QED
    BY <2>5, <2>6, <2>7, <2>8 DEF SetupInv
<1>4. QED
  BY <1>2, <1>3

LEMMA SetupInvFillRows == ASSUME SetupInv, NEW p \in Starters, FillRows(p) PROVE SetupInv'
<1> DEFINE x == [Off EXCEPT !.at = "up"]
<1>1. /\ StandsAt(p, "columns") /\ starter[p].lacks = {} /\ filled' = TRUE
      /\ moved' = [t \in Moved |-> IF moved[t].there THEN moved[t] ELSE Table({})]
      /\ starter' = [starter EXCEPT ![p] = x] /\ UNCHANGED <<corpus, columns, stored, dropped>>
  BY DEF FillRows
<1>2. x \in StarterType /\ x.at = "up"
  BY StarterParts DEF SetupInv, Off
<1> HIDE DEF x
<1>3. \A q \in Starters : starter'[q] = IF q = p THEN x ELSE starter[q]
  BY <1>1 DEF SetupInv, SetupTyped
<1>4. columns = Columns /\ \A t \in Moved : ~corpus[t].there
  BY <1>1 DEF SetupInv, ListsAreComplete, SetupTyped
<1>5. moved' \in [Moved -> TableType]
  <2>1. Table({}) \in TableType /\ \A t \in Moved : moved[t] \in TableType
    BY DEF SetupInv, SetupTyped, Table, TableType
  <2>2. QED
    BY <1>1, <2>1
<1>6. \A t \in Moved : moved'[t].there /\ moved[t].rows \subseteq moved'[t].rows
  BY <1>1 DEF SetupInv, AbsentIsEmpty, Table
<1>7. SetupTyped'
  BY <1>1, <1>2, <1>5 DEF SetupInv, SetupTyped
<1>8. AbsentIsEmpty' /\ StoredIsKept' /\ (stored \subseteq Moved \X Rows)'
  <2>1. \A tr \in stored : tr[1] \in Moved /\ (OnItsWay(tr) => OnItsWay(tr)')
    BY <1>1, <1>3 DEF SetupInv, OnItsWay, StandsAt
  <2>2. QED
    BY <1>1, <1>6, <2>1 DEF SetupInv, AbsentIsEmpty, StoredIsKept
<1>9. ListsAreComplete' /\ HalfIsSafe'
  <2>1. \A q \in Starters : starter[q].listed \subseteq Moved
    BY DEF SetupInv, SetupTyped, StarterType
  <2>2. ListsAreComplete'
    BY <1>1, <1>2, <1>3, <1>4 DEF SetupInv, ListsAreComplete, StandsAt
  <2>3. HalfIsSafe'
    BY <1>1, <1>2, <1>3, <1>6, <2>1 DEF SetupInv, HalfIsSafe, StandsAt
  <2>4. QED
    BY <2>2, <2>3
<1>10. UpIsComplete'
  BY <1>1, <1>4, <1>6 DEF UpIsComplete
<1>11. QED
  BY <1>7, <1>8, <1>9, <1>10 DEF SetupInv

-----------------------------------------------------------------------------
(* Rows are stored, and processes killed.                                  *)

LEMMA SetupInvWriteRow == ASSUME SetupInv, NEW p \in Starters, WriteRow(p) PROVE SetupInv'
<1>1. PICK t \in Moved :
        /\ StandsAt(p, "up")
        /\ moved' = [moved EXCEPT ![t].rows = @ \union {"new"}]
        /\ stored' = stored \union {<<t, "new">>}
        /\ UNCHANGED <<corpus, columns, filled, starter, dropped>>
  BY DEF WriteRow
<1>2. moved[t].there
  BY <1>1 DEF SetupInv, UpIsComplete
<1>3. \A u \in Moved : /\ moved'[u].there = moved[u].there /\ moved[u].rows \subseteq moved'[u].rows
                       /\ ~moved[u].there => moved'[u].rows = moved[u].rows
                       /\ moved'[u] \in TableType
  BY <1>1, <1>2 DEF SetupInv, SetupTyped, TableType, Rows
<1>4. "new" \in moved'[t].rows
  BY <1>1 DEF SetupInv, SetupTyped, TableType
<1>5. SetupTyped'
  BY <1>1, <1>3 DEF SetupInv, SetupTyped
<1>6. AbsentIsEmpty'
  BY <1>3 DEF SetupInv, AbsentIsEmpty
<1>7. StoredIsKept' /\ (stored \subseteq Moved \X Rows)'
  <2>1. "new" \in Rows
    BY DEF Rows
  <2>2. \A tr \in stored : tr[1] \in Moved
    BY DEF SetupInv
  <2>3. QED
    <3>1. \A tr \in stored : OnItsWay(tr) => OnItsWay(tr)'
      BY <1>1 DEF OnItsWay, StandsAt
    <3>2. QED
      BY <1>1, <1>3, <1>4, <2>1, <2>2, <3>1 DEF SetupInv, StoredIsKept
<1>8. ListsAreComplete' /\ HalfIsSafe' /\ UpIsComplete'
  <2>1. \A q \in Starters : starter[q].listed \subseteq Moved
    BY DEF SetupInv, SetupTyped, StarterType
  <2>2. ListsAreComplete' /\ UpIsComplete'
    BY <1>1, <1>3 DEF SetupInv, ListsAreComplete, UpIsComplete, StandsAt
  <2>3. HalfIsSafe'
    BY <1>1, <1>3, <2>1 DEF SetupInv, HalfIsSafe, StandsAt
  <2>4. QED
    BY <2>2, <2>3
<1>9. QED
  BY <1>5, <1>6, <1>7, <1>8 DEF SetupInv

LEMMA SetupInvKill == ASSUME SetupInv, NEW p \in Starters, Kill(p) PROVE SetupInv'
<1>1. Off \in StarterType /\ Off.at = "off"
  BY StarterParts DEF SetupInv, Off
<1>2. dropped \subseteq dropped' /\ (StandsAt(p, "inserts") => starter[p].carried \subseteq dropped')
  BY DEF Kill
<1>3. QED
  BY <1>1, <1>2, OneProcess DEF Kill

LEMMA SetupInvNext == SetupInv /\ [SetupNext]_setupVars => SetupInv'
<1> SUFFICES ASSUME SetupInv, [SetupNext]_setupVars PROVE SetupInv'
  OBVIOUS
<1>1. CASE UNCHANGED setupVars
  BY <1>1 DEF setupVars, SetupInv, SetupTyped, AbsentIsEmpty, StoredIsKept, OnItsWay, ListsAreComplete, HalfIsSafe,
     UpIsComplete, StandsAt
<1>2. ASSUME NEW p \in Starters,
             \/ ListLegacy(p) \/ InspectMoved(p) \/ CreateMoved(p) \/ CopyRows(p) \/ FinishCopy(p)
             \/ InspectColumns(p) \/ AddColumn(p) \/ FillRows(p) \/ WriteRow(p) \/ Kill(p)
      PROVE  SetupInv'
  BY <1>2, SetupInvListLegacy, SetupInvInspectMoved, SetupInvCreateMoved, SetupInvCopyRows,
     SetupInvFinishCopy, SetupInvInspectColumns, SetupInvAddColumn,
     SetupInvFillRows, SetupInvWriteRow, SetupInvKill
<1>3. QED
  BY <1>1, <1>2 DEF SetupNext

(* Whatever moves, creates, adds and kills came before, every stored row   *)
(* is in one of the files, or being committed from one to the other, or    *)
(* was when a kill fell between the two commits; and a process that is up  *)
(* finds the tables, columns and backfills its models assume               *)
(* (_relocate_tables, _ensure_columns).                                    *)
THEOREM NoRowIsLost == SetupSpec => []RowsAreKept
<1>1. SetupInv => RowsAreKept
  BY DEF SetupInv, RowsAreKept, StoredIsKept, OnItsWay, ListsAreComplete, UpIsComplete
<1>2. QED
  BY <1>1, SetupInvInit, SetupInvNext, PTL DEF SetupSpec

(* The parts keep their types, and nobody is killed more often than the    *)
(* bound says.                                                             *)
THEOREM SetupTypes == SetupSpec => []SetupTypeOK
<1> DEFINE Dropped == dropped \subseteq Moved \X Rows
<1>1. SetupInit => kills \in 0..SetupBound /\ Dropped
  BY KillsAssumption DEF SetupInit
<1>2. SetupInv /\ Dropped /\ [SetupNext]_setupVars => Dropped'
  <2> SUFFICES ASSUME SetupInv, Dropped, [SetupNext]_setupVars PROVE Dropped'
    OBVIOUS
  <2>1. CASE UNCHANGED dropped
    BY <2>1
  <2>2. CASE \E p \in Starters : Kill(p)
    BY <2>2 DEF Kill, SetupInv, SetupTyped, StarterType
  <2>3. QED
    BY <2>1, <2>2 DEF SetupNext, setupVars, ListLegacy, InspectMoved, CreateMoved, CopyRows, FinishCopy, InspectColumns,
       AddColumn, FillRows, WriteRow
<1>3. kills \in 0..SetupBound /\ [SetupNext]_setupVars => (kills \in 0..SetupBound)'
  <2> SUFFICES ASSUME kills \in 0..SetupBound, [SetupNext]_setupVars PROVE (kills \in 0..SetupBound)'
    OBVIOUS
  <2>1. CASE UNCHANGED kills
    BY <2>1
  <2>2. CASE \E p \in Starters : Kill(p)
    BY <2>2, KillsAssumption DEF Kill
  <2>3. QED
    BY <2>1, <2>2 DEF SetupNext, setupVars, ListLegacy, InspectMoved, CreateMoved, CopyRows, FinishCopy, InspectColumns,
       AddColumn, FillRows, WriteRow
<1>4. SetupInv /\ kills \in 0..SetupBound /\ Dropped => SetupTypeOK
  BY DEF SetupInv, SetupTyped, SetupTypeOK, TableType, StarterType
<1>5. QED
  BY <1>1, <1>2, <1>3, <1>4, SetupInvInit, SetupInvNext, PTL DEF SetupSpec

-----------------------------------------------------------------------------
(***************************************************************************)
(* ChatEvidence.                                                           *)
(***************************************************************************)
EntryOf(d) == [row: BOOLEAN, keys: SUBSET TextKeys, passages: SUBSET Passages(d)]
EvidenceTyped == /\ DOMAIN handed = Documents /\ handed = [d \in Documents |-> handed[d]]
         /\ \A d \in Documents : handed[d] \in EntryOf(d)

\* A row was shown, and the letter with it.
ShowsLetter(e) == e.row /\ "full_circular_text" \in e.keys

(* The ledgers keep what they had when the round began.                    *)
Grown ==
  /\ before.evidence.passages \subseteq UNION {handed[d].passages : d \in Documents}
  /\ \A d \in Documents : \A ks \in SUBSET TextKeys :
       <<d, ks>> \in before.evidence.rows => handed[d].row /\ ks \subseteq handed[d].keys

(* The ledgers show a passage, or a letter, that they did not show then.   *)
ShowsMore ==
  \/ \E d \in Documents : \E t \in handed[d].passages : t \notin before.evidence.passages
  \/ \E d \in Documents :
       /\ ShowsLetter(handed[d])
       /\ \A ks \in SUBSET TextKeys :
            <<d, ks>> \in before.evidence.rows => "full_circular_text" \notin ks

(* Whatever has come to the context in this round shows in the ledgers.    *)
EvidenceInv == EvidenceTyped /\ Grown /\ (context = before.context \/ ShowsMore)

-----------------------------------------------------------------------------
(* What a call makes, r, of the ledger of a document and the context, s.   *)

(* It takes nothing from the ledger, and a text that it adds to the        *)
(* context shows in the ledger as a passage or a letter it did not have.   *)
Extends(d, s, r) ==
  /\ r.entry \in EntryOf(d)
  /\ s.entry.row => r.entry.row
  /\ s.entry.keys \subseteq r.entry.keys /\ s.entry.passages \subseteq r.entry.passages
  /\ \/ r.context = s.context
     \/ \E t \in r.entry.passages : t \notin s.entry.passages
     \/ ShowsLetter(r.entry) /\ ~ShowsLetter(s.entry)

(* One call may do it twice.                                               *)
LEMMA ExtendsTwice ==
  ASSUME NEW d, NEW s, NEW r, NEW q, Extends(d, s, r), Extends(d, r, q)
  PROVE  Extends(d, s, q)
BY DEF Extends, ShowsLetter

(* A row of a search.                                                      *)
LEMMA SearchRowExtends ==
  ASSUME NEW d \in Documents, NEW s, s.entry \in EntryOf(d),
         NEW letter \in BOOLEAN, NEW hits \in SUBSET Passages(d)
  PROVE  Extends(d, s, SearchRow(s, d, letter, hits))
<1> DEFINE new  == Fresh(s, d, letter, hits)
           keys == (IF letter THEN {"full_circular_text"} ELSE {})
                   \union (IF new # {} THEN {"passages"} ELSE {})
           sends == new \union (IF letter /\ (~s.entry.row \/ "full_circular_text" \notin s.entry.keys)
                                THEN {Letter(d)} ELSE {})
           r == SearchRow(s, d, letter, hits)
<1>1. new \subseteq Passages(d) /\ new \intersect s.entry.passages = {}
  BY DEF Fresh
<1>2. keys \subseteq TextKeys /\ (letter => "full_circular_text" \in keys)
  BY DEF TextKeys
<1>3. /\ r.entry = [row |-> TRUE, keys |-> s.entry.keys \union keys, passages |-> s.entry.passages \union new]
      /\ r.context = s.context \union sends
  BY DEF SearchRow
<1>4. /\ r.entry.row = TRUE /\ r.entry.keys = s.entry.keys \union keys
      /\ r.entry.passages = s.entry.passages \union new
  BY <1>3
<1> HIDE DEF r, keys, new
<1>5. r.entry \in EntryOf(d)
  BY <1>1, <1>2, <1>3 DEF EntryOf
<1>6. \/ r.context = s.context
      \/ \E t \in r.entry.passages : t \notin s.entry.passages
      \/ ShowsLetter(r.entry) /\ ~ShowsLetter(s.entry)
  <2>1. CASE new # {}
    BY <1>1, <1>4, <2>1
  <2>2. CASE new = {} /\ letter /\ (~s.entry.row \/ "full_circular_text" \notin s.entry.keys)
    BY <1>2, <1>4, <2>2 DEF ShowsLetter
  <2>3. CASE new = {} /\ ~(letter /\ (~s.entry.row \/ "full_circular_text" \notin s.entry.keys))
    <3>1. sends = {}
      BY <2>3
    <3>2. QED
      BY <1>3, <3>1
  <2>4. QED
    BY <2>1, <2>2, <2>3
<1>7. QED
  BY <1>4, <1>5, <1>6 DEF Extends, r

(* A search within one document.                                           *)
LEMMA ScopedSearchExtends ==
  ASSUME NEW d \in Documents, NEW s, s.entry \in EntryOf(d), NEW hits \in SUBSET Passages(d), NEW cut
  PROVE  Extends(d, s, ScopedSearch(s, d, hits, cut))
<1> DEFINE r == ScopedSearch(s, d, hits, cut)
           new == hits \ s.entry.passages
<1>1. r.entry = [s.entry EXCEPT !.passages = @ \union new] /\ r.context = s.context \union (new \ cut)
  BY DEF ScopedSearch
<1>2. /\ r.entry.row = s.entry.row /\ r.entry.keys = s.entry.keys
      /\ r.entry.passages = s.entry.passages \union new /\ r.entry \in EntryOf(d)
  BY <1>1 DEF EntryOf
<1> HIDE DEF r
<1>3. r.context = s.context \/ \E t \in r.entry.passages : t \notin s.entry.passages
  <2>1. CASE new = {}
    BY <1>1, <2>1
  <2>2. CASE new # {}
    BY <1>2, <2>2
  <2>3. QED
    BY <2>1, <2>2
<1>4. QED
  BY <1>1, <1>2, <1>3 DEF Extends, r

(* A drill-in call.                                                        *)
LEMMA ReadInsideExtends ==
  ASSUME NEW d \in Documents, NEW s, s.entry \in EntryOf(d), NEW window \in SUBSET Inside(d)
  PROVE  Extends(d, s, ReadInside(s, d, window))
<1> DEFINE r == ReadInside(s, d, window)
<1>1. r.entry = [s.entry EXCEPT !.passages = @ \union window]
      /\ r.context = s.context \union (window \ s.entry.passages)
  BY DEF ReadInside
<1>2. window \subseteq Passages(d)
  BY DEF Passages
<1>3. /\ r.entry.row = s.entry.row /\ r.entry.keys = s.entry.keys
      /\ r.entry.passages = s.entry.passages \union window /\ r.entry \in EntryOf(d)
  BY <1>1, <1>2 DEF EntryOf
<1> HIDE DEF r
<1>4. r.context = s.context \/ \E t \in r.entry.passages : t \notin s.entry.passages
  <2>1. CASE window \ s.entry.passages = {}
    BY <1>1, <2>1
  <2>2. CASE window \ s.entry.passages # {}
    BY <1>3, <2>2
  <2>3. QED
    BY <2>1, <2>2
<1>5. QED
  BY <1>3, <1>4 DEF Extends, r

(* A circular opened: a letter or annexure that is sent whole is not one   *)
(* that the turn holds already.                                            *)
LEMMA ReadLetterExtends ==
  ASSUME NEW c \in Letters, NEW s, s.entry \in EntryOf(c), NEW short \in SUBSET {"letter", "inside"},
         NEW hits \in SUBSET Passages(c), NEW cut
  PROVE  Extends(c, s, ReadLetter(s, c, short, hits, cut))
<1> DEFINE held   == {d \in {"letter", "inside"} : Held(s, c, d)}
           direct == short \ held
           whole  == UNION {IF d = "letter" THEN {Body(c)} ELSE Inside(c) : d \in direct}
           out    == UNION {IF d = "letter" THEN {Body(c)} ELSE Inside(c) : d \in direct \union held}
           found  == ScopedSearch(s, c, hits \ out, cut)
           sent   == (hits \ out) \ s.entry.passages
           keys   == (IF "letter" \in direct THEN {"full_circular_text"} ELSE {})
                     \union (IF sent # {} THEN {"passages"} ELSE {})
           r      == ReadLetter(s, c, short, hits, cut)
<1>1. /\ r.entry = [row |-> s.entry.row \/ keys # {}, keys |-> s.entry.keys \union keys,
                    passages |-> found.entry.passages \union whole]
      /\ r.context = found.context \union whole \union (IF "letter" \in direct THEN {Letter(c)} ELSE {})
  BY DEF ReadLetter
<1>2. c \in Documents /\ Body(c) \in Passages(c) /\ Inside(c) \subseteq Passages(c)
  BY DEF Documents, Passages
<1>3. whole \subseteq Passages(c)
  BY <1>2
<1>4. keys \subseteq TextKeys
  BY DEF TextKeys
<1>5. hits \ out \in SUBSET Passages(c)
  OBVIOUS
<1>6. /\ Extends(c, s, found)
      /\ found.entry.passages = s.entry.passages \union (hits \ out)
      /\ found.context = s.context \union (sent \ cut)
  <2> HIDE DEF out, whole, keys, direct, held, r
  <2>1. \A h \in SUBSET Passages(c) :
          /\ Extends(c, s, ScopedSearch(s, c, h, cut))
          /\ ScopedSearch(s, c, h, cut).entry.passages = s.entry.passages \union h
          /\ ScopedSearch(s, c, h, cut).context = s.context \union ((h \ s.entry.passages) \ cut)
    <3> HIDE DEF found, sent
    <3> TAKE h \in SUBSET Passages(c)
    <3>1. c \in Documents /\ s.entry \in EntryOf(c)
      BY <1>2
    <3>2. Extends(c, s, ScopedSearch(s, c, h, cut))
      BY <3>1, ScopedSearchExtends
    <3>3. ScopedSearch(s, c, h, cut).entry.passages = s.entry.passages \union h
      BY <3>1 DEF ScopedSearch, EntryOf
    <3>4. ScopedSearch(s, c, h, cut).context = s.context \union ((h \ s.entry.passages) \ cut)
      BY DEF ScopedSearch
    <3>5. QED
      BY <3>2, <3>3, <3>4
  <2> DEFINE rest == hits \ out
  <2>2. /\ Extends(c, s, ScopedSearch(s, c, rest, cut))
        /\ ScopedSearch(s, c, rest, cut).entry.passages = s.entry.passages \union rest
        /\ ScopedSearch(s, c, rest, cut).context = s.context \union ((rest \ s.entry.passages) \ cut)
    <3>1. rest \in SUBSET Passages(c)
      BY <1>5
    <3> HIDE DEF rest
    <3>2. QED
      BY <2>1, <3>1
  <2>3. QED
    BY <2>2
<1>7. \A d \in direct : d \in {"letter", "inside"} /\ ~Held(s, c, d)
  OBVIOUS
<1>8. "letter" \in direct => Body(c) \in whole /\ Body(c) \notin s.entry.passages
  BY <1>7 DEF Held
<1>9. "inside" \in direct => Inside(c) \subseteq whole /\ ~(Inside(c) \subseteq s.entry.passages)
  BY <1>7 DEF Held
<1>10. "letter" \notin direct /\ "inside" \notin direct => whole = {}
  BY <1>7
<1> HIDE DEF r, keys, found, whole, sent, direct, out
<1>11. /\ r.entry.row = (s.entry.row \/ keys # {}) /\ r.entry.keys = s.entry.keys \union keys
       /\ r.entry.passages = found.entry.passages \union whole
  BY <1>1
<1>12. r.entry \in EntryOf(c)
  <2>1. found.entry.passages \subseteq Passages(c)
    BY <1>5, <1>6 DEF EntryOf
  <2>2. s.entry.row \in BOOLEAN /\ s.entry.keys \subseteq TextKeys
    BY DEF EntryOf
  <2>3. QED
    BY <1>1, <1>3, <1>4, <2>1, <2>2 DEF EntryOf
<1>13. \/ r.context = s.context
       \/ \E t \in r.entry.passages : t \notin s.entry.passages
  <2>1. CASE "letter" \in direct
    BY <1>8, <1>11, <2>1
  <2>2. CASE "inside" \in direct
    BY <1>9, <1>11, <2>2
  <2>3. CASE "letter" \notin direct /\ "inside" \notin direct /\ sent # {}
    BY <1>6, <1>11, <2>3 DEF sent
  <2>4. CASE "letter" \notin direct /\ "inside" \notin direct /\ sent = {}
    BY <1>1, <1>6, <1>10, <2>4
  <2>5. QED
    BY <2>1, <2>2, <2>3, <2>4
<1>14. QED
  BY <1>6, <1>11, <1>12, <1>13 DEF Extends, r

-----------------------------------------------------------------------------
(* A call that extends the ledger of a document preserves the invariant:   *)
(* passages of one document are not those of another.                      *)
LEMMA PassageOf == ASSUME NEW d, NEW t \in Passages(d) PROVE t[1] = d
BY DEF Passages, Body, Inside

LEMMA EvidenceInvCall ==
  ASSUME EvidenceInv, NEW d \in Documents, NEW s, NEW refs, Call(d, s, refs), Extends(d, Now(d), s)
  PROVE  EvidenceInv'
<1>1. /\ handed' = [handed EXCEPT ![d] = s.entry] /\ context' = s.context /\ before' = before
  BY DEF Call
<1>2. Now(d).entry = handed[d] /\ Now(d).context = context
  BY DEF Now
<1>3. \A x \in Documents : handed'[x] = IF x = d THEN s.entry ELSE handed[x]
  BY <1>1 DEF EvidenceInv, EvidenceTyped
<1>4. EvidenceTyped'
  <2>1. DOMAIN handed' = Documents /\ handed' = [x \in Documents |-> handed'[x]]
    BY <1>1 DEF EvidenceInv, EvidenceTyped
  <2>2. \A x \in Documents : handed'[x] \in EntryOf(x)
    BY <1>3 DEF EvidenceInv, EvidenceTyped, Extends
  <2>3. QED
    BY <2>1, <2>2 DEF EvidenceTyped
<1>5. \A x \in Documents : /\ handed[x].row => handed'[x].row
                           /\ handed[x].keys \subseteq handed'[x].keys
                           /\ handed[x].passages \subseteq handed'[x].passages
  BY <1>2, <1>3 DEF Extends
<1>6. Grown'
  BY <1>1, <1>5 DEF EvidenceInv, Grown
<1>7. ShowsMore => ShowsMore'
  BY <1>1, <1>5 DEF ShowsMore, ShowsLetter
<1>8. ASSUME context' # context PROVE ShowsMore'
  <2>1. CASE \E t \in s.entry.passages : t \notin handed[d].passages
    <3>1. PICK t \in s.entry.passages : t \notin handed[d].passages
      BY <2>1
    <3>2. t[1] = d
      BY PassageOf DEF Extends, EntryOf
    <3>3. \A x \in Documents : t \in handed[x].passages => x = d
      BY <3>2, PassageOf DEF EvidenceInv, EvidenceTyped, EntryOf
    <3>4. t \notin before.evidence.passages
      BY <3>1, <3>3 DEF EvidenceInv, Grown
    <3>5. QED
      BY <1>1, <1>3, <3>1, <3>4 DEF ShowsMore
  <2>2. CASE ShowsLetter(s.entry) /\ ~ShowsLetter(handed[d])
    <3>1. \A ks \in SUBSET TextKeys : <<d, ks>> \in before.evidence.rows => "full_circular_text" \notin ks
      BY <2>2 DEF EvidenceInv, Grown, ShowsLetter
    <3>2. QED
      BY <1>1, <1>3, <2>2, <3>1 DEF ShowsMore
  <2>3. QED
    BY <1>1, <1>2, <1>8, <2>1, <2>2 DEF Extends
<1>9. QED
  BY <1>1, <1>4, <1>6, <1>7, <1>8 DEF EvidenceInv

(* As the round begins the evidence is what the ledgers show.              *)
LEMMA RoundBegins ==
  ASSUME EvidenceTyped, before.evidence = Evidence(handed, cited)
  PROVE  Grown
<1>1. before.evidence.passages = UNION {handed[d].passages : d \in Documents}
  BY DEF Evidence
<1>2. before.evidence.rows = {<<d, handed[d].keys>> : d \in {x \in Documents : handed[x].row}}
  BY DEF Evidence
<1>3. QED
  BY <1>1, <1>2 DEF Grown

LEMMA EvidenceInvInit == EvidenceInit => EvidenceInv
<1> SUFFICES ASSUME EvidenceInit PROVE EvidenceInv
  OBVIOUS
<1>1. \A d \in Documents : NoEntry \in EntryOf(d)
  BY DEF NoEntry, EntryOf
<1>2. EvidenceTyped
  BY <1>1 DEF EvidenceInit, EvidenceTyped
<1>3. before.evidence = Evidence(handed, cited) /\ context = before.context
  BY DEF EvidenceInit
<1>4. QED
  BY <1>2, <1>3, RoundBegins DEF EvidenceInv

LEMMA EvidenceInvNext == EvidenceInv /\ [EvidenceNext]_evidenceVars => EvidenceInv'
<1> SUFFICES ASSUME EvidenceInv, [EvidenceNext]_evidenceVars PROVE EvidenceInv'
  OBVIOUS
<1>1. \A d \in Documents : Now(d).entry \in EntryOf(d)
  BY DEF Now, EvidenceInv, EvidenceTyped
<1>2. ASSUME UNCHANGED <<handed, context, before>> PROVE EvidenceInv'
  BY <1>2 DEF EvidenceInv, EvidenceTyped, Grown, ShowsMore
<1>3. ASSUME NEW c \in Letters, SearchCircular(c) PROVE EvidenceInv'
  <2>1. PICK letter \in BOOLEAN, hits \in SUBSET Passages(c), both \in BOOLEAN :
          Call(c, IF both THEN SearchRow(SearchRow(Now(c), c, letter, hits), c, letter, hits)
                  ELSE SearchRow(Now(c), c, letter, hits), {})
    BY <1>3 DEF SearchCircular
  <2> DEFINE once == SearchRow(Now(c), c, letter, hits)
             twice == SearchRow(once, c, letter, hits)
  <2>2. c \in Documents
    BY DEF Documents
  <2>3. Extends(c, Now(c), once)
    BY <1>1, <2>2, SearchRowExtends
  <2>4. once.entry \in EntryOf(c)
    BY <2>3 DEF Extends
  <2> HIDE DEF once
  <2>5. Extends(c, once, twice)
    BY <2>2, <2>4, SearchRowExtends
  <2> HIDE DEF twice
  <2>6. Extends(c, Now(c), twice)
    BY <2>3, <2>5, ExtendsTwice
  <2>7. Call(c, twice, {}) \/ Call(c, once, {})
    BY <2>1 DEF once, twice
  <2>8. QED
    BY <2>2, <2>3, <2>6, <2>7, EvidenceInvCall
<1>4. ASSUME NEW l \in Acts, SearchLaw(l) PROVE EvidenceInv'
  <2>1. PICK hits \in SUBSET Passages(l) : Call(l, SearchRow(Now(l), l, FALSE, hits), {})
    BY <1>4 DEF SearchLaw
  <2>2. l \in Documents
    BY DEF Documents
  <2>3. Extends(l, Now(l), SearchRow(Now(l), l, FALSE, hits))
    BY <1>1, <2>2, SearchRowExtends
  <2>4. QED
    BY <2>1, <2>2, <2>3, EvidenceInvCall
<1>5. ASSUME NEW c \in Letters, SearchSelected(c) PROVE EvidenceInv'
  <2>1. PICK hits \in SUBSET Passages(c), refs \in {{}, {c}} :
          \E cut \in Cuts(hits \ handed[c].passages) : Call(c, ScopedSearch(Now(c), c, hits, cut), refs)
    BY <1>5 DEF SearchSelected
  <2>2. c \in Documents
    BY DEF Documents
  <2>3. \A cut : Extends(c, Now(c), ScopedSearch(Now(c), c, hits, cut))
    BY <1>1, <2>2, ScopedSearchExtends
  <2>4. QED
    BY <2>1, <2>2, <2>3, EvidenceInvCall
<1>6. ASSUME NEW c \in Letters, OpenCircular(c) PROVE EvidenceInv'
  <2>1. PICK short \in SUBSET {"letter", "inside"}, hits \in SUBSET Passages(c) :
          \E cut \in Cuts(hits \ handed[c].passages) : Call(c, ReadLetter(Now(c), c, short, hits, cut), {c})
    BY <1>6 DEF OpenCircular
  <2>2. c \in Documents
    BY DEF Documents
  <2>3. \A cut : Extends(c, Now(c), ReadLetter(Now(c), c, short, hits, cut))
    BY <1>1, <2>2, ReadLetterExtends
  <2>4. QED
    BY <2>1, <2>2, <2>3, EvidenceInvCall
<1>7. ASSUME NEW d \in Documents, OpenInside(d) PROVE EvidenceInv'
  <2>1. PICK window \in SUBSET Inside(d) : Call(d, ReadInside(Now(d), d, window), {d})
    BY <1>7 DEF OpenInside
  <2>2. Extends(d, Now(d), ReadInside(Now(d), d, window))
    BY <1>1, ReadInsideExtends
  <2>3. QED
    BY <2>1, <2>2, EvidenceInvCall
<1>8. ASSUME ListDocuments PROVE EvidenceInv'
  <2>1. PICK d \in Documents : Call(d, Now(d), {d})
    BY <1>8 DEF ListDocuments
  <2>2. Extends(d, Now(d), Now(d))
    BY <1>1 DEF Extends
  <2>3. QED
    BY <2>1, <2>2, EvidenceInvCall
<1>9. ASSUME BeginRound PROVE EvidenceInv'
  <2>1. EvidenceTyped' /\ before'.evidence = Evidence(handed', cited') /\ before'.context = context'
    BY <1>9 DEF BeginRound, EvidenceInv, EvidenceTyped
  <2>2. Grown'
    <3>1. before'.evidence.passages = UNION {handed'[d].passages : d \in Documents}
      BY <2>1 DEF Evidence
    <3>2. before'.evidence.rows = {<<d, handed'[d].keys>> : d \in {x \in Documents : handed'[x].row}}
      BY <2>1 DEF Evidence
    <3>3. QED
      BY <3>1, <3>2 DEF Grown
  <2>3. QED
    BY <2>1, <2>2 DEF EvidenceInv
<1>10. ASSUME ToolFails \/ EndRound \/ AnswerTurn \/ Raise \/ UNCHANGED evidenceVars PROVE EvidenceInv'
  BY <1>2, <1>10 DEF ToolFails, EndRound, AnswerTurn, Raise, evidenceVars
<1>11. QED
  BY <1>3, <1>4, <1>5, <1>6, <1>7, <1>8, <1>9, <1>10 DEF EvidenceNext

-----------------------------------------------------------------------------
(* While the ledgers show what they showed, nothing has come.              *)
LEMMA SameEvidence ==
  ASSUME EvidenceInv, Evidence(handed, cited) = before.evidence
  PROVE  context = before.context
<1>1. before.evidence.passages = UNION {handed[d].passages : d \in Documents}
  BY DEF Evidence
<1>2. \A d \in Documents : handed[d].row => <<d, handed[d].keys>> \in before.evidence.rows
  BY DEF Evidence
<1>3. \A d \in Documents : handed[d].keys \in SUBSET TextKeys
  BY DEF EvidenceInv, EvidenceTyped, EntryOf
<1>4. ~ShowsMore
  BY <1>1, <1>2, <1>3 DEF ShowsMore, ShowsLetter
<1>5. QED
  BY <1>4 DEF EvidenceInv

(* The rounds do not end before the last one on a round that handed over a *)
(* letter, a passage or an excerpt (_round_added_nothing).                 *)
THEOREM RoundsGoOnWhileTheyHandOver == EvidenceSpec => ReadingGoesOn
<1>1. EvidenceInv /\ [EvidenceNext]_evidenceVars =>
        [stage = "tools" /\ stage' = "synthesis" /\ context # before.context => round' = Rounds]_evidenceVars
  <2> SUFFICES ASSUME EvidenceInv, EvidenceNext, stage = "tools", stage' = "synthesis", context # before.context
               PROVE  round' = Rounds
    OBVIOUS
  <2>1. EndRound
    BY DEF EvidenceNext, SearchCircular, SearchSelected, OpenCircular, SearchLaw, OpenInside, ListDocuments,
           Call, ToolFails, BeginRound, AnswerTurn, Raise
  <2>2. ~RoundAddedNothing
    BY SameEvidence DEF RoundAddedNothing
  <2>3. QED
    BY <2>1, <2>2 DEF EndRound
<1>2. QED
  BY <1>1, EvidenceInvInit, EvidenceInvNext, PTL DEF EvidenceSpec, ReadingGoesOn

-----------------------------------------------------------------------------
(* What is before the model, and what it is told, keep their types.        *)
Readable(s) == s.context \subseteq EveryText /\ s.told \subseteq BOOLEAN

EvidenceSteps ==
  /\ Readable([context |-> context, told |-> told])
  /\ cited \subseteq Documents /\ before.context \subseteq EveryText /\ failed \in BOOLEAN
  /\ round \in 0..Rounds /\ (stage \in {"thinking", "tools"} => round < Rounds)
  /\ calls \in 0..CallBound /\ stage \in TurnStages

LEMMA TextsAre ==
  /\ \A d \in Documents : Passages(d) \subseteq EveryText /\ Inside(d) \subseteq Passages(d)
  /\ \A c \in Letters : c \in Documents /\ Letter(c) \in EveryText /\ Body(c) \in Passages(c)
<1>1. \A d \in Documents : Passages(d) \subseteq EveryText
  BY DEF EveryText
<1>2. \A d \in Documents : Inside(d) \subseteq Passages(d)
  BY DEF Passages
<1>3. \A c \in Letters : c \in Documents /\ Body(c) \in Passages(c)
  BY DEF Passages, Documents
<1>4. \A c \in Letters : Letter(c) \in EveryText
  <2> TAKE c \in Letters
  <2> DEFINE letters == {Letter(x) : x \in Letters}
  <2>1. Letter(c) \in letters
    OBVIOUS
  <2>2. letters \subseteq EveryText
    BY DEF EveryText
  <2> HIDE DEF letters
  <2>3. QED
    BY <2>1, <2>2
<1>5. QED
  BY <1>1, <1>2, <1>3, <1>4

LEMMA HasIs == ASSUME NEW ctx, NEW d, NEW t PROVE Has(ctx, d, t) \in BOOLEAN
BY DEF Has

LEMMA HasKeyIs == ASSUME NEW ctx, NEW d, NEW k PROVE HasKey(ctx, d, k) \in BOOLEAN
<1>1. CASE k = "full_circular_text"
  BY <1>1 DEF HasKey
<1>2. CASE k # "full_circular_text"
  BY <1>2 DEF HasKey
<1>3. QED
  BY <1>1, <1>2

LEMMA SearchRowReads ==
  ASSUME NEW d \in Documents, NEW s, Readable(s), NEW letter \in BOOLEAN, letter => d \in Letters,
         NEW hits \in SUBSET Passages(d)
  PROVE  Readable(SearchRow(s, d, letter, hits))
<1> DEFINE new  == Fresh(s, d, letter, hits)
           sends == new \union (IF letter /\ (~s.entry.row \/ "full_circular_text" \notin s.entry.keys)
                                THEN {Letter(d)} ELSE {})
           points == IF s.entry.row THEN {HasKey(s.context, d, k) : k \in s.entry.keys}
                     ELSE IF d \in Letters /\ s.entry.passages \intersect Inside(d) # {} /\ new \intersect Inside(d) = {}
                          THEN {\E t \in Inside(d) : t \in s.context} ELSE {}
           r == SearchRow(s, d, letter, hits)
<1>1. r.context = s.context \union sends /\ r.told = s.told \union points
  BY DEF SearchRow
<1>2. new \subseteq EveryText
  BY TextsAre DEF Fresh
<1>3. sends \subseteq EveryText
  BY <1>2, TextsAre
<1>4. points \subseteq BOOLEAN
  <2>1. {HasKey(s.context, d, k) : k \in s.entry.keys} \subseteq BOOLEAN
    BY HasKeyIs
  <2>2. {\E t \in Inside(d) : t \in s.context} \subseteq BOOLEAN
    OBVIOUS
  <2>3. QED
    BY <2>1, <2>2
<1> HIDE DEF r, sends, points
<1>5. QED
  BY <1>1, <1>3, <1>4 DEF Readable, r

LEMMA ScopedSearchReads ==
  ASSUME NEW d \in Documents, NEW s, Readable(s), NEW hits \in SUBSET Passages(d), NEW cut
  PROVE  Readable(ScopedSearch(s, d, hits, cut))
<1> DEFINE points == {Has(s.context, d, t) : t \in hits \intersect s.entry.passages}
           r == ScopedSearch(s, d, hits, cut)
<1>1. /\ r.context = s.context \union ((hits \ s.entry.passages) \ cut)
      /\ r.told = s.told \union points
  BY DEF ScopedSearch
<1>2. points \subseteq BOOLEAN
  BY HasIs
<1>3. hits \subseteq EveryText
  BY TextsAre
<1> HIDE DEF r, points
<1>4. QED
  BY <1>1, <1>2, <1>3 DEF Readable, r

LEMMA ReadInsideReads ==
  ASSUME NEW d \in Documents, NEW s, Readable(s), NEW window \in SUBSET Inside(d)
  PROVE  Readable(ReadInside(s, d, window))
<1> DEFINE points == {Has(s.context, d, t) : t \in window \intersect s.entry.passages}
           r == ReadInside(s, d, window)
<1>1. /\ r.context = s.context \union (window \ s.entry.passages)
      /\ r.told = s.told \union points
  BY DEF ReadInside
<1>2. points \subseteq BOOLEAN
  BY HasIs
<1>3. window \subseteq EveryText
  BY TextsAre
<1> HIDE DEF r, points
<1>4. QED
  BY <1>1, <1>2, <1>3 DEF Readable, r

LEMMA ReadLetterReads ==
  ASSUME NEW c \in Letters, NEW s, Readable(s), NEW short \in SUBSET {"letter", "inside"},
         NEW hits \in SUBSET Passages(c), NEW cut
  PROVE  Readable(ReadLetter(s, c, short, hits, cut))
<1> DEFINE held   == {d \in {"letter", "inside"} : Held(s, c, d)}
           direct == short \ held
           whole  == UNION {IF d = "letter" THEN {Body(c)} ELSE Inside(c) : d \in direct}
           out    == UNION {IF d = "letter" THEN {Body(c)} ELSE Inside(c) : d \in direct \union held}
           found  == ScopedSearch(s, c, hits \ out, cut)
           r      == ReadLetter(s, c, short, hits, cut)
<1>1. /\ r.context = found.context \union whole \union (IF "letter" \in direct THEN {Letter(c)} ELSE {})
      /\ r.told = found.told \union (IF "letter" \in held THEN {Has(s.context, c, Body(c))} ELSE {})
                  \union (IF "inside" \in held THEN {Inside(c) \subseteq s.context} ELSE {})
  BY DEF ReadLetter
<1>2. /\ c \in Documents /\ Letter(c) \in EveryText /\ Body(c) \in Passages(c)
      /\ Inside(c) \subseteq Passages(c) /\ Passages(c) \subseteq EveryText
  BY TextsAre
<1>3. whole \subseteq EveryText
  BY <1>2
<1>4. Readable(found)
  <2> HIDE DEF out, found
  <2>1. \A h \in SUBSET Passages(c) : Readable(ScopedSearch(s, c, h, cut))
    BY <1>2, ScopedSearchReads
  <2>2. hits \ out \in SUBSET Passages(c)
    OBVIOUS
  <2>3. QED
    BY <2>1, <2>2 DEF found
<1>5. /\ {Has(s.context, c, Body(c))} \subseteq BOOLEAN
      /\ {Inside(c) \subseteq s.context} \subseteq BOOLEAN
  BY HasIs
<1> HIDE DEF r, found, whole, held, direct
<1>6. QED
  BY <1>1, <1>2, <1>3, <1>4, <1>5 DEF Readable, r

LEMMA EvidenceStepsCall ==
  ASSUME EvidenceSteps, NEW d, NEW s, NEW refs \in SUBSET Documents, Call(d, s, refs), Readable(s)
  PROVE  EvidenceSteps'
<1>1. context' \subseteq EveryText /\ told' \subseteq BOOLEAN /\ cited' \subseteq Documents
  BY DEF Call, Readable, EvidenceSteps
<1>2. calls' \in 0..CallBound
  BY EvidenceBounds DEF Call, EvidenceSteps
<1>3. before' = before /\ failed' = failed /\ round' = round /\ stage' = stage
  BY DEF Call
<1>4. QED
  BY <1>1, <1>2, <1>3 DEF EvidenceSteps, Readable

LEMMA EvidenceStepsNext == EvidenceSteps /\ [EvidenceNext]_evidenceVars => EvidenceSteps'
<1> SUFFICES ASSUME EvidenceSteps, [EvidenceNext]_evidenceVars PROVE EvidenceSteps'
  OBVIOUS
<1>1. \A d : Readable(Now(d))
  BY DEF Now, EvidenceSteps, Readable
<1>2. \A d \in Documents : {d} \in SUBSET Documents
  OBVIOUS
<1>3. ASSUME NEW c \in Letters, SearchCircular(c) PROVE EvidenceSteps'
  <2>1. PICK letter \in BOOLEAN, hits \in SUBSET Passages(c), both \in BOOLEAN :
          Call(c, IF both THEN SearchRow(SearchRow(Now(c), c, letter, hits), c, letter, hits)
                  ELSE SearchRow(Now(c), c, letter, hits), {})
    BY <1>3 DEF SearchCircular
  <2>2. Readable(SearchRow(Now(c), c, letter, hits))
    BY <1>1, TextsAre, SearchRowReads
  <2>3. Readable(SearchRow(SearchRow(Now(c), c, letter, hits), c, letter, hits))
    BY <2>2, TextsAre, SearchRowReads
  <2>4. QED
    BY <2>1, <2>2, <2>3, EvidenceStepsCall
<1>4. ASSUME NEW l \in Acts, SearchLaw(l) PROVE EvidenceSteps'
  <2>1. PICK hits \in SUBSET Passages(l) : Call(l, SearchRow(Now(l), l, FALSE, hits), {})
    BY <1>4 DEF SearchLaw
  <2>2. Readable(SearchRow(Now(l), l, FALSE, hits))
    <3>1. l \in Documents /\ Readable(Now(l)) /\ FALSE \in BOOLEAN /\ (FALSE => l \in Letters)
      BY <1>1 DEF Documents
    <3>2. QED
      BY <3>1, SearchRowReads
  <2>3. {} \in SUBSET Documents
    OBVIOUS
  <2>4. QED
    BY <2>1, <2>2, <2>3, EvidenceStepsCall
<1>5. ASSUME NEW c \in Letters, SearchSelected(c) PROVE EvidenceSteps'
  <2>1. PICK hits \in SUBSET Passages(c), refs \in {{}, {c}} :
          \E cut \in Cuts(hits \ handed[c].passages) : Call(c, ScopedSearch(Now(c), c, hits, cut), refs)
    BY <1>5 DEF SearchSelected
  <2>2. \A cut : Readable(ScopedSearch(Now(c), c, hits, cut))
    BY <1>1, TextsAre, ScopedSearchReads
  <2>3. refs \in SUBSET Documents
    BY DEF Documents
  <2>4. QED
    BY <2>1, <2>2, <2>3, EvidenceStepsCall
<1>6. ASSUME NEW c \in Letters, OpenCircular(c) PROVE EvidenceSteps'
  <2>1. PICK short \in SUBSET {"letter", "inside"}, hits \in SUBSET Passages(c) :
          \E cut \in Cuts(hits \ handed[c].passages) : Call(c, ReadLetter(Now(c), c, short, hits, cut), {c})
    BY <1>6 DEF OpenCircular
  <2>2. \A cut : Readable(ReadLetter(Now(c), c, short, hits, cut))
    BY <1>1, ReadLetterReads
  <2>3. QED
    BY <2>1, <2>2, <1>2, TextsAre, EvidenceStepsCall
<1>7. ASSUME NEW d \in Documents, OpenInside(d) PROVE EvidenceSteps'
  <2>1. PICK window \in SUBSET Inside(d) : Call(d, ReadInside(Now(d), d, window), {d})
    BY <1>7 DEF OpenInside
  <2>2. Readable(ReadInside(Now(d), d, window))
    BY <1>1, ReadInsideReads
  <2>3. QED
    BY <2>1, <2>2, <1>2, EvidenceStepsCall
<1>8. ASSUME ListDocuments PROVE EvidenceSteps'
  BY <1>1, <1>2, <1>8, EvidenceStepsCall DEF ListDocuments
<1>9. ASSUME ToolFails PROVE EvidenceSteps'
  BY <1>9, EvidenceBounds DEF ToolFails, EvidenceSteps, Readable
<1>10. ASSUME BeginRound PROVE EvidenceSteps'
  <2>1. /\ before'.context = context /\ calls' = 0 /\ failed' = FALSE /\ stage' = "tools"
        /\ context' = context /\ told' = told /\ cited' = cited /\ round' = round /\ stage = "thinking"
    BY <1>10 DEF BeginRound
  <2>2. calls' \in 0..CallBound
    BY <2>1, EvidenceBounds
  <2>3. QED
    BY <2>1, <2>2 DEF EvidenceSteps, Readable, TurnStages
<1>11. ASSUME EndRound PROVE EvidenceSteps'
  BY <1>11, EvidenceBounds DEF EndRound, EvidenceSteps, Readable, TurnStages
<1>12. ASSUME AnswerTurn \/ Raise \/ UNCHANGED evidenceVars PROVE EvidenceSteps'
  BY <1>12 DEF AnswerTurn, Raise, evidenceVars, EvidenceSteps, Readable, TurnStages
<1>13. QED
  BY <1>3, <1>4, <1>5, <1>6, <1>7, <1>8, <1>9, <1>10, <1>11, <1>12 DEF EvidenceNext

(* A turn reads texts of its documents only, and it makes no more rounds   *)
(* and calls than it may (_MAX_TOOL_ITERATIONS).                           *)
THEOREM EvidenceTypes == EvidenceSpec => []EvidenceTypeOK
<1>1. EvidenceInit => EvidenceSteps
  <2> SUFFICES ASSUME EvidenceInit PROVE EvidenceSteps
    OBVIOUS
  <2>1. /\ context = {} /\ told = {} /\ cited = {} /\ failed = FALSE /\ before.context = {}
        /\ round = 0 /\ calls = 0 /\ stage = "thinking"
    BY DEF EvidenceInit
  <2>2. round \in 0..Rounds /\ round < Rounds /\ calls \in 0..CallBound
    BY <2>1, EvidenceBounds
  <2>3. QED
    BY <2>1, <2>2 DEF EvidenceSteps, Readable, TurnStages
<1>2. EvidenceInv /\ EvidenceSteps => EvidenceTypeOK
  <2> SUFFICES ASSUME EvidenceInv, EvidenceSteps PROVE EvidenceTypeOK
    OBVIOUS
  <2>1. \A d \in Documents :
          handed[d] \in [row: BOOLEAN, keys: SUBSET TextKeys, passages: SUBSET EveryText]
    BY TextsAre DEF EvidenceInv, EvidenceTyped, EntryOf
  <2>2. handed \in [Documents -> [row: BOOLEAN, keys: SUBSET TextKeys, passages: SUBSET EveryText]]
    BY <2>1 DEF EvidenceInv, EvidenceTyped
  <2>3. QED
    BY <2>2 DEF EvidenceSteps, Readable, EvidenceTypeOK
<1>3. QED
  BY <1>1, <1>2, EvidenceInvInit, EvidenceInvNext, EvidenceStepsNext, PTL DEF EvidenceSpec

-----------------------------------------------------------------------------
(***************************************************************************)
(* ChatTurn.                                                               *)
(***************************************************************************)
(* Until a turn is settled it has no answer: it is asked and writes with   *)
(* nothing saved, and whoever watches it has its text in front of them.    *)
TurnFits(t) ==
  /\ turn[t].at = "idle" => turn[t] = NoTurn /\ screen[t] = Unwatched
  /\ turn[t].at # "idle" => turn[t].session \in Sessions
  /\ turn[t].at = "asked" => turn[t] = [NoTurn EXCEPT !.at = "asked", !.session = turn[t].session]
  /\ turn[t].at = "writing" =>
       ~turn[t].saved /\ \A n \in turn[t].notes : n[1] \in DOMAIN turn[t].steps
  /\ turn[t].at \in {"asked", "writing", "failing", "closing"} /\ Watching(t) => screen[t].text = turn[t].text

TurnSettled(t) == turn[t].saved \/ turn[t].at = "ended"

AnswersAreSettled == \A t \in Turns, s \in Sessions : \A i \in DOMAIN history[s] :
  AnswerTo(history[s][i], t) => TurnSettled(t)

ChatInv == ChatTypeOK /\ (\A t \in Turns : TurnFits(t)) /\ AnswersAreSettled /\ SavedIsShown

-----------------------------------------------------------------------------
(* What a step does to the messages.                                       *)

LEMMA Appended ==
  ASSUME NEW h \in Seq(Message), NEW m \in Message
  PROVE  /\ Append(h, m) \in Seq(Message) /\ DOMAIN Append(h, m) = 1..(Len(h) + 1)
         /\ Len(h) \in Nat /\ DOMAIN h = 1..Len(h)
         /\ \A i \in DOMAIN h : Append(h, m)[i] = h[i]
         /\ Append(h, m)[Len(h) + 1] = m
BY AppendProperties, LenProperties

LEMMA Cut ==
  ASSUME NEW h \in Seq(Message), NEW i \in DOMAIN h
  PROVE  /\ SubSeq(h, 1, i - 1) \in Seq(Message)
         /\ \A k \in DOMAIN SubSeq(h, 1, i - 1) : k \in DOMAIN h /\ SubSeq(h, 1, i - 1)[k] = h[k]
<1>1. DOMAIN h = 1..Len(h) /\ Len(h) \in Nat /\ i \in 1..Len(h) /\ \A k \in 1..Len(h) : h[k] \in Message
  BY LenProperties, ElementOfSeq
<1>2. i - 1 \in Int /\ \A k \in 1..(i - 1) : h[k] \in Message
  BY <1>1
<1>3. /\ SubSeq(h, 1, i - 1) \in Seq(Message)
      /\ Len(SubSeq(h, 1, i - 1)) = IF 1 <= i - 1 THEN i - 1 - 1 + 1 ELSE 0
      /\ \A k \in 1..(i - 1 - 1 + 1) : SubSeq(h, 1, i - 1)[k] = h[1 + k - 1]
  BY <1>2, SubSeqProperties
<1>4. DOMAIN SubSeq(h, 1, i - 1) = 1..(i - 1)
  BY <1>1, <1>3, LenProperties
<1>5. QED
  BY <1>1, <1>3, <1>4

(* No step takes the answer back from a turn that is settled, or shows     *)
(* something else to whoever goes on watching it.                          *)
Keeps == \A u \in Turns : TurnSettled(u) =>
  TurnSettled(u)' /\ (Watching(u)' => Watching(u) /\ screen'[u].text = screen[u].text)

NoAnswerAdded == \A s \in Sessions : \A i \in DOMAIN history'[s] :
  history'[s][i].role = "assistant" => i \in DOMAIN history[s] /\ history'[s][i] = history[s][i]

LEMMA WithoutAnswer ==
  ASSUME ChatInv, Keeps, NoAnswerAdded
  PROVE  AnswersAreSettled' /\ AnswersAreShown'
<1>1. \A t \in Turns, s \in Sessions : \A i \in DOMAIN history'[s] : AnswerTo(history'[s][i], t) =>
        i \in DOMAIN history[s] /\ history'[s][i] = history[s][i] /\ AnswerTo(history[s][i], t)
  BY DEF NoAnswerAdded, AnswerTo
<1>2. AnswersAreSettled'
  BY <1>1 DEF ChatInv, AnswersAreSettled, Keeps
<1>3. AnswersAreShown'
  <2> SUFFICES ASSUME NEW t \in Turns, NEW s \in Sessions, NEW i \in DOMAIN history'[s],
                      AnswerTo(history'[s][i], t)
               PROVE  /\ \A x \in Sessions : \A k \in DOMAIN history'[x] :
                           AnswerTo(history'[x][k], t) => x = s /\ k = i
                      /\ Watching(t)' => history'[s][i].text = screen'[t].text
    BY DEF AnswersAreShown
  <2>1. i \in DOMAIN history[s] /\ history'[s][i] = history[s][i] /\ AnswerTo(history[s][i], t)
    BY <1>1
  <2>2. \A x \in Sessions : \A k \in DOMAIN history[x] : AnswerTo(history[x][k], t) => x = s /\ k = i
    BY <2>1 DEF ChatInv, SavedIsShown, AnswersAreShown
  <2>3. Watching(t)' => Watching(t) /\ screen'[t].text = screen[t].text
    BY <2>1 DEF ChatInv, AnswersAreSettled, Keeps
  <2>4. Watching(t) => history[s][i].text = screen[t].text
    BY <2>1 DEF ChatInv, SavedIsShown, AnswersAreShown
  <2>5. QED
    BY <1>1, <2>1, <2>2, <2>3, <2>4
<1>4. QED
  BY <1>2, <1>3

LEMMA WithAnswer ==
  ASSUME ChatInv, Keeps, NEW t \in Turns, NEW s \in Sessions, NEW words \in Text,
         ~TurnSettled(t), TurnSettled(t)',
         history' = [history EXCEPT ![s] = Append(@, Said(t, words))],
         Watching(t)' => screen'[t].text = words
  PROVE  AnswersAreSettled' /\ AnswersAreShown'
<1> DEFINE last == Len(history[s]) + 1
<1>1. history \in [Sessions -> Seq(Message)] /\ Said(t, words) \in Message
  BY DEF ChatInv, ChatTypeOK, Said, Message
<1>2. /\ DOMAIN history[s] = 1..Len(history[s]) /\ Len(history[s]) \in Nat
      /\ DOMAIN history'[s] = 1..last
      /\ \A i \in DOMAIN history[s] : history'[s][i] = history[s][i]
      /\ history'[s][last] = Said(t, words)
  BY <1>1, Appended
<1>3. \A x \in Sessions : x # s => history'[x] = history[x]
  BY <1>1
<1>4. \A u \in Turns, x \in Sessions : \A i \in DOMAIN history'[x] : AnswerTo(history'[x][i], u) =>
        \/ i \in DOMAIN history[x] /\ history'[x][i] = history[x][i] /\ AnswerTo(history[x][i], u) /\ u # t
        \/ u = t /\ x = s /\ i = last /\ history'[x][i] = Said(t, words)
  <2> SUFFICES ASSUME NEW u \in Turns, NEW x \in Sessions, NEW i \in DOMAIN history'[x],
                      AnswerTo(history'[x][i], u)
               PROVE  \/ i \in DOMAIN history[x] /\ history'[x][i] = history[x][i] /\ AnswerTo(history[x][i], u) /\ u # t
                      \/ u = t /\ x = s /\ i = last /\ history'[x][i] = Said(t, words)
    OBVIOUS
  <2>1. CASE x = s /\ i = last
    BY <1>2, <2>1 DEF AnswerTo, Said
  <2>2. CASE ~(x = s /\ i = last)
    <3>1. i \in DOMAIN history[x] /\ history'[x][i] = history[x][i]
      BY <1>2, <1>3, <2>2
    <3>2. QED
      BY <3>1 DEF ChatInv, AnswersAreSettled
  <2>3. QED
    BY <2>1, <2>2
<1>5. AnswersAreSettled'
  BY <1>4 DEF ChatInv, AnswersAreSettled, Keeps
<1>6. AnswersAreShown'
  <2> SUFFICES ASSUME NEW u \in Turns, NEW x \in Sessions, NEW i \in DOMAIN history'[x],
                      AnswerTo(history'[x][i], u)
               PROVE  /\ \A y \in Sessions : \A k \in DOMAIN history'[y] :
                           AnswerTo(history'[y][k], u) => y = x /\ k = i
                      /\ Watching(u)' => history'[x][i].text = screen'[u].text
    BY DEF AnswersAreShown
  <2>1. CASE u = t
    BY <1>4, <2>1 DEF Said
  <2>2. CASE u # t
    <3>1. i \in DOMAIN history[x] /\ history'[x][i] = history[x][i] /\ AnswerTo(history[x][i], u)
      BY <1>4, <2>2
    <3>2. \A y \in Sessions : \A k \in DOMAIN history[y] : AnswerTo(history[y][k], u) => y = x /\ k = i
      BY <3>1 DEF ChatInv, SavedIsShown, AnswersAreShown
    <3>3. Watching(u)' => Watching(u) /\ screen'[u].text = screen[u].text
      BY <3>1 DEF ChatInv, AnswersAreSettled, Keeps
    <3>4. Watching(u) => history[x][i].text = screen[u].text
      BY <3>1 DEF ChatInv, SavedIsShown, AnswersAreShown
    <3>5. QED
      BY <1>4, <2>2, <3>1, <3>2, <3>3, <3>4
  <2>3. QED
    BY <2>1, <2>2
<1>7. QED
  BY <1>5, <1>6

(* A step of one turn leaves the others as they are.                       *)
Others(t) == \A u \in Turns : u # t => turn'[u] = turn[u] /\ screen'[u] = screen[u]

(* What it must see to for its own.                                        *)
OwnTurn(t) ==
  /\ TurnFits(t)'
  /\ \A n \in turn'[t].notes : n[1] \in DOMAIN turn'[t].steps => turn'[t].steps[n[1]] = n[2]
  /\ TurnSettled(t) => TurnSettled(t)' /\ (Watching(t)' => Watching(t) /\ screen'[t].text = screen[t].text)

OneAnswer(t, words) ==
  /\ ~TurnSettled(t) /\ TurnSettled(t)' /\ (Watching(t)' => screen'[t].text = words)
  /\ \E s \in Sessions : history' = [history EXCEPT ![s] = Append(@, Said(t, words))]

LEMMA TurnStep ==
  ASSUME ChatInv, NEW t \in Turns, ChatTypeOK', Others(t), OwnTurn(t),
         NoAnswerAdded \/ \E words \in Text : OneAnswer(t, words)
  PROVE  ChatInv'
<1>1. \A u \in Turns : u # t => TurnFits(u)'
  BY DEF ChatInv, Others, TurnFits, Watching
<1>2. Keeps
  BY DEF Others, OwnTurn, Keeps, TurnSettled, Watching
<1>3. AnswersAreSettled' /\ AnswersAreShown'
  <2>1. CASE NoAnswerAdded
    BY <1>2, <2>1, WithoutAnswer
  <2>2. ASSUME NEW words \in Text, OneAnswer(t, words) PROVE AnswersAreSettled' /\ AnswersAreShown'
    BY <1>2, <2>2, WithAnswer DEF OneAnswer
  <2>3. QED
    BY <2>1, <2>2
<1>4. NotesFitTheirSteps'
  BY DEF ChatInv, SavedIsShown, NotesFitTheirSteps, Others, OwnTurn
<1>5. QED
  BY <1>1, <1>3, <1>4 DEF ChatInv, OwnTurn, SavedIsShown

-----------------------------------------------------------------------------
LEMMA ChatInvInit == ChatInit => ChatInv
<1> SUFFICES ASSUME ChatInit PROVE ChatInv
  OBVIOUS
<1>1. Blank \in Text /\ <<>> \in Seq(Message) /\ <<>> \in Seq(1..ChatRounds) /\ DOMAIN <<>> = {}
  BY ChatBounds DEF Blank, Text, Sizes
<1>2. NoTurn \in Turn /\ Unwatched \in [watching: BOOLEAN, text: Text]
  BY <1>1, ChatBounds DEF NoTurn, Turn, Unwatched, ChatStages
<1>3. ChatTypeOK
  BY <1>1, <1>2, ChatBounds DEF ChatInit, ChatTypeOK
<1>4. \A t \in Turns : TurnFits(t)
  BY DEF ChatInit, TurnFits, NoTurn, Unwatched
<1>5. AnswersAreSettled /\ SavedIsShown
  BY <1>1 DEF ChatInit, AnswersAreSettled, SavedIsShown, AnswersAreShown, NotesFitTheirSteps, NoTurn
<1>6. QED
  BY <1>3, <1>4, <1>5 DEF ChatInv

-----------------------------------------------------------------------------
(* The actions.                                                            *)

LEMMA CountStays ==
  ASSUME ChatTypeOK, NEW k \in ChatEvents, ChatMore(k)
  PROVE  chatCount' \in [ChatEvents -> 0..ChatTotal]
<1>1. chatCount \in [ChatEvents -> 0..ChatTotal]
  BY DEF ChatTypeOK
<1>2. /\ chatCount["truncate"] \in 0..ChatTotal /\ chatCount["delete"] \in 0..ChatTotal
      /\ chatCount["fail"] \in 0..ChatTotal /\ chatCount["stop"] \in 0..ChatTotal
      /\ chatCount["crash"] \in 0..ChatTotal
  BY <1>1 DEF ChatEvents
<1>3. chatCount[k] + 1 \in 0..ChatTotal
  BY <1>2, ChatBounds DEF ChatMore, ChatEvents
<1>4. QED
  BY <1>1, <1>3 DEF ChatMore

LEMMA ScreenStays ==
  ASSUME ChatTypeOK, NEW t \in Turns, NEW words \in Text
  PROVE  [screen EXCEPT ![t].text = words] \in [Turns -> [watching: BOOLEAN, text: Text]]
<1>1. screen \in [Turns -> [watching: BOOLEAN, text: Text]] /\ screen[t] \in [watching: BOOLEAN, text: Text]
  BY DEF ChatTypeOK
<1>2. [screen[t] EXCEPT !.text = words] \in [watching: BOOLEAN, text: Text]
  BY <1>1
<1>3. QED
  BY <1>1, <1>2

LEMMA AskNewKeeps == ASSUME ChatInv, NEW t \in Turns, AskNew(t) PROVE ChatInv'
<1>1. PICK s \in sessions \union Unminted :
        /\ turn[t].at = "idle" /\ sessions' = sessions \union {s}
        /\ history' = [history EXCEPT ![s] = Append(@, Question(t))]
        /\ turn' = [turn EXCEPT ![t] = [NoTurn EXCEPT !.at = "asked", !.session = s]]
        /\ screen' = [screen EXCEPT ![t].watching = TRUE] /\ chatCount' = chatCount
  BY DEF AskNew, Quietly
<1>2. ChatTypeOK /\ s \in Sessions /\ turn[t] = NoTurn /\ screen[t] = Unwatched
  BY <1>1 DEF ChatInv, ChatTypeOK, Unminted, TurnFits
<1>3. Question(t) \in Message
  BY ChatBounds DEF Question, Message, Text, Blank, Sizes
<1>4. [NoTurn EXCEPT !.at = "asked", !.session = s] \in Turn
  BY <1>2 DEF NoTurn, Turn, ChatStages, ChatTypeOK
<1>5. ChatTypeOK'
  BY <1>1, <1>2, <1>3, <1>4, Appended DEF ChatTypeOK
<1>6. NoAnswerAdded
  BY <1>1, <1>2, <1>3, Appended DEF ChatTypeOK, NoAnswerAdded, Question
<1>7. Others(t)
  BY <1>1, <1>2 DEF ChatTypeOK, Others
<1>8. OwnTurn(t)
  BY <1>1, <1>2 DEF ChatTypeOK, OwnTurn, TurnFits, TurnSettled, Watching, NoTurn, Unwatched
<1>9. QED
  BY <1>5, <1>6, <1>7, <1>8, TurnStep

LEMMA AskAgainKeeps == ASSUME ChatInv, NEW t \in Turns, AskAgain(t) PROVE ChatInv'
<1>1. PICK s \in sessions : \E i \in DOMAIN history[s] :
        /\ turn[t].at = "idle" /\ sessions' = sessions
        /\ history' = [history EXCEPT ![s] = Append(SubSeq(@, 1, i - 1), Question(t))]
        /\ turn' = [turn EXCEPT ![t] = [NoTurn EXCEPT !.at = "asked", !.session = s]]
        /\ screen' = [screen EXCEPT ![t].watching = TRUE] /\ chatCount' = chatCount
  BY DEF AskAgain, Quietly
<1>2. PICK i \in DOMAIN history[s] :
        history' = [history EXCEPT ![s] = Append(SubSeq(@, 1, i - 1), Question(t))]
  BY <1>1
<1>3. ChatTypeOK /\ s \in Sessions /\ turn[t] = NoTurn /\ screen[t] = Unwatched
  BY <1>1 DEF ChatInv, ChatTypeOK, TurnFits
<1>4. Question(t) \in Message
  BY ChatBounds DEF Question, Message, Text, Blank, Sizes
<1>5. [NoTurn EXCEPT !.at = "asked", !.session = s] \in Turn
  BY <1>3 DEF NoTurn, Turn, ChatStages, ChatTypeOK
<1> DEFINE left == SubSeq(history[s], 1, i - 1)
<1>6. left \in Seq(Message) /\ \A k \in DOMAIN left : k \in DOMAIN history[s] /\ left[k] = history[s][k]
  BY <1>3, Cut DEF ChatTypeOK
<1>7. /\ Append(left, Question(t)) \in Seq(Message)
      /\ \A k \in DOMAIN Append(left, Question(t)) :
           \/ k \in DOMAIN left /\ Append(left, Question(t))[k] = left[k]
           \/ Append(left, Question(t))[k] = Question(t)
  <2> HIDE DEF left
  <2> QED
    BY <1>4, <1>6, Appended
<1>8. history' = [history EXCEPT ![s] = Append(left, Question(t))]
  BY <1>2
<1> HIDE DEF left
<1>9. ChatTypeOK'
  <2>1. history' \in [Sessions -> Seq(Message)]
    BY <1>3, <1>7, <1>8 DEF ChatTypeOK
  <2>2. turn' \in [Turns -> Turn] /\ screen' \in [Turns -> [watching: BOOLEAN, text: Text]]
    BY <1>1, <1>3, <1>5 DEF ChatTypeOK
  <2>3. QED
    BY <1>1, <1>3, <2>1, <2>2 DEF ChatTypeOK
<1>10. NoAnswerAdded
  BY <1>3, <1>6, <1>7, <1>8 DEF ChatTypeOK, NoAnswerAdded, Question
<1>11. Others(t)
  BY <1>1, <1>3 DEF ChatTypeOK, Others
<1>12. OwnTurn(t)
  BY <1>1, <1>3 DEF ChatTypeOK, OwnTurn, TurnFits, TurnSettled, Watching, NoTurn, Unwatched
<1>13. QED
  BY <1>9, <1>10, <1>11, <1>12, TurnStep

LEMMA AnswerWholeKeeps == ASSUME ChatInv, NEW t \in Turns, AnswerWhole(t) PROVE ChatInv'
<1>1. PICK size \in {"short", "long"} : history' =
        [history EXCEPT ![turn[t].session] = Append(@, Said(t, [round |-> 0, size |-> size]))]
  BY DEF AnswerWhole
<1> DEFINE words == [round |-> 0, size |-> size]
<1>2. /\ ChatTypeOK /\ turn[t].at = "asked" /\ turn[t].session \in Sessions
      /\ turn[t] = [NoTurn EXCEPT !.at = "asked", !.session = turn[t].session]
  BY DEF AnswerWhole, ChatInv, TurnFits
<1>3. words \in Text /\ Said(t, words) \in Message
  BY ChatBounds DEF Said, Message, Text, Sizes
<1>4. /\ turn'[t] = [NoTurn EXCEPT !.at = "ended", !.session = turn[t].session] /\ screen'[t] = Unwatched
      /\ turn'[t] \in Turn /\ Unwatched \in [watching: BOOLEAN, text: Text]
  BY <1>2, ChatBounds
  DEF AnswerWhole, Left, ChatTypeOK, Turn, NoTurn, ChatStages, Unwatched, Blank, Text, Sizes
<1>5. Others(t)
  BY <1>2 DEF AnswerWhole, ChatTypeOK, Others
<1>6. ChatTypeOK'
  <2>1. history' \in [Sessions -> Seq(Message)]
    BY <1>1, <1>2, <1>3, Appended DEF ChatTypeOK
  <2>2. QED
    BY <1>2, <1>4, <2>1 DEF AnswerWhole, ChatTypeOK, Quietly
<1>7. OwnTurn(t)
  BY <1>2, <1>4 DEF OwnTurn, TurnFits, TurnSettled, Watching, NoTurn, Unwatched
<1>8. OneAnswer(t, words)
  BY <1>1, <1>2, <1>4 DEF OneAnswer, TurnSettled, Watching, NoTurn, Unwatched
<1>9. QED
  BY <1>3, <1>5, <1>6, <1>7, <1>8, TurnStep

LEMMA OpenStreamKeeps == ASSUME ChatInv, NEW t \in Turns, OpenStream(t) PROVE ChatInv'
<1>1. ChatTypeOK /\ turn[t].at = "asked" /\ TurnFits(t)
  BY DEF OpenStream, ChatInv
<1>2. ChatTypeOK'
  <2>1. turn'[t] \in Turn
    BY <1>1 DEF OpenStream, ChatTypeOK, Turn, On, ChatStages
  <2>2. QED
    BY <1>1, <2>1 DEF OpenStream, ChatTypeOK, Quietly
<1>3. Others(t) /\ NoAnswerAdded
  BY <1>1 DEF OpenStream, ChatTypeOK, Others, NoAnswerAdded
<1>4. OwnTurn(t)
  BY <1>1 DEF OpenStream, ChatTypeOK, Turn, OwnTurn, TurnFits, TurnSettled, Watching, On, NoTurn
<1>5. QED
  BY <1>2, <1>3, <1>4, TurnStep

LEMMA TokenKeeps == ASSUME ChatInv, NEW t \in Turns, Token(t) PROVE ChatInv'
<1>1. ChatTypeOK /\ turn[t].at = "writing" /\ TurnFits(t) /\ turn[t] \in Turn
  BY DEF Token, ChatInv, ChatTypeOK
<1>2. PICK size \in {"short", "long"} : turn' = [turn EXCEPT ![t].text.size = size, ![t].at = On(t)]
  BY DEF Token
<1>3. turn'[t] = [turn[t] EXCEPT !.text.size = size, !.at = On(t)] /\ turn'[t].text \in Text
  BY <1>1, <1>2 DEF ChatTypeOK, Turn, Text, Sizes
<1>4. turn'[t] \in Turn
  BY <1>1, <1>3 DEF Turn, On, ChatStages
<1>5. ChatTypeOK'
  <2>1. turn' \in [Turns -> Turn]
    BY <1>1, <1>2, <1>4 DEF ChatTypeOK
  <2>2. screen' \in [Turns -> [watching: BOOLEAN, text: Text]]
    <3> DEFINE shown == turn'[t].text
    <3>1. screen' = IF Watching(t) THEN [screen EXCEPT ![t].text = shown] ELSE screen
      BY DEF Token
    <3>2. shown \in Text
      BY <1>3
    <3> HIDE DEF shown
    <3>3. QED
      BY <1>1, <3>1, <3>2, ScreenStays DEF ChatTypeOK
  <2>3. QED
    BY <1>1, <2>1, <2>2 DEF Token, ChatTypeOK, Quietly
<1>6. Others(t) /\ NoAnswerAdded
  BY <1>1 DEF Token, ChatTypeOK, Others, NoAnswerAdded
<1>7. OwnTurn(t)
  <2>1. Watching(t)' = Watching(t) /\ (Watching(t) => screen'[t].text = turn'[t].text)
    BY <1>1 DEF Token, ChatTypeOK, Watching
  <2>2. \A n \in turn[t].notes : n[1] \in DOMAIN turn[t].steps => turn[t].steps[n[1]] = n[2]
    BY DEF ChatInv, SavedIsShown, NotesFitTheirSteps
  <2>3. /\ turn'[t].at \in {"writing", "closing"} /\ (turn'[t].at = "closing" => ~Watching(t))
        /\ turn'[t].session = turn[t].session /\ turn'[t].saved = turn[t].saved
        /\ turn'[t].notes = turn[t].notes /\ turn'[t].steps = turn[t].steps
    BY <1>1, <1>3 DEF Turn, On
  <2>4. QED
    BY <1>1, <2>1, <2>2, <2>3 DEF OwnTurn, TurnFits, TurnSettled
<1>8. QED
  BY <1>5, <1>6, <1>7, TurnStep

LEMMA ToolsKeeps == ASSUME ChatInv, NEW t \in Turns, Tools(t) PROVE ChatInv'
<1> DEFINE r == turn[t].round + 1
<1>1. PICK n \in 1..2, fails \in BOOLEAN :
        /\ turn[t].at = "writing" /\ r <= ChatRounds /\ (fails => Watching(t))
        /\ IF fails THEN ChatMore("fail") ELSE Quietly
        /\ turn' = [turn EXCEPT
             ![t].text  = Cleared(@, r), ![t].round = r,
             ![t].notes = IF turn[t].text.size = "blank" THEN @
                          ELSE @ \union {<<NoteAt(turn[t].steps, n), r>>},
             ![t].steps = IF Watching(t) THEN @ \o [i \in 1..n |-> r] ELSE @,
             ![t].at    = IF fails THEN "failing" ELSE On(t)]
        /\ screen' = IF Watching(t) THEN [screen EXCEPT ![t].text = [round |-> r, size |-> "blank"]] ELSE screen
        /\ UNCHANGED <<sessions, history>>
  BY DEF Tools
<1>2. ChatTypeOK /\ TurnFits(t) /\ turn[t] \in Turn
  BY DEF ChatInv, ChatTypeOK
<1>3. r \in 1..ChatRounds /\ Cleared(turn[t].text, r) = [round |-> r, size |-> "blank"]
  BY <1>1, <1>2, ChatBounds DEF Turn, Cleared
<1> HIDE DEF r
<1> DEFINE new == [i \in 1..n |-> r]
           steps == IF Watching(t) THEN turn[t].steps \o new ELSE turn[t].steps
           notes == IF turn[t].text.size = "blank" THEN turn[t].notes
                    ELSE turn[t].notes \union {<<NoteAt(turn[t].steps, n), r>>}
           at    == IF fails THEN "failing" ELSE On(t)
           blank == [round |-> r, size |-> "blank"]
<1>4. turn'[t] = [turn[t] EXCEPT !.text = blank, !.round = r, !.notes = notes, !.steps = steps, !.at = at]
  BY <1>1, <1>2, <1>3 DEF ChatTypeOK, Turn
<1>5. /\ new \in Seq(1..ChatRounds) /\ Len(new) = n /\ \A i \in 1..n : new[i] = r
      /\ turn[t].steps \in Seq(1..ChatRounds)
  <2>1. new \in [1..n -> 1..ChatRounds] /\ n \in Nat
    BY <1>3
  <2>2. new \in Seq(1..ChatRounds)
    BY <2>1, SeqDef
  <2>3. Len(new) = n
    BY <2>1, <2>2, LenProperties
  <2>4. QED
    BY <1>2, <2>2, <2>3 DEF Turn
<1>6. /\ Len(turn[t].steps) \in Nat /\ DOMAIN turn[t].steps = 1..Len(turn[t].steps)
      /\ steps \in Seq(1..ChatRounds)
      /\ Watching(t) => /\ DOMAIN steps = 1..(Len(turn[t].steps) + n)
                        /\ steps[Len(turn[t].steps) + 1] = r
      /\ \A i \in DOMAIN turn[t].steps : steps[i] = turn[t].steps[i]
  <2>1. /\ turn[t].steps \o new \in Seq(1..ChatRounds)
        /\ Len(turn[t].steps \o new) = Len(turn[t].steps) + n
        /\ \A i \in 1..(Len(turn[t].steps) + n) : (turn[t].steps \o new)[i] =
             IF i <= Len(turn[t].steps) THEN turn[t].steps[i] ELSE new[i - Len(turn[t].steps)]
    <3> HIDE DEF new
    <3> QED
      BY <1>5, ConcatProperties
  <2>2. Len(turn[t].steps) \in Nat /\ DOMAIN turn[t].steps = 1..Len(turn[t].steps)
    BY <1>5, LenProperties
  <2>3. DOMAIN (turn[t].steps \o new) = 1..(Len(turn[t].steps) + n)
    BY <2>1, LenProperties
  <2>4. /\ (turn[t].steps \o new)[Len(turn[t].steps) + 1] = r
        /\ \A i \in DOMAIN turn[t].steps : (turn[t].steps \o new)[i] = turn[t].steps[i]
    <3> HIDE DEF new
    <3> QED
      BY <1>5, <2>1, <2>2
  <2> DEFINE joined == turn[t].steps \o new
  <2> HIDE DEF joined, new
  <2>5. steps = IF Watching(t) THEN joined ELSE turn[t].steps
    BY DEF joined
  <2> HIDE DEF steps
  <2>6. QED
    BY <1>5, <2>1, <2>2, <2>3, <2>4, <2>5 DEF joined
<1> HIDE DEF new, steps
<1>7. notes \in SUBSET (Nat \X (1..ChatRounds)) /\ \A m \in notes : m \in turn[t].notes \/ m = <<Len(turn[t].steps) + 1, r>>
  BY <1>2, <1>3, <1>6 DEF Turn, NoteAt
<1> HIDE DEF notes
<1>8. blank \in Text /\ at \in {"failing", "writing", "closing"} /\ (at = "closing" => ~Watching(t)) /\ (~Watching(t) => at = "closing")
  BY <1>1, <1>3 DEF Text, Sizes, On
<1> HIDE DEF at, blank
<1>9. /\ turn'[t].text = blank /\ turn'[t].round = r /\ turn'[t].notes = notes /\ turn'[t].steps = steps
      /\ turn'[t].at = at /\ turn'[t].session = turn[t].session /\ turn'[t].saved = turn[t].saved
  BY <1>2, <1>4 DEF Turn
<1>10. ChatTypeOK'
  <2>1. turn'[t] \in Turn
    <3>1. r \in 0..ChatRounds /\ at \in ChatStages
      BY <1>3, <1>8, ChatBounds DEF ChatStages
    <3>2. steps \in Seq(1..ChatRounds) /\ notes \in SUBSET (Nat \X (1..ChatRounds)) /\ blank \in Text
      BY <1>6, <1>7, <1>8
    <3>3. QED
      BY <1>2, <1>4, <3>1, <3>2, Zenon DEF Turn
  <2>2. turn' \in [Turns -> Turn]
    BY <1>1, <1>2, <2>1 DEF ChatTypeOK
  <2>3. screen' \in [Turns -> [watching: BOOLEAN, text: Text]]
    BY <1>1, <1>2, <1>8, ScreenStays DEF ChatTypeOK, blank
  <2>4. chatCount' \in [ChatEvents -> 0..ChatTotal]
    BY <1>1, <1>2, CountStays DEF ChatTypeOK, ChatEvents, Quietly
  <2>5. QED
    BY <1>1, <1>2, <2>2, <2>3, <2>4 DEF ChatTypeOK
<1>11. Others(t) /\ NoAnswerAdded
  BY <1>1, <1>2 DEF ChatTypeOK, Others, NoAnswerAdded
<1>12. OwnTurn(t)
  <2>1. Watching(t)' = Watching(t) /\ (Watching(t) => screen'[t].text = blank)
    BY <1>1, <1>2 DEF ChatTypeOK, Watching, blank
  <2>2. \A m \in turn[t].notes : m[1] \in DOMAIN turn[t].steps /\ turn[t].steps[m[1]] = m[2]
    BY <1>1, <1>2 DEF ChatInv, SavedIsShown, NotesFitTheirSteps, TurnFits
  <2>3. \A m \in notes : m[1] \in DOMAIN steps => steps[m[1]] = m[2]
    <3>1. CASE Watching(t)
      BY <1>6, <1>7, <2>2, <3>1
    <3>2. CASE ~Watching(t)
      BY <1>6, <1>7, <2>2, <3>2 DEF steps
    <3>3. QED
      BY <3>1, <3>2
  <2>4. at = "writing" => \A m \in notes : m[1] \in DOMAIN steps
    BY <1>1, <1>6, <1>7, <1>8, <2>2
  <2>5. QED
    BY <1>1, <1>2, <1>8, <1>9, <2>1, <2>3, <2>4 DEF OwnTurn, TurnFits, TurnSettled
<1>13. QED
  BY <1>10, <1>11, <1>12, TurnStep

LEMMA LeftAtEnd ==
  ASSUME NEW x, x.session \in Sessions
  PROVE  /\ Left(x, "ended") \in Turn /\ Left(x, "ended").at = "ended"
         /\ Left(x, "ended").notes = {} /\ Left(x, "ended").session = x.session
<1>1. Blank \in Text /\ <<>> \in Seq(1..ChatRounds) /\ 0 \in 0..ChatRounds /\ "ended" \in ChatStages
  BY ChatBounds DEF Blank, Text, Sizes, ChatStages
<1>2. Left(x, "ended") \in Turn
  BY <1>1 DEF Left, NoTurn, Turn
<1>3. QED
  BY <1>2 DEF Left, NoTurn

(* However a turn is left, with its answer saved or not.                   *)
LEMMA LeftFits ==
  ASSUME ChatInv, NEW t \in Turns, NEW x \in Turn, NEW at \in {"ended", "closing", "failing"},
         turn[t].at \in {"writing", "failing", "closing"},
         at # "ended" => turn[t].at # "closing",
         x.session = turn[t].session, x.text = turn[t].text, x.notes = turn[t].notes, x.steps = turn[t].steps,
         turn[t].saved => x.saved,
         turn' = [turn EXCEPT ![t] = Left(x, at)], screen' = screen
  PROVE  /\ turn' \in [Turns -> Turn] /\ Others(t) /\ OwnTurn(t)
         /\ turn'[t].at = at /\ (at # "ended" => turn'[t].saved = x.saved)
<1>1. turn \in [Turns -> Turn] /\ turn'[t] = Left(x, at) /\ TurnFits(t)
  BY DEF ChatInv, ChatTypeOK
<1>2. \A n \in turn[t].notes : n[1] \in DOMAIN turn[t].steps => turn[t].steps[n[1]] = n[2]
  BY DEF ChatInv, SavedIsShown, NotesFitTheirSteps
<1>3. x.session \in Sessions
  BY <1>1 DEF TurnFits
<1>4. CASE at = "ended"
  <2>2. /\ turn'[t].at = "ended" /\ turn'[t].notes = {} /\ turn'[t].session = x.session
        /\ turn'[t] \in Turn
    BY <1>1, <1>3, <1>4, LeftAtEnd
  <2>4. OwnTurn(t)
    BY <1>3, <2>2 DEF OwnTurn, TurnFits, TurnSettled, Watching
  <2>5. QED
    BY <1>1, <1>4, <2>2, <2>4 DEF Others
<1>5. CASE at # "ended"
  <2>1. turn'[t] = [x EXCEPT !.at = at]
    BY <1>1, <1>5 DEF Left
  <2>2. /\ turn'[t].at = at /\ turn'[t].session = x.session /\ turn'[t].text = x.text
        /\ turn'[t].notes = x.notes /\ turn'[t].steps = x.steps /\ turn'[t].saved = x.saved
    BY <2>1 DEF Turn
  <2>3. turn'[t] \in Turn
    BY <2>1 DEF Turn, ChatStages
  <2>4. OwnTurn(t)
    BY <1>1, <1>2, <1>3, <1>5, <2>2 DEF OwnTurn, TurnFits, TurnSettled, Watching
  <2>5. QED
    BY <1>1, <2>2, <2>3, <2>4 DEF Others
<1>6. QED
  BY <1>4, <1>5

LEMMA PersistKeeps ==
  ASSUME ChatInv, NEW t \in Turns, NEW at \in {"ended", "closing", "failing"}, Persist(t, at),
         turn[t].at \in {"writing", "failing", "closing"},
         at # "ended" => turn[t].at # "closing",
         UNCHANGED <<sessions, screen>>, chatCount' \in [ChatEvents -> 0..ChatTotal]
  PROVE  ChatInv'
<1> DEFINE x == WithSaved(t)
<1>1. ChatTypeOK /\ turn[t] \in Turn /\ TurnFits(t)
  BY DEF ChatInv, ChatTypeOK
<1>2. /\ x.session = turn[t].session /\ x.text = turn[t].text /\ x.notes = turn[t].notes /\ x.steps = turn[t].steps
      /\ x.saved = (turn[t].saved \/ Saves(t)) /\ x \in Turn
  <2>1. turn[t].saved \in BOOLEAN /\ (turn[t].saved \/ Saves(t)) \in BOOLEAN
    BY <1>1 DEF Turn, Saves
  <2>2. QED
    BY <1>1, <2>1 DEF Turn, WithSaved
<1>3. turn' = [turn EXCEPT ![t] = Left(x, at)]
  BY DEF Persist
<1> HIDE DEF x
<1>4. /\ turn' \in [Turns -> Turn] /\ Others(t) /\ OwnTurn(t)
      /\ turn'[t].at = at /\ (at # "ended" => turn'[t].saved = x.saved)
  BY <1>2, <1>3, LeftFits
<1>5. CASE Saves(t)
  <2>1. history' = [history EXCEPT ![turn[t].session] = Append(@, Said(t, turn[t].text))]
    BY <1>5 DEF Persist
  <2>2. turn[t].session \in Sessions /\ turn[t].text \in Text /\ Said(t, turn[t].text) \in Message
    BY <1>1 DEF TurnFits, Turn, Said, Message
  <2>3. ChatTypeOK'
    <3>1. history' \in [Sessions -> Seq(Message)]
      BY <1>1, <2>1, <2>2, Appended DEF ChatTypeOK
    <3>2. QED
      BY <1>1, <1>4, <3>1 DEF ChatTypeOK
  <2>4. OneAnswer(t, turn[t].text)
    <3>1. ~TurnSettled(t) /\ TurnSettled(t)'
      BY <1>2, <1>4, <1>5 DEF Saves, TurnSettled
    <3>2. Watching(t)' => screen'[t].text = turn[t].text
      BY <1>1 DEF TurnFits, Watching
    <3>3. QED
      BY <2>1, <2>2, <3>1, <3>2 DEF OneAnswer
  <2>5. QED
    BY <1>4, <2>2, <2>3, <2>4, TurnStep
<1>6. CASE ~Saves(t)
  <2>1. history' = history
    BY <1>6 DEF Persist
  <2>2. ChatTypeOK' /\ NoAnswerAdded
    BY <1>1, <1>4, <2>1 DEF ChatTypeOK, NoAnswerAdded
  <2>3. QED
    BY <1>4, <2>2, TurnStep
<1>7. QED
  BY <1>5, <1>6

LEMMA EndingsKeep ==
  ASSUME ChatInv, NEW t \in Turns, Finish(t) \/ Fail(t) \/ Rescue(t) \/ RescueFails(t) \/ Close(t)
  PROVE  ChatInv'
<1>1. ChatTypeOK /\ turn[t] \in Turn
  BY DEF ChatInv, ChatTypeOK
<1>2. chatCount' = chatCount => chatCount' \in [ChatEvents -> 0..ChatTotal]
  BY <1>1 DEF ChatTypeOK
<1>3. CASE Finish(t) \/ Rescue(t)
  <2> DEFINE at == IF Watching(t) THEN "ended" ELSE "closing"
  <2>1. /\ turn[t].at \in {"writing", "failing"} /\ Persist(t, at) /\ at \in {"ended", "closing"}
        /\ UNCHANGED <<sessions, screen>> /\ chatCount' = chatCount
    BY <1>3 DEF Finish, Rescue, Quietly
  <2> HIDE DEF at
  <2>2. QED
    BY <1>2, <2>1, PersistKeeps
<1>4. CASE Fail(t)
  <2>1. chatCount' \in [ChatEvents -> 0..ChatTotal]
    BY <1>1, <1>4, CountStays DEF Fail, ChatEvents
  <2>2. CASE Persist(t, "failing")
    BY <1>4, <2>1, <2>2, PersistKeeps DEF Fail
  <2>3. CASE turn' = [turn EXCEPT ![t].at = "failing"] /\ history' = history
    <3>1. turn' = [turn EXCEPT ![t] = Left(turn[t], "failing")]
      BY <1>1, <2>3 DEF Left
    <3>2. turn' \in [Turns -> Turn] /\ Others(t) /\ OwnTurn(t)
      BY <1>1, <1>4, <3>1, LeftFits DEF Fail
    <3>3. ChatTypeOK' /\ NoAnswerAdded
      BY <1>1, <1>4, <2>1, <2>3, <3>2 DEF Fail, ChatTypeOK, NoAnswerAdded
    <3>4. QED
      BY <3>2, <3>3, TurnStep
  <2>4. QED
    BY <1>4, <2>2, <2>3 DEF Fail
<1>5. CASE Close(t)
  <2>1. CASE Persist(t, "ended")
    BY <1>2, <1>5, <2>1, PersistKeeps DEF Close, Quietly
  <2>2. CASE turn' = [turn EXCEPT ![t] = Left(@, "ended")] /\ history' = history
    <3>1. turn' = [turn EXCEPT ![t] = Left(turn[t], "ended")]
      BY <2>2
    <3>2. turn' \in [Turns -> Turn] /\ Others(t) /\ OwnTurn(t)
      BY <1>1, <1>5, <3>1, LeftFits DEF Close
    <3>3. ChatTypeOK' /\ NoAnswerAdded
      BY <1>1, <1>2, <1>5, <2>2, <3>2 DEF Close, Quietly, ChatTypeOK, NoAnswerAdded
    <3>4. QED
      BY <3>2, <3>3, TurnStep
  <2>3. QED
    BY <1>5, <2>1, <2>2 DEF Close
<1>6. CASE RescueFails(t)
  <2> DEFINE at == IF turn[t].at = "failing" THEN "closing" ELSE "ended"
  <2>1. /\ at \in {"ended", "closing", "failing"} /\ turn[t].at \in {"writing", "failing", "closing"}
        /\ (at # "ended" => turn[t].at # "closing")
        /\ UNCHANGED <<sessions, history, screen>> /\ turn' = [turn EXCEPT ![t] = Left(turn[t], at)]
    BY <1>6 DEF RescueFails
  <2>2. chatCount' \in [ChatEvents -> 0..ChatTotal]
    BY <1>1, <1>6, CountStays DEF RescueFails, ChatEvents
  <2> HIDE DEF at
  <2>3. turn' \in [Turns -> Turn] /\ Others(t) /\ OwnTurn(t)
    BY <1>1, <2>1, LeftFits
  <2>4. ChatTypeOK' /\ NoAnswerAdded
    BY <1>1, <2>1, <2>2, <2>3 DEF ChatTypeOK, NoAnswerAdded
  <2>5. QED
    BY <2>1, <2>3, <2>4, TurnStep
<1>7. QED
  BY <1>3, <1>4, <1>5, <1>6

LEMMA StopReadingKeeps == ASSUME ChatInv, NEW t \in Turns, StopReading(t) PROVE ChatInv'
<1>1. ChatTypeOK /\ TurnFits(t) /\ turn[t].at \in {"asked", "writing", "failing"} /\ Watching(t)
  BY DEF StopReading, ChatInv
<1>2. /\ \A n \in turn[t].notes : n[1] \in DOMAIN turn[t].steps => turn[t].steps[n[1]] = n[2]
      /\ screen'[t] = Unwatched
  BY <1>1 DEF StopReading, ChatTypeOK, ChatInv, SavedIsShown, NotesFitTheirSteps
<1>3. ChatTypeOK'
  <2>1. chatCount' \in [ChatEvents -> 0..ChatTotal]
    BY <1>1, CountStays DEF StopReading, ChatEvents
  <2>2. Unwatched \in [watching: BOOLEAN, text: Text]
    BY ChatBounds DEF Unwatched, Blank, Text, Sizes
  <2>3. QED
    BY <1>1, <2>1, <2>2 DEF StopReading, ChatTypeOK
<1>4. Others(t) /\ NoAnswerAdded
  BY <1>1 DEF StopReading, ChatTypeOK, Others, NoAnswerAdded
<1>5. OwnTurn(t)
  BY <1>1, <1>2 DEF StopReading, OwnTurn, TurnFits, TurnSettled, Watching, Unwatched
<1>6. QED
  BY <1>3, <1>4, <1>5, TurnStep

LEMMA SessionsKeep == ASSUME ChatInv, TruncateSession \/ DeleteSession PROVE ChatInv'
<1>1. ChatTypeOK /\ UNCHANGED <<turn, screen>>
  BY DEF ChatInv, TruncateSession, DeleteSession
<1>2. history' \in [Sessions -> Seq(Message)] /\ NoAnswerAdded
  <2>1. CASE TruncateSession
    <3>1. PICK s \in sessions : \E i \in DOMAIN history[s] :
            history' = [history EXCEPT ![s] = SubSeq(@, 1, i - 1)]
      BY <2>1 DEF TruncateSession
    <3>2. PICK i \in DOMAIN history[s] : history' = [history EXCEPT ![s] = SubSeq(history[s], 1, i - 1)]
      BY <3>1
    <3> DEFINE left == SubSeq(history[s], 1, i - 1)
    <3>3. left \in Seq(Message) /\ \A k \in DOMAIN left : k \in DOMAIN history[s] /\ left[k] = history[s][k]
      BY <1>1, Cut DEF ChatTypeOK
    <3> HIDE DEF left
    <3>4. history' = [history EXCEPT ![s] = left]
      BY <3>2 DEF left
    <3>5. QED
      BY <1>1, <3>3, <3>4 DEF ChatTypeOK, NoAnswerAdded
  <2>2. CASE DeleteSession
    <3>1. <<>> \in Seq(Message) /\ DOMAIN <<>> = {}
      OBVIOUS
    <3>2. PICK s \in sessions : history' = [history EXCEPT ![s] = <<>>]
      BY <2>2 DEF DeleteSession
    <3>3. QED
      BY <1>1, <3>1, <3>2 DEF ChatTypeOK, NoAnswerAdded
  <2>3. QED
    BY <2>1, <2>2
<1>3. ChatTypeOK'
  <2>1. chatCount' \in [ChatEvents -> 0..ChatTotal]
    BY <1>1, CountStays DEF TruncateSession, DeleteSession, ChatEvents
  <2>2. sessions' \subseteq Sessions
    BY <1>1 DEF TruncateSession, DeleteSession, ChatTypeOK
  <2>3. QED
    BY <1>1, <1>2, <2>1, <2>2 DEF ChatTypeOK
<1>4. Keeps /\ (\A t \in Turns : TurnFits(t)') /\ NotesFitTheirSteps'
  BY <1>1 DEF ChatInv, Keeps, TurnSettled, Watching, TurnFits, SavedIsShown, NotesFitTheirSteps
<1>5. QED
  BY <1>2, <1>3, <1>4, WithoutAnswer DEF ChatInv, SavedIsShown

LEMMA CrashChatKeeps == ASSUME ChatInv, CrashChat PROVE ChatInv'
<1>1. ChatTypeOK /\ history' = history /\ sessions' = sessions /\ screen' = [t \in Turns |-> Unwatched]
      /\ turn' = [t \in Turns |-> IF turn[t].at = "idle" THEN turn[t] ELSE Left(turn[t], "ended")]
  BY DEF ChatInv, CrashChat
<1>2. ASSUME NEW t \in Turns
      PROVE  /\ turn'[t] \in Turn /\ TurnFits(t)' /\ turn'[t].notes = {} /\ ~Watching(t)'
             /\ TurnSettled(t) => TurnSettled(t)'
  <2>1. TurnFits(t) /\ turn[t] \in Turn /\ screen'[t] = Unwatched
    BY <1>1 DEF ChatInv, ChatTypeOK
  <2>2. CASE turn[t].at = "idle"
    BY <1>1, <2>1, <2>2 DEF TurnFits, TurnSettled, Watching, NoTurn, Unwatched
  <2>3. CASE turn[t].at # "idle"
    <3>1. turn'[t] = Left(turn[t], "ended") /\ turn[t].session \in Sessions
      BY <1>1, <2>1, <2>3 DEF TurnFits
    <3>2. /\ turn'[t] \in Turn /\ turn'[t].at = "ended" /\ turn'[t].notes = {}
          /\ turn'[t].session \in Sessions
      BY <3>1, LeftAtEnd
    <3>3. QED
      BY <2>1, <3>2 DEF TurnFits, TurnSettled, Watching, Unwatched
  <2>4. QED
    BY <2>2, <2>3
<1>3. ChatTypeOK'
  <2>1. chatCount' \in [ChatEvents -> 0..ChatTotal]
    BY <1>1, CountStays DEF CrashChat, ChatEvents
  <2>2. turn' \in [Turns -> Turn]
    BY <1>1, <1>2
  <2>3. Unwatched \in [watching: BOOLEAN, text: Text]
    BY ChatBounds DEF Unwatched, Blank, Text, Sizes
  <2>4. QED
    BY <1>1, <2>1, <2>2, <2>3 DEF ChatTypeOK
<1>4. NoAnswerAdded /\ Keeps /\ NotesFitTheirSteps'
  BY <1>1, <1>2 DEF NoAnswerAdded, Keeps, NotesFitTheirSteps
<1>5. QED
  BY <1>2, <1>3, <1>4, WithoutAnswer DEF ChatInv, SavedIsShown

-----------------------------------------------------------------------------
LEMMA ChatInvNext == ChatInv /\ [ChatNext]_chatVars => ChatInv'
<1> SUFFICES ASSUME ChatInv, [ChatNext]_chatVars PROVE ChatInv'
  OBVIOUS
<1>1. CASE UNCHANGED chatVars
  <2>1. ChatTypeOK' /\ \A t \in Turns : TurnFits(t)'
    BY <1>1 DEF chatVars, ChatInv, ChatTypeOK, TurnFits, Watching
  <2>2. NoAnswerAdded /\ Keeps /\ NotesFitTheirSteps'
    BY <1>1 DEF chatVars, ChatInv, SavedIsShown, NotesFitTheirSteps, NoAnswerAdded, Keeps, TurnSettled, Watching
  <2>3. QED
    BY <2>1, <2>2, WithoutAnswer DEF ChatInv, SavedIsShown
<1>2. CASE ChatNext
  BY <1>2, AskNewKeeps, AskAgainKeeps, AnswerWholeKeeps, OpenStreamKeeps, TokenKeeps, ToolsKeeps, EndingsKeep,
     StopReadingKeeps, SessionsKeep, CrashChatKeeps DEF ChatNext, ChatSteps
<1>3. QED
  BY <1>1, <1>2

(* However a streamed turn is left - finished, failed, stopped, cut off by *)
(* a crash, its session truncated or deleted meanwhile - it saves one      *)
(* answer at most, and that is what its reader was shown; and notes stand  *)
(* at steps of the round that they introduce (the chat routes of main.py). *)
THEOREM SavedAnswersAreShown == ChatSpec => [](ChatTypeOK /\ SavedIsShown)
<1>1. ChatInv => ChatTypeOK /\ SavedIsShown
  BY DEF ChatInv
<1>2. QED
  BY <1>1, ChatInvInit, ChatInvNext, PTL DEF ChatSpec

-----------------------------------------------------------------------------
(***************************************************************************)
(* Services.                                                               *)
(***************************************************************************)
LEMMA OnePartRuns ==
  ASSUME [ServicesNext]_allVars
  PROVE  /\ [Next]_vars /\ [LawNext]_lawVars /\ [IndexNext]_indexVars /\ [GenNext]_genVars
         /\ [EvidenceNext]_evidenceVars /\ [ChatNext]_chatVars /\ [SetupNext]_setupVars
         /\ [PacerNext]_pacerVars /\ [RunNext]_runVars
<1>1. CASE Working
  BY <1>1 DEF Working, Rest
<1>2. CASE Lawmaking
  BY <1>2 DEF Lawmaking, Rest
<1>3. CASE Indexing
  BY <1>3 DEF Indexing, Rest
<1>4. CASE Generating
  BY <1>4 DEF Generating, Rest
<1>5. CASE Showing
  BY <1>5 DEF Showing, Rest
<1>6. CASE Chatting
  BY <1>6 DEF Chatting, Rest
<1>7. CASE Setting
  BY <1>7 DEF Setting, Rest
<1>8. CASE Fetching
  BY <1>8 DEF Fetching, Rest
<1>9. CASE Bringing
  BY <1>9 DEF Bringing, Rest
<1>10. CASE UNCHANGED allVars
  BY <1>10 DEF allVars
<1>11. QED
  BY <1>1, <1>2, <1>3, <1>4, <1>5, <1>6, <1>7, <1>8, <1>9, <1>10 DEF ServicesNext

(* The application implements each of its parts: a step of one is a step   *)
(* that the others sit out.                                                *)
THEOREM PartsRunAsAlone ==
  ServicesSpec => /\ Spec /\ LawSpec /\ RunSpec /\ IndexSpec /\ GenSpec /\ EvidenceSpec /\ ChatSpec /\ SetupSpec
                  /\ PacerInit /\ [][PacerNext]_pacerVars
<1>1. ServicesInit => /\ Init /\ LawInit /\ RunInit /\ IndexInit /\ GenInit /\ EvidenceInit /\ ChatInit /\ SetupInit
                      /\ PacerInit
  BY DEF ServicesInit
<1>2. QED
  BY <1>1, OnePartRuns, PTL
     DEF ServicesSpec, Spec, LawSpec, RunSpec, IndexSpec, GenSpec, EvidenceSpec, ChatSpec, SetupSpec

(* One part is chosen and runs; every part keeps its type meanwhile.       *)
THEOREM PartsAreTyped == ServicesSpec => []PartsTypeOK
<1>1. ServicesInit => part \in PartNames
  BY DEF ServicesInit
<1>2. part \in PartNames /\ [ServicesNext]_allVars => (part \in PartNames)'
  <2> SUFFICES ASSUME part \in PartNames, [ServicesNext]_allVars PROVE part' = part
    OBVIOUS
  <2>1. CASE UNCHANGED allVars
    BY <2>1 DEF allVars
  <2>2. CASE ServicesNext
    BY <2>2 DEF ServicesNext, Working, Lawmaking, Indexing, Generating, Showing, Chatting, Setting, Fetching,
                Bringing, Rest
  <2>3. QED
    BY <2>1, <2>2
<1>3. ServicesSpec => [](part \in PartNames)
  BY <1>1, <1>2, PTL DEF ServicesSpec
<1>4. /\ part \in PartNames /\ TypeOK /\ LawTypeOK /\ IndexTypeOK /\ GenTypeOK /\ EvidenceTypeOK
      /\ ChatTypeOK /\ SetupTypeOK /\ PacerTypeOK /\ RunTypeOK
      => PartsTypeOK
  BY DEF PartsTypeOK
<1>5. QED
  BY <1>3, <1>4, PartsRunAsAlone, TypeCorrect, LawTypes, IndexTypes, GenTypes, EvidenceTypes, SavedAnswersAreShown,
     SetupTypes, PacerKeepsItsTypes, RunTypes, PTL

(* What a maintenance job shows of its items is done, a job that succeeded *)
(* has done them all, and a cancelled one takes no other.                  *)
THEOREM JobsTellTheTruth ==
  ServicesSpec => []CompletedIsDone /\ []SuccessIsComplete /\ CancelledTakesNoOther
  BY PartsRunAsAlone, CompletedItemsAreDone, SuccessfulJobsAreComplete, CancelsAreHonoured, PTL

(* The history of the laws is on file, a text stays in force, a sync       *)
(* delists what is not listed, the rows of runs say how these ended, and   *)
(* what was accepted is indexed, on its way, or called failed.             *)
THEOREM LawsAreKeptInAll == ServicesSpec => LawsAreKept
  BY PartsRunAsAlone, RowsSayHowTheirRunsEnded, AcceptedFilesAreAccountedFor, HistoryIsKept, TextsStayInForce,
     DelistingsAreOfTheUnlisted, PTL DEF LawsAreKept

(* The ledger and the flags vouch for what is stored, the tables that move *)
(* lose no row, and a circular's status follows from its relationships.    *)
THEOREM StoresAreSound ==
  ServicesSpec => []StoreIsVouchedFor /\ []RowsAreKept /\ []StatusFollowsEdges
  BY PartsRunAsAlone, TheStoreIsVouchedFor, NoRowIsLost, StatusesFollow, PTL

(* A chat saves what its reader was shown, and reads on while there is     *)
(* something new.                                                          *)
THEOREM ChatsShowWhatTheySave == ServicesSpec => []SavedIsShown /\ ReadingGoesOn
<1>1. ChatTypeOK /\ SavedIsShown => SavedIsShown
  OBVIOUS
<1>2. QED
  BY <1>1, PartsRunAsAlone, SavedAnswersAreShown, RoundsGoOnWhileTheyHandOver, PTL

(* The requests of a job keep their distance.                              *)
THEOREM RequestsKeepTheirDistanceInAll == ServicesSpec => RequestsKeepTheirDistance
  BY PartsRunAsAlone, RequestsWait, PTL

=============================================================================
