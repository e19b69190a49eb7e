---------------------------- MODULE SemanticIndex ----------------------------
(***************************************************************************)
(* The semantic index: the chunks in the vector store, the ledger that     *)
(* vouches for them, the flags that say what need not be indexed again,    *)
(* and the snapshot of the store that inventory searches share.            *)
(* scraper/circulars.py, scraper/laws.py, inventory/ledger.py and index.py,*)
(* the reindex and inventory commands.  The store, the flags and the       *)
(* ledger are written one after another, by threads of the web process and *)
(* by commands.                                                            *)
(***************************************************************************)
EXTENDS Naturals, FiniteSets

CONSTANTS
  Bodies,    \* circulars
  Annexes,   \* their attachments
  Laws,      \* laws, of which only the version in force is indexed
  Texts,     \* texts a source may have; of a law, its versions
  NoText,    \* no text, no chunks
  Indexers,  \* threads that index
  SameSize,  \* the texts make the same number of chunks
  IndexBound, \* how often each kind of event may happen
  IndexTotal  \* how many there may be

ASSUME IndexSources ==
  /\ Bodies \intersect Annexes = {} /\ (Bodies \union Annexes) \intersect Laws = {}
  /\ Texts # {} /\ NoText \notin Texts \union Bodies \union Annexes \union Laws

IndexEvents == {"change", "fail", "kill", "audit", "search", "rebuild"}
Sources     == Bodies \union Annexes \union Laws

VARIABLES
  text,     \* durable: each source's text, of a law the searchable one
  chunks,   \* the store: the text whose chunks it holds for a source
  ledger,   \* durable: the ledger's row of a source's text
  flag,     \* durable: is_vectorized, as the text that it is set for
  indexer,  \* where each thread is
  audit,    \* what a reconciliation has read
  rebuild,  \* what `reindex` has still to add
  cache,    \* memory: the shared snapshot and the ledger it stands for
  query,    \* the ledger an inventory search has read
  torn,     \* sources whose indexing was cut off, overtaken or failed twice, and not redone
  unindexed, \* history: sources whose present text was put in without being indexed since
  indexCount

durables  == <<text, chunks, ledger, flag>>
indexVars == <<durables, indexer, audit, rebuild, cache, query, torn, unindexed, indexCount>>

-----------------------------------------------------------------------------
RowStates == {"none", "indexed", "stale", "error"}
NoRows   == [t \in Texts |-> "none"]
NoLedger == [x \in Sources |-> NoRows]
NoChunks == [x \in Sources |-> NoText]
NotIndexing == [at |-> "off", source |-> NoText, text |-> NoText, failed |-> FALSE]
NoAudit  == [on |-> FALSE, rows |-> NoLedger, clean |-> {}]
NoCache  == [on |-> FALSE, key |-> NoLedger, view |-> NoChunks]
NoQuery  == [on |-> FALSE, key |-> NoLedger]

MaybeText == Texts \union {NoText}
Ledgers   == [Sources -> [Texts -> RowStates]]
IndexerAt == [at: {"off", "reread", "swap", "flag", "ledger", "law"}, source: Sources \union {NoText},
              text: MaybeText, failed: BOOLEAN]

IndexTypeOK ==
  /\ text \in [Sources -> MaybeText] /\ chunks \in [Sources -> MaybeText]
  /\ flag \in [Sources -> MaybeText] /\ ledger \in Ledgers
  /\ indexer \in [Indexers -> IndexerAt]
  /\ audit \in [on: BOOLEAN, rows: Ledgers, clean: SUBSET Sources]
  /\ cache \in [on: BOOLEAN, key: Ledgers, view: [Sources -> MaybeText]]
  /\ query \in [on: BOOLEAN, key: Ledgers]
  /\ rebuild \subseteq Sources \union {NoText} /\ torn \subseteq Sources /\ unindexed \subseteq Sources
  /\ indexCount \in [IndexEvents \union {"any"} -> Nat]

IndexInit ==
  /\ text = [x \in Sources |-> CHOOSE t \in Texts : TRUE]
  /\ chunks = text /\ flag = [x \in Sources |-> IF x \in Bodies THEN NoText ELSE text[x]]
  /\ ledger = [x \in Sources |-> [t \in Texts |-> IF t = text[x] THEN "indexed" ELSE "none"]]
  /\ indexer = [w \in Indexers |-> NotIndexing] /\ audit = NoAudit /\ rebuild = {}
  /\ cache = NoCache /\ query = NoQuery /\ torn = {} /\ unindexed = {}
  /\ indexCount = [k \in IndexEvents \union {"any"} |-> 0]

IndexHappens(k) ==
  /\ indexCount[k] < IndexBound[k] /\ indexCount["any"] < IndexTotal
  /\ indexCount' = [indexCount EXCEPT ![k] = @ + 1, !["any"] = @ + 1]

UnderWay(x) == \E w \in Indexers : indexer[w].source = x
StoreIsUp   == rebuild = {}   \* `reindex` runs only while no other process has the store open

\* An audit that is on has read what is now being changed.
Overtakes(x) ==
  /\ torn' = IF audit.on THEN torn \union {x} ELSE torn
  /\ audit' = [audit EXCEPT !.clean = @ \ {x}]

-----------------------------------------------------------------------------
(* A thread indexes a source: after its text has changed (which clears an  *)
(* attachment's flag with it), or again as it is.  Circulars and their     *)
(* attachments are indexed by one thread at a time; a law may be by two,   *)
(* and is left without text when it is withdrawn.                          *)
BeginIndexing(w, x, t) ==
  /\ indexer[w].at = "off" /\ StoreIsUp
  /\ x \in Laws \/ ~UnderWay(x)
  /\ text' = [text EXCEPT ![x] = t]
  /\ flag' = IF x \in Annexes /\ t # text[x] THEN [flag EXCEPT ![x] = NoText] ELSE flag
  /\ indexer' = [indexer EXCEPT ![w] = [at |-> "swap", source |-> x, text |-> t, failed |-> FALSE]]
  /\ Overtakes(x)
  /\ UNCHANGED <<chunks, ledger, rebuild, cache, query, unindexed>>

IndexChanged == \E w \in Indexers, x \in Sources, t \in MaybeText :
  /\ t \in Texts \/ x \in Laws
  /\ IndexHappens("change") /\ BeginIndexing(w, x, t)

(* What is not marked, and what an audit found stale, is indexed as it is. *)
IndexPending == \E w \in Indexers, x \in Annexes \union Laws :
  /\ text[x] # NoText /\ flag[x] # text[x] /\ ~UnderWay(x)
  /\ BeginIndexing(w, x, text[x]) /\ UNCHANGED indexCount

RepairStale == \E w \in Indexers, x \in Sources :
  /\ text[x] # NoText /\ ledger[x][text[x]] = "stale" /\ ~UnderWay(x)
  /\ BeginIndexing(w, x, text[x]) /\ UNCHANGED indexCount

(* `circulars reextract` reads a text again from the files that are kept: *)
(* the chunks of what has changed go at once, the text is committed when   *)
(* the circular is done, and unless --reindex was given, after which it is *)
(* indexed as it is, that is all.  A circular keeps a text; a file that is *)
(* missing leaves its attachment with none.                                *)
BeginReread == \E w \in Indexers, x \in Bodies \union Annexes, t \in MaybeText :
  /\ indexer[w].at = "off" /\ StoreIsUp /\ ~UnderWay(x) /\ IndexHappens("change")
  /\ t # text[x] /\ (t \in Texts \/ x \in Annexes)
  /\ chunks' = [chunks EXCEPT ![x] = NoText]
  /\ indexer' = [indexer EXCEPT ![w] = [at |-> "reread", source |-> x, text |-> t, failed |-> FALSE]]
  /\ Overtakes(x)
  /\ UNCHANGED <<text, ledger, flag, rebuild, cache, query, unindexed>>

CommitReread == \E w \in Indexers :
  LET x == indexer[w].source IN
  /\ indexer[w].at = "reread"
  /\ text' = [text EXCEPT ![x] = indexer[w].text] /\ unindexed' = unindexed \union {x}
  /\ flag' = [flag EXCEPT ![x] = NoText]
  /\ indexer' = [indexer EXCEPT ![w] = NotIndexing]
  /\ UNCHANGED <<chunks, ledger, audit, rebuild, cache, query, torn, indexCount>>

\* An error on the way rolls the text back, and not the chunks.
AbandonReread == \E w \in Indexers :
  /\ indexer[w].at = "reread" /\ IndexHappens("fail")
  /\ torn' = torn \union {indexer[w].source}
  /\ indexer' = [indexer EXCEPT ![w] = NotIndexing]
  /\ UNCHANGED <<durables, audit, rebuild, cache, query, unindexed>>

(* The refresh of a document downloads its attachments again: the text is  *)
(* put in and the flag cleared, the chunks and the ledger stay as they are.*)
ReloadAnnex == \E x \in Annexes, t \in MaybeText :
  /\ StoreIsUp /\ ~UnderWay(x) /\ IndexHappens("change")
  /\ text' = [text EXCEPT ![x] = t] /\ unindexed' = unindexed \union {x}
  /\ flag' = [flag EXCEPT ![x] = NoText]
  /\ Overtakes(x)
  /\ UNCHANGED <<chunks, ledger, indexer, rebuild, cache, query>>

(* The swap in the store.  It fails before the old chunks are deleted, or  *)
(* between that and the new ones.                                          *)
Next1(x, failed, t) ==
  IF x \in Bodies THEN "ledger" ELSE IF x \in Annexes THEN "flag"
  ELSE IF failed \/ t = NoText THEN "law" ELSE "ledger"

Swap == \E w \in Indexers :
  LET x == indexer[w].source  t == indexer[w].text IN
  /\ indexer[w].at = "swap"
  /\ \/ /\ chunks' = [chunks EXCEPT ![x] = t] /\ UNCHANGED indexCount
        /\ indexer' = [indexer EXCEPT ![w].at = Next1(x, FALSE, t)]
     \/ /\ IndexHappens("fail") /\ chunks' \in {chunks, [chunks EXCEPT ![x] = NoText]}
        /\ indexer' = [indexer EXCEPT ![w].at = Next1(x, TRUE, t), ![w].failed = TRUE]
  /\ UNCHANGED <<text, ledger, flag, audit, rebuild, cache, query, torn, unindexed>>

(* Faulty variant: an attachment is marked as it has been tried.           *)
MarkTried(w) == indexer[w].text
MarkOf(w) == IF indexer[w].failed THEN NoText ELSE indexer[w].text

MarkAnnex == \E w \in Indexers :
  LET x == indexer[w].source IN
  /\ indexer[w].at = "flag"
  /\ flag' = [flag EXCEPT ![x] = MarkOf(w)]
  /\ indexer' = [indexer EXCEPT ![w].at = "ledger"]
  /\ UNCHANGED <<text, chunks, ledger, audit, rebuild, cache, query, torn, unindexed, indexCount>>

(* The row of the ledger: of a circular or an attachment one, overwritten; *)
(* of a law one for each version.  A write that fails is only logged.      *)
(* Faulty variant: a failure is not recorded.                              *)
RecordedIndexed(x, t, row) == IF row = "error" THEN ledger ELSE
  [ledger EXCEPT ![x] = [u \in Texts |-> IF u = t THEN row ELSE IF x \in Laws THEN @[u] ELSE "none"]]
Recorded(x, t, row) == [ledger EXCEPT ![x] = [u \in Texts |->
                          IF u = t THEN row ELSE IF x \in Laws THEN @[u] ELSE "none"]]

\* A source is torn no more once it was indexed again, and no audit looked on.
Settles(x) == IF x \in Laws \/ audit.on THEN torn ELSE torn \ {x}

RecordRow == \E w \in Indexers :
  LET x == indexer[w].source  t == indexer[w].text IN
  /\ indexer[w].at = "ledger"
  /\ \/ /\ ledger' = Recorded(x, t, IF indexer[w].failed THEN "error" ELSE "indexed")
        /\ UNCHANGED indexCount
        /\ torn' = Settles(x)
     \/ /\ IndexHappens("fail") /\ UNCHANGED ledger
        /\ torn' = IF indexer[w].failed THEN torn \union {x} ELSE Settles(x)
  /\ unindexed' = unindexed \ {x}
  /\ indexer' = [indexer EXCEPT ![w] = IF x \in Laws THEN [indexer[w] EXCEPT !.at = "law"] ELSE NotIndexing]
  /\ UNCHANGED <<text, chunks, flag, audit, rebuild, cache, query>>

(* A law's versions are marked in one commit: one of them, none if nothing *)
(* is searchable; after a failure they stay as they are.                   *)
MarkLaw == \E w \in Indexers :
  LET x == indexer[w].source IN
  /\ indexer[w].at = "law"
  /\ flag' = IF indexer[w].failed THEN flag ELSE [flag EXCEPT ![x] = indexer[w].text]
  /\ indexer' = [indexer EXCEPT ![w] = NotIndexing]
  /\ UNCHANGED <<text, chunks, ledger, audit, rebuild, cache, query, torn, unindexed, indexCount>>

(* The process is killed.                                                  *)
KillIndexing ==
  /\ IndexHappens("kill")
  /\ torn' = torn \union {x \in Sources : UnderWay(x)}
             \union (IF rebuild = {} THEN {} ELSE Sources)
  /\ indexer' = [w \in Indexers |-> NotIndexing] /\ audit' = NoAudit /\ rebuild' = {}
  /\ cache' = NoCache /\ query' = NoQuery
  /\ UNCHANGED <<durables, unindexed>>

-----------------------------------------------------------------------------
(* reconcile: what each source's text should chunk to is compared with how *)
(* many chunks the store holds for it.  Rows of what is not a source now   *)
(* are deleted.  A law's chunks bear the version's name, others' only the  *)
(* source's.                                                               *)
SeemsStored(x, t) == chunks[x] = t \/ (SameSize /\ x \notin Laws /\ chunks[x] # NoText)

Audited(x) ==
  [t \in Texts |-> IF t # text[x] THEN "none" ELSE IF SeemsStored(x, t) THEN "indexed" ELSE "stale"]

AuditRead ==
  /\ ~audit.on /\ StoreIsUp /\ IndexHappens("audit")
  /\ audit' = [on |-> TRUE, rows |-> [x \in Sources |-> Audited(x)], clean |-> {x \in Sources : ~UnderWay(x)}]
  /\ torn' = torn \union {x \in Sources : UnderWay(x)}
  /\ UNCHANGED <<durables, indexer, rebuild, cache, query, unindexed>>

(* --repair drops the chunks that no row vouches for.                      *)
AuditWrite == \E purge \in BOOLEAN :
  /\ audit.on
  /\ ledger' = audit.rows /\ audit' = NoAudit /\ torn' = torn \ audit.clean
  /\ unindexed' = unindexed \ audit.clean
  /\ chunks' = IF purge THEN [x \in Sources |-> IF x \in Laws /\ chunks[x] # NoText /\ audit.rows[x][chunks[x]] = "none"
                                                THEN NoText ELSE chunks[x]]
               ELSE chunks
  /\ UNCHANGED <<text, flag, indexer, rebuild, cache, query, indexCount>>

(* reindex empties the store and adds circulars and attachments in         *)
(* batches; flags, laws and the ledger follow when all are in.             *)
ResetStore ==
  /\ StoreIsUp /\ ~audit.on /\ (\A w \in Indexers : indexer[w].at = "off")
  /\ IndexHappens("rebuild")
  /\ chunks' = NoChunks /\ rebuild' = Bodies \union Annexes \union {NoText}
  /\ cache' = NoCache /\ query' = NoQuery
  /\ UNCHANGED <<text, ledger, flag, indexer, audit, torn, unindexed>>

AddBatch == \E x \in rebuild \ {NoText} :
  /\ chunks' = [chunks EXCEPT ![x] = text[x]] /\ rebuild' = rebuild \ {x}
  /\ UNCHANGED <<text, ledger, flag, indexer, audit, cache, query, torn, unindexed, indexCount>>

FinishRebuild ==
  /\ rebuild = {NoText}
  /\ flag' = [x \in Sources |-> IF x \in Bodies THEN NoText ELSE text[x]]
  /\ chunks' = [x \in Sources |-> text[x]]
  /\ ledger' = [x \in Sources |-> [t \in Texts |-> IF t = text[x] THEN "indexed" ELSE "none"]]
  /\ rebuild' = {} /\ torn' = {} /\ unindexed' = {}
  /\ UNCHANGED <<text, indexer, audit, cache, query, indexCount>>

-----------------------------------------------------------------------------
(* An inventory search reads the ledger, works out its terms, and only     *)
(* then takes the snapshot: the shared one if it stands for that ledger,   *)
(* else a new one of what the store holds by now.                          *)
Vouched(rows, x) == {t \in Texts : rows[x][t] = "indexed"}
View(rows) == [x \in Sources |->
  IF x \in Laws THEN IF chunks[x] \in Vouched(rows, x) THEN chunks[x] ELSE NoText
  ELSE IF Vouched(rows, x) # {} THEN chunks[x] ELSE NoText]

StartSearch ==
  /\ ~query.on /\ StoreIsUp /\ IndexHappens("search")
  /\ query' = [on |-> TRUE, key |-> ledger]
  /\ UNCHANGED <<durables, indexer, audit, rebuild, cache, torn, unindexed>>

TakeSnapshot ==
  /\ query.on /\ query' = NoQuery
  /\ cache' = IF cache.on /\ cache.key = query.key THEN cache
              ELSE [on |-> TRUE, key |-> query.key, view |-> View(query.key)]
  /\ UNCHANGED <<durables, indexer, audit, rebuild, torn, unindexed, indexCount>>

IndexNext == IndexChanged \/ IndexPending \/ RepairStale \/ BeginReread \/ CommitReread
               \/ AbandonReread \/ ReloadAnnex \/ Swap \/ MarkAnnex \/ RecordRow \/ MarkLaw \/ KillIndexing
               \/ AuditRead \/ AuditWrite \/ ResetStore \/ AddBatch \/ FinishRebuild
               \/ StartSearch \/ TakeSnapshot

IndexSpec == IndexInit /\ [][IndexNext]_indexVars

-----------------------------------------------------------------------------
(* The ledger vouches for a circular or an attachment only while the store *)
(* holds the chunks of its present text, as far as their number can tell,  *)
(* unless a kill or an audit cut across its indexing, or the store failed  *)
(* it and the ledger too (inventory/ledger.py:140, 190), or its text was   *)
(* put in by a command that does not index it.                             *)
VouchedIsStored == \A x \in Bodies \union Annexes :
  ~UnderWay(x) /\ StoreIsUp /\ x \notin torn \union unindexed /\ Vouched(ledger, x) # {}
    => SeemsStored(x, text[x])

(* Of a circular whose text was read again and not indexed, the store has  *)
(* nothing rather than what it said before (circulars.py:1230).            *)
RereadIsGone == \A x \in Bodies \intersect unindexed :
  ~UnderWay(x) /\ StoreIsUp /\ x \notin torn => chunks[x] = NoText

(* An attachment is marked, and so passed over by every later sync, only   *)
(* when its present text is stored, or when an audit has found that it is  *)
(* not, so that a repair will index it (circulars.py:1162).                *)
MarkedIsStored == \A x \in Annexes :
  ~UnderWay(x) /\ StoreIsUp /\ x \notin torn /\ flag[x] # NoText
    => flag[x] = text[x] /\ (SeemsStored(x, text[x]) \/ ledger[x][text[x]] = "stale")

(* What the ledger vouches for, and what is marked as indexed, is what the *)
(* store holds, but for what a later audit or repair is bound to find.     *)
StoreIsVouchedFor == VouchedIsStored /\ RereadIsGone /\ MarkedIsStored

=============================================================================
