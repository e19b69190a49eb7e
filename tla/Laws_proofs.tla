----------------------------- MODULE Laws_proofs -----------------------------
(***************************************************************************)
(* Proofs about the laws: the catalogue that SBP's listing and the         *)
(* administrators fill (LawCatalogue), and the runs of the work that is    *)
(* done for the administrators (LawRuns).                                  *)
(***************************************************************************)
EXTENDS LawCatalogue, LawRuns, FiniteSetTheorems, TLAPS

-----------------------------------------------------------------------------
VersionsOf(S) == [S -> VersionRow]

(* A version's date, and the tier it is in.                                *)
LEMMA ComeIs ==
  ASSUME NEW vs, NEW i \in 1..3, NEW today \in Nat, NEW k \in Come(vs, i, today)
  PROVE  k \in DOMAIN vs /\ vs[k].from <= today
<1>1. \A x \in Tiers(vs)[1] : x \in DOMAIN vs
  BY DEF Tiers
<1>2. \A x \in Tiers(vs)[2] : x \in DOMAIN vs
  BY DEF Tiers
<1>3. \A x \in Tiers(vs)[3] : x \in DOMAIN vs
  BY DEF Tiers
<1>4. k \in Tiers(vs)[i] /\ vs[k].from <= today
  BY DEF Come
<1>5. i = 1 \/ i = 2 \/ i = 3
  OBVIOUS
<1>6. QED
  BY <1>1, <1>2, <1>3, <1>4, <1>5

LEMMA TierOf ==
  ASSUME NEW S, NEW vs \in VersionsOf(S), NEW today \in Nat, NEW k \in S, vs[k].from <= today
  PROVE  \E i \in 1..3 : k \in Come(vs, i, today)
<1>1. DOMAIN vs = S /\ vs[k].pinned \in BOOLEAN /\ vs[k].source \in {"live", "upload"}
  BY DEF VersionsOf, VersionRow
<1>2. CASE vs[k].pinned
  <2>1. k \in Tiers(vs)[1]
    BY <1>1, <1>2 DEF Tiers
  <2>2. QED
    BY <2>1 DEF Come
<1>3. CASE ~vs[k].pinned /\ vs[k].source = "live"
  <2>1. k \in Tiers(vs)[2]
    BY <1>1, <1>3 DEF Tiers
  <2>2. QED
    BY <2>1 DEF Come
<1>4. CASE ~vs[k].pinned /\ vs[k].source = "upload"
  <2>1. k \in Tiers(vs)[3]
    BY <1>1, <1>4 DEF Tiers
  <2>2. QED
    BY <2>1 DEF Come
<1>5. QED
  BY <1>1, <1>2, <1>3, <1>4

(* What wins is a version whose date has come, or nothing, if none has.    *)
LEMMA WinnersAre ==
  ASSUME NEW S, NEW vs \in VersionsOf(S), NEW today \in Nat, NEW observed, NEW k \in Winners(vs, observed, today)
  PROVE  \/ k \in S /\ vs[k].from <= today
         \/ k = NoEdition /\ \A x \in S : ~(vs[x].from <= today)
<1> DEFINE open  == OpenTiers(vs, today)
           first == {i \in open : \A j \in open : i <= j}
           best  == UNION {Come(vs, i, today) : i \in first}
           dated == {x \in best : vs[x].from # 0}
           seen  == best \intersect observed
<1>1. open = {i \in 1..3 : Come(vs, i, today) # {}}
  BY DEF OpenTiers
<1>2. \A x \in best : x \in S /\ vs[x].from <= today
  <2> SUFFICES ASSUME NEW x \in best PROVE x \in S /\ vs[x].from <= today
    OBVIOUS
  <2>1. PICK i \in first : x \in Come(vs, i, today)
    OBVIOUS
  <2>2. i \in 1..3
    BY <1>1
  <2>3. DOMAIN vs = S
    BY DEF VersionsOf
  <2>4. QED
    BY <2>1, <2>2, <2>3, ComeIs
<1>3. best = {} => open = {}
  <2> SUFFICES ASSUME open # {} PROVE best # {}
    OBVIOUS
  <2>1. open \subseteq 1..3
    BY <1>1
  <2> HIDE DEF open
  <2>2. PICK i \in open : \A j \in open : i <= j
    <3>1. CASE 1 \in open
      BY <2>1, <3>1
    <3>2. CASE 1 \notin open /\ 2 \in open
      BY <2>1, <3>2
    <3>3. CASE 1 \notin open /\ 2 \notin open
      <4>1. \A j \in open : j = 3
        BY <2>1, <3>3
      <4>2. QED
        BY <4>1
    <3>4. QED
      BY <3>1, <3>2, <3>3
  <2>3. i \in first /\ Come(vs, i, today) # {}
    BY <1>1, <2>2 DEF open
  <2>4. QED
    BY <2>3
<1>4. \A x \in S : vs[x].from <= today => open # {}
  BY <1>1, TierOf
<1>5. k \in (IF best = {} THEN {NoEdition}
             ELSE IF dated # {} THEN {y \in dated : \A x \in dated : vs[x].from <= vs[y].from}
             ELSE IF seen # {} THEN seen
             ELSE {y \in best : \A x \in best : vs[x].first <= vs[y].first})
  BY DEF Winners
<1> HIDE DEF open, first, best
<1>6. CASE best = {}
  BY <1>3, <1>4, <1>5, <1>6
<1>7. CASE best # {}
  BY <1>2, <1>5, <1>7
<1>8. QED
  BY <1>6, <1>7

(* A decision changes nothing but what is in force.                        *)
LEMMA DecidedIs ==
  ASSUME NEW S, NEW vs \in VersionsOf(S), NEW k
  PROVE  /\ Decided(vs, k) \in VersionsOf(S)
         /\ \A x \in S : Decided(vs, k)[x].from = vs[x].from /\ Decided(vs, k)[x].inforce = (x = k)
<1>1. \A x \in S : vs[x] \in VersionRow /\ [vs[x] EXCEPT !.inforce = (x = k)] \in VersionRow
  BY DEF VersionsOf, VersionRow
<1>2. DOMAIN vs = S
  BY DEF VersionsOf
<1>3. Decided(vs, k) = [x \in S |-> [vs[x] EXCEPT !.inforce = (x = k)]]
  BY <1>2 DEF Decided
<1>4. \A x \in S : /\ [vs[x] EXCEPT !.inforce = (x = k)].from = vs[x].from
                   /\ [vs[x] EXCEPT !.inforce = (x = k)].inforce = (x = k)
  BY <1>1 DEF VersionRow
<1>5. QED
  BY <1>1, <1>3, <1>4 DEF VersionsOf

LEMMA PinnedIs ==
  ASSUME NEW S, NEW vs \in VersionsOf(S), NEW e
  PROVE  Pinned(vs, e) \in VersionsOf(S) /\ \A x \in S : Pinned(vs, e)[x].from = vs[x].from
<1>1. \A x \in S : vs[x] \in VersionRow /\ [vs[x] EXCEPT !.pinned = (x = e)] \in VersionRow
  BY DEF VersionsOf, VersionRow
<1>2. DOMAIN vs = S
  BY DEF VersionsOf
<1>3. Pinned(vs, e) = [x \in S |-> [vs[x] EXCEPT !.pinned = (x = e)]]
  BY <1>2 DEF Pinned
<1>4. \A x \in S : [vs[x] EXCEPT !.pinned = (x = e)].from = vs[x].from
  BY <1>1 DEF VersionRow
<1>5. QED
  BY <1>1, <1>3, <1>4 DEF VersionsOf

LEMMA AddIs ==
  ASSUME NEW S, NEW vs \in VersionsOf(S), NEW k, NEW v \in VersionRow
  PROVE  /\ Add(vs, k, v) \in VersionsOf(S \union {k}) /\ Add(vs, k, v)[k] = v
         /\ \A x \in S : x # k => Add(vs, k, v)[x] = vs[x]
<1>1. DOMAIN vs = S
  BY DEF VersionsOf
<1>2. Add(vs, k, v) = [x \in S \union {k} |-> IF x = k THEN v ELSE vs[x]]
  BY <1>1 DEF Add
<1>3. \A x \in S \union {k} : (IF x = k THEN v ELSE vs[x]) \in VersionRow
  BY DEF VersionsOf
<1>4. QED
  BY <1>2, <1>3 DEF VersionsOf

LEMMA InForceIs == ASSUME NEW S, NEW vs \in VersionsOf(S) PROVE InForce(vs) = {k \in S : vs[k].inforce}
BY DEF InForce, VersionsOf

-----------------------------------------------------------------------------
(* The rows of the catalogue.                                              *)
VersionsTyped ==
  /\ ver = [d \in Docs |-> ver[d]]
  /\ \A d \in Docs : DOMAIN ver[d] \subseteq Keys /\ ver[d] \in VersionsOf(DOMAIN ver[d]) /\ IsFiniteSet(DOMAIN ver[d])

SiteTyped ==
  /\ site \subseteq ListingRows /\ (\A r \in site : r.doc \in Hosted => r.text \in Editions)
  /\ clock \in Nat /\ lawCount \in [LawEvents \union {"any"} -> Nat]

StoreTyped ==
  /\ doc \in [Docs -> DocRow] /\ archive \in [Hosted -> SUBSET Editions] /\ lost \in [Hosted -> SUBSET Editions]

OnFile(d, e) == e \in archive[d] \/ e \in lost[d]

(* What the sync knows of the catalogue.                                   *)
SyncFits(s) ==
  /\ s \in SyncState /\ s.now <= clock /\ s.listed \subseteq Tops
  /\ \A r \in s.rows : r.doc \in Tops
  /\ \A r \in s.page : r.doc \in Parts
  /\ \A r \in s.kids : r.doc \in Parts
  /\ s.at \in {"got", "look"} =>
       /\ s.row \in ListingRows /\ s.row.doc \in Hosted /\ s.got \in Editions /\ OnFile(s.row.doc, s.got)
       /\ s.at = "look" /\ s.known => s.got \in DOMAIN ver[s.row.doc]
  /\ \A p \in Parts : s.hashes[p] = NoEdition \/ s.hashes[p] \in DOMAIN ver[p]
  /\ s.full => s.listed \subseteq s.seen \union {r.doc : r \in s.rows}
  /\ s.at = "flush" => s.rows = {}
  /\ \A d \in Docs : s.before[d] \subseteq DOMAIN ver[d] /\ (s.picks[d] # NoEdition => s.picks[d] \in DOMAIN ver[d])

(* Where the sync found no text whose date has come, none of those it saw  *)
(* in force will come on its day; and what has been put in force since, if *)
(* anything could be, is not one of them.                                  *)
FlushFits(s) == s.at = "flush" => \A d \in s.touched \ overtaken : s.picks[d] = NoEdition =>
  /\ \A k \in s.before[d] : ~(ver[d][k].from <= s.now)
  /\ s.now = clock /\ (\E k \in DOMAIN ver[d] : ver[d][k].from = 0)
       => \E k \in DOMAIN ver[d] : ver[d][k].inforce /\ k \notin s.before[d]

LawInv == VersionsTyped /\ SiteTyped /\ StoreTyped /\ SyncFits(sync) /\ FlushFits(sync) /\ HistoryIsOnFile

(* What an unpinning has decided, on this day or an earlier one.           *)
UnpinFits(u) ==
  /\ u.doc \in Docs /\ DOMAIN u.saw \subseteq Keys /\ u.saw \in VersionsOf(DOMAIN u.saw)
  /\ \/ u.pick \in DOMAIN u.saw /\ u.saw[u.pick].from <= clock
     \/ u.pick = NoEdition /\ \A k \in DOMAIN u.saw : u.saw[k].from # 0

(* What the requests of administrators have in hand.                       *)
RequestsFit ==
  /\ uploads \subseteq UploadState /\ overtaken \subseteq Docs
  /\ \A u \in uploads : u.at = "stored" => OnFile(u.doc, u.text)
  /\ \A u \in unpins : UnpinFits(u)

CatalogueInv == LawInv /\ RequestsFit

LEMMA SitesAre ==
  /\ Tops \subseteq Docs /\ Parts \subseteq Docs /\ Hosted \subseteq Docs /\ Files \subseteq Hosted /\ Parts \subseteq Hosted
  /\ Manual \in Tops /\ Manual \in Docs /\ Manual \notin Hosted /\ Tops \intersect Parts = {} /\ Files \subseteq Tops
  /\ \A d \in Tops : d # Manual => d \in Files
BY SitesAssumption DEF Tops, Docs, Hosted

LEMMA NoSyncIs ==
  /\ NoSync \in SyncState /\ NoSync.at = "off" /\ NoSync.now = 0 /\ NoSync.full = FALSE /\ NoSync.listed = {}
  /\ NoSync.rows = {} /\ NoSync.page = {} /\ NoSync.kids = {}
  /\ \A p \in Parts : NoSync.hashes[p] = NoEdition
  /\ \A d \in Docs : NoSync.before[d] = {} /\ NoSync.picks[d] = NoEdition
<1>1. NoDoc \in DocRow
  BY DEF NoDoc, DocRow
<1>2. [d \in Docs |-> NoDoc] \in [Docs -> DocRow]
  BY <1>1
<1>3. [p \in Parts |-> NoEdition] \in Manifests
  BY DEF Manifests
<1>4. [d \in Docs |-> {}] \in [Docs -> SUBSET Keys] /\ [d \in Docs |-> NoEdition] \in [Docs -> Keys \union {NoEdition}]
  OBVIOUS
<1>5. NoSync \in SyncState
  BY <1>2, <1>3, <1>4 DEF NoSync, SyncState
<1>6. QED
  BY <1>5 DEF NoSync

LEMMA NoSyncFits == ASSUME clock \in Nat PROVE SyncFits(NoSync) /\ FlushFits(NoSync)
BY NoSyncIs DEF SyncFits, FlushFits

LEMMA LawInvInit == LawInit => CatalogueInv
<1> SUFFICES ASSUME LawInit PROVE CatalogueInv
  OBVIOUS
<1>1. PICK e \in Editions : site = {Row1(d, e, 0) : d \in Hosted} \union {Row1(Manual, NoEdition, 0)}
  BY EditionsAssumption DEF LawInit
<1>2. \A r \in site : r \in ListingRows /\ (r.doc \in Hosted => r.text \in Editions)
  BY <1>1, SitesAre DEF Row1, ListingRows
<1>3. /\ clock = 0 /\ doc = [d \in Docs |-> NoDoc] /\ ver = [d \in Docs |-> [k \in {} |-> 0]]
      /\ archive = [d \in Hosted |-> {}] /\ lost = [d \in Hosted |-> {}]
      /\ sync = NoSync /\ lawCount = [k \in LawEvents \union {"any"} |-> 0]
  BY DEF LawInit
<1>4. SiteTyped
  BY <1>2, <1>3 DEF SiteTyped
<1>5. StoreTyped
  BY <1>3 DEF StoreTyped, NoDoc, DocRow
<1>6. \A d \in Docs : ver[d] = [k \in {} |-> 0] /\ DOMAIN ver[d] = {}
  BY <1>3
<1>7. VersionsTyped
  <2>1. IsFiniteSet({})
    BY FS_EmptySet
  <2>2. \A d \in Docs : ver[d] \in VersionsOf({})
    BY <1>6 DEF VersionsOf
  <2>3. ver = [d \in Docs |-> ver[d]]
    BY <1>3
  <2>4. QED
    BY <1>6, <2>1, <2>2, <2>3 DEF VersionsTyped
<1>8. HistoryIsOnFile
  BY <1>6, SitesAre DEF HistoryIsOnFile
<1>9. SyncFits(sync) /\ FlushFits(sync)
  BY <1>3, NoSyncFits
<1>10. RequestsFit
  BY DEF LawInit, RequestsFit
<1>11. QED
  BY <1>4, <1>5, <1>7, <1>8, <1>9, <1>10 DEF LawInv, CatalogueInv

(* The catalogue grows.                                                    *)
CatalogueGrows ==
  /\ \A d \in Docs : DOMAIN ver[d] \subseteq DOMAIN ver'[d]
  /\ \A d \in Hosted : \A e : OnFile(d, e) => OnFile(d, e)'
  /\ clock <= clock'

LEMMA SyncStillFits ==
  ASSUME LawInv, CatalogueGrows, SiteTyped', sync' = sync
  PROVE  SyncFits(sync)'
<1>1. SyncFits(sync) /\ clock \in Nat /\ clock' \in Nat
  BY DEF LawInv, SiteTyped
<1>2. sync.now \in Nat
  BY <1>1 DEF SyncFits, SyncState
<1>3. sync.now <= clock'
  BY <1>1, <1>2 DEF CatalogueGrows, SyncFits
<1>4. sync.at \in {"got", "look"} =>
       /\ sync.row \in ListingRows /\ sync.row.doc \in Hosted /\ sync.got \in Editions /\ OnFile(sync.row.doc, sync.got)'
       /\ sync.at = "look" /\ sync.known => sync.got \in DOMAIN ver'[sync.row.doc]
  BY <1>1, SitesAre DEF SyncFits, CatalogueGrows
<1>5. /\ \A p \in Parts : sync.hashes[p] = NoEdition \/ sync.hashes[p] \in DOMAIN ver'[p]
      /\ \A d \in Docs : sync.before[d] \subseteq DOMAIN ver'[d]
                         /\ (sync.picks[d] # NoEdition => sync.picks[d] \in DOMAIN ver'[d])
  BY <1>1, SitesAre DEF SyncFits, CatalogueGrows
<1>6. QED
  BY <1>1, <1>3, <1>4, <1>5 DEF SyncFits, OnFile

-----------------------------------------------------------------------------
(* What happens beside the sync.                                           *)
LEMMA LawCounts ==
  ASSUME lawCount \in [LawEvents \union {"any"} -> Nat], NEW k \in LawEvents, LawHappens(k)
  PROVE  lawCount' \in [LawEvents \union {"any"} -> Nat]
<1>1. "any" \notin LawEvents
  BY DEF LawEvents
<1>2. lawCount' = [lawCount EXCEPT ![k] = @ + 1, !["any"] = IF FirstSync(k) THEN @ ELSE @ + 1]
  BY DEF LawHappens
<1>3. QED
  BY <1>1, <1>2

LEMMA LawParts ==
  ASSUME LawInv
  PROVE  /\ VersionsTyped /\ SiteTyped /\ StoreTyped /\ SyncFits(sync) /\ FlushFits(sync) /\ HistoryIsOnFile
         /\ clock \in Nat /\ sync \in SyncState
         /\ lawCount \in [LawEvents \union {"any"} -> Nat]
BY DEF LawInv, SiteTyped, SyncFits

(* A step that leaves the versions and the sync alone.                     *)
LEMMA VersionsRest ==
  ASSUME LawInv, UNCHANGED <<ver, sync, overtaken>>, SiteTyped', StoreTyped', clock <= clock',
         \A d \in Hosted : \A e : OnFile(d, e) => OnFile(d, e)'
  PROVE  LawInv'
<1>1. CatalogueGrows
  BY DEF CatalogueGrows
<1>2. SyncFits(sync)'
  BY <1>1, SyncStillFits
<1>3. VersionsTyped'
  BY LawParts DEF VersionsTyped
<1>4. HistoryIsOnFile'
  BY LawParts DEF HistoryIsOnFile, OnFile
<1>5. FlushFits(sync)'
  <2>1. sync.now <= clock /\ sync.now \in Nat /\ clock \in Nat /\ clock' \in Nat
    BY LawParts DEF SyncFits, SyncState, SiteTyped
  <2>2. sync.now = clock' => sync.now = clock
    BY <2>1
  <2>3. QED
    BY <2>2, LawParts DEF FlushFits
<1>6. QED
  BY <1>2, <1>3, <1>4, <1>5 DEF LawInv

LEMMA PublishKeeps == ASSUME LawInv, Publish PROVE LawInv'
<1>1. PICK d \in Hosted : \E new \in Listings(d) :
        /\ LawHappens("publish") /\ site' = (site \ RowsOf(d)) \union new
        /\ UNCHANGED <<clock, lawRows, archive, lost, sync, overtaken>>
  BY DEF Publish, requests
<1>2. PICK new \in Listings(d) :
        /\ LawHappens("publish") /\ site' = (site \ RowsOf(d)) \union new
        /\ UNCHANGED <<clock, lawRows, archive, lost, sync, overtaken>>
  BY <1>1
<1>3. \A e \in Editions, t \in Dates \union {0} :
        Row1(d, e, t) \in ListingRows /\ Row1(d, e, t).text \in Editions
  BY SitesAre DEF Row1, ListingRows
<1>4. \A r \in new : r \in ListingRows /\ r.text \in Editions
  BY <1>3 DEF Listings
<1>5. lawCount' \in [LawEvents \union {"any"} -> Nat]
  BY <1>2, LawParts, LawCounts DEF LawEvents
<1>6. SiteTyped'
  BY <1>2, <1>4, <1>5, LawParts DEF SiteTyped
<1>7. StoreTyped'
  BY <1>2, LawParts DEF StoreTyped, lawRows
<1>8. QED
  BY <1>2, <1>6, <1>7, LawParts, VersionsRest DEF OnFile, lawRows

LEMMA NextDayKeeps == ASSUME LawInv, NextDay PROVE LawInv'
<1>1. clock' = clock + 1 /\ LawHappens("tick") /\ UNCHANGED <<site, doc, ver, archive, lost, sync, overtaken>>
  BY DEF NextDay, lawRows, requests
<1>2. lawCount' \in [LawEvents \union {"any"} -> Nat]
  BY <1>1, LawParts, LawCounts DEF LawEvents
<1>3. SiteTyped' /\ StoreTyped' /\ clock <= clock'
  BY <1>1, <1>2, LawParts DEF SiteTyped, StoreTyped
<1>4. QED
  BY <1>1, <1>3, VersionsRest DEF OnFile

LEMMA LoseFileKeeps == ASSUME LawInv, LoseFile PROVE LawInv'
<1>1. PICK d \in Hosted : \E e \in archive[d] :
        /\ LawHappens("lose") /\ archive' = [archive EXCEPT ![d] = @ \ {e}] /\ lost' = [lost EXCEPT ![d] = @ \union {e}]
        /\ UNCHANGED <<site, clock, doc, ver, sync, overtaken>>
  BY DEF LoseFile, lawRows, requests
<1>2. PICK e \in archive[d] :
        /\ LawHappens("lose") /\ archive' = [archive EXCEPT ![d] = @ \ {e}] /\ lost' = [lost EXCEPT ![d] = @ \union {e}]
        /\ UNCHANGED <<site, clock, doc, ver, sync, overtaken>>
  BY <1>1
<1>3. lawCount' \in [LawEvents \union {"any"} -> Nat]
  BY <1>2, LawParts, LawCounts DEF LawEvents
<1>4. SiteTyped' /\ StoreTyped'
  BY <1>2, <1>3, LawParts DEF SiteTyped, StoreTyped
<1>5. \A x \in Hosted : \A f : OnFile(x, f) => OnFile(x, f)'
  BY <1>2, LawParts DEF OnFile, StoreTyped
<1>6. QED
  BY <1>2, <1>4, <1>5, LawParts, VersionsRest

LEMMA RefetchKeeps == ASSUME LawInv, Refetch PROVE LawInv'
<1>1. PICK d \in Hosted : \E r \in RowsOf(d) :
        /\ archive' = [archive EXCEPT ![d] = @ \union {r.text}] /\ lost' = [lost EXCEPT ![d] = @ \ {r.text}]
        /\ UNCHANGED <<site, clock, doc, ver, sync, lawCount, overtaken>>
  BY DEF Refetch, lawRows, requests
<1>2. PICK r \in RowsOf(d) :
        /\ archive' = [archive EXCEPT ![d] = @ \union {r.text}] /\ lost' = [lost EXCEPT ![d] = @ \ {r.text}]
        /\ UNCHANGED <<site, clock, doc, ver, sync, lawCount, overtaken>>
  BY <1>1
<1>3. r.text \in Editions
  BY LawParts DEF RowsOf, SiteTyped
<1>4. SiteTyped' /\ StoreTyped'
  BY <1>2, <1>3, LawParts DEF SiteTyped, StoreTyped
<1>5. \A x \in Hosted : \A f : OnFile(x, f) => OnFile(x, f)'
  BY <1>2, LawParts DEF OnFile, StoreTyped
<1>6. QED
  BY <1>2, <1>4, <1>5, LawParts, VersionsRest

LEMMA RowChangesKeep == ASSUME LawInv, Withdraw \/ RestoreLaw \/ RequestRefetch PROVE LawInv'
<1>1. /\ LawHappens("admin") /\ UNCHANGED <<site, clock, ver, archive, lost, sync, overtaken>>
      /\ \E d \in Docs : \/ doc' = [doc EXCEPT ![d].out = TRUE]
                         \/ doc' = [doc EXCEPT ![d].out = FALSE]
                         \/ doc' = [doc EXCEPT ![d].flag = TRUE]
  BY DEF Withdraw, RestoreLaw, RequestRefetch, requests
<1>2. lawCount' \in [LawEvents \union {"any"} -> Nat]
  BY <1>1, LawParts, LawCounts DEF LawEvents
<1>3. doc' \in [Docs -> DocRow]
  <2>1. doc \in [Docs -> DocRow]
    BY LawParts DEF StoreTyped
  <2>2. \A d \in Docs : /\ [doc[d] EXCEPT !.out = TRUE] \in DocRow /\ [doc[d] EXCEPT !.out = FALSE] \in DocRow
                        /\ [doc[d] EXCEPT !.flag = TRUE] \in DocRow
    BY <2>1 DEF DocRow
  <2>3. QED
    BY <1>1, <2>1, <2>2
<1>4. SiteTyped' /\ StoreTyped'
  BY <1>1, <1>2, <1>3, LawParts DEF SiteTyped, StoreTyped
<1>5. QED
  BY <1>1, <1>4, LawParts, VersionsRest DEF OnFile

(* A decision over a document's versions, an addition to them included.    *)
LEMMA DecisionKeeps ==
  ASSUME LawInv, NEW d \in Docs, NEW S \in SUBSET Keys, IsFiniteSet(S), DOMAIN ver[d] \subseteq S,
         NEW vs \in VersionsOf(S), \A x \in DOMAIN ver[d] : vs[x].from = ver[d][x].from,
         NewlyDecided(d, vs), sync' = sync, clock' = clock, overtaken' = overtaken, SiteTyped', StoreTyped',
         \A x \in Hosted : \A e : OnFile(x, e) => OnFile(x, e)',
         d \in Hosted => \A e \in S : OnFile(d, e)', d = Manual => S = DOMAIN ver[d]
  PROVE  LawInv'
<1>1. PICK k \in Winners(vs, {}, clock) : ver' = [ver EXCEPT ![d] = Decided(vs, k)]
  BY DEF NewlyDecided
<1> DEFINE new == Decided(vs, k)
<1>2. /\ new \in VersionsOf(S) /\ DOMAIN new = S
      /\ \A x \in S : new[x].from = vs[x].from /\ new[x].inforce = (x = k)
  BY DecidedIs DEF VersionsOf
<1>3. \/ k \in S /\ vs[k].from <= clock
      \/ k = NoEdition /\ \A x \in S : ~(vs[x].from <= clock)
  BY LawParts, WinnersAre
<1> HIDE DEF new
<1>4. /\ ver'[d] = new /\ \A x \in Docs : x # d => ver'[x] = ver[x]
      /\ ver' = [x \in Docs |-> ver'[x]]
  BY <1>1, LawParts DEF VersionsTyped, new
<1>5. VersionsTyped'
  BY <1>2, <1>4, LawParts DEF VersionsTyped
<1>6. CatalogueGrows
  BY <1>2, <1>4, LawParts DEF CatalogueGrows
<1>7. SyncFits(sync)'
  BY <1>6, SyncStillFits
<1>8. HistoryIsOnFile'
  <2>1. \A x \in Hosted : \A e \in DOMAIN ver'[x] : OnFile(x, e)'
    BY <1>2, <1>4, SitesAre, LawParts DEF HistoryIsOnFile, OnFile
  <2>2. DOMAIN ver'[Manual] = DOMAIN ver[Manual]
    BY <1>2, <1>4, SitesAre
  <2>3. \A m \in DOMAIN ver'[Manual], p \in Parts : m[p] = NoEdition \/ m[p] \in DOMAIN ver'[p]
    BY <1>6, <2>2, SitesAre, LawParts DEF HistoryIsOnFile, CatalogueGrows
  <2>4. QED
    BY <2>1, <2>3 DEF HistoryIsOnFile, OnFile
<1>9. FlushFits(sync)'
  <2> SUFFICES ASSUME sync.at = "flush", NEW x \in sync.touched, x \notin overtaken, sync.picks[x] = NoEdition
               PROVE  /\ \A y \in sync.before[x] : ~(ver'[x][y].from <= sync.now)
                      /\ sync.now = clock' /\ (\E y \in DOMAIN ver'[x] : ver'[x][y].from = 0)
                           => \E y \in DOMAIN ver'[x] : ver'[x][y].inforce /\ y \notin sync.before[x]
    BY DEF FlushFits
  <2>1. /\ \A y \in sync.before[x] : ~(ver[x][y].from <= sync.now)
        /\ sync.now = clock /\ (\E y \in DOMAIN ver[x] : ver[x][y].from = 0)
             => \E y \in DOMAIN ver[x] : ver[x][y].inforce /\ y \notin sync.before[x]
    BY LawParts DEF FlushFits
  <2>2. x \in Docs /\ sync.before[x] \subseteq DOMAIN ver[x]
    BY LawParts DEF SyncFits, SyncState
  <2>3. CASE x # d
    BY <1>4, <2>1, <2>2, <2>3
  <2>4. CASE x = d
    <3>1. \A y \in sync.before[d] : ~(new[y].from <= sync.now)
      BY <1>2, <2>1, <2>2, <2>4
    <3>2. ASSUME sync.now = clock, NEW y \in S, new[y].from = 0
          PROVE  \E z \in S : new[z].inforce /\ z \notin sync.before[d]
      <4>1. vs[y].from <= clock
        BY <1>2, <3>2, LawParts
      <4>2. k \in S /\ vs[k].from <= clock
        BY <1>3, <4>1
      <4>3. new[k].inforce /\ k \notin sync.before[d]
        BY <1>2, <3>1, <3>2, <4>2
      <4>4. QED
        BY <4>2, <4>3
    <3>3. QED
      BY <1>2, <1>4, <2>4, <3>1, <3>2
  <2>5. QED
    BY <2>3, <2>4
<1>10. QED
  BY <1>5, <1>7, <1>8, <1>9 DEF LawInv

LEMMA PinsKeep == ASSUME LawInv, PinVersion \/ UnpinVersion PROVE LawInv'
<1>1. PICK d \in Docs : \E e \in DOMAIN ver[d] :
        /\ LawHappens("admin") /\ UNCHANGED <<site, clock, doc, archive, lost, sync, overtaken>>
        /\ NewlyDecided(d, Pinned(ver[d], e)) \/ NewlyDecided(d, [ver[d] EXCEPT ![e].pinned = FALSE])
  BY DEF PinVersion, UnpinVersion, requests
<1>2. PICK e \in DOMAIN ver[d] :
        /\ LawHappens("admin") /\ UNCHANGED <<site, clock, doc, archive, lost, sync, overtaken>>
        /\ NewlyDecided(d, Pinned(ver[d], e)) \/ NewlyDecided(d, [ver[d] EXCEPT ![e].pinned = FALSE])
  BY <1>1
<1> DEFINE S == DOMAIN ver[d]
           un == [ver[d] EXCEPT ![e].pinned = FALSE]
<1>3. S \subseteq Keys /\ IsFiniteSet(S) /\ ver[d] \in VersionsOf(S)
  BY LawParts DEF VersionsTyped
<1>4. Pinned(ver[d], e) \in VersionsOf(S) /\ \A x \in S : Pinned(ver[d], e)[x].from = ver[d][x].from
  BY <1>3, PinnedIs
<1>5. un \in VersionsOf(S) /\ \A x \in S : un[x].from = ver[d][x].from
  <2>1. ver[d][e] \in VersionRow /\ [ver[d][e] EXCEPT !.pinned = FALSE] \in VersionRow
        /\ [ver[d][e] EXCEPT !.pinned = FALSE].from = ver[d][e].from
    BY <1>3 DEF VersionsOf, VersionRow
  <2>2. un = [ver[d] EXCEPT ![e] = [ver[d][e] EXCEPT !.pinned = FALSE]]
    OBVIOUS
  <2>3. QED
    BY <1>3, <2>1, <2>2 DEF VersionsOf
<1>6. lawCount' \in [LawEvents \union {"any"} -> Nat]
  BY <1>2, LawParts, LawCounts DEF LawEvents
<1>7. SiteTyped' /\ StoreTyped'
  BY <1>2, <1>6, LawParts DEF SiteTyped, StoreTyped
<1>8. /\ \A x \in Hosted : \A f : OnFile(x, f) => OnFile(x, f)'
      /\ d \in Hosted => \A f \in S : OnFile(d, f)'
  BY <1>2, LawParts DEF OnFile, HistoryIsOnFile
<1> HIDE DEF un
<1>9. \A vs \in VersionsOf(S) : (\A x \in S : vs[x].from = ver[d][x].from) /\ NewlyDecided(d, vs) => LawInv'
  BY <1>2, <1>3, <1>7, <1>8, DecisionKeeps
<1>10. QED
  BY <1>2, <1>4, <1>5, <1>9 DEF un

LEMMA UploadKeeps == ASSUME LawInv, RequestsFit, Upload PROVE LawInv'
<1>1. PICK d \in Files, e \in Editions, t \in Dates \union {0}, pin \in BOOLEAN :
        /\ OnFile(d, e)
        /\ \/ /\ e \notin DOMAIN ver[d]
              /\ doc' = [doc EXCEPT ![d] = IF @.held THEN @ ELSE [NoDoc EXCEPT !.held = TRUE, !.origin = "upload"]]
              /\ LET vs == Add(ver[d], e, [source |-> "upload", pinned |-> FALSE, inforce |-> FALSE, from |-> t,
                                           first |-> Cardinality(DOMAIN ver[d])])
                 IN NewlyDecided(d, IF pin THEN Pinned(vs, e) ELSE vs)
           \/ UNCHANGED lawRows
        /\ UNCHANGED <<site, clock, archive, lost, sync, overtaken, lawCount>>
  BY DEF Upload, RequestsFit, UploadState, Collides
<1>2. d \in Docs /\ d \in Hosted /\ d # Manual
  BY SitesAre
<1>4. SiteTyped'
  BY <1>1, LawParts DEF SiteTyped
<1>5. /\ archive' \in [Hosted -> SUBSET Editions] /\ lost' \in [Hosted -> SUBSET Editions]
      /\ \A x \in Hosted : \A f : OnFile(x, f) => OnFile(x, f)'
      /\ OnFile(d, e)'
  BY <1>1, <1>2, LawParts DEF StoreTyped, OnFile
<1>6. CASE UNCHANGED lawRows
  <2>1. StoreTyped'
    BY <1>5, <1>6, LawParts DEF StoreTyped, lawRows
  <2>2. QED
    BY <1>1, <1>4, <1>5, <1>6, <2>1, LawParts, VersionsRest DEF lawRows
<1>7. ASSUME ~UNCHANGED lawRows PROVE LawInv'
  <2> DEFINE S   == DOMAIN ver[d]
             row == [source |-> "upload", pinned |-> FALSE, inforce |-> FALSE, from |-> t, first |-> Cardinality(S)]
             vs  == Add(ver[d], e, row)
             all == IF pin THEN Pinned(vs, e) ELSE vs
  <2>1. /\ doc' = [doc EXCEPT ![d] = IF @.held THEN @ ELSE [NoDoc EXCEPT !.held = TRUE, !.origin = "upload"]]
        /\ NewlyDecided(d, all)
    BY <1>1, <1>7
  <2>2. StoreTyped'
    <3>1. doc[d] \in DocRow /\ [NoDoc EXCEPT !.held = TRUE, !.origin = "upload"] \in DocRow
      BY <1>2, LawParts DEF StoreTyped, NoDoc, DocRow
    <3>2. doc' \in [Docs -> DocRow]
      BY <2>1, <3>1, LawParts DEF StoreTyped
    <3>3. QED
      BY <1>5, <3>2 DEF StoreTyped
  <2>3. S \subseteq Keys /\ IsFiniteSet(S) /\ ver[d] \in VersionsOf(S) /\ e \notin S
    BY <1>1, <1>2, <1>7, LawParts DEF VersionsTyped
  <2>4. row \in VersionRow
    <3>1. Cardinality(S) \in Nat
      BY <2>3, FS_CardinalityType
    <3>2. QED
      BY <3>1 DEF VersionRow
  <2>5. S \union {e} \in SUBSET Keys /\ IsFiniteSet(S \union {e})
    <3>1. e \in Keys
      BY DEF Keys
    <3>2. IsFiniteSet(S \union {e})
      BY <2>3, FS_AddElement
    <3>3. QED
      BY <2>3, <3>1, <3>2
  <2> HIDE DEF row, S
  <2>6. vs \in VersionsOf(S \union {e}) /\ \A x \in S : vs[x].from = ver[d][x].from
    <3>1. vs \in VersionsOf(S \union {e}) /\ \A x \in S : x # e => vs[x] = ver[d][x]
      BY <2>3, <2>4, AddIs
    <3>2. QED
      BY <2>3, <3>1
  <2> HIDE DEF vs
  <2>7. Pinned(vs, e) \in VersionsOf(S \union {e}) /\ \A x \in S \union {e} : Pinned(vs, e)[x].from = vs[x].from
    BY <2>6, PinnedIs
  <2>8. all \in VersionsOf(S \union {e}) /\ \A x \in S : all[x].from = ver[d][x].from
    BY <2>6, <2>7
  <2> HIDE DEF all
  <2>9. \A f \in S \union {e} : OnFile(d, f)'
    BY <1>2, <1>5, LawParts DEF HistoryIsOnFile, OnFile, S
  <2>10. S \subseteq S \union {e} /\ S = DOMAIN ver[d] /\ sync' = sync /\ clock' = clock /\ overtaken' = overtaken
    BY <1>1 DEF S
  <2>11. QED
    BY <1>2, <1>4, <1>5, <2>1, <2>2, <2>5, <2>8, <2>9, <2>10, DecisionKeeps
<1>8. QED
  BY <1>6, <1>7

-----------------------------------------------------------------------------
(* The sync.                                                               *)
LEMMA UpsertedIs ==
  ASSUME NEW d \in Docs, NEW was \in [Docs -> DocRow], doc \in [Docs -> DocRow]
  PROVE  /\ Upserted(d, was) \in [Docs -> DocRow]
         /\ \A x \in Docs : Upserted(d, was)[x].out => doc[x].out
<1>1. \A x \in Docs : /\ Refreshed(x, was[x]) \in DocRow
                      /\ Refreshed(x, was[x]).out = (doc[x].out /\ ~was[x].out)
  BY DEF Refreshed, DocRow
<1>2. \A x \in Docs : Upserted(d, was)[x] = IF x = d \/ (x = Manual /\ d \in Parts) THEN Refreshed(x, was[x]) ELSE doc[x]
  BY DEF Upserted
<1>3. \A x \in Docs : Upserted(d, was)[x] \in DocRow
  BY <1>1, <1>2
<1>4. Upserted(d, was) \in [Docs -> DocRow]
  BY <1>3 DEF Upserted
<1>5. QED
  BY <1>1, <1>2, <1>4

LEMMA LoadIs ==
  ASSUME sync \in SyncState, doc \in [Docs -> DocRow], NEW d \in Docs
  PROVE  /\ Load(d) \in SyncState /\ Load(d).was \in [Docs -> DocRow]
         /\ Load(d).at = sync.at /\ Load(d).now = sync.now /\ Load(d).full = sync.full
         /\ Load(d).listed = sync.listed /\ Load(d).rows = sync.rows /\ Load(d).page = sync.page
         /\ Load(d).kids = sync.kids /\ Load(d).hashes = sync.hashes
         /\ Load(d).before = sync.before /\ Load(d).picks = sync.picks
         /\ sync.seen \subseteq Load(d).seen /\ (d \in Tops => d \in Load(d).seen)
<1> DEFINE was  == [sync.was EXCEPT ![d] = doc[d]]
           seen == IF d \in Tops THEN sync.seen \union {d} ELSE sync.seen
<1>1. was \in [Docs -> DocRow] /\ seen \subseteq Docs /\ sync.touched \union {d} \subseteq Docs
  BY DEF SyncState
<1>2. sync.seen \subseteq seen /\ (d \in Tops => d \in seen)
  OBVIOUS
<1>3. Load(d) = [sync EXCEPT !.was = was, !.touched = sync.touched \union {d}, !.seen = seen]
  BY DEF Load, SyncState
<1> HIDE DEF was, seen
<1>4. /\ Load(d) \in SyncState /\ Load(d).was = was /\ Load(d).seen = seen
  BY <1>1, <1>3 DEF SyncState
<1>5. /\ Load(d).at = sync.at /\ Load(d).now = sync.now /\ Load(d).full = sync.full
      /\ Load(d).listed = sync.listed /\ Load(d).rows = sync.rows /\ Load(d).page = sync.page
      /\ Load(d).kids = sync.kids /\ Load(d).hashes = sync.hashes
      /\ Load(d).before = sync.before /\ Load(d).picks = sync.picks
  BY <1>3 DEF SyncState
<1>6. QED
  BY <1>1, <1>2, <1>4, <1>5

(* A step of the sync that does not decide.                                *)
LEMMA SyncMoves ==
  ASSUME LawInv, NEW s \in SyncState, sync' = s, s.at # "flush", s.now = sync.now, s.full = sync.full,
         s.listed = sync.listed, s.before = sync.before, s.picks = sync.picks,
         s.rows \subseteq sync.rows,
         \A r \in s.page : r.doc \in Parts, \A r \in s.kids : r.doc \in Parts,
         s.at \in {"got", "look"} =>
           /\ s.row \in ListingRows /\ s.row.doc \in Hosted /\ s.got \in Editions /\ OnFile(s.row.doc, s.got)'
           /\ s.at = "look" /\ s.known => s.got \in DOMAIN ver'[s.row.doc],
         \A p \in Parts : s.hashes[p] = NoEdition \/ s.hashes[p] \in DOMAIN ver'[p],
         sync.seen \subseteq s.seen, \A r \in sync.rows \ s.rows : r.doc \in s.seen,
         VersionsTyped', SiteTyped', StoreTyped', HistoryIsOnFile', clock' = clock,
         \A d \in Docs : DOMAIN ver[d] \subseteq DOMAIN ver'[d]
  PROVE  LawInv'
<1>1. SyncFits(sync)
  BY LawParts
<1>2. s.now <= clock' /\ s.listed \subseteq Tops /\ \A r \in s.rows : r.doc \in Tops
  BY <1>1 DEF SyncFits
<1>3. s.full => s.listed \subseteq s.seen \union {r.doc : r \in s.rows}
  <2> SUFFICES ASSUME s.full, NEW d \in s.listed, d \notin s.seen PROVE d \in {r.doc : r \in s.rows}
    OBVIOUS
  <2>1. d \in {r.doc : r \in sync.rows}
    BY <1>1 DEF SyncFits
  <2>2. PICK r \in sync.rows : r.doc = d
    BY <2>1
  <2>3. r \in s.rows
    BY <2>2
  <2>4. QED
    BY <2>2, <2>3
<1>4. \A d \in Docs : s.before[d] \subseteq DOMAIN ver'[d] /\ (s.picks[d] # NoEdition => s.picks[d] \in DOMAIN ver'[d])
  BY <1>1 DEF SyncFits
<1>5. SyncFits(s)'
  BY <1>1, <1>2, <1>3, <1>4 DEF SyncFits, OnFile
<1>6. FlushFits(sync)'
  BY DEF FlushFits
<1>7. SyncFits(sync)'
  BY <1>5 DEF SyncFits, OnFile
<1>8. QED
  BY <1>6, <1>7 DEF LawInv

LEMMA StartSyncKeeps == ASSUME LawInv, StartSync PROVE LawInv'
<1> DEFINE listing == {r \in site : r.doc \in Tops}
           listed  == {r.doc : r \in listing}
           flagged == {d \in Docs : doc[d].flag}
<1>1. PICK some \in SUBSET Tops, full \in BOOLEAN :
        /\ LawHappens("sync") /\ some \subseteq listed /\ (full => some = listed)
        /\ UNCHANGED <<site, clock, doc, ver, archive, lost>>
        /\ sync' = [NoSync EXCEPT !.at = "rows", !.now = clock, !.full = full, !.listed = listed,
                      !.rows = {r \in listing : r.doc \in some \/ (~full /\ r.doc \in flagged)}]
  BY DEF StartSync, lawRows
<1> DEFINE rows == {r \in listing : r.doc \in some \/ (~full /\ r.doc \in flagged)}
<1>2. /\ listing \subseteq ListingRows /\ rows \subseteq listing /\ listed \subseteq Tops /\ listed \subseteq Docs
      /\ clock \in Nat /\ \A r \in rows : r.doc \in Tops
  BY SitesAre, LawParts DEF SiteTyped
<1>3. full => listed \subseteq {r.doc : r \in rows}
  BY <1>1
<1>4. sync' = [NoSync EXCEPT !.at = "rows", !.now = clock, !.full = full, !.listed = listed, !.rows = rows]
  BY <1>1
<1> HIDE DEF listing, listed, rows
<1>5. sync' \in SyncState
  BY <1>2, <1>4, NoSyncIs DEF SyncState
<1>6. /\ sync'.at = "rows" /\ sync'.now = clock /\ sync'.full = full /\ sync'.listed = listed
      /\ sync'.rows = rows /\ sync'.page = {} /\ sync'.kids = {} /\ sync'.hashes = NoSync.hashes
      /\ sync'.before = NoSync.before /\ sync'.picks = NoSync.picks
  BY <1>4, NoSyncIs DEF SyncState
<1>7. lawCount' \in [LawEvents \union {"any"} -> Nat]
  BY <1>1, LawParts, LawCounts DEF LawEvents
<1>8. SiteTyped' /\ StoreTyped' /\ VersionsTyped' /\ HistoryIsOnFile'
  BY <1>1, <1>7, LawParts DEF SiteTyped, StoreTyped, VersionsTyped, HistoryIsOnFile
<1>9. SyncFits(sync)'
  <2>1. sync'.now <= clock' /\ sync'.listed \subseteq Tops /\ \A r \in sync'.rows : r.doc \in Tops
    BY <1>1, <1>2, <1>6
  <2>2. /\ \A r \in sync'.page : r.doc \in Parts
        /\ \A r \in sync'.kids : r.doc \in Parts
        /\ \A p \in Parts : sync'.hashes[p] = NoEdition
    BY <1>6, NoSyncIs
  <2>3. sync'.full => sync'.listed \subseteq sync'.seen \union {r.doc : r \in sync'.rows}
    BY <1>3, <1>6
  <2>4. \A d \in Docs : sync'.before[d] = {} /\ sync'.picks[d] = NoEdition
    BY <1>6, NoSyncIs
  <2>5. sync'.at \notin {"got", "look"} /\ sync'.at # "flush"
    BY <1>6
  <2>6. QED
    BY <1>5, <2>1, <2>2, <2>3, <2>4, <2>5 DEF SyncFits
<1>10. FlushFits(sync)'
  BY <1>6 DEF FlushFits
<1>11. QED
  BY <1>8, <1>9, <1>10 DEF LawInv

(* The sync is over, whatever it wrote.                                    *)
LEMMA SyncIsOver ==
  ASSUME LawInv, sync' = NoSync, VersionsTyped', SiteTyped', StoreTyped', HistoryIsOnFile', clock' = clock
  PROVE  LawInv'
<1>1. SyncFits(NoSync)' /\ FlushFits(NoSync)'
  <2>1. clock' \in Nat
    BY DEF SiteTyped
  <2>2. QED
    BY <2>1, NoSyncIs DEF SyncFits, FlushFits
<1>2. SyncFits(sync)' /\ FlushFits(sync)'
  BY <1>1 DEF SyncFits, FlushFits, OnFile
<1>3. QED
  BY <1>2 DEF LawInv

LEMMA CrashSyncKeeps == ASSUME LawInv, CrashSync PROVE LawInv'
<1>1. LawHappens("crash") /\ sync' = NoSync /\ UNCHANGED <<site, clock, doc, ver, archive, lost>>
  BY DEF CrashSync, lawRows
<1>2. lawCount' \in [LawEvents \union {"any"} -> Nat]
  BY <1>1, LawParts, LawCounts DEF LawEvents
<1>3. SiteTyped' /\ StoreTyped' /\ VersionsTyped' /\ HistoryIsOnFile'
  BY <1>1, <1>2, LawParts DEF SiteTyped, StoreTyped, VersionsTyped, HistoryIsOnFile
<1>4. QED
  BY <1>1, <1>3, SyncIsOver

LEMMA ServedIs ==
  ASSUME LawInv, NEW r, r.doc \in Hosted, NEW e \in Served(r)
  PROVE  e \in Editions
<1>1. \A x \in site : x.doc \in Hosted => x.text \in Editions
  BY LawParts DEF SiteTyped
<1>2. CASE r \in site
  BY <1>1, <1>2 DEF Served
<1>3. CASE r \notin site
  BY <1>1, <1>3 DEF Served, RowsOf
<1>4. QED
  BY <1>2, <1>3

LEMMA CurrentIs ==
  ASSUME NEW d, Current(d) # NoEdition
  PROVE  Current(d) \in DOMAIN ver[d] /\ ver[d][Current(d)].inforce
BY DEF Current, InForce

(* A download, of a row that the listing or the manual's page still has.   *)
LEMMA DownloadKeeps ==
  ASSUME LawInv, NEW r \in ListingRows, r.doc \in Hosted, NEW left \in SyncState, Download(r, left),
         UNCHANGED <<site, clock, lost>>, sync.at \in {"rows", "parts"},
         left.at = sync.at, left.now = sync.now, left.full = sync.full, left.listed = sync.listed,
         left.before = sync.before, left.picks = sync.picks, left.hashes = sync.hashes, left.page = sync.page,
         left.rows \subseteq sync.rows, left.kids \subseteq sync.kids,
         sync.seen \subseteq left.seen, \A x \in sync.rows \ left.rows : x.doc \in left.seen
  PROVE  LawInv'
<1>1. SyncFits(sync) /\ r.doc \in Docs
  BY LawParts, SitesAre
<1>2. CASE \E e \in Served(r) :
             /\ archive' = [archive EXCEPT ![r.doc] = @ \union {e}]
             /\ sync' = [left EXCEPT !.at = "got", !.row = r, !.got = e]
             /\ UNCHANGED <<doc, ver, lawCount>>
  <2>1. PICK e \in Served(r) :
          /\ archive' = [archive EXCEPT ![r.doc] = @ \union {e}]
          /\ sync' = [left EXCEPT !.at = "got", !.row = r, !.got = e]
          /\ UNCHANGED <<doc, ver, lawCount>>
    BY <1>2
  <2>2. e \in Editions
    BY ServedIs
  <2>3. /\ sync' \in SyncState /\ sync'.at = "got" /\ sync'.row = r /\ sync'.got = e
    BY <2>1, <2>2 DEF SyncState
  <2>4. /\ sync'.now = sync.now /\ sync'.full = sync.full /\ sync'.listed = sync.listed /\ sync'.before = sync.before
        /\ sync'.picks = sync.picks /\ sync'.hashes = sync.hashes /\ sync'.page = sync.page
        /\ sync'.rows = left.rows /\ sync'.kids = left.kids /\ sync'.seen = left.seen
    BY <2>1 DEF SyncState
  <2>5. SiteTyped' /\ VersionsTyped'
    BY <2>1, LawParts DEF SiteTyped, VersionsTyped
  <2>6. StoreTyped' /\ OnFile(r.doc, e)' /\ \A x \in Hosted : \A f : OnFile(x, f) => OnFile(x, f)'
    BY <2>1, <2>2, LawParts DEF StoreTyped, OnFile
  <2>7. HistoryIsOnFile'
    BY <2>1, <2>6, LawParts DEF HistoryIsOnFile, OnFile
  <2>8. \A p \in Parts : sync'.hashes[p] = NoEdition \/ sync'.hashes[p] \in DOMAIN ver'[p]
    BY <1>1, <2>1, <2>4 DEF SyncFits
  <2>9. (\A x \in sync'.page : x.doc \in Parts) /\ (\A x \in sync'.kids : x.doc \in Parts)
    BY <1>1, <2>4 DEF SyncFits
  <2>10. QED
    BY <2>1, <2>2, <2>3, <2>4, <2>5, <2>6, <2>7, <2>8, <2>9, SyncMoves
<1>3. CASE /\ LawHappens("fail") /\ doc' = Upserted(r.doc, left.was) /\ UNCHANGED <<ver, archive>>
           /\ sync' = [left EXCEPT !.was = [sync.was EXCEPT ![r.doc] = NoDoc, ![Manual] = NoDoc],
                         !.hashes = IF r.doc \in Parts THEN [sync.hashes EXCEPT ![r.doc] = HashKept(r)] ELSE @]
  <2> DEFINE was    == [sync.was EXCEPT ![r.doc] = NoDoc, ![Manual] = NoDoc]
             hashes == IF r.doc \in Parts THEN [sync.hashes EXCEPT ![r.doc] = HashKept(r)] ELSE left.hashes
  <2>1. was \in [Docs -> DocRow]
    BY LawParts, SitesAre DEF SyncState, NoDoc, DocRow
  <2>2. HashKept(r) = NoEdition \/ (HashKept(r) \in Editions /\ HashKept(r) \in DOMAIN ver[r.doc])
    BY CurrentIs, EditionsAssumption DEF HashKept, Keys
  <2>3. hashes \in Manifests /\ \A p \in Parts : hashes[p] = NoEdition \/ hashes[p] \in DOMAIN ver[p]
    <3>1. sync.hashes \in Manifests /\ \A p \in Parts : sync.hashes[p] = NoEdition \/ sync.hashes[p] \in DOMAIN ver[p]
      BY <1>1 DEF SyncFits, SyncState
    <3> HIDE DEF SyncFits
    <3>2. CASE r.doc \in Parts
      BY <2>2, <3>1, <3>2 DEF Manifests
    <3>3. CASE r.doc \notin Parts
      BY <3>1, <3>3
    <3>4. QED
      BY <3>2, <3>3
  <2>4. sync' = [left EXCEPT !.was = was, !.hashes = hashes]
    BY <1>3 DEF SyncState
  <2> HIDE DEF was, hashes
  <2>5. sync' \in SyncState /\ sync'.at = left.at /\ sync'.hashes = hashes
    BY <2>1, <2>3, <2>4 DEF SyncState
  <2>6. /\ sync'.now = sync.now /\ sync'.full = sync.full /\ sync'.listed = sync.listed /\ sync'.before = sync.before
        /\ sync'.picks = sync.picks /\ sync'.page = sync.page
        /\ sync'.rows = left.rows /\ sync'.kids = left.kids /\ sync'.seen = left.seen
    BY <2>4 DEF SyncState
  <2>7. lawCount' \in [LawEvents \union {"any"} -> Nat]
    BY <1>3, LawParts, LawCounts DEF LawEvents
  <2>8. doc' \in [Docs -> DocRow]
    <3>1. left.was \in [Docs -> DocRow]
      BY DEF SyncState
    <3>2. QED
      BY <1>1, <1>3, <3>1, UpsertedIs, LawParts DEF StoreTyped
  <2>9. SiteTyped' /\ VersionsTyped' /\ StoreTyped' /\ HistoryIsOnFile'
    BY <1>3, <2>7, <2>8, LawParts DEF SiteTyped, VersionsTyped, StoreTyped, HistoryIsOnFile
  <2>10. (\A x \in sync'.page : x.doc \in Parts) /\ (\A x \in sync'.kids : x.doc \in Parts)
    BY <1>1, <2>6 DEF SyncFits
  <2>11. QED
    BY <1>3, <2>3, <2>5, <2>6, <2>9, <2>10, SyncMoves
<1>4. QED
  BY <1>2, <1>3 DEF Download

-----------------------------------------------------------------------------
(* A row, and a part's row, is taken from those that are left.             *)
LEMMA RowTaken ==
  ASSUME LawInv, NEW r \in sync.rows, NEW left, left = [Load(r.doc) EXCEPT !.rows = @ \ {r}]
  PROVE  /\ r \in ListingRows /\ r.doc \in Tops /\ r.doc \in Docs
         /\ left \in SyncState /\ left.rows = sync.rows \ {r} /\ left.was \in [Docs -> DocRow]
         /\ left.at = sync.at /\ left.now = sync.now /\ left.full = sync.full /\ left.listed = sync.listed
         /\ left.page = sync.page /\ left.kids = sync.kids /\ left.hashes = sync.hashes
         /\ left.before = sync.before /\ left.picks = sync.picks
         /\ sync.seen \subseteq left.seen /\ \A x \in sync.rows \ left.rows : x.doc \in left.seen
<1>1. sync \in SyncState /\ doc \in [Docs -> DocRow] /\ r.doc \in Tops
  BY LawParts DEF StoreTyped, SyncFits
<1>2. r \in ListingRows /\ r.doc \in Docs
  BY <1>1, SitesAre DEF SyncState
<1> DEFINE loaded == Load(r.doc)
<1>3. /\ loaded \in SyncState /\ loaded.was \in [Docs -> DocRow]
      /\ loaded.at = sync.at /\ loaded.now = sync.now /\ loaded.full = sync.full
      /\ loaded.listed = sync.listed /\ loaded.rows = sync.rows /\ loaded.page = sync.page
      /\ loaded.kids = sync.kids /\ loaded.hashes = sync.hashes
      /\ loaded.before = sync.before /\ loaded.picks = sync.picks
      /\ sync.seen \subseteq loaded.seen /\ r.doc \in loaded.seen
  BY <1>1, <1>2, LoadIs
<1>4. left = [loaded EXCEPT !.rows = loaded.rows \ {r}]
  BY DEF SyncState
<1> HIDE DEF loaded
<1>5. left \in SyncState /\ left.rows = sync.rows \ {r} /\ left.was = loaded.was
  BY <1>3, <1>4 DEF SyncState
<1>6. /\ left.at = sync.at /\ left.now = sync.now /\ left.full = sync.full /\ left.listed = sync.listed
      /\ left.page = sync.page /\ left.kids = sync.kids /\ left.hashes = sync.hashes
      /\ left.before = sync.before /\ left.picks = sync.picks /\ left.seen = loaded.seen
  BY <1>3, <1>4 DEF SyncState
<1>7. \A x \in sync.rows \ left.rows : x = r
  BY <1>5
<1>8. QED
  BY <1>1, <1>2, <1>3, <1>5, <1>6, <1>7

LEMMA PartTaken ==
  ASSUME LawInv, NEW r \in sync.kids, NEW left, left = [Load(r.doc) EXCEPT !.kids = @ \ {r}]
  PROVE  /\ r \in ListingRows /\ r.doc \in Parts /\ r.doc \in Hosted
         /\ left \in SyncState /\ left.kids = sync.kids \ {r} /\ left.rows = sync.rows
         /\ left.at = sync.at /\ left.now = sync.now /\ left.full = sync.full /\ left.listed = sync.listed
         /\ left.page = sync.page /\ left.hashes = sync.hashes
         /\ left.before = sync.before /\ left.picks = sync.picks /\ sync.seen \subseteq left.seen
<1>1. sync \in SyncState /\ doc \in [Docs -> DocRow] /\ r.doc \in Parts
  BY LawParts DEF StoreTyped, SyncFits
<1>2. r \in ListingRows /\ r.doc \in Docs /\ r.doc \in Hosted
  BY <1>1, SitesAre DEF SyncState
<1> DEFINE loaded == Load(r.doc)
<1>3. /\ loaded \in SyncState
      /\ loaded.at = sync.at /\ loaded.now = sync.now /\ loaded.full = sync.full
      /\ loaded.listed = sync.listed /\ loaded.rows = sync.rows /\ loaded.page = sync.page
      /\ loaded.kids = sync.kids /\ loaded.hashes = sync.hashes
      /\ loaded.before = sync.before /\ loaded.picks = sync.picks /\ sync.seen \subseteq loaded.seen
  BY <1>1, <1>2, LoadIs
<1>4. left = [loaded EXCEPT !.kids = loaded.kids \ {r}]
  BY DEF SyncState
<1> HIDE DEF loaded
<1>5. left \in SyncState /\ left.kids = sync.kids \ {r} /\ left.rows = sync.rows
  BY <1>3, <1>4 DEF SyncState
<1>6. /\ left.at = sync.at /\ left.now = sync.now /\ left.full = sync.full /\ left.listed = sync.listed
      /\ left.page = sync.page /\ left.hashes = sync.hashes
      /\ left.before = sync.before /\ left.picks = sync.picks /\ left.seen = loaded.seen
  BY <1>3, <1>4 DEF SyncState
<1>7. QED
  BY <1>1, <1>2, <1>3, <1>5, <1>6

LEMMA DownloadRowKeeps == ASSUME LawInv, DownloadRow PROVE LawInv'
<1>1. PICK r \in sync.rows :
        /\ sync.at = "rows" /\ r.doc \in Files /\ Download(r, [Load(r.doc) EXCEPT !.rows = @ \ {r}])
        /\ UNCHANGED <<site, clock, lost>>
  BY DEF DownloadRow
<1> DEFINE left == [Load(r.doc) EXCEPT !.rows = @ \ {r}]
<1>2. /\ r \in ListingRows
      /\ left \in SyncState /\ left.rows = sync.rows \ {r}
      /\ left.at = sync.at /\ left.now = sync.now /\ left.full = sync.full /\ left.listed = sync.listed
      /\ left.page = sync.page /\ left.kids = sync.kids /\ left.hashes = sync.hashes
      /\ left.before = sync.before /\ left.picks = sync.picks
      /\ sync.seen \subseteq left.seen /\ \A x \in sync.rows \ left.rows : x.doc \in left.seen
  BY RowTaken
<1>3. r.doc \in Hosted /\ Download(r, left)
  BY <1>1, SitesAre
<1> HIDE DEF left
<1>4. QED
  BY <1>1, <1>2, <1>3, DownloadKeeps

LEMMA DownloadPartKeeps == ASSUME LawInv, DownloadPart PROVE LawInv'
<1>1. PICK r \in sync.kids :
        /\ sync.at = "parts" /\ Download(r, [Load(r.doc) EXCEPT !.kids = @ \ {r}])
        /\ UNCHANGED <<site, clock, lost>>
  BY DEF DownloadPart
<1> DEFINE left == [Load(r.doc) EXCEPT !.kids = @ \ {r}]
<1>2. /\ r \in ListingRows /\ r.doc \in Hosted
      /\ left \in SyncState /\ left.kids = sync.kids \ {r} /\ left.rows = sync.rows
      /\ left.at = sync.at /\ left.now = sync.now /\ left.full = sync.full /\ left.listed = sync.listed
      /\ left.page = sync.page /\ left.hashes = sync.hashes
      /\ left.before = sync.before /\ left.picks = sync.picks /\ sync.seen \subseteq left.seen
  BY PartTaken
<1>3. Download(r, left)
  BY <1>1
<1> HIDE DEF left
<1>4. \A x \in sync.rows \ left.rows : x.doc \in left.seen
  BY <1>2
<1>5. QED
  BY <1>1, <1>2, <1>3, <1>4, DownloadKeeps

LEMMA OpenManualKeeps == ASSUME LawInv, OpenManual PROVE LawInv'
<1> DEFINE page == {x \in site : x.doc \in Parts}
<1>1. PICK r \in sync.rows :
        /\ sync.at = "rows" /\ r.doc = Manual
        /\ LET left == [Load(Manual) EXCEPT !.rows = @ \ {r}]
           IN \/ /\ page # {}
                 /\ sync' = [left EXCEPT !.at = "parts", !.kids = page, !.page = page]
                 /\ UNCHANGED <<doc, lawCount>>
              \/ /\ LawHappens("fail") /\ doc' = Upserted(Manual, left.was)
                 /\ sync' = [left EXCEPT !.was = [sync.was EXCEPT ![Manual] = NoDoc]]
        /\ UNCHANGED <<site, clock, ver, archive, lost>>
  BY DEF OpenManual
<1> DEFINE left == [Load(r.doc) EXCEPT !.rows = @ \ {r}]
<1>2. /\ left \in SyncState /\ left.rows = sync.rows \ {r} /\ left.was \in [Docs -> DocRow]
      /\ left.at = sync.at /\ left.now = sync.now /\ left.full = sync.full /\ left.listed = sync.listed
      /\ left.page = sync.page /\ left.kids = sync.kids /\ left.hashes = sync.hashes
      /\ left.before = sync.before /\ left.picks = sync.picks
      /\ sync.seen \subseteq left.seen /\ \A x \in sync.rows \ left.rows : x.doc \in left.seen
  BY RowTaken
<1>3. \/ /\ page # {}
         /\ sync' = [left EXCEPT !.at = "parts", !.kids = page, !.page = page]
         /\ UNCHANGED <<doc, lawCount>>
      \/ /\ LawHappens("fail") /\ doc' = Upserted(Manual, left.was)
         /\ sync' = [left EXCEPT !.was = [sync.was EXCEPT ![Manual] = NoDoc]]
  BY <1>1
<1>4. SyncFits(sync) /\ page \subseteq ListingRows /\ \A x \in page : x.doc \in Parts
  BY LawParts DEF SiteTyped
<1> HIDE DEF page, left
<1>5. VersionsTyped' /\ \A d \in Docs : DOMAIN ver[d] \subseteq DOMAIN ver'[d]
  BY <1>1, LawParts DEF VersionsTyped
<1>6. doc' \in [Docs -> DocRow] /\ lawCount' \in [LawEvents \union {"any"} -> Nat]
  BY <1>2, <1>3, UpsertedIs, SitesAre, LawParts, LawCounts DEF StoreTyped, LawEvents
<1>7. SiteTyped' /\ StoreTyped' /\ HistoryIsOnFile'
  BY <1>1, <1>6, LawParts DEF SiteTyped, StoreTyped, HistoryIsOnFile
<1>8. /\ sync' \in SyncState /\ sync'.at \in {"parts", "rows"}
      /\ sync'.now = sync.now /\ sync'.full = sync.full /\ sync'.listed = sync.listed /\ sync'.before = sync.before
      /\ sync'.picks = sync.picks /\ sync'.hashes = sync.hashes /\ sync'.rows = left.rows /\ sync'.seen = left.seen
      /\ (\A x \in sync'.page : x.doc \in Parts) /\ (\A x \in sync'.kids : x.doc \in Parts)
  <2>1. CASE sync' = [left EXCEPT !.at = "parts", !.kids = page, !.page = page]
    BY <1>2, <1>4, <2>1 DEF SyncState
  <2>2. CASE sync' = [left EXCEPT !.was = [sync.was EXCEPT ![Manual] = NoDoc]]
    <3> DEFINE was == [sync.was EXCEPT ![Manual] = NoDoc]
    <3>1. was \in [Docs -> DocRow]
      BY LawParts, SitesAre DEF SyncState, NoDoc, DocRow
    <3>2. (\A x \in sync.page : x.doc \in Parts) /\ (\A x \in sync.kids : x.doc \in Parts)
      BY <1>4 DEF SyncFits
    <3> HIDE DEF was
    <3>3. sync' = [left EXCEPT !.was = was]
      BY <2>2 DEF was
    <3>4. /\ sync' \in SyncState /\ sync'.at = left.at /\ sync'.now = sync.now /\ sync'.full = sync.full
          /\ sync'.listed = sync.listed /\ sync'.before = sync.before /\ sync'.picks = sync.picks
          /\ sync'.hashes = sync.hashes /\ sync'.rows = left.rows /\ sync'.seen = left.seen
          /\ sync'.page = sync.page /\ sync'.kids = sync.kids
      BY <1>2, <3>1, <3>3 DEF SyncState
    <3>5. QED
      BY <1>1, <1>2, <3>2, <3>4
  <2>3. QED
    BY <1>3, <2>1, <2>2
<1>9. \A p \in Parts : sync'.hashes[p] = NoEdition \/ sync'.hashes[p] \in DOMAIN ver'[p]
  BY <1>1, <1>4, <1>8 DEF SyncFits
<1>10. sync'.at # "flush" /\ sync'.at \notin {"got", "look"} /\ sync'.rows \subseteq sync.rows
  BY <1>2, <1>8
<1>11. QED
  BY <1>1, <1>2, <1>5, <1>7, <1>8, <1>9, <1>10, SyncMoves

LEMMA LookUpKeeps == ASSUME LawInv, LookUp PROVE LawInv'
<1> DEFINE known == sync.got \in DOMAIN ver[sync.row.doc]
<1>1. /\ sync.at = "got" /\ sync' = [sync EXCEPT !.at = "look", !.known = known]
      /\ UNCHANGED <<site, clock, doc, ver, archive, lost, lawCount>>
  BY DEF LookUp, lawRows
<1>2. SyncFits(sync) /\ known \in BOOLEAN /\ sync \in SyncState
  BY LawParts
<1>3. /\ sync.row \in ListingRows /\ sync.row.doc \in Hosted /\ sync.got \in Editions /\ OnFile(sync.row.doc, sync.got)
      /\ known => sync.got \in DOMAIN ver[sync.row.doc]
  BY <1>1, <1>2 DEF SyncFits
<1> HIDE DEF known
<1>4. /\ sync' \in SyncState /\ sync'.at = "look" /\ sync'.known = known /\ sync'.row = sync.row /\ sync'.got = sync.got
      /\ sync'.now = sync.now /\ sync'.full = sync.full /\ sync'.listed = sync.listed /\ sync'.before = sync.before
      /\ sync'.picks = sync.picks /\ sync'.hashes = sync.hashes /\ sync'.rows = sync.rows /\ sync'.seen = sync.seen
      /\ sync'.page = sync.page /\ sync'.kids = sync.kids
  BY <1>1, <1>2 DEF SyncState
<1>5. VersionsTyped' /\ SiteTyped' /\ StoreTyped' /\ HistoryIsOnFile'
  BY <1>1, LawParts DEF VersionsTyped, SiteTyped, StoreTyped, HistoryIsOnFile
<1>6. OnFile(sync.row.doc, sync.got)' /\ (known => sync'.got \in DOMAIN ver'[sync'.row.doc])
  BY <1>1, <1>3, <1>4 DEF OnFile
<1>7. /\ \A p \in Parts : sync'.hashes[p] = NoEdition \/ sync'.hashes[p] \in DOMAIN ver'[p]
      /\ (\A x \in sync'.page : x.doc \in Parts) /\ (\A x \in sync'.kids : x.doc \in Parts)
  BY <1>1, <1>2, <1>4 DEF SyncFits
<1>8. QED
  BY <1>1, <1>3, <1>4, <1>5, <1>6, <1>7, SyncMoves DEF OnFile

-----------------------------------------------------------------------------
(* A captured text, and a manifest, are added to the versions of their     *)
(* document, or are there already: nothing leaves, and no date but that of *)
(* the captured text changes.                                              *)
NoVersionLeaves == \A d \in Docs : DOMAIN ver[d] \subseteq DOMAIN ver'[d]

LEMMA CapturedIs ==
  ASSUME LawInv, NEW d \in Docs, NEW e \in Keys, NEW vs, ver' = [ver EXCEPT ![d] = vs],
         vs \in VersionsOf(DOMAIN ver[d] \union {e})
  PROVE  VersionsTyped' /\ NoVersionLeaves /\ e \in DOMAIN ver'[d] /\ DOMAIN ver'[d] = DOMAIN ver[d] \union {e}
         /\ ver'[d] = vs /\ \A x \in Docs : x # d => ver'[x] = ver[x]
<1>1. VersionsTyped
  BY LawParts
<1>2. ver'[d] = vs /\ (\A x \in Docs : x # d => ver'[x] = ver[x]) /\ ver' = [x \in Docs |-> ver'[x]]
  BY <1>1 DEF VersionsTyped
<1>3. DOMAIN ver'[d] = DOMAIN ver[d] \union {e}
  BY <1>2 DEF VersionsOf
<1>4. IsFiniteSet(DOMAIN ver[d] \union {e})
  BY <1>1, FS_AddElement DEF VersionsTyped
<1>5. VersionsTyped'
  BY <1>1, <1>2, <1>3, <1>4 DEF VersionsTyped, VersionsOf
<1>6. NoVersionLeaves
  BY <1>2, <1>3 DEF NoVersionLeaves
<1>7. QED
  BY <1>2, <1>3, <1>5, <1>6

LEMMA FirstIs ==
  ASSUME LawInv, NEW d \in Docs, NEW t \in Dates \union {0}
  PROVE  [source |-> "live", pinned |-> FALSE, inforce |-> FALSE, from |-> t,
          first |-> Cardinality(DOMAIN ver[d])] \in VersionRow
<1>1. Cardinality(DOMAIN ver[d]) \in Nat
  BY LawParts, FS_CardinalityType DEF VersionsTyped
<1>2. QED
  BY <1>1 DEF VersionRow

LEMMA CaptureKeeps == ASSUME LawInv, Capture PROVE LawInv'
<1> DEFINE d     == sync.row.doc
           e     == sync.got
           vs    == ver[d]
           row   == [source |-> "live", pinned |-> FALSE, inforce |-> FALSE,
                     from |-> sync.row.from, first |-> Cardinality(DOMAIN vs)]
           next  == IF sync.known THEN [vs EXCEPT ![e].from = sync.row.from] ELSE Add(vs, e, row)
           taken == (~sync.known /\ e \in DOMAIN vs) \/ (~sync.was[d].held /\ doc[d].held)
           was    == [sync.was EXCEPT ![d] = NoDoc, ![Manual] = NoDoc]
           hashes == IF d \in Parts THEN [sync.hashes EXCEPT ![d] = e] ELSE sync.hashes
           obs    == [sync.obs EXCEPT ![d] = sync.obs[d] \union {e}]
<1>1. /\ sync.at = "look" /\ UNCHANGED <<site, clock, archive, lost, lawCount>>
      /\ IF taken THEN sync' = NoSync /\ UNCHANGED <<doc, ver>>
         ELSE /\ ver' = [ver EXCEPT ![d] = next] /\ doc' = Upserted(d, sync.was)
              /\ sync' = [sync EXCEPT !.at = IF d \in Parts THEN "parts" ELSE "rows",
                            !.row = NoEdition, !.got = NoEdition, !.known = FALSE, !.was = was,
                            !.hashes = hashes, !.obs = obs]
  BY DEF Capture, lawRows
<1>2. /\ sync.row \in ListingRows /\ d \in Hosted /\ d \in Docs /\ e \in Editions /\ e \in Keys /\ OnFile(d, e)
      /\ sync.known => e \in DOMAIN vs
  BY <1>1, LawParts, SitesAre DEF SyncFits, Keys
<1>3. SyncFits(sync) /\ sync \in SyncState /\ sync.row.from \in Dates \union {0}
  BY <1>2, LawParts DEF ListingRows
<1>4. CASE taken
  <2>1. VersionsTyped' /\ SiteTyped' /\ StoreTyped' /\ HistoryIsOnFile'
    BY <1>1, <1>4, LawParts DEF VersionsTyped, SiteTyped, StoreTyped, HistoryIsOnFile
  <2>2. QED
    BY <1>1, <1>4, <2>1, SyncIsOver
<1>5. CASE ~taken
  <2>1. next \in VersionsOf(DOMAIN vs \union {e})
    <3>1. vs \in VersionsOf(DOMAIN vs)
      BY <1>2, LawParts DEF VersionsTyped
    <3>2. CASE sync.known
      <4>1. \A x \in DOMAIN vs : vs[x] \in VersionRow /\ [vs[x] EXCEPT !.from = sync.row.from] \in VersionRow
        BY <1>3, <3>1 DEF VersionsOf, VersionRow
      <4>2. DOMAIN vs \union {e} = DOMAIN vs
        BY <1>2, <3>2
      <4>3. next = [x \in DOMAIN vs |-> IF x = e THEN [vs[x] EXCEPT !.from = sync.row.from] ELSE vs[x]]
        BY <1>2, <3>1, <3>2 DEF VersionsOf
      <4>4. QED
        BY <4>1, <4>2, <4>3 DEF VersionsOf
    <3>3. CASE ~sync.known
      <4>1. row \in VersionRow
        BY <1>2, <1>3, FirstIs
      <4> HIDE DEF row
      <4>2. Add(vs, e, row) \in VersionsOf(DOMAIN vs \union {e})
        BY <3>1, <4>1, AddIs
      <4>3. QED
        BY <3>3, <4>2
    <3>4. QED
      BY <3>2, <3>3
  <2>2. /\ was \in [Docs -> DocRow] /\ sync.was \in [Docs -> DocRow] /\ obs \in [Docs -> SUBSET Keys]
        /\ hashes \in Manifests
    BY <1>2, <1>3, SitesAre DEF SyncState, NoDoc, DocRow, Manifests
  <2> HIDE DEF next, was, hashes, obs
  <2>3. /\ VersionsTyped' /\ NoVersionLeaves /\ e \in DOMAIN ver'[d] /\ DOMAIN ver'[d] = DOMAIN vs \union {e}
        /\ \A x \in Docs : x # d => ver'[x] = ver[x]
    BY <1>1, <1>2, <1>5, <2>1, CapturedIs
  <2>4. doc' \in [Docs -> DocRow]
    BY <1>1, <1>2, <1>5, <2>2, UpsertedIs, LawParts DEF StoreTyped
  <2>5. SiteTyped' /\ StoreTyped'
    BY <1>1, <2>4, LawParts DEF SiteTyped, StoreTyped
  <2>6. HistoryIsOnFile'
    <3>1. HistoryIsOnFile /\ d # Manual
      BY <1>2, SitesAre, LawParts
    <3>2. ASSUME NEW x \in Hosted PROVE DOMAIN ver'[x] \subseteq archive'[x] \union lost'[x]
      BY <1>1, <1>2, <2>3, <3>1, SitesAre DEF HistoryIsOnFile, OnFile
    <3>3. ver'[Manual] = ver[Manual] /\ \A p \in Parts : DOMAIN ver[p] \subseteq DOMAIN ver'[p]
      BY <2>3, <3>1, SitesAre DEF NoVersionLeaves
    <3>4. QED
      BY <3>1, <3>2, <3>3 DEF HistoryIsOnFile
  <2>7. sync' = [sync EXCEPT !.at = IF d \in Parts THEN "parts" ELSE "rows",
                   !.row = NoEdition, !.got = NoEdition, !.known = FALSE, !.was = was,
                   !.hashes = hashes, !.obs = obs]
    BY <1>1, <1>5
  <2>8. /\ sync' \in SyncState /\ sync'.at \in {"parts", "rows"} /\ sync'.hashes = hashes
        /\ sync'.now = sync.now /\ sync'.full = sync.full /\ sync'.listed = sync.listed /\ sync'.before = sync.before
        /\ sync'.picks = sync.picks /\ sync'.rows = sync.rows /\ sync'.seen = sync.seen
        /\ sync'.page = sync.page /\ sync'.kids = sync.kids
    BY <1>3, <2>2, <2>7 DEF SyncState
  <2>9. \A p \in Parts : hashes[p] = NoEdition \/ hashes[p] \in DOMAIN ver'[p]
    <3>1. \A p \in Parts : sync.hashes[p] = NoEdition \/ sync.hashes[p] \in DOMAIN ver'[p]
      BY <1>3, <2>3, SitesAre DEF SyncFits, NoVersionLeaves
    <3>2. sync.hashes \in Manifests
      BY <1>3 DEF SyncState
    <3>3. QED
      BY <2>3, <3>1, <3>2 DEF hashes, Manifests
  <2>10. (\A x \in sync'.page : x.doc \in Parts) /\ (\A x \in sync'.kids : x.doc \in Parts)
    BY <1>3, <2>8 DEF SyncFits
  <2>11. QED
    BY <1>1, <2>3, <2>5, <2>6, <2>8, <2>9, <2>10, SyncMoves DEF NoVersionLeaves
<1>6. QED
  BY <1>4, <1>5

LEMMA WriteManifestKeeps == ASSUME LawInv, WriteManifest PROVE LawInv'
<1> DEFINE vs   == ver[Manual]
           m    == sync.hashes
           row  == [source |-> "live", pinned |-> FALSE, inforce |-> FALSE, from |-> 0, first |-> Cardinality(DOMAIN vs)]
           gone == {p \in Parts : doc[p].held /\ ~doc[p].out /\ doc[p].origin = "sbp_listing"}
                     \ {r.doc : r \in sync.page}
           was  == [sync.was EXCEPT ![Manual] = NoDoc]
           obs  == [sync.obs EXCEPT ![Manual] = sync.obs[Manual] \union {m}]
           page == {}
<1>1. /\ sync.at = "parts" /\ sync.kids = {} /\ UNCHANGED <<site, clock, archive, lost, lawCount>>
      /\ ver' = IF m \in DOMAIN vs THEN ver ELSE [ver EXCEPT ![Manual] = Add(vs, m, row)]
      /\ doc' = [d \in Docs |-> IF d \in gone THEN [doc[d] EXCEPT !.out = TRUE] ELSE Upserted(Manual, sync.was)[d]]
      /\ sync' = [sync EXCEPT !.at = "rows", !.was = was, !.obs = obs, !.page = page]
  BY DEF WriteManifest
<1>2. SyncFits(sync) /\ sync \in SyncState /\ m \in Manifests /\ m \in Keys /\ Manual \in Docs
  <2>1. SyncFits(sync) /\ sync \in SyncState /\ Manual \in Docs
    BY LawParts, SitesAre
  <2>2. m \in Manifests
    BY <2>1 DEF SyncState
  <2>3. QED
    BY <2>1, <2>2 DEF Keys
<1>3. /\ was \in [Docs -> DocRow] /\ sync.was \in [Docs -> DocRow] /\ obs \in [Docs -> SUBSET Keys]
  BY <1>2 DEF SyncState, NoDoc, DocRow
<1>4. page \subseteq ListingRows
  OBVIOUS
<1> HIDE DEF was, obs, page
<1>5. /\ VersionsTyped' /\ NoVersionLeaves /\ \A x \in Docs : x # Manual => ver'[x] = ver[x]
      /\ DOMAIN ver'[Manual] = DOMAIN vs \union {m}
  <2>1. CASE m \in DOMAIN vs
    BY <1>1, <2>1, LawParts DEF VersionsTyped, NoVersionLeaves
  <2>2. CASE m \notin DOMAIN vs
    <3>1. row \in VersionRow
      BY <1>2, FirstIs
    <3> HIDE DEF row
    <3>2. Add(vs, m, row) \in VersionsOf(DOMAIN vs \union {m})
      BY <1>2, <3>1, AddIs, LawParts DEF VersionsTyped
    <3>3. ver' = [ver EXCEPT ![Manual] = Add(vs, m, row)]
      BY <1>1, <2>2
    <3>4. QED
      BY <1>2, <3>2, <3>3, CapturedIs
  <2>3. QED
    BY <2>1, <2>2
<1>6. doc' \in [Docs -> DocRow]
  <2>1. Upserted(Manual, sync.was) \in [Docs -> DocRow] /\ doc \in [Docs -> DocRow]
    BY <1>2, <1>3, UpsertedIs, LawParts DEF StoreTyped
  <2>2. \A d \in Docs : [doc[d] EXCEPT !.out = TRUE] \in DocRow
    BY <2>1 DEF DocRow
  <2>3. QED
    BY <1>1, <2>1, <2>2
<1>7. SiteTyped' /\ StoreTyped'
  BY <1>1, <1>6, LawParts DEF SiteTyped, StoreTyped
<1>8. HistoryIsOnFile'
  <2>1. HistoryIsOnFile
    BY LawParts
  <2>2. \A p \in Hosted : ver'[p] = ver[p]
    BY <1>5, SitesAre
  <2>3. ASSUME NEW x \in DOMAIN ver'[Manual], NEW p \in Parts PROVE x[p] = NoEdition \/ x[p] \in DOMAIN ver'[p]
    <3>1. x \in DOMAIN vs \/ x = m
      BY <1>5
    <3>2. ver'[p] = ver[p]
      BY <2>2, SitesAre
    <3>3. m[p] = NoEdition \/ m[p] \in DOMAIN ver[p]
      BY <1>2 DEF SyncFits
    <3>4. QED
      BY <2>1, <3>1, <3>2, <3>3 DEF HistoryIsOnFile
  <2>4. QED
    BY <1>1, <2>1, <2>2, <2>3 DEF HistoryIsOnFile
<1>9. /\ sync' \in SyncState /\ sync'.at = "rows" /\ sync'.hashes = sync.hashes /\ sync'.page = page
      /\ sync'.now = sync.now /\ sync'.full = sync.full /\ sync'.listed = sync.listed /\ sync'.before = sync.before
      /\ sync'.picks = sync.picks /\ sync'.rows = sync.rows /\ sync'.seen = sync.seen /\ sync'.kids = sync.kids
  BY <1>1, <1>2, <1>3, <1>4 DEF SyncState
<1>10. \A p \in Parts : sync'.hashes[p] = NoEdition \/ sync'.hashes[p] \in DOMAIN ver'[p]
  BY <1>2, <1>5, <1>9, SitesAre DEF SyncFits, NoVersionLeaves
<1>11. (\A x \in sync'.page : x.doc \in Parts) /\ (\A x \in sync'.kids : x.doc \in Parts)
  BY <1>2, <1>9 DEF SyncFits, page
<1>12. QED
  BY <1>1, <1>5, <1>7, <1>8, <1>9, <1>10, <1>11, SyncMoves DEF NoVersionLeaves

-----------------------------------------------------------------------------
(* The decisions.                                                          *)
LEMMA SelectKeeps == ASSUME LawInv, Select PROVE LawInv'
<1>1. PICK chosen \in [sync.touched -> Keys \union {NoEdition}] :
        /\ \A d \in sync.touched : chosen[d] \in Winners(ver[d], sync.obs[d], sync.now)
        /\ sync' = [sync EXCEPT !.at = "flush",
                     !.picks = [d \in Docs |-> IF d \in sync.touched THEN chosen[d] ELSE NoEdition],
                     !.obs = NoSync.obs, !.before = [d \in Docs |-> InForce(ver[d])]]
  BY DEF Select
<1>2. sync.at = "rows" /\ sync.rows = {} /\ UNCHANGED <<site, clock, doc, ver, archive, lost, lawCount>>
  BY DEF Select, lawRows
<1>3. /\ SyncFits(sync) /\ sync \in SyncState /\ VersionsTyped /\ clock \in Nat
      /\ sync.touched \subseteq Docs /\ sync.now \in Nat /\ sync.now <= clock
  BY LawParts DEF SyncFits, SyncState
<1> DEFINE picks  == [d \in Docs |-> IF d \in sync.touched THEN chosen[d] ELSE NoEdition]
           obs    == NoSync.obs
           before == [d \in Docs |-> InForce(ver[d])]
<1>4. \A d \in Docs : before[d] = {k \in DOMAIN ver[d] : ver[d][k].inforce}
  BY DEF InForce
<1>5. before \in [Docs -> SUBSET Keys]
  BY <1>3, <1>4 DEF VersionsTyped
<1>6. picks \in [Docs -> Keys \union {NoEdition}]
  BY <1>1, <1>3
<1>7. obs \in [Docs -> SUBSET Keys]
  BY NoSyncIs DEF SyncState
<1>8. \A d \in sync.touched : \/ picks[d] \in DOMAIN ver[d]
                              \/ picks[d] = NoEdition /\ \A x \in DOMAIN ver[d] : ~(ver[d][x].from <= sync.now)
  <2> SUFFICES ASSUME NEW d \in sync.touched
               PROVE  \/ picks[d] \in DOMAIN ver[d]
                      \/ picks[d] = NoEdition /\ \A x \in DOMAIN ver[d] : ~(ver[d][x].from <= sync.now)
    OBVIOUS
  <2>1. d \in Docs /\ picks[d] = chosen[d]
    BY <1>3
  <2>2. ver[d] \in VersionsOf(DOMAIN ver[d]) /\ chosen[d] \in Winners(ver[d], sync.obs[d], sync.now)
    BY <1>1, <1>3, <2>1 DEF VersionsTyped
  <2> HIDE DEF picks, obs, before
  <2>3. QED
    BY <1>3, <2>1, <2>2, WinnersAre
<1>9. \A d \in Docs : d \notin sync.touched => picks[d] = NoEdition
  OBVIOUS
<1>10. sync' = [sync EXCEPT !.at = "flush", !.picks = picks, !.obs = obs, !.before = before]
  BY <1>1
<1> HIDE DEF picks, obs, before
<1>11. /\ sync' \in SyncState /\ sync'.at = "flush" /\ sync'.picks = picks /\ sync'.before = before
       /\ sync'.touched = sync.touched /\ sync'.rows = sync.rows /\ sync'.hashes = sync.hashes
       /\ sync'.now = sync.now /\ sync'.full = sync.full /\ sync'.listed = sync.listed /\ sync'.seen = sync.seen
       /\ sync'.page = sync.page /\ sync'.kids = sync.kids
  BY <1>3, <1>5, <1>6, <1>7, <1>10 DEF SyncState
<1>12. VersionsTyped' /\ SiteTyped' /\ StoreTyped' /\ HistoryIsOnFile'
  BY <1>2, LawParts DEF VersionsTyped, SiteTyped, StoreTyped, HistoryIsOnFile
<1>13. SyncFits(sync)'
  <2>1. \A d \in Docs : /\ before[d] \subseteq DOMAIN ver'[d]
                        /\ picks[d] # NoEdition => picks[d] \in DOMAIN ver'[d]
    BY <1>2, <1>4, <1>8, <1>9
  <2>2. \A p \in Parts : sync'.hashes[p] = NoEdition \/ sync'.hashes[p] \in DOMAIN ver'[p]
    BY <1>2, <1>3, <1>11 DEF SyncFits
  <2>3. /\ sync'.now <= clock' /\ sync'.listed \subseteq Tops /\ sync'.rows = {}
        /\ (\A r \in sync'.page : r.doc \in Parts) /\ (\A r \in sync'.kids : r.doc \in Parts)
        /\ sync'.full => sync'.listed \subseteq sync'.seen \union {r.doc : r \in sync'.rows}
    BY <1>2, <1>3, <1>11 DEF SyncFits
  <2>4. sync'.at \notin {"got", "look"} /\ \A r \in sync'.rows : r.doc \in Tops
    BY <1>11, <2>3
  <2>5. QED
    BY <1>11, <2>1, <2>2, <2>3, <2>4 DEF SyncFits
<1>14. FlushFits(sync)'
  <2> SUFFICES ASSUME NEW d \in sync.touched, picks[d] = NoEdition
               PROVE  /\ \A k \in before[d] : ~(ver[d][k].from <= sync.now)
                      /\ ~\E k \in DOMAIN ver[d] : ver[d][k].from = 0
    BY <1>2, <1>11 DEF FlushFits
  <2>1. d \in Docs /\ NoEdition \notin DOMAIN ver[d]
    BY <1>3, EditionsAssumption DEF VersionsTyped
  <2>2. \A x \in DOMAIN ver[d] : ~(ver[d][x].from <= sync.now)
    BY <1>8, <2>1
  <2>3. 0 <= sync.now
    BY <1>3
  <2>4. QED
    BY <1>4, <2>1, <2>2, <2>3
<1>15. QED
  BY <1>12, <1>13, <1>14 DEF LawInv

(* A decision is written to the versions it changes.                       *)
LEMMA FlushIs ==
  ASSUME LawInv, Flush
  PROVE  /\ sync' = NoSync /\ UNCHANGED <<site, clock, archive, lost, lawCount>>
         /\ doc' = [d \in Docs |-> IF d \in Unseen THEN [doc[d] EXCEPT !.out = TRUE] ELSE doc[d]]
         /\ ver' = [d \in Docs |-> ver'[d]]
         /\ \A d \in Docs : /\ ver'[d] \in VersionsOf(DOMAIN ver[d]) /\ DOMAIN ver'[d] = DOMAIN ver[d]
                            /\ d \notin sync.touched => ver'[d] = ver[d]
                            /\ d \in sync.touched => \A k \in DOMAIN ver[d] :
                                 ver'[d][k].inforce = IF (k = sync.picks[d]) # (k \in sync.before[d])
                                                      THEN k = sync.picks[d] ELSE ver[d][k].inforce
<1> DEFINE decided(d, k) == IF (k = sync.picks[d]) # (k \in sync.before[d]) THEN k = sync.picks[d] ELSE ver[d][k].inforce
<1>1. ver' = [d \in Docs |-> IF d \notin sync.touched THEN ver[d]
                ELSE [k \in DOMAIN ver[d] |-> [ver[d][k] EXCEPT !.inforce = decided(d, k)]]]
  BY DEF Flush, Flushed
<1>2. \A d \in Docs : \A k \in DOMAIN ver[d] : ver[d][k] \in VersionRow /\ decided(d, k) \in BOOLEAN
  BY LawParts DEF VersionsTyped, VersionsOf, VersionRow
<1> HIDE DEF decided
<1>3. \A d \in Docs : \A k \in DOMAIN ver[d] : /\ [ver[d][k] EXCEPT !.inforce = decided(d, k)] \in VersionRow
                                           /\ [ver[d][k] EXCEPT !.inforce = decided(d, k)].inforce = decided(d, k)
  BY <1>2 DEF VersionRow
<1>4. \A d \in Docs : /\ ver'[d] \in VersionsOf(DOMAIN ver[d])
                      /\ d \notin sync.touched => ver'[d] = ver[d]
                      /\ d \in sync.touched => \A k \in DOMAIN ver[d] : ver'[d][k].inforce = decided(d, k)
  <2> SUFFICES ASSUME NEW d \in Docs
               PROVE  /\ ver'[d] \in VersionsOf(DOMAIN ver[d])
                      /\ d \notin sync.touched => ver'[d] = ver[d]
                      /\ d \in sync.touched => \A k \in DOMAIN ver[d] : ver'[d][k].inforce = decided(d, k)
    OBVIOUS
  <2>1. CASE d \notin sync.touched
    BY <1>1, <2>1, LawParts DEF VersionsTyped
  <2>2. CASE d \in sync.touched
    <3>1. ver'[d] = [k \in DOMAIN ver[d] |-> [ver[d][k] EXCEPT !.inforce = decided(d, k)]]
      BY <1>1, <2>2
    <3>2. QED
      BY <1>3, <2>2, <3>1 DEF VersionsOf
  <2>3. QED
    BY <2>1, <2>2
<1>5. ver' = [d \in Docs |-> ver'[d]] /\ \A d \in Docs : DOMAIN ver'[d] = DOMAIN ver[d]
  BY <1>1, <1>4 DEF VersionsOf
<1>6. /\ sync' = NoSync /\ UNCHANGED <<site, clock, archive, lost, lawCount>>
      /\ doc' = [d \in Docs |-> IF d \in Unseen THEN [doc[d] EXCEPT !.out = TRUE] ELSE doc[d]]
  BY DEF Flush
<1>7. QED
  BY <1>4, <1>5, <1>6 DEF decided

LEMMA FlushKeeps == ASSUME LawInv, Flush PROVE LawInv'
<1>1. /\ sync' = NoSync /\ UNCHANGED <<site, clock, archive, lost, lawCount>>
      /\ doc' = [d \in Docs |-> IF d \in Unseen THEN [doc[d] EXCEPT !.out = TRUE] ELSE doc[d]]
      /\ ver' = [d \in Docs |-> ver'[d]]
      /\ \A d \in Docs : ver'[d] \in VersionsOf(DOMAIN ver[d]) /\ DOMAIN ver'[d] = DOMAIN ver[d]
  BY FlushIs
<1>2. VersionsTyped'
  BY <1>1, LawParts DEF VersionsTyped
<1>3. doc' \in [Docs -> DocRow]
  <2>1. doc \in [Docs -> DocRow]
    BY LawParts DEF StoreTyped
  <2>2. \A d \in Docs : [doc[d] EXCEPT !.out = TRUE] \in DocRow
    BY <2>1 DEF DocRow
  <2>3. QED
    BY <1>1, <2>1, <2>2
<1>4. SiteTyped' /\ StoreTyped' /\ HistoryIsOnFile'
  BY <1>1, <1>3, LawParts, SitesAre DEF SiteTyped, StoreTyped, HistoryIsOnFile
<1>5. QED
  BY <1>1, <1>2, <1>4, SyncIsOver

(* Requests keep what they have in hand while the catalogue grows.         *)
LEMMA RequestsStillFit ==
  ASSUME RequestsFit, UNCHANGED requests, clock \in Nat, clock' \in Nat, clock <= clock',
         \A d \in Hosted : \A e : OnFile(d, e) => OnFile(d, e)'
  PROVE  RequestsFit'
<1>1. \A u \in uploads : u.doc \in Hosted
  BY SitesAre DEF RequestsFit, UploadState
<1>2. \A u \in unpins : UnpinFits(u)'
  <2> SUFFICES ASSUME NEW u \in unpins PROVE UnpinFits(u)'
    OBVIOUS
  <2>1. UnpinFits(u)
    BY DEF RequestsFit
  <2>2. ASSUME u.pick \in DOMAIN u.saw, u.saw[u.pick].from <= clock PROVE u.saw[u.pick].from <= clock'
    <3>1. u.saw[u.pick].from \in Nat
      <4>1. u.saw \in [DOMAIN u.saw -> VersionRow]
        BY <2>1 DEF UnpinFits, VersionsOf
      <4>2. u.saw[u.pick] \in VersionRow
        BY <2>2, <4>1
      <4>3. u.saw[u.pick].from \in Dates \union {0}
        BY <4>2 DEF VersionRow
      <4>4. \A x \in Dates \union {0} : x \in Nat
        BY DatesAssumption
      <4>5. QED
        BY <4>3, <4>4
    <3>2. QED
      BY <2>2, <3>1
  <2>3. QED
    BY <2>1, <2>2 DEF UnpinFits
<1>3. QED
  BY <1>1, <1>2 DEF RequestsFit, OnFile, requests

LEMMA CheckUploadKeeps == ASSUME CatalogueInv, CheckUpload PROVE CatalogueInv'
<1>1. PICK d \in Files, e \in Editions, t \in Dates \union {0}, pin \in BOOLEAN :
        uploads' = uploads \union {[at |-> "checked", doc |-> d, text |-> e, from |-> t, pin |-> pin, new |-> FALSE]}
  BY DEF CheckUpload
<1>2. LawHappens("upload") /\ UNCHANGED <<site, clock, doc, ver, archive, lost, sync, unpins, overtaken>>
  BY DEF CheckUpload, lawRows
<1>3. LawInv
  BY DEF CatalogueInv
<1>4. lawCount' \in [LawEvents \union {"any"} -> Nat]
  BY <1>2, <1>3, LawParts, LawCounts DEF LawEvents
<1>5. SiteTyped' /\ StoreTyped' /\ clock <= clock'
  BY <1>2, <1>3, <1>4, LawParts DEF SiteTyped, StoreTyped
<1>6. LawInv'
  BY <1>2, <1>3, <1>5, VersionsRest DEF OnFile
<1>7. RequestsFit'
  <2> DEFINE u == [at |-> "checked", doc |-> d, text |-> e, from |-> t, pin |-> pin, new |-> FALSE]
  <2>1. u \in UploadState /\ u.at = "checked"
    BY DEF UploadState
  <2> HIDE DEF u
  <2>2. uploads' = uploads \union {u} /\ RequestsFit
    BY <1>1 DEF u, CatalogueInv
  <2>3. QED
    BY <1>2, <2>1, <2>2 DEF RequestsFit, UnpinFits, OnFile
<1>8. QED
  BY <1>6, <1>7 DEF CatalogueInv

LEMMA StoreUploadKeeps == ASSUME CatalogueInv, StoreUpload PROVE CatalogueInv'
<1>1. PICK u \in uploads :
        /\ archive' = [archive EXCEPT ![u.doc] = @ \union {u.text}]
        /\ uploads' = (uploads \ {u}) \union {[u EXCEPT !.at = "stored", !.new = ~doc[u.doc].held]}
  BY DEF StoreUpload
<1>2. UNCHANGED <<site, clock, doc, ver, lost, sync, unpins, overtaken, lawCount>>
  BY DEF StoreUpload, lawRows
<1>3. LawInv /\ RequestsFit
  BY DEF CatalogueInv
<1>4. u \in UploadState /\ u.doc \in Hosted /\ u.doc \in Docs /\ u.text \in Editions
  BY <1>3, SitesAre DEF RequestsFit, UploadState
<1>5. doc[u.doc].held \in BOOLEAN
  BY <1>3, <1>4, LawParts DEF StoreTyped, DocRow
<1>6. /\ [u EXCEPT !.at = "stored", !.new = ~doc[u.doc].held] \in UploadState
      /\ [u EXCEPT !.at = "stored", !.new = ~doc[u.doc].held].doc = u.doc
      /\ [u EXCEPT !.at = "stored", !.new = ~doc[u.doc].held].text = u.text
  BY <1>4, <1>5 DEF UploadState
<1>7. SiteTyped' /\ StoreTyped' /\ clock <= clock'
  BY <1>1, <1>2, <1>3, <1>4, LawParts DEF SiteTyped, StoreTyped
<1>8. (\A x \in Hosted : \A f : OnFile(x, f) => OnFile(x, f)') /\ OnFile(u.doc, u.text)'
  BY <1>1, <1>2, <1>3, <1>4, LawParts DEF OnFile, StoreTyped
<1>9. LawInv'
  BY <1>2, <1>3, <1>7, <1>8, VersionsRest
<1>10. RequestsFit'
  <2>1. \A x \in uploads : x.at = "stored" => OnFile(x.doc, x.text)'
    BY <1>3, <1>8, SitesAre DEF RequestsFit, UploadState
  <2>2. uploads' \subseteq UploadState /\ \A x \in uploads' : x.at = "stored" => OnFile(x.doc, x.text)'
    BY <1>1, <1>3, <1>6, <1>8, <2>1 DEF RequestsFit, OnFile
  <2>3. \A x \in unpins' : UnpinFits(x)'
    BY <1>2, <1>3 DEF RequestsFit, UnpinFits
  <2>4. QED
    BY <1>2, <1>3, <2>2, <2>3 DEF RequestsFit, OnFile
<1>11. QED
  BY <1>9, <1>10 DEF CatalogueInv

LEMMA UploadKeepsAll == ASSUME CatalogueInv, Upload PROVE CatalogueInv'
<1>1. LawInv /\ RequestsFit
  BY DEF CatalogueInv
<1>2. LawInv'
  BY <1>1, UploadKeeps
<1>3. uploads' \subseteq uploads /\ UNCHANGED <<clock, archive, lost, unpins, overtaken>>
  BY DEF Upload
<1>4. RequestsFit'
  BY <1>1, <1>3 DEF RequestsFit, UnpinFits, OnFile
<1>5. QED
  BY <1>2, <1>4 DEF CatalogueInv

LEMMA DecideUnpinnedKeeps == ASSUME CatalogueInv, DecideUnpinned PROVE CatalogueInv'
<1>1. PICK d \in Docs : \E k \in Winners(ver[d], {}, clock) :
        unpins' = unpins \union {[doc |-> d, pick |-> k, saw |-> ver[d]]}
  BY DEF DecideUnpinned
<1>2. PICK k \in Winners(ver[d], {}, clock) : unpins' = unpins \union {[doc |-> d, pick |-> k, saw |-> ver[d]]}
  BY <1>1
<1>3. LawHappens("admin") /\ UNCHANGED <<site, clock, doc, ver, archive, lost, sync, uploads, overtaken>>
  BY DEF DecideUnpinned, lawRows
<1>4. LawInv /\ RequestsFit
  BY DEF CatalogueInv
<1>5. lawCount' \in [LawEvents \union {"any"} -> Nat]
  BY <1>3, <1>4, LawParts, LawCounts DEF LawEvents
<1>6. SiteTyped' /\ StoreTyped' /\ clock <= clock'
  BY <1>3, <1>4, <1>5, LawParts DEF SiteTyped, StoreTyped
<1>7. LawInv'
  BY <1>3, <1>4, <1>6, VersionsRest DEF OnFile
<1>8. ver[d] \in VersionsOf(DOMAIN ver[d]) /\ DOMAIN ver[d] \subseteq Keys /\ clock \in Nat
  BY <1>4, LawParts DEF VersionsTyped
<1>9. \/ k \in DOMAIN ver[d] /\ ver[d][k].from <= clock
      \/ k = NoEdition /\ \A x \in DOMAIN ver[d] : ~(ver[d][x].from <= clock)
  BY <1>2, <1>8, WinnersAre
<1>10. UnpinFits([doc |-> d, pick |-> k, saw |-> ver[d]])
  <2>1. \A x \in DOMAIN ver[d] : ~(ver[d][x].from <= clock) => ver[d][x].from # 0
    BY <1>8
  <2>2. QED
    BY <1>8, <1>9, <2>1 DEF UnpinFits
<1>11. RequestsFit'
  <2>1. \A u \in unpins' : UnpinFits(u)
    BY <1>2, <1>4, <1>10 DEF RequestsFit
  <2>2. QED
    BY <1>3, <1>4, <2>1 DEF RequestsFit, UnpinFits, OnFile
<1>12. QED
  BY <1>7, <1>11 DEF CatalogueInv

(* What an unpinning writes over what it read is its decision.             *)
LEMMA UnpinIs ==
  ASSUME LawInv, NEW u, UnpinFits(u), ver' = [ver EXCEPT ![u.doc] = Flushed(@, u.pick, InForce(u.saw))]
  PROVE  /\ ver' = [d \in Docs |-> ver'[d]] /\ \A d \in Docs : d # u.doc => ver'[d] = ver[d]
         /\ ver'[u.doc] \in VersionsOf(DOMAIN ver[u.doc]) /\ DOMAIN ver'[u.doc] = DOMAIN ver[u.doc]
         /\ \A k \in DOMAIN ver[u.doc] : ver'[u.doc][k].from = ver[u.doc][k].from
         /\ ver[u.doc] = u.saw => \A k \in DOMAIN ver[u.doc] : ver'[u.doc][k].inforce = (k = u.pick)
<1> DEFINE d == u.doc
           vs == ver[d]
           put(k) == IF (k = u.pick) # (k \in InForce(u.saw)) THEN k = u.pick ELSE vs[k].inforce
           row(k) == [vs[k] EXCEPT !.inforce = put(k)]
<1>1. d \in Docs /\ VersionsTyped /\ vs \in VersionsOf(DOMAIN vs)
  BY LawParts DEF UnpinFits, VersionsTyped
<1>2. ver'[d] = [k \in DOMAIN vs |-> row(k)]
  BY <1>1 DEF Flushed, VersionsTyped
<1>3. \A k \in DOMAIN vs : vs[k] \in VersionRow /\ put(k) \in BOOLEAN
  BY <1>1 DEF VersionsOf, VersionRow
<1>4. vs = u.saw => \A k \in DOMAIN vs : put(k) = (k = u.pick)
  <2>1. vs = u.saw => InForce(u.saw) = {k \in DOMAIN vs : vs[k].inforce}
    BY DEF InForce
  <2>2. QED
    BY <1>3, <2>1 DEF VersionRow
<1> HIDE DEF put
<1>5. \A k \in DOMAIN vs : row(k) \in VersionRow /\ row(k).inforce = put(k) /\ row(k).from = vs[k].from
  BY <1>3 DEF VersionRow
<1> HIDE DEF row
<1>6. ver'[d] \in VersionsOf(DOMAIN vs) /\ DOMAIN ver'[d] = DOMAIN vs
  BY <1>2, <1>5 DEF VersionsOf
<1>7. ver' = [x \in Docs |-> ver'[x]] /\ \A x \in Docs : x # d => ver'[x] = ver[x]
  BY <1>1 DEF VersionsTyped
<1>8. \A k \in DOMAIN vs : ver'[d][k].from = vs[k].from /\ (vs = u.saw => ver'[d][k].inforce = (k = u.pick))
  BY <1>2, <1>4, <1>5
<1>9. QED
  BY <1>6, <1>7, <1>8

LEMMA WriteUnpinnedKeeps == ASSUME CatalogueInv, WriteUnpinned PROVE CatalogueInv'
<1>1. PICK u \in unpins :
        /\ unpins' = unpins \ {u} /\ ver' = [ver EXCEPT ![u.doc] = Flushed(@, u.pick, InForce(u.saw))]
        /\ overtaken' = IF ver[u.doc] = u.saw THEN overtaken ELSE overtaken \union {u.doc}
  BY DEF WriteUnpinned
<1>2. UNCHANGED <<site, clock, doc, archive, lost, sync, uploads, lawCount>>
  BY DEF WriteUnpinned
<1>3. LawInv /\ RequestsFit /\ UnpinFits(u)
  BY DEF CatalogueInv, RequestsFit
<1>4. /\ ver' = [d \in Docs |-> ver'[d]] /\ \A d \in Docs : d # u.doc => ver'[d] = ver[d]
      /\ ver'[u.doc] \in VersionsOf(DOMAIN ver[u.doc]) /\ DOMAIN ver'[u.doc] = DOMAIN ver[u.doc]
      /\ \A k \in DOMAIN ver[u.doc] : ver'[u.doc][k].from = ver[u.doc][k].from
      /\ ver[u.doc] = u.saw => \A k \in DOMAIN ver[u.doc] : ver'[u.doc][k].inforce = (k = u.pick)
  BY <1>1, <1>3, UnpinIs
<1>5. VersionsTyped' /\ SiteTyped' /\ StoreTyped' /\ \A d \in Docs : DOMAIN ver'[d] = DOMAIN ver[d]
  BY <1>2, <1>3, <1>4, LawParts DEF VersionsTyped, SiteTyped, StoreTyped
<1>6. HistoryIsOnFile'
  BY <1>2, <1>3, <1>5, LawParts, SitesAre DEF HistoryIsOnFile
<1>7. SyncFits(sync)'
  <2>1. CatalogueGrows
    BY <1>2, <1>3, <1>5, LawParts DEF CatalogueGrows, OnFile
  <2>2. QED
    BY <1>2, <1>3, <1>5, <2>1, SyncStillFits
<1>8. FlushFits(sync)'
  <2> SUFFICES ASSUME sync.at = "flush", NEW x \in sync.touched, x \notin overtaken', sync.picks[x] = NoEdition
               PROVE  /\ \A k \in sync.before[x] : ~(ver'[x][k].from <= sync.now)
                      /\ sync.now = clock /\ (\E k \in DOMAIN ver'[x] : ver'[x][k].from = 0)
                           => \E k \in DOMAIN ver'[x] : ver'[x][k].inforce /\ k \notin sync.before[x]
    BY <1>2 DEF FlushFits
  <2>1. x \notin overtaken
    BY <1>1
  <2>2. /\ \A k \in sync.before[x] : ~(ver[x][k].from <= sync.now)
        /\ sync.now = clock /\ (\E k \in DOMAIN ver[x] : ver[x][k].from = 0)
             => \E k \in DOMAIN ver[x] : ver[x][k].inforce /\ k \notin sync.before[x]
    BY <1>3, <2>1, LawParts DEF FlushFits
  <2>3. x \in Docs /\ sync.before[x] \subseteq DOMAIN ver[x]
    BY <1>3, LawParts DEF SyncFits, SyncState
  <2>4. CASE x # u.doc
    BY <1>4, <2>2, <2>3, <2>4
  <2>5. CASE x = u.doc
    <3>1. ver[x] = u.saw
      BY <1>1, <2>5
    <3>2. \A k \in sync.before[x] : ~(ver'[x][k].from <= sync.now)
      BY <1>4, <2>2, <2>3, <2>5
    <3>3. ASSUME sync.now = clock, NEW k \in DOMAIN ver'[x], ver'[x][k].from = 0
          PROVE  \E y \in DOMAIN ver'[x] : ver'[x][y].inforce /\ y \notin sync.before[x]
      <4>1. k \in DOMAIN u.saw /\ u.saw[k].from = 0
        BY <1>4, <2>5, <3>1, <3>3
      <4>2. u.pick \in DOMAIN u.saw /\ u.saw[u.pick].from <= clock
        BY <1>3, <4>1 DEF UnpinFits
      <4>3. ver'[x][u.pick].inforce /\ u.pick \in DOMAIN ver'[x]
        BY <1>4, <2>5, <3>1, <4>2
      <4>4. u.pick \notin sync.before[x]
        BY <2>2, <3>1, <3>3, <4>2
      <4>5. QED
        BY <4>3, <4>4
    <3>4. QED
      BY <3>2, <3>3
  <2>6. QED
    BY <2>4, <2>5
<1>9. RequestsFit'
  BY <1>1, <1>2, <1>3 DEF RequestsFit, UnpinFits, OnFile
<1>10. QED
  BY <1>5, <1>6, <1>7, <1>8, <1>9 DEF LawInv, CatalogueInv

(* What is on file stays, unless the file is lost.                         *)
LEMMA FilesStay ==
  ASSUME LawInv, LoseFile \/ Refetch \/ DownloadRow \/ DownloadPart
  PROVE  clock' = clock /\ UNCHANGED requests /\ \A d \in Hosted : \A e : OnFile(d, e) => OnFile(d, e)'
<1>1. archive \in [Hosted -> SUBSET Editions] /\ lost \in [Hosted -> SUBSET Editions]
  BY LawParts DEF StoreTyped
<1>2. CASE LoseFile
  BY <1>1, <1>2 DEF LoseFile, OnFile
<1>3. CASE Refetch
  BY <1>1, <1>3 DEF Refetch, OnFile
<1>4. CASE DownloadRow
  <2>1. clock' = clock /\ UNCHANGED requests /\ lost' = lost
    BY <1>4 DEF DownloadRow
  <2>2. PICK r \in sync.rows : Download(r, [Load(r.doc) EXCEPT !.rows = @ \ {r}])
    BY <1>4 DEF DownloadRow
  <2>3. archive' = archive \/ \E e \in Served(r) : archive' = [archive EXCEPT ![r.doc] = @ \union {e}]
    BY <2>2 DEF Download
  <2>4. QED
    BY <1>1, <2>1, <2>3 DEF OnFile
<1>5. CASE DownloadPart
  <2>1. clock' = clock /\ UNCHANGED requests /\ lost' = lost
    BY <1>5 DEF DownloadPart
  <2>2. PICK r \in sync.kids : Download(r, [Load(r.doc) EXCEPT !.kids = @ \ {r}])
    BY <1>5 DEF DownloadPart
  <2>3. archive' = archive \/ \E e \in Served(r) : archive' = [archive EXCEPT ![r.doc] = @ \union {e}]
    BY <2>2 DEF Download
  <2>4. QED
    BY <1>1, <2>1, <2>3 DEF OnFile
<1>6. QED
  BY <1>2, <1>3, <1>4, <1>5

LEMMA LawInvNext == CatalogueInv /\ [LawNext]_lawVars => CatalogueInv'
<1> SUFFICES ASSUME CatalogueInv, [LawNext]_lawVars PROVE CatalogueInv'
  OBVIOUS
<1>1. LawInv /\ RequestsFit /\ clock \in Nat
  BY LawParts DEF CatalogueInv
<1>2. ASSUME LawInv', UNCHANGED requests, clock' = clock \/ clock' = clock + 1,
             \A d \in Hosted : \A e : OnFile(d, e) => OnFile(d, e)'
      PROVE  CatalogueInv'
  <2>1. clock' \in Nat /\ clock <= clock'
    BY <1>1, <1>2
  <2>2. QED
    BY <1>1, <1>2, <2>1, RequestsStillFit DEF CatalogueInv
<1>3. ASSUME LawInv', UNCHANGED <<clock, archive, lost, requests>>
      PROVE  CatalogueInv'
  <2>1. \A d \in Hosted : \A e : OnFile(d, e) => OnFile(d, e)'
    BY <1>3 DEF OnFile
  <2>2. QED
    BY <1>2, <1>3, <2>1
<1>4. CASE LoseFile \/ Refetch \/ DownloadRow \/ DownloadPart
  <2>1. LawInv'
    BY <1>1, <1>4, LoseFileKeeps, RefetchKeeps, DownloadRowKeeps, DownloadPartKeeps
  <2>2. QED
    BY <1>1, <1>2, <1>4, <2>1, FilesStay
<1>5. CASE NextDay
  <2>1. LawInv'
    BY <1>1, <1>5, NextDayKeeps
  <2>2. clock' = clock + 1 /\ UNCHANGED <<archive, lost, requests>>
    BY <1>5 DEF NextDay
  <2>3. QED
    BY <1>2, <2>1, <2>2 DEF OnFile
<1>6. CASE Publish \/ PinVersion \/ UnpinVersion \/ Withdraw \/ RestoreLaw \/ RequestRefetch
  <2>1. LawInv'
    BY <1>1, <1>6, PublishKeeps, PinsKeep, RowChangesKeep
  <2>2. UNCHANGED <<clock, archive, lost, requests>>
    BY <1>6 DEF Publish, PinVersion, UnpinVersion, Withdraw, RestoreLaw, RequestRefetch
  <2>3. QED
    BY <1>3, <2>1, <2>2
<1>7. CASE StartSync \/ OpenManual \/ LookUp \/ Capture \/ WriteManifest
  <2>1. LawInv'
    BY <1>1, <1>7, StartSyncKeeps, OpenManualKeeps, LookUpKeeps, CaptureKeeps, WriteManifestKeeps
  <2>2. UNCHANGED <<clock, archive, lost, requests>>
    BY <1>7 DEF StartSync, OpenManual, LookUp, Capture, WriteManifest
  <2>3. QED
    BY <1>3, <2>1, <2>2
<1>8. CASE Select \/ Flush \/ CrashSync
  <2>1. LawInv'
    BY <1>1, <1>8, SelectKeeps, FlushKeeps, CrashSyncKeeps
  <2>2. UNCHANGED <<clock, archive, lost, requests>>
    BY <1>8 DEF Select, Flush, CrashSync
  <2>3. QED
    BY <1>3, <2>1, <2>2
<1>9. CASE CheckUpload \/ StoreUpload \/ Upload \/ DecideUnpinned \/ WriteUnpinned
  BY <1>9, CheckUploadKeeps, StoreUploadKeeps, UploadKeepsAll, DecideUnpinnedKeeps, WriteUnpinnedKeeps
<1>10. CASE UNCHANGED lawVars
  <2>1. UNCHANGED <<site, clock, doc, ver, archive, lost, sync, requests, overtaken, lawCount>>
    BY <1>10 DEF lawVars, lawRows, requests
  <2>2. SiteTyped' /\ StoreTyped' /\ clock <= clock'
    BY <1>1, <2>1, LawParts DEF SiteTyped, StoreTyped
  <2>3. LawInv'
    BY <1>1, <2>1, <2>2, VersionsRest DEF OnFile
  <2>4. QED
    BY <1>3, <2>1, <2>3
<1>11. QED
  BY <1>4, <1>5, <1>6, <1>7, <1>8, <1>9, <1>10 DEF LawNext

(* What holds of the catalogue between any two steps.                      *)
LEMMA LawInvHolds == LawSpec => []CatalogueInv
<1>1. LawInit => CatalogueInv
  BY LawInvInit
<1>2. CatalogueInv /\ [LawNext]_lawVars => CatalogueInv'
  BY LawInvNext
<1>3. QED
  BY <1>1, <1>2, PTL DEF LawSpec

-----------------------------------------------------------------------------
(* Every reachable catalogue is of its type.                               *)
THEOREM LawTypes == LawSpec => []LawTypeOK
<1>1. CatalogueInv => LawTypeOK
  <2> SUFFICES ASSUME CatalogueInv PROVE LawTypeOK
    OBVIOUS
  <2>1. VersionsTyped /\ SiteTyped /\ StoreTyped /\ sync \in SyncState
    BY LawParts DEF CatalogueInv
  <2>2. site \subseteq ListingRows /\ clock \in Nat /\ lawCount \in [LawEvents \union {"any"} -> Nat]
    BY <2>1 DEF SiteTyped
  <2>3. ver \in [Docs -> {ver[d] : d \in Docs}]
    BY <2>1 DEF VersionsTyped
  <2>4. \A d \in Docs : DOMAIN ver[d] \subseteq Keys /\ ver[d] \in [DOMAIN ver[d] -> VersionRow]
    BY <2>1 DEF VersionsTyped, VersionsOf
  <2>5. uploads \subseteq UploadState /\ overtaken \subseteq Docs
    BY DEF CatalogueInv, RequestsFit
  <2>6. \A u \in unpins : u.doc \in Docs /\ u.pick \in Keys \union {NoEdition}
                           /\ u.saw \in [DOMAIN u.saw -> VersionRow]
    BY DEF CatalogueInv, RequestsFit, UnpinFits, VersionsOf
  <2>7. QED
    BY <2>1, <2>2, <2>3, <2>4, <2>5, <2>6 DEF LawTypeOK, StoreTyped
<1>2. QED
  BY <1>1, LawInvHolds, PTL

(* SBP keeps no history: whatever a version's row names is in the archive  *)
(* or was lost there, and a manifest names only editions on file.          *)
THEOREM HistoryIsKept == LawSpec => []HistoryIsOnFile
<1>1. CatalogueInv => HistoryIsOnFile
  BY DEF CatalogueInv, LawInv
<1>2. QED
  BY <1>1, LawInvHolds, PTL

-----------------------------------------------------------------------------
(* A text in force.                                                        *)
KeepsOne(d) ==
  (/\ InForce(ver[d]) # {} /\ \E k \in DOMAIN ver'[d] : ver'[d][k].from = 0
   /\ \A x, y \in sync.before[d] : x = y
   /\ sync.at = "flush" => sync.now = clock
   /\ d \notin overtaken')
  => InForce(ver'[d]) # {}

(* What an administrator does is a decision over a document's versions.    *)
LEMMA AdminsDecide ==
  ASSUME LawInv, uploads \subseteq UploadState, Upload \/ PinVersion \/ UnpinVersion
  PROVE  ver' = ver \/ \E d \in Docs : \E S \in SUBSET Keys : \E vs \in VersionsOf(S) : NewlyDecided(d, vs)
<1>1. CASE PinVersion \/ UnpinVersion
  <2>1. PICK d \in Docs : \E e \in DOMAIN ver[d] :
          NewlyDecided(d, Pinned(ver[d], e)) \/ NewlyDecided(d, [ver[d] EXCEPT ![e].pinned = FALSE])
    BY <1>1 DEF PinVersion, UnpinVersion
  <2>2. PICK e \in DOMAIN ver[d] :
          NewlyDecided(d, Pinned(ver[d], e)) \/ NewlyDecided(d, [ver[d] EXCEPT ![e].pinned = FALSE])
    BY <2>1
  <2> DEFINE S  == DOMAIN ver[d]
             un == [ver[d] EXCEPT ![e].pinned = FALSE]
  <2>3. S \in SUBSET Keys /\ ver[d] \in VersionsOf(S)
    BY LawParts DEF VersionsTyped
  <2>4. Pinned(ver[d], e) \in VersionsOf(S)
    BY <2>3, PinnedIs
  <2>5. un \in VersionsOf(S)
    <3>1. [ver[d][e] EXCEPT !.pinned = FALSE] \in VersionRow
      BY <2>3 DEF VersionsOf, VersionRow
    <3>2. un = [ver[d] EXCEPT ![e] = [ver[d][e] EXCEPT !.pinned = FALSE]]
      OBVIOUS
    <3>3. QED
      BY <2>3, <3>1, <3>2 DEF VersionsOf
  <2>6. NewlyDecided(d, Pinned(ver[d], e)) \/ NewlyDecided(d, un)
    BY <2>2
  <2> HIDE DEF S, un
  <2>7. QED
    BY <2>3, <2>4, <2>5, <2>6
<1>2. CASE Upload
  <2>1. PICK d \in Files, e \in Editions, t \in Dates \union {0}, pin \in BOOLEAN :
          \/ LET vs == Add(ver[d], e, [source |-> "upload", pinned |-> FALSE, inforce |-> FALSE, from |-> t,
                                       first |-> Cardinality(DOMAIN ver[d])])
             IN NewlyDecided(d, IF pin THEN Pinned(vs, e) ELSE vs)
          \/ ver' = ver
    BY <1>2 DEF Upload, UploadState, lawRows
  <2> DEFINE row == [source |-> "upload", pinned |-> FALSE, inforce |-> FALSE, from |-> t,
                     first |-> Cardinality(DOMAIN ver[d])]
             S   == DOMAIN ver[d] \union {e}
             vs  == Add(ver[d], e, row)
             all == IF pin THEN Pinned(vs, e) ELSE vs
  <2>2. d \in Docs /\ S \in SUBSET Keys /\ ver[d] \in VersionsOf(DOMAIN ver[d])
    BY SitesAre, LawParts DEF VersionsTyped, Keys
  <2>3. row \in VersionRow
    <3>1. Cardinality(DOMAIN ver[d]) \in Nat
      BY <2>2, LawParts, FS_CardinalityType DEF VersionsTyped
    <3>2. QED
      BY <3>1 DEF VersionRow
  <2> HIDE DEF row
  <2>4. vs \in VersionsOf(S)
    BY <2>2, <2>3, AddIs
  <2> HIDE DEF vs
  <2>5. all \in VersionsOf(S)
    BY <2>4, PinnedIs
  <2>6. NewlyDecided(d, all) \/ ver' = ver
    BY <2>1 DEF vs, row
  <2> HIDE DEF all, S
  <2>7. QED
    BY <2>2, <2>5, <2>6
<1>3. QED
  BY <1>1, <1>2

LEMMA DecisionKeepsOne ==
  ASSUME LawInv, NEW d \in Docs, NEW S \in SUBSET Keys, NEW vs \in VersionsOf(S), NewlyDecided(d, vs),
         NEW x \in Docs
  PROVE  KeepsOne(x)
<1>1. PICK k \in Winners(vs, {}, clock) : ver' = [ver EXCEPT ![d] = Decided(vs, k)]
  BY DEF NewlyDecided
<1> DEFINE new == Decided(vs, k)
<1>2. /\ new \in VersionsOf(S) /\ DOMAIN new = S
      /\ \A y \in S : new[y].from = vs[y].from /\ new[y].inforce = (y = k)
  BY DecidedIs DEF VersionsOf
<1>3. \/ k \in S /\ vs[k].from <= clock
      \/ k = NoEdition /\ \A y \in S : ~(vs[y].from <= clock)
  BY LawParts, WinnersAre
<1> HIDE DEF new
<1>4. ver'[d] = new /\ \A y \in Docs : y # d => ver'[y] = ver[y]
  BY <1>1, LawParts DEF VersionsTyped, new
<1>5. CASE x # d
  BY <1>4, <1>5 DEF KeepsOne
<1>6. CASE x = d
  <2> SUFFICES ASSUME NEW y \in S, new[y].from = 0 PROVE InForce(new) # {}
    BY <1>2, <1>4, <1>6 DEF KeepsOne
  <2>1. vs[y].from <= clock
    BY <1>2, LawParts
  <2>2. k \in S /\ new[k].inforce
    BY <1>2, <1>3, <2>1
  <2>3. QED
    BY <1>2, <2>2 DEF InForce
<1>7. QED
  BY <1>5, <1>6

(* A capture changes no flag of what was there, nor does a manifest.       *)
LEMMA GrowthKeepsOne ==
  ASSUME NEW d, \A k \in DOMAIN ver[d] : k \in DOMAIN ver'[d] /\ ver'[d][k].inforce = ver[d][k].inforce
  PROVE  KeepsOne(d)
BY DEF KeepsOne, InForce

LEMMA CaptureKeepsOne == ASSUME LawInv, Capture, NEW x \in Docs PROVE KeepsOne(x)
<1> DEFINE d    == sync.row.doc
           e    == sync.got
           vs   == ver[d]
           row  == [source |-> "live", pinned |-> FALSE, inforce |-> FALSE,
                    from |-> sync.row.from, first |-> Cardinality(DOMAIN vs)]
           next == IF sync.known THEN [vs EXCEPT ![e].from = sync.row.from] ELSE Add(vs, e, row)
<1>1. ver' = ver \/ (ver' = [ver EXCEPT ![d] = next] /\ (sync.known \/ e \notin DOMAIN vs))
  BY DEF Capture, lawRows
<1>2. sync.known => e \in DOMAIN vs
  BY LawParts DEF Capture, SyncFits
<1>3. d \in Docs /\ VersionsTyped /\ ver[x] \in VersionsOf(DOMAIN ver[x])
  BY LawParts, SitesAre DEF Capture, SyncFits, VersionsTyped
<1> HIDE DEF row
<1>4. CASE ver' = [ver EXCEPT ![d] = next] /\ x = d
  <2>1. ver'[d] = next
    BY <1>3, <1>4 DEF VersionsTyped
  <2>2. CASE sync.known
    <3>1. next = [vs EXCEPT ![e] = [vs[e] EXCEPT !.from = sync.row.from]]
      BY <2>2
    <3>2. vs[e] \in VersionRow
      BY <1>2, <1>3, <1>4, <2>2 DEF VersionsOf
    <3>3. [vs[e] EXCEPT !.from = sync.row.from].inforce = vs[e].inforce
      BY <3>2 DEF VersionRow
    <3>4. \A k \in DOMAIN vs : k \in DOMAIN next /\ next[k].inforce = vs[k].inforce
      BY <1>2, <2>2, <3>1, <3>3
    <3>5. QED
      BY <1>4, <2>1, <3>4, GrowthKeepsOne
  <2>3. CASE ~sync.known
    <3>1. e \notin DOMAIN vs \/ ver' = ver
      BY <1>1, <2>3
    <3>2. next = [y \in DOMAIN vs \union {e} |-> IF y = e THEN row ELSE vs[y]]
      BY <2>3 DEF Add
    <3>3. \A k \in DOMAIN ver[d] : k \in DOMAIN ver'[d] /\ ver'[d][k].inforce = ver[d][k].inforce
      BY <2>1, <3>1, <3>2
    <3>4. QED
      BY <1>4, <3>3, GrowthKeepsOne
  <2>4. QED
    BY <2>2, <2>3
<1>5. CASE ver' = ver \/ (ver' = [ver EXCEPT ![d] = next] /\ x # d)
  <2>1. ver'[x] = ver[x]
    BY <1>3, <1>5 DEF VersionsTyped
  <2>2. QED
    BY <2>1, GrowthKeepsOne
<1>6. QED
  BY <1>1, <1>4, <1>5

LEMMA ManifestKeepsOne == ASSUME LawInv, WriteManifest, NEW x \in Docs PROVE KeepsOne(x)
<1> DEFINE vs  == ver[Manual]
           m   == sync.hashes
           row == [source |-> "live", pinned |-> FALSE, inforce |-> FALSE, from |-> 0, first |-> Cardinality(DOMAIN vs)]
<1>1. ver' = IF m \in DOMAIN vs THEN ver ELSE [ver EXCEPT ![Manual] = Add(vs, m, row)]
  BY DEF WriteManifest
<1> HIDE DEF row
<1>2. Manual \in Docs /\ VersionsTyped
  BY LawParts, SitesAre
<1>3. CASE ver'[x] = ver[x]
  BY <1>3, GrowthKeepsOne
<1>4. CASE x = Manual /\ m \notin DOMAIN vs
  <2>1. ver'[x] = [y \in DOMAIN vs \union {m} |-> IF y = m THEN row ELSE vs[y]]
    BY <1>1, <1>2, <1>4 DEF VersionsTyped, Add
  <2>2. \A k \in DOMAIN ver[x] : k \in DOMAIN ver'[x] /\ ver'[x][k].inforce = ver[x][k].inforce
    BY <1>4, <2>1
  <2>3. QED
    BY <2>2, GrowthKeepsOne
<1>5. QED
  BY <1>1, <1>2, <1>3, <1>4 DEF VersionsTyped

(* The sync takes out of force what it saw there, and puts what it picked  *)
(* there; where it picked what it saw, or nothing, the rest stays.         *)
LEMMA FlushKeepsOne == ASSUME LawInv, Flush, NEW d \in Docs PROVE KeepsOne(d)
<1>1. /\ ver'[d] \in VersionsOf(DOMAIN ver[d]) /\ DOMAIN ver'[d] = DOMAIN ver[d]
      /\ d \notin sync.touched => ver'[d] = ver[d]
      /\ d \in sync.touched => \A k \in DOMAIN ver[d] :
           ver'[d][k].inforce = IF (k = sync.picks[d]) # (k \in sync.before[d]) THEN k = sync.picks[d] ELSE ver[d][k].inforce
  BY FlushIs
<1>2. CASE d \notin sync.touched
  BY <1>1, <1>2, GrowthKeepsOne
<1>3. CASE d \in sync.touched
  <2> DEFINE pick   == sync.picks[d]
             before == sync.before[d]
  <2> SUFFICES ASSUME NEW was \in DOMAIN ver[d], ver[d][was].inforce, \A x, y \in before : x = y,
                      sync.now = clock, d \notin overtaken, NEW k \in DOMAIN ver[d], ver'[d][k].from = 0
               PROVE  \E x \in DOMAIN ver[d] : ver'[d][x].inforce
    <3>1. sync.at = "flush" /\ overtaken' = overtaken
      BY DEF Flush, requests
    <3>2. QED
      BY <1>1, <3>1 DEF KeepsOne, InForce
  <2>1. /\ pick # NoEdition => pick \in DOMAIN ver[d]
        /\ before \subseteq DOMAIN ver[d] /\ NoEdition \notin DOMAIN ver[d]
    BY EditionsAssumption, LawParts DEF SyncFits, VersionsTyped
  <2>2. ver'[d][k].from = ver[d][k].from
    <3>1. \A y \in DOMAIN ver[d] : ver[d][y] \in VersionRow
      BY LawParts DEF VersionsTyped, VersionsOf
    <3>2. ver'[d][k] = [ver[d][k] EXCEPT !.inforce = IF (k = pick) # (k \in before) THEN k = pick ELSE @]
      BY <1>3 DEF Flush, Flushed
    <3>3. QED
      BY <3>1, <3>2 DEF VersionRow
  <2>3. CASE pick # NoEdition /\ pick \notin before
    BY <1>1, <1>3, <2>1, <2>3
  <2>4. CASE pick # NoEdition /\ pick \in before
    <3>1. \A x \in DOMAIN ver[d] : ver'[d][x].inforce = ver[d][x].inforce
      BY <1>1, <1>3, <2>4
    <3>2. QED
      BY <3>1
  <2>5. CASE pick = NoEdition
    <3>1. PICK x \in DOMAIN ver[d] : ver[d][x].inforce /\ x \notin before
      BY <1>3, <2>2, <2>5, LawParts DEF Flush, FlushFits
    <3>2. ver'[d][x].inforce
      BY <1>1, <1>3, <2>1, <2>5, <3>1
    <3>3. QED
      BY <3>2
  <2>6. QED
    BY <2>3, <2>4, <2>5
<1>4. QED
  BY <1>2, <1>3

(* An unpinning that decides over what it read leaves a text in force.     *)
LEMMA UnpinKeepsOne == ASSUME CatalogueInv, WriteUnpinned, NEW x \in Docs PROVE KeepsOne(x)
<1>1. PICK u \in unpins :
        /\ ver' = [ver EXCEPT ![u.doc] = Flushed(@, u.pick, InForce(u.saw))]
        /\ overtaken' = IF ver[u.doc] = u.saw THEN overtaken ELSE overtaken \union {u.doc}
  BY DEF WriteUnpinned
<1>2. LawInv /\ UnpinFits(u)
  BY DEF CatalogueInv, RequestsFit
<1>3. /\ \A d \in Docs : d # u.doc => ver'[d] = ver[d]
      /\ DOMAIN ver'[u.doc] = DOMAIN ver[u.doc]
      /\ \A k \in DOMAIN ver[u.doc] : ver'[u.doc][k].from = ver[u.doc][k].from
      /\ ver[u.doc] = u.saw => \A k \in DOMAIN ver[u.doc] : ver'[u.doc][k].inforce = (k = u.pick)
  BY <1>1, <1>2, UnpinIs
<1>4. CASE x # u.doc
  BY <1>3, <1>4, GrowthKeepsOne
<1>5. CASE x = u.doc
  <2> SUFFICES ASSUME x \notin overtaken', NEW k \in DOMAIN ver[x], ver'[x][k].from = 0
               PROVE  InForce(ver'[x]) # {}
    BY <1>3, <1>5 DEF KeepsOne
  <2>1. ver[x] = u.saw
    BY <1>1, <1>5
  <2>2. u.pick \in DOMAIN ver[x]
    BY <1>2, <1>3, <1>5, <2>1 DEF UnpinFits
  <2>3. ver'[x][u.pick].inforce /\ u.pick \in DOMAIN ver'[x]
    BY <1>3, <1>5, <2>1, <2>2
  <2>4. QED
    BY <2>3 DEF InForce
<1>6. QED
  BY <1>4, <1>5

LEMMA OthersLeaveTheVersions ==
  ASSUME Publish \/ NextDay \/ LoseFile \/ StartSync \/ DownloadRow \/ OpenManual \/ DownloadPart \/ LookUp
           \/ Select \/ CrashSync \/ Withdraw \/ RestoreLaw \/ RequestRefetch \/ Refetch \/ CheckUpload
           \/ StoreUpload \/ DecideUnpinned \/ UNCHANGED lawVars
  PROVE  ver' = ver
BY DEF CheckUpload, StoreUpload, DecideUnpinned, Publish, NextDay, LoseFile, StartSync, DownloadRow, OpenManual, DownloadPart, LookUp, Select, CrashSync,
       Withdraw, RestoreLaw, RequestRefetch, Refetch, Download, lawRows, lawVars

(* A document with a text in force keeps one, if an edition of it has no   *)
(* date to wait for, unless the sync read two of them in force, or began   *)
(* on an earlier day, or an unpinning was overtaken.                       *)
THEOREM TextsStayInForce == LawSpec => KeepsATextInForce
<1>1. ASSUME CatalogueInv, [LawNext]_lawVars, NEW d \in Docs PROVE KeepsOne(d)
  <2>a. LawInv /\ uploads \subseteq UploadState
    BY <1>1 DEF CatalogueInv, RequestsFit
  <2>1. CASE ver' = ver
    BY <2>1, GrowthKeepsOne
  <2>2. CASE Capture
    BY <2>a, <2>2, CaptureKeepsOne
  <2>3. CASE WriteManifest
    BY <2>a, <2>3, ManifestKeepsOne
  <2>4. CASE Flush
    BY <2>a, <2>4, FlushKeepsOne
  <2>5. CASE Upload \/ PinVersion \/ UnpinVersion
    BY <2>a, <2>1, <2>5, AdminsDecide, DecisionKeepsOne
  <2>6. CASE WriteUnpinned
    BY <1>1, <2>6, UnpinKeepsOne
  <2>7. QED
    BY <1>1, <2>1, <2>2, <2>3, <2>4, <2>5, <2>6, OthersLeaveTheVersions DEF LawNext
<1>2. CatalogueInv /\ [LawNext]_lawVars => [\A d \in Docs :
        (/\ InForce(ver[d]) # {} /\ \E k \in DOMAIN ver'[d] : ver'[d][k].from = 0
         /\ \A x, y \in sync.before[d] : x = y
         /\ sync.at = "flush" => sync.now = clock
         /\ d \notin overtaken')
        => InForce(ver'[d]) # {}]_lawVars
  BY <1>1 DEF KeepsOne
<1>3. QED
  BY <1>2, LawInvHolds, PTL DEF LawSpec, KeepsATextInForce

-----------------------------------------------------------------------------
(* What is off the page.                                                   *)
LEMMA DownloadsDelistNone ==
  ASSUME LawInv, DownloadRow \/ OpenManual \/ DownloadPart, NEW d \in Docs, ~doc[d].out
  PROVE  ~doc'[d].out
<1>1. doc \in [Docs -> DocRow]
  BY LawParts DEF StoreTyped
<1>2. CASE DownloadRow
  <2>1. PICK r \in sync.rows : Download(r, [Load(r.doc) EXCEPT !.rows = @ \ {r}])
    BY <1>2 DEF DownloadRow
  <2> DEFINE left == [Load(r.doc) EXCEPT !.rows = @ \ {r}]
  <2>2. left.was \in [Docs -> DocRow] /\ r.doc \in Docs
    BY RowTaken
  <2>3. Download(r, left)
    BY <2>1
  <2> HIDE DEF left
  <2>4. doc' = doc \/ doc' = Upserted(r.doc, left.was)
    BY <2>3 DEF Download
  <2>5. QED
    BY <1>1, <2>2, <2>4, UpsertedIs
<1>3. CASE OpenManual
  <2>1. PICK r \in sync.rows :
          r.doc = Manual /\ LET left == [Load(Manual) EXCEPT !.rows = @ \ {r}]
                            IN doc' = doc \/ doc' = Upserted(Manual, left.was)
    BY <1>3 DEF OpenManual
  <2> DEFINE left == [Load(r.doc) EXCEPT !.rows = @ \ {r}]
  <2>2. left.was \in [Docs -> DocRow]
    BY RowTaken
  <2>3. doc' = doc \/ doc' = Upserted(Manual, left.was)
    BY <2>1
  <2> HIDE DEF left
  <2>4. QED
    BY <1>1, <2>2, <2>3, UpsertedIs, SitesAre
<1>4. CASE DownloadPart
  <2>1. PICK r \in sync.kids : Download(r, [Load(r.doc) EXCEPT !.kids = @ \ {r}])
    BY <1>4 DEF DownloadPart
  <2> DEFINE left == [Load(r.doc) EXCEPT !.kids = @ \ {r}]
  <2>2. left \in SyncState /\ r.doc \in Docs
    BY PartTaken, SitesAre
  <2>3. Download(r, left)
    BY <2>1
  <2> HIDE DEF left
  <2>4. left.was \in [Docs -> DocRow]
    BY <2>2 DEF SyncState
  <2>5. doc' = doc \/ doc' = Upserted(r.doc, left.was)
    BY <2>3 DEF Download
  <2>6. QED
    BY <1>1, <2>2, <2>5, <2>4, UpsertedIs
<1>5. QED
  BY <1>2, <1>3, <1>4

LEMMA CaptureDelistsNone ==
  ASSUME LawInv, Capture, NEW d \in Docs, ~doc[d].out PROVE ~doc'[d].out
<1>1. sync.row.doc \in Docs /\ sync.was \in [Docs -> DocRow] /\ doc \in [Docs -> DocRow]
  BY LawParts, SitesAre DEF Capture, SyncFits, SyncState, StoreTyped
<1>2. doc' = doc \/ doc' = Upserted(sync.row.doc, sync.was)
  BY DEF Capture, lawRows
<1>3. QED
  BY <1>1, <1>2, UpsertedIs

(* The sync delists a document only when SBP's page, as the sync fetched   *)
(* it, did not list it, and never an administrator's.                      *)
THEOREM DelistingsAreOfTheUnlisted == LawSpec => DelistedIsUnlisted
<1> DEFINE Unlisted(d) == doc[d].origin = "sbp_listing" /\ d \notin sync.listed \union {r.doc : r \in sync.page}
<1>1. ASSUME LawInv, SyncSteps, NEW d \in Docs, ~doc[d].out, doc'[d].out PROVE Unlisted(d)
  <2>1. SyncFits(sync) /\ doc \in [Docs -> DocRow] /\ sync.was \in [Docs -> DocRow]
    BY <1>1, LawParts DEF StoreTyped, SyncState
  <2>2. doc' # doc
    BY <1>1
  <2>3. CASE WriteManifest
    <3> DEFINE gone == {p \in Parts : doc[p].held /\ ~doc[p].out /\ doc[p].origin = "sbp_listing"}
                         \ {r.doc : r \in sync.page}
    <3>1. doc'[d] = IF d \in gone THEN [doc[d] EXCEPT !.out = TRUE] ELSE Upserted(Manual, sync.was)[d]
      BY <2>3 DEF WriteManifest
    <3>2. ~Upserted(Manual, sync.was)[d].out
      BY <1>1, <2>1, UpsertedIs, SitesAre
    <3>3. d \in gone
      BY <1>1, <3>1, <3>2
    <3>4. d \notin sync.listed
      BY <2>1, <3>3, SitesAre DEF SyncFits
    <3>5. QED
      BY <3>3, <3>4
  <2>4. CASE Flush
    <3>1. d \in Unseen
      <4>1. doc'[d] = IF d \in Unseen THEN [doc[d] EXCEPT !.out = TRUE] ELSE doc[d]
        BY <2>4 DEF Flush
      <4>2. QED
        BY <1>1, <4>1
    <3>2. d \in Tops /\ d \notin sync.seen /\ sync.full /\ doc[d].origin = "sbp_listing"
      BY <3>1 DEF Unseen
    <3>3. sync.rows = {} /\ sync.listed \subseteq sync.seen \union {r.doc : r \in sync.rows}
      BY <2>1, <2>4, <3>2 DEF SyncFits, Flush
    <3>4. d \notin {r.doc : r \in sync.page}
      BY <2>1, <3>2, SitesAre DEF SyncFits
    <3>5. QED
      BY <3>2, <3>3, <3>4
  <2>5. CASE DownloadRow \/ OpenManual \/ DownloadPart
    BY <1>1, <2>5, DownloadsDelistNone
  <2>6. CASE Capture
    BY <1>1, <2>6, CaptureDelistsNone
  <2>7. CASE StartSync \/ LookUp \/ Select
    BY <2>2, <2>7 DEF StartSync, LookUp, Select, lawRows
  <2>8. QED
    BY <1>1, <2>3, <2>4, <2>5, <2>6, <2>7 DEF SyncSteps
<1>2. CatalogueInv /\ [LawNext]_lawVars => [\A d \in Docs :
        ~doc[d].out /\ doc'[d].out /\ SyncSteps
          => doc[d].origin = "sbp_listing" /\ d \notin sync.listed \union {r.doc : r \in sync.page}]_lawVars
  BY <1>1 DEF CatalogueInv
<1>3. QED
  BY <1>2, LawInvHolds, PTL DEF LawSpec, DelistedIsUnlisted

-----------------------------------------------------------------------------
(* What a run has done by the time it is somewhere.                        *)
RunFits(r) ==
  /\ hand[r].result # "none" =>
       /\ hand[r].at = "ended" /\ runRow[r].is = hand[r].result /\ runRow[r].stamped
       /\ r \in Uploads /\ hand[r].result = "success" => runRow[r].error = "none"
  /\ hand[r].held => hand[r].at = "ended"
  /\ hand[r].at = "off" => runRow[r].is = "none"
  /\ r \in Webs /\ Alive(r) => serving
  /\ r \in Webs /\ (Alive(r) \/ hand[r].at = "off") => runRow[r].error = "none"
  /\ hand[r].at \in {"check", "store"} => r \in Uploads
  /\ hand[r].at \in {"off", "check", "store", "row"} => answered[r] = "nothing"
  /\ hand[r].at = "row" => r \in Webs
  /\ r \in Uploads /\ hand[r].at \in {"row", "start", "begin", "index", "links", "end"} => FileOf[r] \in kept
  /\ r \in Uploads /\ hand[r].at \in {"links", "end"} => FileOf[r] \in searchable
  /\ r \in Uploads /\ hand[r].at = "end" => FileOf[r] \in scanned
  /\ hand[r].at = "links" => r \in Uploads
  /\ \/ hand[r].at \in {"start", "begin", "index", "links", "end", "failing"}
     \/ r \notin Webs /\ hand[r].at \in {"check", "store"}
     => runRow[r].is \in {"queued", "running", "failed"}

(* A run that has stored its file, or tried to, answers for it: by going   *)
(* on, by what its row shows, or by what its uploader was told.            *)
AnswersFor(r) ==
  /\ ~hand[r].held /\ hand[r].at \notin {"off", "check", "store"}
  /\ hand[r].at \in {"ended", "dead"} =>
       runRow[r].is \in {"queued", "running", "failed"} \/ (r \in Webs /\ answered[r] # "queued")

FilesAnsweredFor ==
  \A f \in kept \ (searchable \intersect scanned) : \E r \in Uploads : FileOf[r] = f /\ AnswersFor(r)

RunInv == RunTypeOK /\ (\A r \in Uploading : RunFits(r)) /\ FilesAnsweredFor

LEMMA RunInvInit == RunInit => RunInv
<1> SUFFICES ASSUME RunInit PROVE RunInv
  OBVIOUS
<1>1. RunTypeOK
  BY MishapsAssumption DEF RunInit, RunTypeOK, NoRow, NoHand, RunRow, RunHand, RunStages
<1>2. \A r \in Uploading : RunFits(r)
  BY DEF RunInit, RunFits, NoRow, NoHand, Alive
<1>3. QED
  BY <1>1, <1>2 DEF RunInit, RunInv, FilesAnsweredFor

(* A step of one run: what is stored, indexed and scanned grows, and the   *)
(* run goes on answering for its file unless that is indexed and scanned.  *)
LEMMA RunStep ==
  ASSUME RunInv, NEW r \in Uploading, RunTypeOK', RunFits(r)', serving' = serving,
         \A x \in Uploading : x # r => runRow'[x] = runRow[x] /\ hand'[x] = hand[x] /\ answered'[x] = answered[x],
         kept' = kept \/ (kept' = kept \union {FileOf[r]} /\ r \in Uploads /\ AnswersFor(r)'),
         searchable \subseteq searchable', scanned \subseteq scanned',
         r \in Uploads /\ AnswersFor(r) => AnswersFor(r)' \/ FileOf[r] \in searchable \intersect scanned
  PROVE  RunInv'
<1>1. kept \subseteq kept'
  OBVIOUS
<1>2. ASSUME NEW x \in Uploading, x # r PROVE RunFits(x)'
  <2>1. RunFits(x)
    BY DEF RunInv
  <2>2. runRow'[x] = runRow[x] /\ hand'[x] = hand[x] /\ answered'[x] = answered[x]
    BY <1>2
  <2>3. QED
    BY <1>1, <2>1, <2>2 DEF RunFits, Alive
<1>3. FilesAnsweredFor'
  <2> SUFFICES ASSUME NEW f \in kept' \ (searchable' \intersect scanned')
               PROVE  \E x \in Uploads : FileOf[x] = f /\ AnswersFor(x)'
    BY DEF FilesAnsweredFor
  <2>1. CASE f \in kept
    <3>1. f \in kept \ (searchable \intersect scanned)
      BY <2>1
    <3>2. PICK x \in Uploads : FileOf[x] = f /\ AnswersFor(x)
      BY <3>1 DEF RunInv, FilesAnsweredFor
    <3>3. CASE x = r
      BY <3>2, <3>3
    <3>4. CASE x # r
      BY <3>2, <3>4 DEF AnswersFor, Uploads
    <3>5. QED
      BY <3>3, <3>4
  <2>2. CASE f \notin kept
    BY <2>2
  <2>3. QED
    BY <2>1, <2>2
<1>4. QED
  BY <1>2, <1>3 DEF RunInv

(* A step that changes the row, the place or the answer of one run.        *)
LEMMA RunStepTyped ==
  ASSUME RunTypeOK, NEW r \in Uploading, serving' = serving,
         NEW row \in RunRow, NEW h \in RunHand,
         NEW say \in {"nothing", "queued", "duplicate", "refused", "error"},
         runRow' = [runRow EXCEPT ![r] = row], hand' = [hand EXCEPT ![r] = h],
         answered' = [answered EXCEPT ![r] = say], mishaps' \in 0..MishapBound,
         searchable' \subseteq kept', scanned' \subseteq kept'
  PROVE  /\ RunTypeOK' /\ runRow'[r] = row /\ hand'[r] = h /\ answered'[r] = say
         /\ \A x \in Uploading : x # r => runRow'[x] = runRow[x] /\ hand'[x] = hand[x] /\ answered'[x] = answered[x]
BY DEF RunTypeOK

(* What does not change is as if it were set again.                        *)
LEMMA SameRuns ==
  ASSUME RunTypeOK, NEW r \in Uploading
  PROVE  /\ runRow = [runRow EXCEPT ![r] = runRow[r]] /\ runRow[r] \in RunRow
         /\ hand = [hand EXCEPT ![r] = hand[r]] /\ hand[r] \in RunHand
         /\ answered = [answered EXCEPT ![r] = answered[r]]
         /\ answered[r] \in {"nothing", "queued", "duplicate", "refused", "error"}
BY DEF RunTypeOK

LEMMA MishapCounts == ASSUME RunTypeOK, Mishap PROVE mishaps' \in 0..MishapBound
BY MishapsAssumption DEF RunTypeOK, Mishap

(* Where a run goes, and the row it leaves when it ends.                   *)
LEMMA PlaceIs ==
  ASSUME RunTypeOK, NEW r \in Uploading, NEW place \in RunStages
  PROVE  /\ [hand[r] EXCEPT !.at = place] \in RunHand
         /\ [hand[r] EXCEPT !.at = place].at = place
         /\ [hand[r] EXCEPT !.at = place].held = hand[r].held
         /\ [hand[r] EXCEPT !.at = place].result = hand[r].result
         /\ [hand EXCEPT ![r].at = place] = [hand EXCEPT ![r] = [hand[r] EXCEPT !.at = place]]
<1>1. hand[r] \in RunHand
  BY DEF RunTypeOK
<1>2. QED
  BY <1>1 DEF RunHand

LEMMA SettledIs ==
  ASSUME RunTypeOK, NEW r \in Uploading, NEW result \in {"success", "failed"}
  PROVE  /\ Settled(r, result) \in RunRow /\ Settled(r, result).is = result /\ Settled(r, result).stamped
         /\ KindOf[r] = "command" /\ result = "success" => Settled(r, result).error = "none"
         /\ runRow[r].error = "none" /\ result = "success" => Settled(r, result).error = "none"
<1>1. runRow[r] \in RunRow
  BY DEF RunTypeOK
<1>2. Settled(r, result).error \in {"none", "own", "restart"}
  BY <1>1 DEF RunRow, Settled
<1>3. Settled(r, result) = [is |-> result, stamped |-> TRUE, error |-> Settled(r, result).error]
  BY DEF Settled
<1>4. QED
  BY <1>2, <1>3 DEF RunRow, Settled

(* The same, where neither row nor answer changes.                         *)
LEMMA PlaceMoves ==
  ASSUME RunTypeOK, NEW r \in Uploading, NEW place \in RunStages, Goes(r, place),
         serving' = serving, UNCHANGED <<runRow, answered>>, mishaps' \in 0..MishapBound,
         searchable' \subseteq kept', scanned' \subseteq kept'
  PROVE  /\ RunTypeOK' /\ hand'[r].at = place /\ hand'[r].held = hand[r].held /\ hand'[r].result = hand[r].result
         /\ hand'[r].dirty = hand[r].dirty
         /\ \A x \in Uploading : x # r => runRow'[x] = runRow[x] /\ hand'[x] = hand[x] /\ answered'[x] = answered[x]
<1> DEFINE h == [hand[r] EXCEPT !.at = place]
<1>1. hand' = [hand EXCEPT ![r] = h] /\ h \in RunHand
  BY PlaceIs DEF Goes
<1>2. h.at = place /\ h.held = hand[r].held /\ h.result = hand[r].result /\ h.dirty = hand[r].dirty
  BY SameRuns DEF RunHand
<1> HIDE DEF h
<1>3. /\ RunTypeOK' /\ hand'[r] = h
      /\ \A x \in Uploading : x # r => runRow'[x] = runRow[x] /\ hand'[x] = hand[x] /\ answered'[x] = answered[x]
  BY <1>1 DEF RunTypeOK
<1>4. QED
  BY <1>2, <1>3

LEMMA RowAndPlaceMove ==
  ASSUME RunTypeOK, NEW r \in Uploading, NEW place \in RunStages, Goes(r, place), NEW row \in RunRow, Shows(r, row),
         serving' = serving, UNCHANGED answered, mishaps' \in 0..MishapBound,
         searchable' \subseteq kept', scanned' \subseteq kept'
  PROVE  /\ RunTypeOK' /\ hand'[r].at = place /\ hand'[r].held = hand[r].held /\ hand'[r].result = hand[r].result
         /\ runRow'[r] = row
         /\ \A x \in Uploading : x # r => runRow'[x] = runRow[x] /\ hand'[x] = hand[x] /\ answered'[x] = answered[x]
<1> DEFINE h == [hand[r] EXCEPT !.at = place]
<1>1. hand' = [hand EXCEPT ![r] = h] /\ h \in RunHand
  BY PlaceIs DEF Goes
<1>2. h.at = place /\ h.held = hand[r].held /\ h.result = hand[r].result
  BY SameRuns DEF RunHand
<1>3. runRow' = [runRow EXCEPT ![r] = row]
  BY DEF Shows
<1> HIDE DEF h
<1>4. /\ RunTypeOK' /\ hand'[r] = h /\ runRow'[r] = row
      /\ \A x \in Uploading : x # r => runRow'[x] = runRow[x] /\ hand'[x] = hand[x] /\ answered'[x] = answered[x]
  BY <1>1, <1>3, SameRuns, RunStepTyped
<1>5. QED
  BY <1>2, <1>4

LEMMA PlaceAndAnswerMove ==
  ASSUME RunTypeOK, NEW r \in Uploading, NEW place \in RunStages, Goes(r, place),
         NEW say \in {"nothing", "queued", "duplicate", "refused", "error"}, Tell(r, say),
         serving' = serving, UNCHANGED runRow, mishaps' \in 0..MishapBound,
         searchable' \subseteq kept', scanned' \subseteq kept'
  PROVE  /\ RunTypeOK' /\ hand'[r].at = place /\ hand'[r].held = hand[r].held /\ hand'[r].result = hand[r].result
         /\ answered'[r] = say
         /\ \A x \in Uploading : x # r => runRow'[x] = runRow[x] /\ hand'[x] = hand[x] /\ answered'[x] = answered[x]
<1> DEFINE h == [hand[r] EXCEPT !.at = place]
<1>1. hand' = [hand EXCEPT ![r] = h] /\ h \in RunHand
  BY PlaceIs DEF Goes
<1>2. h.at = place /\ h.held = hand[r].held /\ h.result = hand[r].result
  BY SameRuns DEF RunHand
<1>3. answered' = [answered EXCEPT ![r] = say]
  BY DEF Tell
<1> HIDE DEF h
<1>4. /\ RunTypeOK' /\ hand'[r] = h /\ answered'[r] = say
      /\ \A x \in Uploading : x # r => runRow'[x] = runRow[x] /\ hand'[x] = hand[x] /\ answered'[x] = answered[x]
  BY <1>1, <1>3 DEF RunTypeOK
<1>5. QED
  BY <1>2, <1>4

(* A run that ends, with its row.                                          *)
LEMMA RunEnds ==
  ASSUME RunInv, NEW r \in Uploading, NEW result \in {"success", "failed"}, EndsWith(r, result), UNCHANGED answered,
         UNCHANGED <<kept, searchable, scanned, serving, mishaps>>,
         hand[r].at \notin {"off", "ended", "dead"},
         result = "success" /\ r \in Uploads => FileOf[r] \in searchable \intersect scanned
  PROVE  RunInv'
<1> DEFINE h == [hand[r] EXCEPT !.at = "ended", !.result = result]
           row == Settled(r, result)
<1>1. hand' = [hand EXCEPT ![r] = h] /\ runRow' = [runRow EXCEPT ![r] = row]
  BY SameRuns DEF EndsWith, Shows, RunHand
<1>2. h \in RunHand /\ h.at = "ended" /\ h.result = result /\ h.held = hand[r].held
  BY SameRuns DEF RunHand, RunStages, RunInv
<1>3. /\ row \in RunRow /\ row.is = result /\ row.stamped
      /\ KindOf[r] = "command" /\ result = "success" => row.error = "none"
      /\ runRow[r].error = "none" /\ result = "success" => row.error = "none"
  BY SettledIs DEF RunInv
<1> HIDE DEF h, row
<1>4. /\ RunTypeOK' /\ hand'[r] = h /\ runRow'[r] = row /\ answered'[r] = answered[r]
      /\ \A x \in Uploading : x # r => runRow'[x] = runRow[x] /\ hand'[x] = hand[x] /\ answered'[x] = answered[x]
  <2>1. RunTypeOK
    BY DEF RunInv
  <2>2. mishaps' \in 0..MishapBound /\ searchable' \subseteq kept' /\ scanned' \subseteq kept'
    BY <2>1 DEF RunTypeOK
  <2>3. QED
    <3>1. answered' = [answered EXCEPT ![r] = answered[r]]
          /\ answered[r] \in {"nothing", "queued", "duplicate", "refused", "error"}
      BY <2>1, SameRuns
    <3>2. serving' = serving
      OBVIOUS
    <3>3. QED
      BY <1>1, <1>2, <1>3, <2>1, <2>2, <3>1, <3>2, RunStepTyped
<1>5. RunFits(r)
  BY DEF RunInv
<1>6. r \in Uploads /\ result = "success" => row.error = "none"
  <2>1. CASE r \in Webs
    BY <1>3, <1>5, <2>1 DEF RunFits, Alive
  <2>2. CASE KindOf[r] = "command"
    BY <1>3, <2>2
  <2>3. QED
    BY <2>1, <2>2, KindsAssumption DEF Uploads, Webs
<1>7. RunFits(r)'
  BY <1>2, <1>3, <1>4, <1>5, <1>6 DEF RunFits, Alive
<1>8. r \in Uploads /\ AnswersFor(r) => AnswersFor(r)' \/ FileOf[r] \in searchable \intersect scanned
  BY <1>2, <1>3, <1>4 DEF AnswersFor
<1>9. QED
  BY <1>4, <1>7, <1>8, RunStep

LEMMA RunInvParts ==
  ASSUME RunInv, NEW r \in Uploading
  PROVE  /\ RunTypeOK /\ RunFits(r) /\ mishaps \in 0..MishapBound
         /\ searchable \subseteq kept /\ scanned \subseteq kept
BY DEF RunInv, RunTypeOK

LEMMA ReceiveKeeps == ASSUME RunInv, NEW r \in Uploading, Receive(r) PROVE RunInv'
<1>1. /\ hand[r].at = "off" /\ r \in Webs /\ serving /\ Goes(r, "check") /\ "check" \in RunStages
      /\ UNCHANGED <<runRow, answered, kept, searchable, scanned, serving, mishaps>>
  BY DEF Receive, Webs, corpusRuns, RunStages
<1>2. /\ RunTypeOK' /\ hand'[r].at = "check" /\ hand'[r].held = hand[r].held /\ hand'[r].result = hand[r].result
      /\ \A x \in Uploading : x # r => runRow'[x] = runRow[x] /\ hand'[x] = hand[x] /\ answered'[x] = answered[x]
  BY <1>1, RunInvParts, PlaceMoves
<1>3. r \in Uploads
  BY <1>1 DEF Webs, Uploads
<1>4. RunFits(r)'
  BY <1>1, <1>2, <1>3, RunInvParts DEF RunFits, Alive
<1>5. QED
  BY <1>1, <1>2, <1>4, RunStep DEF AnswersFor

LEMMA StartRunKeeps == ASSUME RunInv, NEW r \in Uploading, StartRun(r) PROVE RunInv'
<1> DEFINE row == [NoRow EXCEPT !.is = "running"]
           place == IF KindOf[r] = "sync" THEN "index" ELSE "check"
<1>1. /\ hand[r].at = "off" /\ r \notin Webs /\ Goes(r, place) /\ Shows(r, row)
      /\ UNCHANGED <<answered, kept, searchable, scanned, serving, mishaps>>
  BY DEF StartRun, Webs, corpusRuns
<1>2. row \in RunRow /\ row.is = "running" /\ place \in RunStages
  BY DEF NoRow, RunRow, RunStages
<1>3. place \in {"index", "check"} /\ (place = "check" => r \in Uploads) /\ (place = "index" => r \notin Uploads)
  BY DEF Uploads
<1> HIDE DEF row, place
<1>4. /\ RunTypeOK' /\ hand'[r].at = place /\ hand'[r].held = hand[r].held /\ hand'[r].result = hand[r].result
      /\ runRow'[r] = row
      /\ \A x \in Uploading : x # r => runRow'[x] = runRow[x] /\ hand'[x] = hand[x] /\ answered'[x] = answered[x]
  BY <1>1, <1>2, RunInvParts, RowAndPlaceMove
<1>5. RunFits(r)'
  BY <1>1, <1>2, <1>3, <1>4, RunInvParts DEF RunFits, Alive
<1>6. QED
  BY <1>1, <1>4, <1>5, RunStep DEF AnswersFor

LEMMA CheckKeeps == ASSUME RunInv, NEW r \in Uploading, Check(r) PROVE RunInv'
<1>1. /\ hand[r].at = "check" /\ UNCHANGED <<kept, searchable, scanned, serving, mishaps>>
      /\ {"store", "ended"} \subseteq RunStages
  BY DEF Check, corpusRuns, RunStages
<1>2. CASE FileOf[r] \notin kept /\ Goes(r, "store") /\ UNCHANGED <<runRow, answered>>
  <2>1. /\ RunTypeOK' /\ hand'[r].at = "store" /\ hand'[r].held = hand[r].held /\ hand'[r].result = hand[r].result
        /\ \A x \in Uploading : x # r => runRow'[x] = runRow[x] /\ hand'[x] = hand[x] /\ answered'[x] = answered[x]
    BY <1>1, <1>2, RunInvParts, PlaceMoves
  <2>2. RunFits(r)'
    BY <1>1, <1>2, <2>1, RunInvParts DEF RunFits, Alive
  <2>3. QED
    BY <1>1, <2>1, <2>2, RunStep DEF AnswersFor
<1>3. CASE /\ FileOf[r] \in kept /\ r \in Webs /\ Tell(r, "duplicate") /\ UNCHANGED runRow
           /\ hand' = [hand EXCEPT ![r].at = "ended", ![r].held = TRUE]
  <2> DEFINE h == [hand[r] EXCEPT !.at = "ended", !.held = TRUE]
  <2>1. h \in RunHand /\ h.at = "ended" /\ h.held = TRUE /\ h.result = hand[r].result
    BY <1>1, SameRuns, RunInvParts DEF RunHand
  <2>2. hand' = [hand EXCEPT ![r] = h] /\ answered' = [answered EXCEPT ![r] = "duplicate"]
    BY <1>3, SameRuns, RunInvParts DEF Tell, RunHand
  <2> HIDE DEF h
  <2>3. runRow' = [runRow EXCEPT ![r] = runRow[r]] /\ runRow[r] \in RunRow
    BY <1>3, SameRuns, RunInvParts
  <2>4. /\ RunTypeOK' /\ hand'[r] = h /\ runRow'[r] = runRow[r]
        /\ \A x \in Uploading : x # r => runRow'[x] = runRow[x] /\ hand'[x] = hand[x] /\ answered'[x] = answered[x]
    BY <1>1, <2>1, <2>2, <2>3, RunInvParts, RunStepTyped
  <2>5. RunFits(r)'
    BY <1>1, <1>3, <2>1, <2>4, RunInvParts DEF RunFits, Alive
  <2>6. QED
    BY <1>1, <2>4, <2>5, RunStep DEF AnswersFor
<1>4. CASE /\ FileOf[r] \in kept /\ r \notin Webs /\ Shows(r, Settled(r, "success")) /\ UNCHANGED answered
           /\ hand' = [hand EXCEPT ![r].at = "ended", ![r].held = TRUE, ![r].result = "success"]
  <2> DEFINE h == [hand[r] EXCEPT !.at = "ended", !.held = TRUE, !.result = "success"]
             row == Settled(r, "success")
  <2>1. h \in RunHand /\ h.at = "ended" /\ h.held = TRUE /\ h.result = "success"
    BY <1>1, SameRuns, RunInvParts DEF RunHand
  <2>2. hand' = [hand EXCEPT ![r] = h] /\ runRow' = [runRow EXCEPT ![r] = row]
    BY <1>4, SameRuns, RunInvParts DEF Shows, RunHand
  <2>3. /\ row \in RunRow /\ row.is = "success" /\ row.stamped
        /\ KindOf[r] = "command" => row.error = "none"
    BY SettledIs, RunInvParts
  <2> HIDE DEF h, row
  <2>4. answered' = [answered EXCEPT ![r] = answered[r]]
        /\ answered[r] \in {"nothing", "queued", "duplicate", "refused", "error"}
    BY <1>4, SameRuns, RunInvParts
  <2>5. /\ RunTypeOK' /\ hand'[r] = h /\ runRow'[r] = row
        /\ \A x \in Uploading : x # r => runRow'[x] = runRow[x] /\ hand'[x] = hand[x] /\ answered'[x] = answered[x]
    BY <1>1, <2>1, <2>2, <2>3, <2>4, RunInvParts, RunStepTyped
  <2>6. r \in Uploads => KindOf[r] = "command"
    BY <1>4, KindsAssumption DEF Uploads, Webs
  <2>7. RunFits(r)'
    BY <1>1, <1>4, <2>1, <2>3, <2>5, <2>6, RunInvParts DEF RunFits, Alive
  <2>8. QED
    BY <1>1, <2>5, <2>7, RunStep DEF AnswersFor
<1>5. CASE r \in Webs /\ Tell(r, "refused") /\ Goes(r, "ended") /\ UNCHANGED runRow
  <2>1. /\ RunTypeOK' /\ hand'[r].at = "ended" /\ hand'[r].held = hand[r].held /\ hand'[r].result = hand[r].result
        /\ answered'[r] = "refused"
        /\ \A x \in Uploading : x # r => runRow'[x] = runRow[x] /\ hand'[x] = hand[x] /\ answered'[x] = answered[x]
    BY <1>1, <1>5, RunInvParts, PlaceAndAnswerMove
  <2>2. RunFits(r)'
    BY <1>1, <1>5, <2>1, RunInvParts DEF RunFits, Alive
  <2>3. QED
    BY <1>1, <2>1, <2>2, RunStep DEF AnswersFor
<1>6. CASE r \notin Webs /\ EndsWith(r, "failed") /\ UNCHANGED answered
  BY <1>1, <1>6, RunEnds
<1>7. QED
  BY <1>2, <1>3, <1>4, <1>5, <1>6 DEF Check

LEMMA StoreFileKeeps == ASSUME RunInv, NEW r \in Uploading, StoreFile(r) PROVE RunInv'
<1>1. /\ hand[r].at = "store" /\ UNCHANGED <<runRow, searchable, scanned, serving, mishaps>>
      /\ {"row", "index", "failing", "ended"} \subseteq RunStages /\ kept \subseteq kept'
      /\ searchable' \subseteq kept' /\ scanned' \subseteq kept'
  BY RunInvParts DEF StoreFile, corpusRuns, RunStages
<1>2. CASE r \in Webs /\ Tell(r, "error") /\ Goes(r, "ended") /\ UNCHANGED kept
  <2>1. /\ RunTypeOK' /\ hand'[r].at = "ended" /\ hand'[r].held = hand[r].held /\ hand'[r].result = hand[r].result
        /\ answered'[r] = "error"
        /\ \A x \in Uploading : x # r => runRow'[x] = runRow[x] /\ hand'[x] = hand[x] /\ answered'[x] = answered[x]
    BY <1>1, <1>2, RunInvParts, PlaceAndAnswerMove
  <2>2. RunFits(r)'
    BY <1>1, <1>2, <2>1, RunInvParts DEF RunFits, Alive
  <2>3. QED
    BY <1>1, <1>2, <2>1, <2>2, RunStep DEF AnswersFor
<1>3. CASE r \notin Webs /\ Goes(r, "failing") /\ UNCHANGED <<kept, answered>>
  <2>1. /\ RunTypeOK' /\ hand'[r].at = "failing" /\ hand'[r].held = hand[r].held /\ hand'[r].result = hand[r].result
        /\ \A x \in Uploading : x # r => runRow'[x] = runRow[x] /\ hand'[x] = hand[x] /\ answered'[x] = answered[x]
    BY <1>1, <1>3, RunInvParts, PlaceMoves
  <2>2. RunFits(r)'
    BY <1>1, <1>3, <2>1, RunInvParts DEF RunFits, Alive
  <2>3. QED
    BY <1>1, <1>3, <2>1, <2>2, RunStep DEF AnswersFor
<1>4. CASE kept' = kept \union {FileOf[r]} /\ UNCHANGED answered /\ Goes(r, IF r \in Webs THEN "row" ELSE "index")
  <2> DEFINE place == IF r \in Webs THEN "row" ELSE "index"
  <2>1. place \in RunStages /\ place \in {"row", "index"} /\ (r \in Webs <=> place = "row") /\ Goes(r, place)
    BY <1>1, <1>4
  <2> HIDE DEF place
  <2>2. /\ RunTypeOK' /\ hand'[r].at = place /\ hand'[r].held = hand[r].held /\ hand'[r].result = hand[r].result
        /\ \A x \in Uploading : x # r => runRow'[x] = runRow[x] /\ hand'[x] = hand[x] /\ answered'[x] = answered[x]
    BY <1>1, <1>4, <2>1, RunInvParts, PlaceMoves
  <2>3. RunFits(r)'
    BY <1>1, <1>4, <2>1, <2>2, RunInvParts DEF RunFits, Alive
  <2>4. AnswersFor(r)' /\ ~AnswersFor(r)
    BY <1>1, <2>1, <2>2, <2>3, RunInvParts DEF AnswersFor, RunFits
  <2>5. r \in Uploads
    BY <1>1, RunInvParts DEF RunFits
  <2>6. QED
    BY <1>1, <1>4, <2>2, <2>3, <2>4, <2>5, RunStep
<1>5. QED
  BY <1>2, <1>3, <1>4 DEF StoreFile

LEMMA QueueRowKeeps == ASSUME RunInv, NEW r \in Uploading, QueueRow(r) PROVE RunInv'
<1> DEFINE row == [NoRow EXCEPT !.is = "queued"]
<1>1. /\ hand[r].at = "row" /\ Shows(r, row) /\ Goes(r, "start") /\ "start" \in RunStages
      /\ UNCHANGED <<answered, kept, searchable, scanned, serving, mishaps>>
  BY DEF QueueRow, corpusRuns, RunStages
<1>2. row \in RunRow /\ row.is = "queued" /\ row.error = "none"
  BY DEF NoRow, RunRow
<1> HIDE DEF row
<1>3. /\ RunTypeOK' /\ hand'[r].at = "start" /\ hand'[r].held = hand[r].held /\ hand'[r].result = hand[r].result
      /\ runRow'[r] = row
      /\ \A x \in Uploading : x # r => runRow'[x] = runRow[x] /\ hand'[x] = hand[x] /\ answered'[x] = answered[x]
  BY <1>1, <1>2, RunInvParts, RowAndPlaceMove
<1>4. RunFits(r)'
  BY <1>1, <1>2, <1>3, RunInvParts DEF RunFits, Alive
<1>5. QED
  BY <1>1, <1>3, <1>4, RunStep DEF AnswersFor

LEMMA StartThreadKeeps == ASSUME RunInv, NEW r \in Uploading, StartThread(r) PROVE RunInv'
<1>1. /\ hand[r].at = "start" /\ Goes(r, "begin") /\ Tell(r, "queued") /\ "begin" \in RunStages
      /\ UNCHANGED <<runRow, kept, searchable, scanned, serving, mishaps>>
  BY DEF StartThread, corpusRuns, RunStages
<1>2. /\ RunTypeOK' /\ hand'[r].at = "begin" /\ hand'[r].held = hand[r].held /\ hand'[r].result = hand[r].result
      /\ \A x \in Uploading : x # r => runRow'[x] = runRow[x] /\ hand'[x] = hand[x] /\ answered'[x] = answered[x]
  BY <1>1, RunInvParts, PlaceAndAnswerMove
<1>3. RunFits(r)'
  BY <1>1, <1>2, RunInvParts DEF RunFits, Alive
<1>4. QED
  BY <1>1, <1>2, <1>3, RunStep DEF AnswersFor

LEMMA BeginWorkKeeps == ASSUME RunInv, NEW r \in Uploading, BeginWork(r) PROVE RunInv'
<1> DEFINE row == [runRow[r] EXCEPT !.is = "running"]
<1>1. /\ hand[r].at = "begin" /\ Shows(r, row) /\ Goes(r, "index") /\ "index" \in RunStages
      /\ UNCHANGED <<answered, kept, searchable, scanned, serving, mishaps>>
  BY DEF BeginWork, corpusRuns, RunStages
<1>2. row \in RunRow /\ row.is = "running" /\ row.error = runRow[r].error
  BY SameRuns, RunInvParts DEF RunRow
<1> HIDE DEF row
<1>3. /\ RunTypeOK' /\ hand'[r].at = "index" /\ hand'[r].held = hand[r].held /\ hand'[r].result = hand[r].result
      /\ runRow'[r] = row
      /\ \A x \in Uploading : x # r => runRow'[x] = runRow[x] /\ hand'[x] = hand[x] /\ answered'[x] = answered[x]
  BY <1>1, <1>2, RunInvParts, RowAndPlaceMove
<1>4. RunFits(r)'
  BY <1>1, <1>2, <1>3, RunInvParts DEF RunFits, Alive
<1>5. QED
  BY <1>1, <1>3, <1>4, RunStep DEF AnswersFor

LEMMA IndexTextKeeps == ASSUME RunInv, NEW r \in Uploading, IndexText(r) PROVE RunInv'
<1> DEFINE place == IF KindOf[r] = "sync" THEN "end" ELSE "links"
           found == IF KindOf[r] = "sync" THEN kept \intersect OnListing ELSE {FileOf[r]}
<1>1. /\ hand[r].at = "index" /\ Goes(r, place) /\ searchable' = searchable \union found
      /\ UNCHANGED <<runRow, answered, kept, scanned, serving, mishaps>>
  BY DEF IndexText
<1>2. /\ place \in RunStages
      /\ \/ place = "end" /\ r \notin Uploads
         \/ place = "links" /\ r \in Uploads
  <2>1. CASE KindOf[r] = "sync"
    BY <2>1 DEF Uploads, RunStages
  <2>2. CASE KindOf[r] # "sync"
    BY <2>2 DEF Uploads, RunStages
  <2>3. QED
    BY <2>1, <2>2
<1>3. found \subseteq kept /\ (r \in Uploads => FileOf[r] \in found)
  <2>1. CASE KindOf[r] = "sync"
    BY <2>1 DEF Uploads
  <2>2. CASE KindOf[r] # "sync"
    BY <1>1, <2>2, RunInvParts DEF Uploads, RunFits
  <2>3. QED
    BY <2>1, <2>2
<1> HIDE DEF place, found
<1>4. /\ RunTypeOK' /\ hand'[r].at = place /\ hand'[r].held = hand[r].held /\ hand'[r].result = hand[r].result
      /\ \A x \in Uploading : x # r => runRow'[x] = runRow[x] /\ hand'[x] = hand[x] /\ answered'[x] = answered[x]
  BY <1>1, <1>2, <1>3, RunInvParts, PlaceMoves
<1>5. RunFits(r)'
  BY <1>1, <1>2, <1>3, <1>4, RunInvParts DEF RunFits, Alive
<1>6. searchable \subseteq searchable'
  BY <1>1
<1>7. QED
  BY <1>1, <1>2, <1>4, <1>5, <1>6, RunStep DEF AnswersFor

LEMMA ScanCircularsKeeps == ASSUME RunInv, NEW r \in Uploading, ScanCirculars(r) PROVE RunInv'
<1>1. /\ hand[r].at = "links" /\ Goes(r, "end") /\ "end" \in RunStages /\ scanned' = scanned \union {FileOf[r]}
      /\ UNCHANGED <<runRow, answered, kept, searchable, serving, mishaps>>
  BY DEF ScanCirculars, RunStages
<1>2. FileOf[r] \in kept
  BY <1>1, RunInvParts DEF RunFits
<1>3. /\ RunTypeOK' /\ hand'[r].at = "end" /\ hand'[r].held = hand[r].held /\ hand'[r].result = hand[r].result
      /\ \A x \in Uploading : x # r => runRow'[x] = runRow[x] /\ hand'[x] = hand[x] /\ answered'[x] = answered[x]
  BY <1>1, <1>2, RunInvParts, PlaceMoves
<1>4. RunFits(r)'
  BY <1>1, <1>3, RunInvParts DEF RunFits, Alive
<1>5. QED
  BY <1>1, <1>3, <1>4, RunStep DEF AnswersFor

LEMMA EndRunKeeps == ASSUME RunInv, NEW r \in Uploading, EndRun(r) PROVE RunInv'
<1>1. /\ hand[r].at = "end" /\ EndsWith(r, "success")
      /\ UNCHANGED <<answered, kept, searchable, scanned, serving, mishaps>>
  BY DEF EndRun, corpusRuns
<1>2. r \in Uploads => FileOf[r] \in searchable \intersect scanned
  BY <1>1, RunInvParts DEF RunFits
<1>3. QED
  BY <1>1, <1>2, RunEnds

LEMMA WorkFailsKeeps == ASSUME RunInv, NEW r \in Uploading, WorkFails(r) PROVE RunInv'
<1>1. PICK dirty \in BOOLEAN :
        /\ hand[r].at \in {"index", "links"} \/ (hand[r].at = "store" /\ r \notin Webs)
        /\ Mishap /\ hand' = [hand EXCEPT ![r].at = "failing", ![r].dirty = dirty]
        /\ UNCHANGED <<runRow, answered, corpusRuns, serving>>
  BY DEF WorkFails
<1> DEFINE h == [hand[r] EXCEPT !.at = "failing", !.dirty = dirty]
<1>2. h \in RunHand /\ h.at = "failing" /\ h.held = hand[r].held /\ h.result = hand[r].result
  BY SameRuns, RunInvParts DEF RunHand, RunStages
<1>3. hand' = [hand EXCEPT ![r] = h]
  BY <1>1, SameRuns, RunInvParts DEF RunHand
<1>4. UNCHANGED <<runRow, answered, kept, searchable, scanned, serving>> /\ mishaps' \in 0..MishapBound
  BY <1>1, MishapCounts, RunInvParts DEF corpusRuns
<1> HIDE DEF h
<1>5. /\ RunTypeOK' /\ hand'[r] = h
      /\ \A x \in Uploading : x # r => runRow'[x] = runRow[x] /\ hand'[x] = hand[x] /\ answered'[x] = answered[x]
  BY <1>2, <1>3, <1>4, RunInvParts DEF RunTypeOK
<1>6. RunFits(r)'
  BY <1>1, <1>2, <1>4, <1>5, RunInvParts DEF RunFits, Alive
<1>7. QED
  BY <1>2, <1>4, <1>5, <1>6, RunStep DEF AnswersFor

(* A run that is over without a word: its row is as it was.                *)
LEMMA RunDies ==
  ASSUME RunInv, NEW r \in Uploading, Goes(r, "dead"), hand[r].at \notin {"off", "ended", "dead"},
         \/ r \notin Webs
         \/ hand[r].at \in {"begin", "failing"},
         UNCHANGED <<runRow, answered, kept, searchable, scanned, serving>>, mishaps' \in 0..MishapBound
  PROVE  RunInv'
<1>1. /\ RunTypeOK' /\ hand'[r].at = "dead" /\ hand'[r].held = hand[r].held /\ hand'[r].result = hand[r].result
      /\ \A x \in Uploading : x # r => runRow'[x] = runRow[x] /\ hand'[x] = hand[x] /\ answered'[x] = answered[x]
  BY RunInvParts, PlaceMoves DEF RunStages
<1>2. RunFits(r)'
  BY <1>1, RunInvParts DEF RunFits, Alive
<1>3. AnswersFor(r) => AnswersFor(r)'
  <2>1. hand[r].at \notin {"check", "store", "row"} => runRow[r].is \in {"queued", "running", "failed"}
    BY RunInvParts DEF RunFits, RunTypeOK, RunHand, RunStages
  <2>2. hand[r].at = "row" => r \in Webs
    BY RunInvParts DEF RunFits
  <2>3. QED
    BY <1>1, <2>1, <2>2 DEF AnswersFor
<1>4. QED
  BY <1>1, <1>2, <1>3, RunStep

LEMMA RecordFailureKeeps == ASSUME RunInv, NEW r \in Uploading, RecordFailure(r) PROVE RunInv'
<1>1. hand[r].at = "failing" /\ UNCHANGED <<answered, kept, searchable, scanned, serving, mishaps>>
  BY DEF RecordFailure, corpusRuns
<1>2. CASE Goes(r, "dead") /\ UNCHANGED runRow
  BY <1>1, <1>2, RunInvParts, RunDies
<1>3. CASE EndsWith(r, "failed")
  BY <1>1, <1>3, RunEnds
<1>4. QED
  BY <1>2, <1>3 DEF RecordFailure

LEMMA RowFailsKeeps == ASSUME RunInv, NEW r \in Uploading, RowFails(r) PROVE RunInv'
<1>1. /\ UNCHANGED <<runRow, kept, searchable, scanned, serving>> /\ mishaps' \in 0..MishapBound
      /\ {"ended", "dead", "failing"} \subseteq RunStages
  BY MishapCounts, RunInvParts DEF RowFails, corpusRuns, RunStages
<1>2. CASE hand[r].at \in {"store", "row", "start"} /\ r \in Webs /\ Tell(r, "error") /\ Goes(r, "ended")
  <2>1. /\ RunTypeOK' /\ hand'[r].at = "ended" /\ hand'[r].held = hand[r].held /\ hand'[r].result = hand[r].result
        /\ answered'[r] = "error"
        /\ \A x \in Uploading : x # r => runRow'[x] = runRow[x] /\ hand'[x] = hand[x] /\ answered'[x] = answered[x]
    BY <1>1, <1>2, RunInvParts, PlaceAndAnswerMove
  <2>2. RunFits(r)'
    BY <1>1, <1>2, <2>1, RunInvParts DEF RunFits, Alive
  <2>3. QED
    BY <1>1, <1>2, <2>1, <2>2, RunStep DEF AnswersFor
<1>3. CASE hand[r].at \in {"begin", "failing"} /\ Goes(r, "dead") /\ UNCHANGED answered
  BY <1>1, <1>3, RunDies
<1>4. CASE hand[r].at = "end" /\ Goes(r, IF KindOf[r] = "command" THEN "failing" ELSE "dead") /\ UNCHANGED answered
  <2> DEFINE place == IF KindOf[r] = "command" THEN "failing" ELSE "dead"
  <2>1. place \in {"failing", "dead"} /\ place \in RunStages /\ Goes(r, place)
    BY <1>1, <1>4
  <2> HIDE DEF place
  <2>2. /\ RunTypeOK' /\ hand'[r].at = place /\ hand'[r].held = hand[r].held /\ hand'[r].result = hand[r].result
        /\ \A x \in Uploading : x # r => runRow'[x] = runRow[x] /\ hand'[x] = hand[x] /\ answered'[x] = answered[x]
    BY <1>1, <1>4, <2>1, RunInvParts, PlaceMoves
  <2>3. RunFits(r)'
    BY <1>1, <1>4, <2>1, <2>2, RunInvParts DEF RunFits, Alive
  <2>4. AnswersFor(r) => AnswersFor(r)'
    BY <1>1, <1>4, <2>1, <2>2, RunInvParts DEF AnswersFor, RunFits
  <2>5. QED
    BY <1>1, <1>4, <2>2, <2>3, <2>4, RunStep
<1>5. QED
  BY <1>2, <1>3, <1>4 DEF RowFails, Goes

LEMMA CommandDiesKeeps == ASSUME RunInv, NEW r \in Uploading, CommandDies(r) PROVE RunInv'
<1>1. /\ r \notin Webs /\ hand[r].at \notin {"off", "ended", "dead"} /\ Goes(r, "dead")
      /\ UNCHANGED <<runRow, answered, kept, searchable, scanned, serving>> /\ mishaps' \in 0..MishapBound
  BY MishapCounts, RunInvParts DEF CommandDies, Alive, corpusRuns, Webs
<1>2. QED
  BY <1>1, RunDies

LEMMA ReindexKeeps == ASSUME RunInv, Reindex PROVE RunInv'
<1>1. PICK some \in SUBSET kept : /\ searchable' = searchable \union some
                                  /\ UNCHANGED <<runRow, hand, answered, kept, scanned, serving, mishaps>>
  BY DEF Reindex
<1>2. RunTypeOK'
  BY <1>1 DEF RunInv, RunTypeOK
<1>3. \A r \in Uploading : RunFits(r)'
  BY <1>1 DEF RunInv, RunFits, Alive
<1>4. FilesAnsweredFor'
  BY <1>1 DEF RunInv, FilesAnsweredFor, AnswersFor
<1>5. QED
  BY <1>2, <1>3, <1>4 DEF RunInv

LEMMA ServerDiesKeeps == ASSUME RunInv, ServerDies PROVE RunInv'
<1>1. /\ serving' = FALSE /\ UNCHANGED <<runRow, answered, kept, searchable, scanned>> /\ mishaps' \in 0..MishapBound
      /\ RunTypeOK
  BY MishapCounts DEF ServerDies, RunInv, corpusRuns
<1>2. hand' = [r \in Uploading |-> IF r \in Webs /\ Alive(r) THEN [hand[r] EXCEPT !.at = "dead"] ELSE hand[r]]
  BY DEF ServerDies
<1>3. ASSUME NEW r \in Uploading, r \in Webs, Alive(r)
      PROVE  /\ hand'[r] \in RunHand /\ hand'[r].at = "dead"
             /\ hand'[r].held = hand[r].held /\ hand'[r].result = hand[r].result
  <2>1. hand'[r] = [hand[r] EXCEPT !.at = "dead"]
    BY <1>2, <1>3
  <2>2. "dead" \in RunStages
    BY DEF RunStages
  <2>3. QED
    BY <1>1, <2>1, <2>2, PlaceIs
<1>4. ASSUME NEW r \in Uploading, ~(r \in Webs /\ Alive(r)) PROVE hand'[r] = hand[r] /\ hand[r] \in RunHand
  BY <1>1, <1>2, <1>4 DEF RunTypeOK
<1>5. RunTypeOK'
  <2>1. \A r \in Uploading : hand'[r] \in RunHand
    BY <1>3, <1>4
  <2>2. hand' \in [Uploading -> RunHand]
    BY <1>2, <2>1
  <2>3. QED
    BY <1>1, <2>2 DEF RunTypeOK
<1>6. \A r \in Uploading : RunFits(r)'
  <2> TAKE r \in Uploading
  <2>1. RunFits(r)
    BY DEF RunInv
  <2>2. CASE r \in Webs /\ Alive(r)
    BY <1>1, <1>3, <2>1, <2>2 DEF RunFits, Alive
  <2>3. CASE ~(r \in Webs /\ Alive(r))
    BY <1>1, <1>4, <2>1, <2>3 DEF RunFits, Alive
  <2>4. QED
    BY <2>2, <2>3
<1>7. \A r \in Uploading : AnswersFor(r) => AnswersFor(r)'
  <2> SUFFICES ASSUME NEW r \in Uploading, AnswersFor(r) PROVE AnswersFor(r)'
    OBVIOUS
  <2>1. CASE r \in Webs /\ Alive(r)
    <3>1. hand[r].at \in RunStages /\ RunFits(r)
      BY <1>1 DEF RunInv, RunTypeOK, RunHand
    <3>2. hand[r].at = "row" => answered[r] = "nothing"
      BY <3>1 DEF RunFits
    <3>3. hand[r].at # "row" => runRow[r].is \in {"queued", "running", "failed"}
      BY <2>1, <3>1 DEF RunFits, AnswersFor, Alive, RunStages
    <3>4. QED
      BY <1>1, <1>3, <2>1, <3>2, <3>3 DEF AnswersFor
  <2>2. CASE ~(r \in Webs /\ Alive(r))
    BY <1>1, <1>4, <2>2 DEF AnswersFor
  <2>3. QED
    BY <2>1, <2>2
<1>8. FilesAnsweredFor'
  BY <1>1, <1>7 DEF RunInv, FilesAnsweredFor, Uploads
<1>9. QED
  BY <1>5, <1>6, <1>8 DEF RunInv

LEMMA RestartServerKeeps == ASSUME RunInv, RestartServer PROVE RunInv'
<1>1. /\ serving = FALSE /\ serving' = TRUE /\ UNCHANGED <<hand, answered, kept, searchable, scanned, mishaps>>
      /\ RunTypeOK
  BY DEF RestartServer, RunInv, corpusRuns, RunTypeOK
<1>2. runRow' = [r \in Uploading |-> IF runRow[r].is \in {"queued", "running"}
                                     THEN [runRow[r] EXCEPT !.is = "failed", !.error = "restart"] ELSE runRow[r]]
  BY DEF RestartServer
<1>3. \A r \in Uploading :
        /\ runRow'[r] \in RunRow
        /\ \/ runRow'[r] = runRow[r]
           \/ runRow[r].is \in {"queued", "running"} /\ runRow'[r].is = "failed"
  BY <1>1, <1>2 DEF RunTypeOK, RunRow
<1>4. RunTypeOK'
  BY <1>1, <1>2, <1>3 DEF RunTypeOK
<1>5. \A r \in Uploading : RunFits(r)'
  <2> TAKE r \in Uploading
  <2>1. RunFits(r)
    BY DEF RunInv
  <2>2. CASE runRow'[r] = runRow[r]
    BY <1>1, <2>1, <2>2 DEF RunFits, Alive
  <2>3. CASE runRow[r].is \in {"queued", "running"} /\ runRow'[r].is = "failed"
    <3>1. hand[r].result = "none"
      BY <1>1, <2>1, <2>3 DEF RunFits, RunTypeOK, RunHand
    <3>2. hand[r].at # "off"
      BY <2>1, <2>3 DEF RunFits
    <3>3. ~(r \in Webs /\ Alive(r))
      BY <1>1, <2>1 DEF RunFits
    <3>4. QED
      BY <1>1, <2>1, <2>3, <3>1, <3>2, <3>3 DEF RunFits, Alive
  <2>4. QED
    BY <1>3, <2>2, <2>3
<1>6. \A r \in Uploading : AnswersFor(r) => AnswersFor(r)'
  BY <1>1, <1>3 DEF AnswersFor
<1>7. FilesAnsweredFor'
  BY <1>1, <1>6 DEF RunInv, FilesAnsweredFor, Uploads
<1>8. QED
  BY <1>4, <1>5, <1>7 DEF RunInv

LEMMA RunInvNext == RunInv /\ [RunNext]_runVars => RunInv'
<1> SUFFICES ASSUME RunInv, [RunNext]_runVars PROVE RunInv'
  OBVIOUS
<1>1. CASE UNCHANGED runVars
  BY <1>1 DEF runVars, RunInv, RunTypeOK, RunFits, Alive, FilesAnsweredFor, AnswersFor
<1>2. CASE Reindex \/ ServerDies \/ RestartServer
  BY <1>2, ReindexKeeps, ServerDiesKeeps, RestartServerKeeps
<1>3. ASSUME NEW r \in Uploading,
             \/ Receive(r) \/ StartRun(r) \/ Check(r) \/ StoreFile(r) \/ QueueRow(r) \/ StartThread(r) \/ BeginWork(r)
             \/ IndexText(r) \/ ScanCirculars(r) \/ EndRun(r) \/ WorkFails(r) \/ RecordFailure(r) \/ RowFails(r)
             \/ CommandDies(r)
      PROVE  RunInv'
  BY <1>3, ReceiveKeeps, StartRunKeeps, CheckKeeps, StoreFileKeeps, QueueRowKeeps, StartThreadKeeps, BeginWorkKeeps,
     IndexTextKeeps, ScanCircularsKeeps, EndRunKeeps, WorkFailsKeeps, RecordFailureKeeps, RowFailsKeeps,
     CommandDiesKeeps
<1>4. QED
  BY <1>1, <1>2, <1>3 DEF RunNext

LEMMA RunInvHolds == RunSpec => []RunInv
BY RunInvInit, RunInvNext, PTL DEF RunSpec

(* The runs keep their types, and no text is indexed or looked for that is *)
(* not stored.                                                             *)
THEOREM RunTypes == RunSpec => []RunTypeOK
<1>1. RunInv => RunTypeOK
  BY DEF RunInv
<1>2. QED
  BY <1>1, RunInvHolds, PTL

(* The row of an upload or a sync says how it ended, whatever a server did *)
(* to it that booted meanwhile (main.py, cli/commands.py).                 *)
THEOREM RowsSayHowTheirRunsEnded == RunSpec => []RunsSayHowTheyEnded
<1>1. RunInv => RunsSayHowTheyEnded
  BY DEF RunInv, RunFits, RunsSayHowTheyEnded
<1>2. QED
  BY <1>1, RunInvHolds, PTL

(* No file is stored and left unindexed, or unlooked for in the circulars, *)
(* without a run that is on its way, a row that shows no success, or an    *)
(* uploader who was not told that it is queued (main.py).                  *)
THEOREM AcceptedFilesAreAccountedFor == RunSpec => []AcceptedIsAccountedFor
<1>1. RunInv => AcceptedIsAccountedFor
  <2> SUFFICES ASSUME RunInv, NEW f \in kept \ (searchable \intersect scanned)
               PROVE  \E r \in Uploads :
                        /\ FileOf[r] = f /\ ~hand[r].held
                        /\ Alive(r) \/ runRow[r].is \in {"queued", "running", "failed"}
                           \/ (r \in Webs /\ answered[r] # "queued")
    BY DEF AcceptedIsAccountedFor
  <2>1. PICK r \in Uploads : FileOf[r] = f /\ AnswersFor(r)
    BY DEF RunInv, FilesAnsweredFor
  <2>2. QED
    BY <2>1 DEF AnswersFor, Alive
<1>2. QED
  BY <1>1, RunInvHolds, PTL

=============================================================================
