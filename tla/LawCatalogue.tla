---------------------------- MODULE LawCatalogue ----------------------------
(***************************************************************************)
(* The catalogue of laws and regulations (scraper/laws.py, laws_upload.py, *)
(* the law routes of main.py).  A CLI process syncs SBP's listing: it      *)
(* captures what each row serves as a version, a container's parts as      *)
(* documents of their own and the container as a manifest of them, and     *)
(* then decides which version of each document is in force.                *)
(* Administrators upload, pin and withdraw meanwhile, in the web process.  *)
(***************************************************************************)
EXTENDS Naturals, FiniteSets

CONSTANTS
  Files,     \* top-level documents that SBP hosts as a file
  Manual,    \* a top-level document that consists of parts
  Parts,     \* its parts
  Editions,  \* texts that SBP or an administrator may supply
  NoEdition, \* no text, no row
  Dates,     \* effective dates: numbers above 0
  LawBound,  \* how often each kind of event may happen
  LawTotal   \* how many there may be, the first sync not counted

ASSUME SitesAssumption == Manual \notin Files \union Parts /\ Files \intersect Parts = {}
ASSUME DatesAssumption == Dates \subseteq Nat \ {0}

LawEvents == {"publish", "tick", "sync", "upload", "admin", "fail", "crash", "lose"}
Hosted    == Files \union Parts
Docs      == Hosted \union {Manual}
Tops      == Files \union {Manual}

\* A manifest records which edition of each part the manual held.
Manifests == [Parts -> Editions \union {NoEdition}]
Keys      == Editions \union Manifests
ListingRows == [doc: Docs, text: Editions \union {NoEdition}, from: Dates \union {0}]

ASSUME EditionsAssumption == Editions # {} /\ NoEdition \notin Keys

VARIABLES
  site,     \* what SBP lists: rows, of parts the rows of the manual's page
  clock,    \* today
  doc,      \* durable: the reg_documents rows
  ver,      \* durable: the reg_document_versions of each document
  archive,  \* durable: the files of each document
  lost,     \* files that disappeared from the archive
  sync,     \* the CLI's sync
  uploads,  \* the uploads under way
  unpins,   \* unpinnings of a version without a pin: decided, not written
  overtaken, \* history: documents of such, written over what had changed
  lawCount  \* events so far

lawRows == <<doc, ver>>
requests == <<uploads, unpins, overtaken>>
lawVars == <<site, clock, lawRows, archive, lost, sync, requests, lawCount>>

-----------------------------------------------------------------------------
NoDoc  == [held |-> FALSE, origin |-> "sbp_listing", out |-> FALSE, flag |-> FALSE]
NoSync == [at |-> "off", now |-> 0, full |-> FALSE, listed |-> {}, rows |-> {}, page |-> {}, kids |-> {},
           row |-> NoEdition, got |-> NoEdition, known |-> FALSE, was |-> [d \in Docs |-> NoDoc],
           hashes |-> [p \in Parts |-> NoEdition], touched |-> {}, seen |-> {},
           obs |-> [d \in Docs |-> {}], before |-> [d \in Docs |-> {}], picks |-> [d \in Docs |-> NoEdition]]

FirstSync(k)  == k = "sync" /\ lawCount[k] = 0
LawHappens(k) ==
  /\ lawCount[k] < LawBound[k] /\ (FirstSync(k) \/ lawCount["any"] < LawTotal)
  /\ lawCount' = [lawCount EXCEPT ![k] = @ + 1, !["any"] = IF FirstSync(k) THEN @ ELSE @ + 1]

InForce(vs) == {k \in DOMAIN vs : vs[k].inforce}
Current(d)  == IF InForce(ver[d]) = {} THEN NoEdition ELSE CHOOSE k \in InForce(ver[d]) : TRUE
Add(vs, k, v) == [x \in DOMAIN vs \union {k} |-> IF x = k THEN v ELSE vs[x]]
DocRow == [held: BOOLEAN, origin: {"sbp_listing", "upload"}, out: BOOLEAN, flag: BOOLEAN]

VersionRow == [source: {"live", "upload"}, pinned: BOOLEAN, inforce: BOOLEAN, from: Dates \union {0}, first: Nat]
SyncState  ==
  [at: {"off", "rows", "parts", "got", "look", "select", "flush"}, now: Nat, full: BOOLEAN,
   listed: SUBSET Docs, rows: SUBSET ListingRows, page: SUBSET ListingRows, kids: SUBSET ListingRows,
   row: ListingRows \union {NoEdition}, got: Editions \union {NoEdition}, known: BOOLEAN,
   was: [Docs -> DocRow], hashes: Manifests, touched: SUBSET Docs, seen: SUBSET Docs,
   obs: [Docs -> SUBSET Keys], before: [Docs -> SUBSET Keys], picks: [Docs -> Keys \union {NoEdition}]]
UploadState == [at: {"checked", "stored"}, doc: Files, text: Editions, from: Dates \union {0}, pin: BOOLEAN, new: BOOLEAN]

LawTypeOK ==
  /\ site \subseteq ListingRows /\ clock \in Nat
  /\ doc \in [Docs -> DocRow] /\ ver \in [Docs -> {ver[d] : d \in Docs}]
  /\ \A d \in Docs : DOMAIN ver[d] \subseteq Keys /\ ver[d] \in [DOMAIN ver[d] -> VersionRow]
  /\ archive \in [Hosted -> SUBSET Editions] /\ lost \in [Hosted -> SUBSET Editions]
  /\ sync \in SyncState
  /\ uploads \subseteq UploadState /\ overtaken \subseteq Docs
  /\ \A u \in unpins : u.doc \in Docs /\ u.pick \in Keys \union {NoEdition} /\ u.saw \in [DOMAIN u.saw -> VersionRow]
  /\ lawCount \in [LawEvents \union {"any"} -> Nat]

Row1(d, e, t) == [doc |-> d, text |-> e, from |-> t]
RowsOf(d)     == {r \in site : r.doc = d}

LawInit ==
  /\ LET e == CHOOSE e \in Editions : TRUE
     IN site = {Row1(d, e, 0) : d \in Hosted} \union {Row1(Manual, NoEdition, 0)}
  /\ clock = 0
  /\ doc = [d \in Docs |-> NoDoc] /\ ver = [d \in Docs |-> [k \in {} |-> 0]]
  /\ archive = [d \in Hosted |-> {}] /\ lost = [d \in Hosted |-> {}]
  /\ sync = NoSync /\ uploads = {} /\ unpins = {} /\ overtaken = {}
  /\ lawCount = [k \in LawEvents \union {"any"} |-> 0]

-----------------------------------------------------------------------------
(* SBP replaces a document's file in place, lists a second edition that    *)
(* takes effect later, or takes the document off the page.                 *)
Listings(d) ==
  {{}} \union {{Row1(d, e, 0)} : e \in Editions}
       \union {{Row1(d, e, 0), Row1(d, x, t)} : e \in Editions, x \in Editions, t \in Dates}

Publish == \E d \in Hosted : \E new \in Listings(d) :
  /\ new # RowsOf(d) /\ LawHappens("publish")
  /\ site' = (site \ RowsOf(d)) \union new
  /\ UNCHANGED <<clock, lawRows, archive, lost, sync, requests>>

NextDay ==
  /\ LawHappens("tick") /\ clock' = clock + 1
  /\ UNCHANGED <<site, lawRows, archive, lost, sync, requests>>

LoseFile == \E d \in Hosted : \E e \in archive[d] :
  /\ LawHappens("lose")
  /\ archive' = [archive EXCEPT ![d] = @ \ {e}]
  /\ lost' = [lost EXCEPT ![d] = @ \union {e}]
  /\ UNCHANGED <<site, clock, lawRows, sync, requests>>

-----------------------------------------------------------------------------
(* Which version is in force.  A pin outranks SBP's own copy and that an   *)
(* upload; in the best tier with an edition whose date has come the latest *)
(* date wins, else what this pass pointed at, else the latest captured.    *)
Tiers(vs) == <<{k \in DOMAIN vs : vs[k].pinned},
               {k \in DOMAIN vs : ~vs[k].pinned /\ vs[k].source = "live"},
               {k \in DOMAIN vs : ~vs[k].pinned /\ vs[k].source = "upload"}>>

Come(vs, i, today) == {k \in Tiers(vs)[i] : vs[k].from <= today}

(* Faulty variant: a tier is chosen whether or not the date of anything in *)
(* it has come.                                                            *)
OpenTiersUndated(vs, today) == {i \in 1..3 : Tiers(vs)[i] # {}}
OpenTiers(vs, today) == {i \in 1..3 : Come(vs, i, today) # {}}

Winners(vs, observed, today) ==
  LET open  == OpenTiers(vs, today)
      best  == UNION {Come(vs, i, today) : i \in {i \in open : \A j \in open : i <= j}}
      dated == {k \in best : vs[k].from # 0}
      seen  == best \intersect observed
  IN IF best = {} THEN {NoEdition}
     ELSE IF dated # {} THEN {k \in dated : \A x \in dated : vs[x].from <= vs[k].from}
     ELSE IF seen # {} THEN seen
     ELSE {k \in best : \A x \in best : vs[x].first <= vs[k].first}

Decided(vs, k) == [x \in DOMAIN vs |-> [vs[x] EXCEPT !.inforce = (x = k)]]

\* A decision as it is written: only what differs from what was read.
Flushed(vs, pick, before) ==
  [k \in DOMAIN vs |-> [vs[k] EXCEPT !.inforce = IF (k = pick) # (k \in before) THEN k = pick ELSE @]]

-----------------------------------------------------------------------------
(* The sync.  A full pass takes every row; one by types, which may happen  *)
(* to name them all, or by number some of them, and those a new circular   *)
(* has asked to be looked at again.                                        *)
StartSync == \E some \in SUBSET Tops, full \in BOOLEAN :
  /\ sync.at = "off" /\ LawHappens("sync")
  /\ LET listing == {r \in site : r.doc \in Tops}
         listed  == {r.doc : r \in listing}
         flagged == {d \in Docs : doc[d].flag}
     IN /\ some \subseteq listed /\ (full => some = listed)
        /\ sync' = [NoSync EXCEPT !.at = "rows", !.now = clock, !.full = full, !.listed = listed,
                      !.rows = {r \in listing : r.doc \in some \/ (~full /\ r.doc \in flagged)}]
  /\ UNCHANGED <<site, clock, lawRows, archive, lost, requests>>

(* upsert_document and upsert_child: what a commit writes is only what     *)
(* differs from the row as it was loaded, before the download; a part's    *)
(* commit writes the manual's row, too.                                    *)
Refreshed(d, loaded) ==
  [held |-> TRUE, origin |-> IF d \in Tops THEN "sbp_listing" ELSE doc[d].origin,
   out  |-> doc[d].out /\ ~loaded.out, flag |-> doc[d].flag /\ ~(d \in Tops /\ loaded.flag)]
Upserted(d, was) ==
  [x \in Docs |-> IF x = d \/ (x = Manual /\ d \in Parts) THEN Refreshed(x, was[x]) ELSE doc[x]]

Load(d) == [sync EXCEPT !.was = [sync.was EXCEPT ![d] = doc[d]], !.touched = @ \union {d},
                        !.seen = IF d \in Tops THEN @ \union {d} ELSE @]

\* The bytes a row's link serves by the time it is fetched.
Served(r) == IF r \in site THEN {r.text} ELSE {x.text : x \in RowsOf(r.doc)}

(* What a manifest says of a part that could not be downloaded.            *)
(* Faulty variant: what the page lists.                                    *)
HashKeptListed(r) == r.text
HashKept(r) == IF Current(r.doc) \in Editions THEN Current(r.doc) ELSE NoEdition

Download(r, left) ==
  \/ \E e \in Served(r) :
       /\ archive' = [archive EXCEPT ![r.doc] = @ \union {e}]
       /\ sync' = [left EXCEPT !.at = "got", !.row = r, !.got = e]
       /\ UNCHANGED <<doc, ver, lawCount>>
  \/ /\ LawHappens("fail") /\ doc' = Upserted(r.doc, left.was)
     /\ sync' = [left EXCEPT !.was = [sync.was EXCEPT ![r.doc] = NoDoc, ![Manual] = NoDoc],
           !.hashes = IF r.doc \in Parts THEN [sync.hashes EXCEPT ![r.doc] = HashKept(r)] ELSE @]
     /\ UNCHANGED <<ver, archive>>

DownloadRow == \E r \in sync.rows :
  /\ sync.at = "rows" /\ r.doc \in Files
  /\ Download(r, [Load(r.doc) EXCEPT !.rows = @ \ {r}])
  /\ UNCHANGED <<site, clock, lost, requests>>

(* The page of the manual, and its parts one by one.  The row of the       *)
(* manual itself is written with the first commit after it.                *)
OpenManual == \E r \in sync.rows :
  /\ sync.at = "rows" /\ r.doc = Manual
  /\ LET page == {x \in site : x.doc \in Parts}
         left == [Load(Manual) EXCEPT !.rows = @ \ {r}]
     IN \/ /\ page # {}
           /\ sync' = [left EXCEPT !.at = "parts", !.kids = page, !.page = page]
           /\ UNCHANGED <<doc, lawCount>>
        \/ /\ LawHappens("fail") /\ doc' = Upserted(Manual, left.was)
           /\ sync' = [left EXCEPT !.was = [sync.was EXCEPT ![Manual] = NoDoc]]
  /\ UNCHANGED <<site, clock, ver, archive, lost, requests>>

DownloadPart == \E r \in sync.kids :
  /\ sync.at = "parts"
  /\ Download(r, [Load(r.doc) EXCEPT !.kids = @ \ {r}])
  /\ UNCHANGED <<site, clock, lost, requests>>

(* Whether the hash is on file is read before the text is extracted.       *)
LookUp ==
  /\ sync.at = "got"
  /\ sync' = [sync EXCEPT !.at = "look", !.known = sync.got \in DOMAIN ver[sync.row.doc]]
  /\ UNCHANGED <<site, clock, lawRows, archive, lost, requests, lawCount>>

(* sync_document_version and the commit of the row.  A version that an     *)
(* upload has added since cannot be inserted again: the pass ends.         *)
Capture ==
  /\ sync.at = "look"
  /\ LET d == sync.row.doc  e == sync.got  vs == ver[d]
         known  == [vs EXCEPT ![e].from = sync.row.from]
         new    == Add(vs, e, [source |-> "live", pinned |-> FALSE, inforce |-> FALSE,
                               from |-> sync.row.from, first |-> Cardinality(DOMAIN vs)])
         taken  == (~sync.known /\ e \in DOMAIN vs) \/ (~sync.was[d].held /\ doc[d].held)
     IN IF taken
        THEN sync' = NoSync /\ UNCHANGED lawRows
        ELSE /\ ver' = [ver EXCEPT ![d] = IF sync.known THEN known ELSE new]
             /\ doc' = Upserted(d, sync.was)
             /\ sync' = [sync EXCEPT !.at = IF d \in Parts THEN "parts" ELSE "rows",
                           !.row = NoEdition, !.got = NoEdition, !.known = FALSE,
                           !.was = [sync.was EXCEPT ![d] = NoDoc, ![Manual] = NoDoc],
                           !.hashes = IF d \in Parts THEN [sync.hashes EXCEPT ![d] = e] ELSE @,
                           !.obs = [sync.obs EXCEPT ![d] = sync.obs[d] \union {e}]]
  /\ UNCHANGED <<site, clock, archive, lost, requests, lawCount>>

(* The parts that left the page are delisted, and the manifest is written. *)
WriteManifest ==
  /\ sync.at = "parts" /\ sync.kids = {}
  /\ LET vs   == ver[Manual]
         m    == sync.hashes
         gone == {p \in Parts : doc[p].held /\ ~doc[p].out /\ doc[p].origin = "sbp_listing"}
                   \ {r.doc : r \in sync.page}
     IN /\ ver' = IF m \in DOMAIN vs THEN ver
                  ELSE [ver EXCEPT ![Manual] =
                         Add(vs, m, [source |-> "live", pinned |-> FALSE, inforce |-> FALSE, from |-> 0,
                                     first |-> Cardinality(DOMAIN vs)])]
        /\ doc' = [d \in Docs |-> IF d \in gone THEN [doc[d] EXCEPT !.out = TRUE] ELSE Upserted(Manual, sync.was)[d]]
        /\ sync' = [sync EXCEPT !.at = "rows", !.was = [sync.was EXCEPT ![Manual] = NoDoc],
                                !.obs = [sync.obs EXCEPT ![Manual] = sync.obs[Manual] \union {m}], !.page = {}]
  /\ UNCHANGED <<site, clock, archive, lost, requests, lawCount>>

(* The documents a full pass did not see.                                 *)
(* Faulty variant: those a pass over some rows of the listing did not see.*)
UnseenPartly == {d \in Tops \ sync.seen : doc[d].held /\ doc[d].origin = "sbp_listing"}
Unseen == {d \in Tops \ sync.seen : sync.full /\ doc[d].held /\ doc[d].origin = "sbp_listing"}

(* select_current_versions reads every version and decides; the decisions  *)
(* are flushed together, and the documents a full pass did not see are     *)
(* delisted with them.                                                     *)
Select ==
  /\ sync.at = "rows" /\ sync.rows = {}
  /\ \E picks \in [sync.touched -> Keys \union {NoEdition}] :
       /\ \A d \in sync.touched : picks[d] \in Winners(ver[d], sync.obs[d], sync.now)
       /\ sync' = [sync EXCEPT !.at = "flush",
                     !.picks = [d \in Docs |-> IF d \in sync.touched THEN picks[d] ELSE NoEdition],
                     !.obs = NoSync.obs, !.before = [d \in Docs |-> InForce(ver[d])]]
  /\ UNCHANGED <<site, clock, lawRows, archive, lost, requests, lawCount>>

Flush ==
  /\ sync.at = "flush"
  /\ ver' = [d \in Docs |-> IF d \notin sync.touched THEN ver[d]
                            ELSE Flushed(ver[d], sync.picks[d], sync.before[d])]
  /\ doc' = [d \in Docs |-> IF d \in Unseen THEN [doc[d] EXCEPT !.out = TRUE] ELSE doc[d]]
  /\ sync' = NoSync
  /\ UNCHANGED <<site, clock, archive, lost, requests, lawCount>>

CrashSync ==
  /\ sync.at # "off" /\ LawHappens("crash") /\ sync' = NoSync
  /\ UNCHANGED <<site, clock, lawRows, archive, lost, requests>>

SyncSteps == StartSync \/ DownloadRow \/ OpenManual \/ DownloadPart \/ LookUp \/ Capture
               \/ WriteManifest \/ Select \/ Flush

-----------------------------------------------------------------------------
(* Administrators.  A change holds the database's write lock from its      *)
(* first statement that writes to its commit.                              *)
NewlyDecided(d, vs) == \E k \in Winners(vs, {}, clock) : ver' = [ver EXCEPT ![d] = Decided(vs, k)]
Pinned(vs, e)       == [k \in DOMAIN vs |-> [vs[k] EXCEPT !.pinned = (k = e)]]

(* Bytes that any document holds already are not stored again; the file is *)
(* archived and its text extracted before its rows are added, the one of a *)
(* document that was looked for before that.                               *)
CheckUpload == \E d \in Files, e \in Editions, t \in Dates \union {0}, pin \in BOOLEAN :
  /\ \A x \in Docs : e \notin DOMAIN ver[x]
  /\ LawHappens("upload")
  /\ uploads' = uploads \union {[at |-> "checked", doc |-> d, text |-> e, from |-> t, pin |-> pin, new |-> FALSE]}
  /\ UNCHANGED <<site, clock, lawRows, archive, lost, sync, unpins, overtaken>>

StoreUpload == \E u \in uploads :
  /\ u.at = "checked"
  /\ archive' = [archive EXCEPT ![u.doc] = @ \union {u.text}]
  /\ uploads' = (uploads \ {u}) \union {[u EXCEPT !.at = "stored", !.new = ~doc[u.doc].held]}
  /\ UNCHANGED <<site, clock, lawRows, lost, sync, unpins, overtaken, lawCount>>

\* A row that another writer has added meanwhile.
Collides(u) == u.text \in DOMAIN ver[u.doc] \/ (u.new /\ doc[u.doc].held)

(* A failure, at the latest of the insertion, leaves a file no row names.  *)
Upload == \E u \in uploads :
  /\ u.at = "stored" /\ uploads' = uploads \ {u}
  /\ \/ /\ ~Collides(u)
        /\ doc' = [doc EXCEPT ![u.doc] = IF @.held THEN @ ELSE [NoDoc EXCEPT !.held = TRUE, !.origin = "upload"]]
        /\ LET vs == Add(ver[u.doc], u.text, [source |-> "upload", pinned |-> FALSE, inforce |-> FALSE, from |-> u.from,
                                              first |-> Cardinality(DOMAIN ver[u.doc])])
           IN NewlyDecided(u.doc, IF u.pin THEN Pinned(vs, u.text) ELSE vs)
     \/ UNCHANGED lawRows
  /\ UNCHANGED <<site, clock, archive, lost, sync, unpins, overtaken, lawCount>>

PinVersion == \E d \in Docs : \E e \in DOMAIN ver[d] :
  /\ LawHappens("admin")
  /\ NewlyDecided(d, Pinned(ver[d], e))
  /\ UNCHANGED <<site, clock, doc, archive, lost, sync, requests>>

UnpinVersion == \E d \in Docs : \E e \in DOMAIN ver[d] :
  /\ ver[d][e].pinned /\ LawHappens("admin")
  /\ NewlyDecided(d, [ver[d] EXCEPT ![e].pinned = FALSE])
  /\ UNCHANGED <<site, clock, doc, archive, lost, sync, requests>>

(* Where there is no pin to take away nothing is written, or locked, until *)
(* the versions have been read and the decision is made.                   *)
DecideUnpinned == \E d \in Docs :
  /\ \E e \in DOMAIN ver[d] : ~ver[d][e].pinned
  /\ LawHappens("admin")
  /\ \E k \in Winners(ver[d], {}, clock) :
       unpins' = unpins \union {[doc |-> d, pick |-> k, saw |-> ver[d]]}
  /\ UNCHANGED <<site, clock, lawRows, archive, lost, sync, uploads, overtaken>>

WriteUnpinned == \E u \in unpins :
  /\ unpins' = unpins \ {u}
  /\ ver' = [ver EXCEPT ![u.doc] = Flushed(@, u.pick, InForce(u.saw))]
  /\ overtaken' = IF ver[u.doc] = u.saw THEN overtaken ELSE overtaken \union {u.doc}
  /\ UNCHANGED <<site, clock, doc, archive, lost, sync, uploads, lawCount>>

Withdraw == \E d \in Docs :
  /\ doc[d].held /\ ~doc[d].out /\ LawHappens("admin")
  /\ doc' = [doc EXCEPT ![d].out = TRUE]
  /\ UNCHANGED <<site, clock, ver, archive, lost, sync, requests>>

RestoreLaw == \E d \in Docs :
  /\ doc[d].out /\ LawHappens("admin")
  /\ doc' = [doc EXCEPT ![d].out = FALSE]
  /\ UNCHANGED <<site, clock, ver, archive, lost, sync, requests>>

(* A newly scraped circular names the document.                            *)
RequestRefetch == \E d \in Docs :
  /\ doc[d].held /\ ~doc[d].flag /\ LawHappens("admin")
  /\ doc' = [doc EXCEPT ![d].flag = TRUE]
  /\ UNCHANGED <<site, clock, ver, archive, lost, sync, requests>>

(* A reader asks for an archived edition whose file is gone: what its link *)
(* serves now is archived, and repairs the version it belongs to.          *)
Refetch == \E d \in Hosted : \E e \in DOMAIN ver[d] : \E r \in RowsOf(d) :
  /\ e \notin archive[d] /\ ver[d][e].source = "live"
  /\ archive' = [archive EXCEPT ![d] = @ \union {r.text}]
  /\ lost' = [lost EXCEPT ![d] = @ \ {r.text}]
  /\ UNCHANGED <<site, clock, lawRows, sync, requests, lawCount>>

LawNext == Publish \/ NextDay \/ LoseFile \/ StartSync \/ DownloadRow \/ OpenManual \/ DownloadPart \/ LookUp
             \/ Capture \/ WriteManifest \/ Select \/ Flush \/ CrashSync \/ CheckUpload \/ StoreUpload \/ Upload
             \/ PinVersion \/ UnpinVersion \/ DecideUnpinned \/ WriteUnpinned \/ Withdraw \/ RestoreLaw
             \/ RequestRefetch \/ Refetch

LawSpec == LawInit /\ [][LawNext]_lawVars

-----------------------------------------------------------------------------
(* SBP keeps no history: whatever version a row names, its file is in the  *)
(* archive unless it was lost there, and a manifest names only editions of *)
(* the parts that are on file (laws.py:605, 1005, laws_upload.py:278).     *)
HistoryIsOnFile ==
  /\ \A d \in Hosted : DOMAIN ver[d] \subseteq archive[d] \union lost[d]
  /\ \A m \in DOMAIN ver[Manual], p \in Parts : m[p] = NoEdition \/ m[p] \in DOMAIN ver[p]

(* A document with a text in force keeps one, if an edition of it has no   *)
(* date to wait for, through a sync that dies between its commits, a pin   *)
(* dated in the future or a change that a sync did not see (laws.py:1193), *)
(* unless the sync read two of them in force, or began before today: it    *)
(* decides for the day on which it began; or an unpinning that wrote       *)
(* nothing before it read has decided over what another writer changed.    *)
KeepsATextInForce == [][\A d \in Docs :
  (/\ InForce(ver[d]) # {} /\ \E k \in DOMAIN ver'[d] : ver'[d][k].from = 0
   /\ \A x, y \in sync.before[d] : x = y
   /\ sync.at = "flush" => sync.now = clock
   /\ d \notin overtaken')
  => InForce(ver'[d]) # {}]_lawVars

(* The sync delists a document only when SBP's page, as the sync fetched   *)
(* it, did not list it, and never an administrator's (laws.py:886, 1271).  *)
DelistedIsUnlisted == [][\A d \in Docs :
  ~doc[d].out /\ doc'[d].out /\ SyncSteps
    => doc[d].origin = "sbp_listing" /\ d \notin sync.listed \union {r.doc : r \in sync.page}]_lawVars

=============================================================================
