-------------------------- MODULE Documents_proofs ---------------------------
(***************************************************************************)
(* Proofs about the parts that keep and read documents, and about          *)
(* their composition (Documents).  Each is proved of the steps of its      *)
(* part, which are all that can happen to the part's variables.            *)
(***************************************************************************)
EXTENDS Found_proofs

-----------------------------------------------------------------------------
(***************************************************************************)
(* CircularStore.  The invariant: a hand that carries a page has one; what *)
(* the index or a hand has read of the row is no more than the row has; an *)
(* annex that is done has a text, one with a file has a row; and an index  *)
(* that is behind is one that somebody owes, or that was left behind.      *)
(***************************************************************************)

Contents  == 0..(Pages + 1)
Files     == [is : Contents, by : SUBSET Hands]
Downloads == [part : Files, file : Files, where : [Hands -> {"none", "part", "file", "gone"}]]
RowsSeen  == [body : 0..Pages, annex : Contents]
HandRecords == [task : Store!Tasks, at : Store!StepNames, page : 0..Pages, seen : RowsSeen,
                next : Store!StepNames]

RowTyped ==
  /\ body \in 0..Pages /\ fts \in RowsSeen
  /\ annex \in [status : {"none", "pending", "done", "error"}, text : Contents,
                path : BOOLEAN, indexed : BOOLEAN]
FilesTyped == html \in 1..Pages /\ cache \in Downloads /\ disk \in Downloads
FlagsTyped == scanned \in BOOLEAN /\ slipped \in BOOLEAN /\ behind \in BOOLEAN /\ stops \in 0..HandBound /\ begun \in 0..ErrandBound
StoreTyped == RowTyped /\ FilesTyped /\ FlagsTyped /\ hand \in [Hands -> HandRecords]

Carrying == {"write", "rename", "save", "keep"}
PagesInHand == \A h \in Hands : hand[h].at \in Carrying => hand[h].page # 0
BodyStays   == /\ fts.body # 0 => body # 0
               /\ \A h \in Hands : hand[h].seen.body # 0 => body # 0
AnnexSays   == /\ annex.status = "done" => annex.text # 0
               /\ annex.path => annex.status # "none"
               /\ \A h \in Hands : hand[h].task = "view" => annex.status # "none"
InStep      == fts.body = body /\ (annex.indexed => fts.annex = annex.text)
IndexFollows == slipped \/ behind \/ InStep \/ \E h \in Hands : Store!Owes(h)
StoreInv == StoreTyped /\ PagesInHand /\ BodyStays /\ AnnexSays /\ IndexFollows

LEMMA DownloadsStay ==
  ASSUME NEW s \in Downloads, NEW h \in Hands
  PROVE  /\ Store!Opened(s, h) \in Downloads
         /\ Store!Written(s, h, 1) \in Downloads
         /\ Store!Renamed(s, h) \in Downloads
         /\ Store!Unlinked(s, h) \in Downloads
         /\ [s EXCEPT !.where[h] = "none"] \in Downloads
         /\ \A f \in {"part", "file"}, c \in Contents : [s EXCEPT ![f] = Store!Whole(c)] \in Downloads
<1> Pages \in Nat /\ Pages > 0
  BY StoreAssumption
<1> USE DEF Downloads, Files, Contents
<1>1. Store!Opened(s, h) \in Downloads
  <2>1. Store!Torn(h) \in Files
    BY DEF Store!Torn, Store!Half
  <2>2. QED
    BY <2>1 DEF Store!Opened
<1>2. ASSUME NEW f \in {"part", "file"}, NEW c \in Contents
      PROVE  [s EXCEPT ![f] = Store!Whole(c)] \in Downloads
  <2>1. Store!Whole(c) \in Files
    BY DEF Store!Whole
  <2>2. CASE f = "part"
    BY <2>1, <2>2
  <2>3. CASE f = "file"
    BY <2>1, <2>3
  <2>4. QED
    BY <2>2, <2>3
<1>3. Store!Written(s, h, 1) \in Downloads
  <2>1. 1 \in Contents
    OBVIOUS
  <2>2. QED
    BY <1>2, <2>1 DEF Store!Written
<1>4. \A a, b \in {"none", "part", "file", "gone"}, w \in [Hands -> {"none", "part", "file", "gone"}] :
        Store!Shift(w, a, b) \in [Hands -> {"none", "part", "file", "gone"}]
  BY DEF Store!Shift
<1>5. Store!NoFile \in Files
  BY DEF Store!NoFile, Store!Nothing
<1>6. Store!Renamed(s, h) \in Downloads
  BY <1>4, <1>5 DEF Store!Renamed
<1>7. Store!Unlinked(s, h) \in Downloads
  BY <1>4, <1>5 DEF Store!Unlinked
<1>8. [s EXCEPT !.where[h] = "none"] \in Downloads
  OBVIOUS
<1>9. QED
  BY <1>1, <1>2, <1>3, <1>6, <1>7, <1>8

LEMMA StoreBegins ==
  ASSUME Store!StoreInit
  PROVE  StoreInv
<1> Pages \in Nat /\ Pages > 0 /\ HandBound \in Nat /\ ErrandBound \in Nat
  BY StoreAssumption
<1>1. Store!Store \in Downloads /\ [Store!Store EXCEPT !.file = Store!Whole(1)] \in Downloads
  BY DEF Store!Store, Store!NoFile, Store!Nothing, Store!Whole, Downloads, Files, Contents
<1>2. Store!Idle \in HandRecords /\ Store!Idle.seen.body = 0 /\ Store!Idle.at = "idle" /\ Store!Idle.task = "none"
  BY DEF Store!Idle, Store!NoRow, Store!Nothing, HandRecords, RowsSeen, Contents, Store!Tasks, Store!StepNames
<1>3. StoreTyped
  <2>1. html = 1 /\ stops = 0 /\ begun = 0 /\ slipped = FALSE /\ behind = FALSE
    BY Zenon DEF Store!StoreInit
  <2>2. cache \in Downloads /\ disk \in Downloads
    BY <1>1, Zenon DEF Store!StoreInit
  <2>3. hand \in [Hands -> HandRecords]
    BY <1>2 DEF Store!StoreInit
  <2>4. /\ body \in {0, 1} /\ scanned \in BOOLEAN /\ fts \in [body : {0, 1}, annex : {0, 1}]
        /\ annex \in [status : {"none", "pending", "done", "error"}, text : {0, 1},
                      path : BOOLEAN, indexed : BOOLEAN]
    <3>1. CASE body = 0 /\ annex = Store!NoAnnex /\ scanned = FALSE /\ fts = Store!NoRow
      BY <3>1 DEF Store!NoAnnex, Store!NoRow, Store!Nothing
    <3>2. CASE /\ body = 1 /\ scanned = TRUE /\ fts = [body |-> 1, annex |-> 1]
               /\ annex = [status |-> "done", text |-> 1, path |-> TRUE, indexed |-> TRUE]
      BY <3>2
    <3>3. QED
      BY <3>1, <3>2, Zenon DEF Store!StoreInit
  <2>5. {0, 1} \subseteq 0..Pages /\ {0, 1} \subseteq Contents /\ html \in 1..Pages
        /\ stops \in 0..HandBound /\ begun \in 0..ErrandBound
    BY <2>1 DEF Contents
  <2>6. fts \in RowsSeen
    BY <2>4, <2>5 DEF RowsSeen
  <2>7. annex \in [status : {"none", "pending", "done", "error"}, text : Contents,
                   path : BOOLEAN, indexed : BOOLEAN]
    BY <2>4, <2>5
  <2>8. QED
    BY <2>1, <2>2, <2>3, <2>4, <2>5, <2>6, <2>7 DEF StoreTyped, RowTyped, FilesTyped, FlagsTyped
<1>4. PagesInHand /\ BodyStays /\ AnnexSays /\ IndexFollows
  BY <1>2 DEF Store!StoreInit, PagesInHand, BodyStays, AnnexSays, IndexFollows, InStep, Carrying,
     Store!NoAnnex, Store!NoRow, Store!Nothing
<1>5. QED
  BY <1>3, <1>4 DEF StoreInv

\* The steps of a hand that is at work.
HandSteps(h) ==
  \/ Store!ReadCached(h)
  \/ Store!OpenPart(h)
  \/ Store!WritePart(h)
  \/ Store!RenamePart(h)
  \/ Store!FetchFails(h)
  \/ Store!Save(h)
  \/ Store!Keep(h)
  \/ Store!AddRow(h)
  \/ Store!Seek(h)
  \/ Store!Stream(h)
  \/ Store!Fill(h)
  \/ Store!Publish(h)
  \/ Store!DownloadFails(h)
  \/ Store!Extract(h)
  \/ Store!Scan(h)
  \/ Store!Vectorize(h)
  \/ Store!VectorsFail(h)
  \/ Store!ReadRows(h)
  \/ Store!IndexRows(h)
  \/ Store!Reread(h)
  \/ Store!Recommit(h)
  \/ Store!Reindex(h)
  \/ Store!Stop(h)

LEMMA HandsStayTyped ==
  ASSUME StoreInv, NEW h \in Hands, HandSteps(h)
  PROVE  /\ hand' \in [Hands -> HandRecords]
         /\ \A g \in Hands : g # h => hand'[g] = hand[g]
<1> Pages \in Nat /\ Pages > 0 /\ HandBound \in Nat /\ ErrandBound \in Nat
  BY StoreAssumption
<1>1. /\ Store!Idle \in HandRecords /\ hand \in [Hands -> HandRecords]
      /\ html \in 0..Pages /\ body \in 0..Pages /\ annex.text \in Contents
  BY DEF Store!Idle, Store!NoRow, Store!Nothing, HandRecords, RowsSeen, Contents, Store!Tasks, Store!StepNames,
     StoreInv, StoreTyped, RowTyped, FilesTyped
<1>2. CASE Store!ReadCached(h)
  BY <1>1, <1>2 DEF Store!ReadCached, Store!At, Store!Valid, Store!Forces, Store!Proceeds,
     Store!Fetched, Store!Goes, HandRecords, Store!StepNames, Store!Tasks, RowsSeen, Contents
<1>3. CASE Store!OpenPart(h)
  BY <1>1, <1>3 DEF Store!OpenPart, Store!At, HandRecords, Store!StepNames, Store!Tasks, RowsSeen,
     Contents
<1>4. CASE Store!WritePart(h)
  BY <1>1, <1>4 DEF Store!WritePart, Store!At, Store!Goes, HandRecords, Store!StepNames,
     Store!Tasks, RowsSeen, Contents
<1>5. CASE Store!RenamePart(h)
  <2>1. CASE cache.part = Store!NoFile
    BY <1>1, <1>5, <2>1 DEF Store!RenamePart, Store!Leaves, Store!Ends
  <2>2. CASE cache.part # Store!NoFile
    <3> DEFINE r == [hand[h] EXCEPT !.at = Store!Fetched(h),
                                    !.page = IF Store!Fetched(h) = "row" THEN 0 ELSE hand[h].page]
    <3>1. r \in HandRecords
      <4>1. Store!Fetched(h) \in Store!StepNames
        BY DEF Store!Fetched, Store!StepNames
      <4>2. hand[h].page \in 0..Pages /\ 0 \in 0..Pages
        BY <1>1 DEF HandRecords
      <4>3. QED
        BY <1>1, <4>1, <4>2 DEF HandRecords
    <3>2. hand' = [hand EXCEPT ![h] = r]
      BY <1>5, <2>2 DEF Store!RenamePart, Store!Proceeds
    <3> HIDE DEF r
    <3>3. QED
      BY <1>1, <3>1, <3>2
  <2>3. QED
    BY <2>1, <2>2
<1>6. CASE Store!FetchFails(h)
  BY <1>1, <1>6 DEF Store!FetchFails, Store!At, Store!Leaves, Store!Ends, HandRecords,
     Store!StepNames, Store!Tasks, RowsSeen, Contents
<1>7. CASE Store!Save(h)
  <2> DEFINE r == [hand[h] EXCEPT !.at = "read", !.page = 0,
                                  !.next = IF hand[h].task = "body" THEN "vectors" ELSE "row"]
  <2>1. r \in HandRecords
    <3>1. {"read", "vectors", "row"} \subseteq Store!StepNames /\ 0 \in 0..Pages
      BY DEF Store!StepNames
    <3>2. QED
      BY <1>1, <3>1 DEF HandRecords
  <2>2. hand' = [hand EXCEPT ![h] = r]
    BY <1>7 DEF Store!Save
  <2> HIDE DEF r
  <2>3. QED
    BY <1>1, <2>1, <2>2
<1>8. CASE Store!Keep(h)
  BY <1>1, <1>8 DEF Store!Keep, Store!At, HandRecords, Store!StepNames, Store!Tasks, RowsSeen,
     Contents
<1>9. CASE Store!AddRow(h)
  BY <1>1, <1>9 DEF Store!AddRow, Store!At, Store!Goes, HandRecords, Store!StepNames, Store!Tasks,
     RowsSeen, Contents
<1>10. CASE Store!Seek(h)
  BY <1>1, <1>10 DEF Store!Seek, Store!At, Store!Ends, Store!Goes, HandRecords, Store!StepNames,
     Store!Tasks, RowsSeen, Contents
<1>11. CASE Store!Stream(h)
  BY <1>1, <1>11 DEF Store!Stream, Store!At, Store!Goes, HandRecords, Store!StepNames, Store!Tasks,
     RowsSeen, Contents
<1>12. CASE Store!Fill(h)
  BY <1>1, <1>12 DEF Store!Fill, Store!At, Store!Goes, HandRecords, Store!StepNames, Store!Tasks,
     RowsSeen, Contents
<1>13. CASE Store!Publish(h)
  BY <1>1, <1>13 DEF Store!Publish, Store!At, Store!Failed, Store!Ends, Store!Goes, HandRecords,
     Store!StepNames, Store!Tasks, RowsSeen, Contents
<1>14. CASE Store!DownloadFails(h)
  BY <1>1, <1>14 DEF Store!DownloadFails, Store!At, Store!Failed, Store!Ends, Store!Goes,
     HandRecords, Store!StepNames, Store!Tasks, RowsSeen, Contents
<1>15. CASE Store!Extract(h)
  BY <1>1, <1>15 DEF Store!Extract, Store!At, Store!Ends, Store!Goes, HandRecords, Store!StepNames,
     Store!Tasks, RowsSeen, Contents
<1>16. CASE Store!Scan(h)
  BY <1>1, <1>16 DEF Store!Scan, Store!At, Store!Goes, Store!Ends, HandRecords, Store!StepNames,
     Store!Tasks, RowsSeen, Contents
<1>17. CASE Store!Vectorize(h)
  BY <1>1, <1>17 DEF Store!Vectorize, Store!At, Store!Ends, HandRecords, Store!StepNames,
     Store!Tasks, RowsSeen, Contents
<1>18. CASE Store!VectorsFail(h)
  BY <1>1, <1>18 DEF Store!VectorsFail, Store!At, Store!Ends, HandRecords, Store!StepNames,
     Store!Tasks, RowsSeen, Contents
<1>19. CASE Store!ReadRows(h)
  BY <1>1, <1>19 DEF Store!ReadRows, Store!At, Store!Rows, HandRecords, Store!StepNames,
     Store!Tasks, RowsSeen, Contents
<1>20. CASE Store!IndexRows(h)
  BY <1>1, <1>20 DEF Store!IndexRows, Store!At, Store!Copied, Store!Ends, Store!Rows, HandRecords,
     Store!StepNames, Store!Tasks, RowsSeen, Contents
<1>21. CASE Store!Stop(h)
  BY <1>1, <1>21 DEF Store!Stop, Store!At, Store!Leaves, Store!Ends, HandRecords, Store!StepNames,
     Store!Tasks, RowsSeen, Contents
<1>22. CASE Store!Reread(h)
  <2> DEFINE p == IF Store!Valid(cache.file) /\ cache.file.is # body THEN cache.file.is ELSE 0
             r == [hand[h] EXCEPT !.at = "commit", !.page = p]
  <2>1. p \in 0..Pages
    BY DEF Store!Valid
  <2>2. hand' = [hand EXCEPT ![h] = r]
    BY <1>22 DEF Store!Reread
  <2> HIDE DEF p
  <2>3. r \in HandRecords
    BY <1>1, <2>1 DEF HandRecords, Store!StepNames
  <2> HIDE DEF r
  <2>4. QED
    BY <1>1, <2>2, <2>3
<1>23. CASE Store!Recommit(h)
  <2> DEFINE r == [hand[h] EXCEPT !.at = "reindex", !.page = 0]
  <2>1. hand' = [hand EXCEPT ![h] = r] \/ hand' = [hand EXCEPT ![h] = Store!Idle]
    BY <1>23 DEF Store!Recommit, Store!Ends
  <2>2. r \in HandRecords
    <3>1. "reindex" \in Store!StepNames /\ 0 \in 0..Pages
      BY DEF Store!StepNames
    <3>2. QED
      BY <1>1, <3>1 DEF HandRecords
  <2> HIDE DEF r
  <2>3. QED
    BY <1>1, <2>1, <2>2
<1>24. CASE Store!Reindex(h)
  <2> DEFINE r(n) == [hand[h] EXCEPT !.at = "read", !.next = n]
  <2>1. hand' = [hand EXCEPT ![h] = r("read")] \/ hand' = [hand EXCEPT ![h] = r("idle")]
    BY <1>24 DEF Store!Reindex
  <2>2. r("read") \in HandRecords /\ r("idle") \in HandRecords
    BY <1>1 DEF HandRecords, Store!StepNames
  <2> HIDE DEF r
  <2>3. QED
    BY <1>1, <2>1, <2>2
<1>25. QED
  BY <1>2, <1>3, <1>4, <1>5, <1>6, <1>7, <1>8, <1>9, <1>10, <1>11, <1>12, <1>13, <1>14, <1>15, <1>16, <1>17, <1>18,
     <1>19, <1>20, <1>21, <1>22, <1>23, <1>24 DEF HandSteps

LEMMA RowStaysTyped ==
  ASSUME StoreInv, NEW h \in Hands, HandSteps(h)
  PROVE  RowTyped'
<1> Pages \in Nat /\ Pages > 0 /\ HandBound \in Nat /\ ErrandBound \in Nat
  BY StoreAssumption
<1>1. RowTyped /\ hand \in [Hands -> HandRecords] /\ disk \in Downloads
  BY DEF StoreInv, StoreTyped, FilesTyped
<1>2. CASE Store!ReadCached(h)
  BY <1>1, <1>2 DEF Store!ReadCached, RowTyped, HandRecords, RowsSeen, Contents, Downloads, Files
<1>3. CASE Store!OpenPart(h)
  BY <1>1, <1>3 DEF Store!OpenPart, RowTyped, HandRecords, RowsSeen, Contents, Downloads, Files
<1>4. CASE Store!WritePart(h)
  BY <1>1, <1>4 DEF Store!WritePart, RowTyped, HandRecords, RowsSeen, Contents, Downloads, Files
<1>5. CASE Store!RenamePart(h)
  BY <1>1, <1>5 DEF Store!RenamePart, RowTyped, HandRecords, RowsSeen, Contents, Downloads, Files
<1>6. CASE Store!FetchFails(h)
  BY <1>1, <1>6 DEF Store!FetchFails, RowTyped, HandRecords, RowsSeen, Contents, Downloads, Files
<1>7. CASE Store!Save(h)
  BY <1>1, <1>7 DEF Store!Save, RowTyped, HandRecords, RowsSeen, Contents, Downloads, Files
<1>8. CASE Store!Keep(h)
  BY <1>1, <1>8 DEF Store!Keep, RowTyped, HandRecords, RowsSeen, Contents, Downloads, Files
<1>9. CASE Store!AddRow(h)
  <2>1. [Store!NoAnnex EXCEPT !.status = "pending"] \in
          [status : {"none", "pending", "done", "error"}, text : Contents, path : BOOLEAN, indexed : BOOLEAN]
    <3>1. Store!NoAnnex \in
            [status : {"none", "pending", "done", "error"}, text : Contents, path : BOOLEAN, indexed : BOOLEAN]
      BY DEF Store!NoAnnex, Store!Nothing, Contents
    <3>2. QED
      BY <3>1
  <2>2. QED
    BY <1>1, <1>9, <2>1 DEF Store!AddRow, RowTyped
<1>10. CASE Store!Seek(h)
  BY <1>1, <1>10 DEF Store!Seek, RowTyped, HandRecords, RowsSeen, Contents, Downloads, Files
<1>11. CASE Store!Stream(h)
  BY <1>1, <1>11 DEF Store!Stream, RowTyped, HandRecords, RowsSeen, Contents, Downloads, Files
<1>12. CASE Store!Fill(h)
  BY <1>1, <1>12 DEF Store!Fill, RowTyped, HandRecords, RowsSeen, Contents, Downloads, Files
<1>13. CASE Store!Publish(h)
  <2>1. annex' = annex \/ annex' = [annex EXCEPT !.status = "error"] \/ annex' = [annex EXCEPT !.path = TRUE]
    BY <1>13 DEF Store!Publish, Store!Failed
  <2>2. UNCHANGED <<body, fts>>
    BY <1>13 DEF Store!Publish
  <2>3. QED
    BY <1>1, <2>1, <2>2 DEF RowTyped
<1>14. CASE Store!DownloadFails(h)
  BY <1>1, <1>14 DEF Store!DownloadFails, Store!Failed, RowTyped, HandRecords, RowsSeen, Contents,
     Downloads, Files
<1>15. CASE Store!Extract(h)
  BY <1>1, <1>15 DEF Store!Extract, Store!Read, Store!StatusOf, Store!Half, Store!Nothing,
     RowTyped, HandRecords, RowsSeen, Contents, Downloads, Files
<1>16. CASE Store!Scan(h)
  BY <1>1, <1>16 DEF Store!Scan, RowTyped, HandRecords, RowsSeen, Contents, Downloads, Files
<1>17. CASE Store!Vectorize(h)
  BY <1>1, <1>17 DEF Store!Vectorize, RowTyped, HandRecords, RowsSeen, Contents, Downloads, Files
<1>18. CASE Store!VectorsFail(h)
  BY <1>1, <1>18 DEF Store!VectorsFail, RowTyped, HandRecords, RowsSeen, Contents, Downloads, Files
<1>19. CASE Store!ReadRows(h)
  BY <1>1, <1>19 DEF Store!ReadRows, RowTyped, HandRecords, RowsSeen, Contents, Downloads, Files
<1>20. CASE Store!IndexRows(h)
  BY <1>1, <1>20 DEF Store!IndexRows, Store!Copied, RowTyped, HandRecords, RowsSeen, Contents,
     Downloads, Files
<1>21. CASE Store!Stop(h)
  BY <1>1, <1>21 DEF Store!Stop, RowTyped, HandRecords, RowsSeen, Contents, Downloads, Files
<1>22. CASE Store!Reread(h)
  BY <1>1, <1>22 DEF Store!Reread, RowTyped
<1>23. CASE Store!Recommit(h)
  <2>1. body' \in 0..Pages /\ UNCHANGED fts
    BY <1>1, <1>23 DEF Store!Recommit, RowTyped, HandRecords
  <2>2. annex' = annex \/ \E got \in Contents : annex' = Store!Reextracted(got)
    <3>1. Store!Read(disk.file.is) \subseteq Contents /\ Store!Nothing \in Contents
      BY <1>1 DEF Store!Read, Store!Half, Store!Nothing, Contents, Downloads, Files
    <3>2. QED
      BY <1>23, <3>1 DEF Store!Recommit
  <2>3. QED
    BY <1>1, <2>1, <2>2 DEF RowTyped, Store!Reextracted, Store!StatusOf
<1>24. CASE Store!Reindex(h)
  BY <1>1, <1>24 DEF Store!Reindex, RowTyped
<1>25. QED
  BY <1>2, <1>3, <1>4, <1>5, <1>6, <1>7, <1>8, <1>9, <1>10, <1>11, <1>12, <1>13, <1>14, <1>15, <1>16, <1>17, <1>18,
     <1>19, <1>20, <1>21, <1>22, <1>23, <1>24 DEF HandSteps

LEMMA FilesStayTyped ==
  ASSUME StoreInv, NEW h \in Hands, HandSteps(h)
  PROVE  FilesTyped'
<1> Pages \in Nat /\ Pages > 0 /\ HandBound \in Nat /\ ErrandBound \in Nat
  BY StoreAssumption
<1>1. FilesTyped /\ hand \in [Hands -> HandRecords]
  BY DEF StoreInv, StoreTyped
<1>2. CASE Store!ReadCached(h)
  BY <1>1, <1>2, DownloadsStay DEF Store!ReadCached, FilesTyped
<1>3. CASE Store!OpenPart(h)
  BY <1>1, <1>3, DownloadsStay DEF Store!OpenPart, FilesTyped
<1>4. CASE Store!WritePart(h)
  <2>1. hand[h].page \in Contents
    BY <1>1 DEF HandRecords, Contents
  <2>2. cache' \in Downloads
    BY <1>1, <1>4, <2>1, DownloadsStay DEF Store!WritePart, FilesTyped
  <2>3. QED
    BY <1>1, <1>4, <2>2 DEF Store!WritePart, FilesTyped
<1>5. CASE Store!RenamePart(h)
  BY <1>1, <1>5, DownloadsStay DEF Store!RenamePart, FilesTyped
<1>6. CASE Store!FetchFails(h)
  BY <1>1, <1>6, DownloadsStay DEF Store!FetchFails, FilesTyped
<1>7. CASE Store!Save(h)
  BY <1>1, <1>7, DownloadsStay DEF Store!Save, FilesTyped
<1>8. CASE Store!Keep(h)
  BY <1>1, <1>8, DownloadsStay DEF Store!Keep, FilesTyped
<1>9. CASE Store!AddRow(h)
  BY <1>1, <1>9, DownloadsStay DEF Store!AddRow, Store!NoAnnex, Store!Nothing, FilesTyped
<1>10. CASE Store!Seek(h)
  BY <1>1, <1>10, DownloadsStay DEF Store!Seek, FilesTyped
<1>11. CASE Store!Stream(h)
  BY <1>1, <1>11, DownloadsStay DEF Store!Stream, FilesTyped
<1>12. CASE Store!Fill(h)
  BY <1>1, <1>12, DownloadsStay DEF Store!Fill, FilesTyped
<1>13. CASE Store!Publish(h)
  BY <1>1, <1>13, DownloadsStay DEF Store!Publish, Store!Failed, FilesTyped
<1>14. CASE Store!DownloadFails(h)
  BY <1>1, <1>14, DownloadsStay DEF Store!DownloadFails, Store!Failed, FilesTyped
<1>15. CASE Store!Extract(h)
  BY <1>1, <1>15, DownloadsStay DEF Store!Extract, Store!Read, Store!StatusOf, Store!Half,
     Store!Nothing, FilesTyped
<1>16. CASE Store!Scan(h)
  BY <1>1, <1>16, DownloadsStay DEF Store!Scan, FilesTyped
<1>17. CASE Store!Vectorize(h)
  BY <1>1, <1>17, DownloadsStay DEF Store!Vectorize, FilesTyped
<1>18. CASE Store!VectorsFail(h)
  BY <1>1, <1>18, DownloadsStay DEF Store!VectorsFail, FilesTyped
<1>19. CASE Store!ReadRows(h)
  BY <1>1, <1>19, DownloadsStay DEF Store!ReadRows, FilesTyped
<1>20. CASE Store!IndexRows(h)
  BY <1>1, <1>20, DownloadsStay DEF Store!IndexRows, Store!Copied, FilesTyped
<1>21. CASE Store!Stop(h)
  BY <1>1, <1>21, DownloadsStay DEF Store!Stop, FilesTyped
<1>22. CASE Store!Reread(h)
  BY <1>1, <1>22, DownloadsStay DEF Store!Reread, Store!At, Store!Valid, FilesTyped
<1>23. CASE Store!Recommit(h)
  BY <1>1, <1>23, DownloadsStay DEF Store!Recommit, Store!At, Store!Reextracted, Store!Read, Store!StatusOf, Store!Half, Store!Nothing, Store!Ends, Store!Idle, FilesTyped
<1>24. CASE Store!Reindex(h)
  BY <1>1, <1>24, DownloadsStay DEF Store!Reindex, Store!At, FilesTyped
<1>25. QED
  BY <1>2, <1>3, <1>4, <1>5, <1>6, <1>7, <1>8, <1>9, <1>10, <1>11, <1>12, <1>13, <1>14, <1>15, <1>16, <1>17, <1>18,
     <1>19, <1>20, <1>21, <1>22, <1>23, <1>24 DEF HandSteps

LEMMA FlagsStayTyped ==
  ASSUME StoreInv, NEW h \in Hands, HandSteps(h)
  PROVE  FlagsTyped'
<1> Pages \in Nat /\ Pages > 0 /\ HandBound \in Nat /\ ErrandBound \in Nat
  BY StoreAssumption
<1>1. FlagsTyped
  BY DEF StoreInv, StoreTyped
<1>2. CASE Store!ReadCached(h)
  BY <1>1, <1>2 DEF Store!ReadCached, Store!Leaves, Store!Owes, FlagsTyped
<1>3. CASE Store!OpenPart(h)
  BY <1>1, <1>3 DEF Store!OpenPart, Store!Leaves, Store!Owes, FlagsTyped
<1>4. CASE Store!WritePart(h)
  BY <1>1, <1>4 DEF Store!WritePart, Store!Leaves, Store!Owes, FlagsTyped
<1>5. CASE Store!RenamePart(h)
  BY <1>1, <1>5 DEF Store!RenamePart, Store!Leaves, Store!Owes, FlagsTyped
<1>6. CASE Store!FetchFails(h)
  BY <1>1, <1>6 DEF Store!FetchFails, Store!Leaves, Store!Owes, FlagsTyped
<1>7. CASE Store!Save(h)
  BY <1>1, <1>7 DEF Store!Save, Store!Leaves, Store!Owes, FlagsTyped
<1>8. CASE Store!Keep(h)
  BY <1>1, <1>8 DEF Store!Keep, Store!Leaves, Store!Owes, FlagsTyped
<1>9. CASE Store!AddRow(h)
  BY <1>1, <1>9 DEF Store!AddRow, Store!Leaves, Store!Owes, FlagsTyped
<1>10. CASE Store!Seek(h)
  BY <1>1, <1>10 DEF Store!Seek, Store!Leaves, Store!Owes, FlagsTyped
<1>11. CASE Store!Stream(h)
  BY <1>1, <1>11 DEF Store!Stream, Store!Leaves, Store!Owes, FlagsTyped
<1>12. CASE Store!Fill(h)
  BY <1>1, <1>12 DEF Store!Fill, Store!Leaves, Store!Owes, FlagsTyped
<1>13. CASE Store!Publish(h)
  BY <1>1, <1>13 DEF Store!Publish, Store!Leaves, Store!Owes, FlagsTyped
<1>14. CASE Store!DownloadFails(h)
  BY <1>1, <1>14 DEF Store!DownloadFails, Store!Leaves, Store!Owes, FlagsTyped
<1>15. CASE Store!Extract(h)
  BY <1>1, <1>15 DEF Store!Extract, Store!Leaves, Store!Owes, FlagsTyped
<1>16. CASE Store!Scan(h)
  BY <1>1, <1>16 DEF Store!Scan, Store!Leaves, Store!Owes, FlagsTyped
<1>17. CASE Store!Vectorize(h)
  BY <1>1, <1>17 DEF Store!Vectorize, Store!Leaves, Store!Owes, FlagsTyped
<1>18. CASE Store!VectorsFail(h)
  BY <1>1, <1>18 DEF Store!VectorsFail, Store!Leaves, Store!Owes, FlagsTyped
<1>19. CASE Store!ReadRows(h)
  BY <1>1, <1>19 DEF Store!ReadRows, Store!Leaves, Store!Owes, FlagsTyped
<1>20. CASE Store!IndexRows(h)
  BY <1>1, <1>20 DEF Store!IndexRows, Store!Leaves, Store!Owes, FlagsTyped
<1>21. CASE Store!Stop(h)
  BY <1>1, <1>21 DEF Store!Stop, Store!Leaves, Store!Owes, FlagsTyped
<1>22. CASE Store!Reread(h)
  BY <1>1, <1>22 DEF Store!Reread, Store!At, Store!Valid, FlagsTyped
<1>23. CASE Store!Recommit(h)
  BY <1>1, <1>23 DEF Store!Recommit, Store!At, Store!Reextracted, Store!Read, Store!StatusOf, Store!Half, Store!Nothing, Store!Ends, Store!Idle, FlagsTyped
<1>24. CASE Store!Reindex(h)
  BY <1>1, <1>24 DEF Store!Reindex, Store!At, FlagsTyped
<1>25. QED
  BY <1>2, <1>3, <1>4, <1>5, <1>6, <1>7, <1>8, <1>9, <1>10, <1>11, <1>12, <1>13, <1>14, <1>15, <1>16, <1>17, <1>18,
     <1>19, <1>20, <1>21, <1>22, <1>23, <1>24 DEF HandSteps

\* What the text that is read again leaves.
LEMMA Recommitted ==
  ASSUME StoreInv, NEW h \in Hands, Store!Recommit(h)
  PROVE  /\ hand'[h].at \in {"idle", "reindex"} /\ hand'[h].task \in {"none", "anew"}
         /\ hand'[h].seen.body # 0 => hand[h].seen.body # 0
         /\ body # 0 => body' # 0
         /\ UNCHANGED fts
         /\ annex'.path => annex.path
         /\ annex.status # "none" => annex'.status # "none"
         /\ annex'.status = "done" => annex'.text # 0 \/ (annex.status = "done" /\ annex.text = 0)
<1>1. hand \in [Hands -> HandRecords] /\ RowTyped
  BY DEF StoreInv, StoreTyped
<1>2. /\ hand'[h].at \in {"idle", "reindex"} /\ hand'[h].task \in {"none", "anew"}
      /\ hand'[h].seen.body # 0 => hand[h].seen.body # 0
  <2>1. CASE hand[h].task = "anew"
    BY <1>1, <2>1 DEF Store!Recommit, HandRecords
  <2>2. CASE hand[h].task # "anew"
    BY <1>1, <2>2 DEF Store!Recommit, Store!Ends, Store!Idle, Store!NoRow
  <2>3. QED
    BY <2>1, <2>2
<1>3. (body # 0 => body' # 0) /\ UNCHANGED fts
  BY DEF Store!Recommit
<1>4. annex' = annex \/ (annex.status # "none" /\ \E got : annex' = Store!Reextracted(got))
  BY DEF Store!Recommit
<1>5. ASSUME NEW got, annex' = Store!Reextracted(got)
      PROVE  annex' = annex \/ annex' = [annex EXCEPT !.text = got, !.status = Store!StatusOf(got), !.indexed = FALSE]
  BY <1>5 DEF Store!Reextracted
<1>6. \A got : Store!StatusOf(got) \in {"error", "done"} /\ (Store!StatusOf(got) = "done" => got # 0)
  BY DEF Store!StatusOf, Store!Nothing
<1>7. QED
  BY <1>1, <1>2, <1>3, <1>4, <1>5, <1>6 DEF RowTyped

LEMMA PagesStayInHand ==
  ASSUME StoreInv, NEW h \in Hands, HandSteps(h)
  PROVE  PagesInHand'
<1> Pages \in Nat /\ Pages > 0 /\ HandBound \in Nat /\ ErrandBound \in Nat
  BY StoreAssumption
<1>1. /\ hand' \in [Hands -> HandRecords] /\ hand \in [Hands -> HandRecords]
      /\ \A g \in Hands : g # h => hand'[g] = hand[g]
      /\ PagesInHand /\ html \in 1..Pages
  BY HandsStayTyped DEF StoreInv, StoreTyped, RowTyped, FilesTyped
<1>2. CASE Store!ReadCached(h)
  <2>1. CASE Store!Valid(cache.file) /\ ~Store!Forces(h)
    <3>1. cache.file.is # 0 /\ cache.file.is # Store!Half
      BY <2>1 DEF Store!Valid, Store!Half
    <3>2. hand'[h].at = Store!Fetched(h)
          /\ (hand'[h].at # "row" => hand'[h].page # 0)
      BY <1>1, <1>2, <2>1, <3>1 DEF Store!ReadCached, Store!Proceeds, HandRecords
    <3>3. QED
      BY <1>1, <3>2 DEF PagesInHand, Carrying
  <2>2. CASE ~(Store!Valid(cache.file) /\ ~Store!Forces(h))
    BY <1>1, <1>2, <2>2 DEF Store!ReadCached, Store!Goes, PagesInHand, Carrying, HandRecords
  <2>3. QED
    BY <2>1, <2>2
<1>3. CASE Store!OpenPart(h)
  BY <1>1, <1>3 DEF Store!OpenPart, Store!At, Store!Idle, PagesInHand, Carrying, HandRecords
<1>4. CASE Store!WritePart(h)
  BY <1>1, <1>4 DEF Store!WritePart, Store!At, Store!Goes, Store!Idle, PagesInHand, Carrying,
     HandRecords
<1>5. CASE Store!RenamePart(h)
  BY <1>1, <1>5 DEF Store!RenamePart, Store!At, Store!Leaves, Store!Ends, Store!Proceeds,
     Store!Fetched, Store!Idle, PagesInHand, Carrying, HandRecords
<1>6. CASE Store!FetchFails(h)
  BY <1>1, <1>6 DEF Store!FetchFails, Store!At, Store!Leaves, Store!Ends, Store!Idle, PagesInHand,
     Carrying, HandRecords
<1>7. CASE Store!Save(h)
  BY <1>1, <1>7 DEF Store!Save, Store!At, Store!Idle, PagesInHand, Carrying, HandRecords
<1>8. CASE Store!Keep(h)
  BY <1>1, <1>8 DEF Store!Keep, Store!At, Store!Idle, PagesInHand, Carrying, HandRecords
<1>9. CASE Store!AddRow(h)
  BY <1>1, <1>9 DEF Store!AddRow, Store!At, Store!Goes, Store!Idle, PagesInHand, Carrying,
     HandRecords
<1>10. CASE Store!Seek(h)
  BY <1>1, <1>10 DEF Store!Seek, Store!At, Store!Ends, Store!Goes, Store!Idle, PagesInHand,
     Carrying, HandRecords
<1>11. CASE Store!Stream(h)
  BY <1>1, <1>11 DEF Store!Stream, Store!At, Store!Goes, Store!Idle, PagesInHand, Carrying,
     HandRecords
<1>12. CASE Store!Fill(h)
  BY <1>1, <1>12 DEF Store!Fill, Store!At, Store!Goes, Store!Idle, PagesInHand, Carrying,
     HandRecords
<1>13. CASE Store!Publish(h)
  BY <1>1, <1>13 DEF Store!Publish, Store!At, Store!Failed, Store!Ends, Store!Goes, Store!Idle,
     PagesInHand, Carrying, HandRecords
<1>14. CASE Store!DownloadFails(h)
  BY <1>1, <1>14 DEF Store!DownloadFails, Store!At, Store!Failed, Store!Ends, Store!Goes,
     Store!Idle, PagesInHand, Carrying, HandRecords
<1>15. CASE Store!Extract(h)
  BY <1>1, <1>15 DEF Store!Extract, Store!At, Store!Ends, Store!Goes, Store!Idle, PagesInHand,
     Carrying, HandRecords
<1>16. CASE Store!Scan(h)
  BY <1>1, <1>16 DEF Store!Scan, Store!At, Store!Goes, Store!Ends, Store!Idle, PagesInHand,
     Carrying, HandRecords
<1>17. CASE Store!Vectorize(h)
  BY <1>1, <1>17 DEF Store!Vectorize, Store!At, Store!Ends, Store!Idle, PagesInHand, Carrying,
     HandRecords
<1>18. CASE Store!VectorsFail(h)
  BY <1>1, <1>18 DEF Store!VectorsFail, Store!At, Store!Ends, Store!Idle, PagesInHand, Carrying,
     HandRecords
<1>19. CASE Store!ReadRows(h)
  BY <1>1, <1>19 DEF Store!ReadRows, Store!At, Store!Rows, Store!Idle, PagesInHand, Carrying,
     HandRecords
<1>20. CASE Store!IndexRows(h)
  BY <1>1, <1>20 DEF Store!IndexRows, Store!At, Store!Copied, Store!Ends, Store!Rows, Store!Idle,
     PagesInHand, Carrying, HandRecords
<1>21. CASE Store!Stop(h)
  BY <1>1, <1>21 DEF Store!Stop, Store!At, Store!Leaves, Store!Ends, Store!Idle, PagesInHand,
     Carrying, HandRecords
<1>22. CASE Store!Reread(h)
  BY <1>1, <1>22 DEF Store!Reread, Store!At, Store!Valid, PagesInHand, Carrying, HandRecords
<1>23. CASE Store!Recommit(h)
  BY <1>1, <1>23, Recommitted DEF PagesInHand, Carrying
<1>24. CASE Store!Reindex(h)
  BY <1>1, <1>24 DEF Store!Reindex, Store!At, PagesInHand, Carrying, HandRecords
<1>25. QED
  BY <1>2, <1>3, <1>4, <1>5, <1>6, <1>7, <1>8, <1>9, <1>10, <1>11, <1>12, <1>13, <1>14, <1>15, <1>16, <1>17, <1>18,
     <1>19, <1>20, <1>21, <1>22, <1>23, <1>24 DEF HandSteps

LEMMA BodyStillStays ==
  ASSUME StoreInv, NEW h \in Hands, HandSteps(h)
  PROVE  BodyStays'
<1> Pages \in Nat /\ Pages > 0 /\ HandBound \in Nat /\ ErrandBound \in Nat
  BY StoreAssumption
<1>1. /\ hand' \in [Hands -> HandRecords] /\ hand \in [Hands -> HandRecords]
      /\ \A g \in Hands : g # h => hand'[g] = hand[g]
      /\ BodyStays /\ PagesInHand /\ body \in 0..Pages
  BY HandsStayTyped DEF StoreInv, StoreTyped, RowTyped, FilesTyped
<1>2. CASE Store!ReadCached(h)
  BY <1>1, <1>2 DEF Store!ReadCached, Store!At, Store!Valid, Store!Forces, Store!Proceeds,
     Store!Fetched, Store!Goes, Store!Idle, Store!NoRow, BodyStays, PagesInHand, Carrying,
     HandRecords, RowsSeen
<1>3. CASE Store!OpenPart(h)
  BY <1>1, <1>3 DEF Store!OpenPart, Store!At, Store!Idle, Store!NoRow, BodyStays, PagesInHand,
     Carrying, HandRecords, RowsSeen
<1>4. CASE Store!WritePart(h)
  BY <1>1, <1>4 DEF Store!WritePart, Store!At, Store!Goes, Store!Idle, Store!NoRow, BodyStays,
     PagesInHand, Carrying, HandRecords, RowsSeen
<1>5. CASE Store!RenamePart(h)
  BY <1>1, <1>5 DEF Store!RenamePart, Store!At, Store!Leaves, Store!Ends, Store!Proceeds,
     Store!Fetched, Store!Idle, Store!NoRow, BodyStays, PagesInHand, Carrying, HandRecords,
     RowsSeen
<1>6. CASE Store!FetchFails(h)
  BY <1>1, <1>6 DEF Store!FetchFails, Store!At, Store!Leaves, Store!Ends, Store!Idle, Store!NoRow,
     BodyStays, PagesInHand, Carrying, HandRecords, RowsSeen
<1>7. CASE Store!Save(h)
  BY <1>1, <1>7 DEF Store!Save, Store!At, Store!Idle, Store!NoRow, BodyStays, PagesInHand,
     Carrying, HandRecords, RowsSeen
<1>8. CASE Store!Keep(h)
  BY <1>1, <1>8 DEF Store!Keep, Store!At, Store!Idle, Store!NoRow, BodyStays, PagesInHand,
     Carrying, HandRecords, RowsSeen
<1>9. CASE Store!AddRow(h)
  BY <1>1, <1>9 DEF Store!AddRow, Store!At, Store!Goes, Store!Idle, Store!NoRow, BodyStays,
     PagesInHand, Carrying, HandRecords, RowsSeen
<1>10. CASE Store!Seek(h)
  BY <1>1, <1>10 DEF Store!Seek, Store!At, Store!Ends, Store!Goes, Store!Idle, Store!NoRow,
     BodyStays, PagesInHand, Carrying, HandRecords, RowsSeen
<1>11. CASE Store!Stream(h)
  BY <1>1, <1>11 DEF Store!Stream, Store!At, Store!Goes, Store!Idle, Store!NoRow, BodyStays,
     PagesInHand, Carrying, HandRecords, RowsSeen
<1>12. CASE Store!Fill(h)
  BY <1>1, <1>12 DEF Store!Fill, Store!At, Store!Goes, Store!Idle, Store!NoRow, BodyStays,
     PagesInHand, Carrying, HandRecords, RowsSeen
<1>13. CASE Store!Publish(h)
  BY <1>1, <1>13 DEF Store!Publish, Store!At, Store!Failed, Store!Ends, Store!Goes, Store!Idle,
     Store!NoRow, BodyStays, PagesInHand, Carrying, HandRecords, RowsSeen
<1>14. CASE Store!DownloadFails(h)
  BY <1>1, <1>14 DEF Store!DownloadFails, Store!At, Store!Failed, Store!Ends, Store!Goes,
     Store!Idle, Store!NoRow, BodyStays, PagesInHand, Carrying, HandRecords, RowsSeen
<1>15. CASE Store!Extract(h)
  BY <1>1, <1>15 DEF Store!Extract, Store!At, Store!Ends, Store!Goes, Store!Idle, Store!NoRow,
     BodyStays, PagesInHand, Carrying, HandRecords, RowsSeen
<1>16. CASE Store!Scan(h)
  BY <1>1, <1>16 DEF Store!Scan, Store!At, Store!Goes, Store!Ends, Store!Idle, Store!NoRow,
     BodyStays, PagesInHand, Carrying, HandRecords, RowsSeen
<1>17. CASE Store!Vectorize(h)
  BY <1>1, <1>17 DEF Store!Vectorize, Store!At, Store!Ends, Store!Idle, Store!NoRow, BodyStays,
     PagesInHand, Carrying, HandRecords, RowsSeen
<1>18. CASE Store!VectorsFail(h)
  BY <1>1, <1>18 DEF Store!VectorsFail, Store!At, Store!Ends, Store!Idle, Store!NoRow, BodyStays,
     PagesInHand, Carrying, HandRecords, RowsSeen
<1>19. CASE Store!ReadRows(h)
  BY <1>1, <1>19 DEF Store!ReadRows, Store!At, Store!Rows, Store!Idle, Store!NoRow, BodyStays,
     PagesInHand, Carrying, HandRecords, RowsSeen
<1>20. CASE Store!IndexRows(h)
  BY <1>1, <1>20 DEF Store!IndexRows, Store!At, Store!Copied, Store!Ends, Store!Rows, Store!Idle,
     Store!NoRow, BodyStays, PagesInHand, Carrying, HandRecords, RowsSeen
<1>21. CASE Store!Stop(h)
  BY <1>1, <1>21 DEF Store!Stop, Store!At, Store!Leaves, Store!Ends, Store!Idle, Store!NoRow,
     BodyStays, PagesInHand, Carrying, HandRecords, RowsSeen
<1>22. CASE Store!Reread(h)
  BY <1>1, <1>22 DEF Store!Reread, Store!At, Store!Valid, Store!NoRow, BodyStays, PagesInHand, Carrying, HandRecords, RowsSeen
<1>23. CASE Store!Recommit(h)
  BY <1>1, <1>23, Recommitted DEF BodyStays, HandRecords
<1>24. CASE Store!Reindex(h)
  BY <1>1, <1>24 DEF Store!Reindex, Store!At, Store!NoRow, BodyStays, PagesInHand, Carrying, HandRecords, RowsSeen
<1>25. QED
  BY <1>2, <1>3, <1>4, <1>5, <1>6, <1>7, <1>8, <1>9, <1>10, <1>11, <1>12, <1>13, <1>14, <1>15, <1>16, <1>17, <1>18,
     <1>19, <1>20, <1>21, <1>22, <1>23, <1>24 DEF HandSteps

LEMMA AnnexStillSays ==
  ASSUME StoreInv, NEW h \in Hands, HandSteps(h)
  PROVE  AnnexSays'
<1> Pages \in Nat /\ Pages > 0 /\ HandBound \in Nat /\ ErrandBound \in Nat
  BY StoreAssumption
<1>1. /\ hand' \in [Hands -> HandRecords] /\ hand \in [Hands -> HandRecords]
      /\ \A g \in Hands : g # h => hand'[g] = hand[g]
      /\ AnnexSays /\ RowTyped
  BY HandsStayTyped DEF StoreInv, StoreTyped, RowTyped, FilesTyped
<1>2. CASE Store!ReadCached(h)
  BY <1>1, <1>2 DEF Store!ReadCached, Store!At, Store!Fetched, Store!Forces, Store!Goes,
     Store!Proceeds, Store!Valid, Store!Idle, AnnexSays, RowTyped, HandRecords
<1>3. CASE Store!OpenPart(h)
  BY <1>1, <1>3 DEF Store!OpenPart, Store!At, Store!Idle, AnnexSays, RowTyped, HandRecords
<1>4. CASE Store!WritePart(h)
  BY <1>1, <1>4 DEF Store!WritePart, Store!At, Store!Goes, Store!Idle, AnnexSays, RowTyped,
     HandRecords
<1>5. CASE Store!RenamePart(h)
  BY <1>1, <1>5 DEF Store!RenamePart, Store!At, Store!Ends, Store!Fetched, Store!Leaves,
     Store!Proceeds, Store!Idle, AnnexSays, RowTyped, HandRecords
<1>6. CASE Store!FetchFails(h)
  BY <1>1, <1>6 DEF Store!FetchFails, Store!At, Store!Ends, Store!Leaves, Store!Idle, AnnexSays,
     RowTyped, HandRecords
<1>7. CASE Store!Save(h)
  BY <1>1, <1>7 DEF Store!Save, Store!At, Store!Idle, AnnexSays, RowTyped, HandRecords
<1>8. CASE Store!Keep(h)
  BY <1>1, <1>8 DEF Store!Keep, Store!At, Store!Idle, AnnexSays, RowTyped, HandRecords
<1>9. CASE Store!AddRow(h)
  BY <1>1, <1>9 DEF Store!AddRow, Store!At, Store!Goes, Store!NoAnnex, Store!Nothing, Store!Idle,
     AnnexSays, RowTyped, HandRecords
<1>10. CASE Store!Seek(h)
  BY <1>1, <1>10 DEF Store!Seek, Store!At, Store!Ends, Store!Goes, Store!Idle, AnnexSays, RowTyped,
     HandRecords
<1>11. CASE Store!Stream(h)
  BY <1>1, <1>11 DEF Store!Stream, Store!At, Store!Goes, Store!Idle, AnnexSays, RowTyped,
     HandRecords
<1>12. CASE Store!Fill(h)
  BY <1>1, <1>12 DEF Store!Fill, Store!At, Store!Goes, Store!Idle, AnnexSays, RowTyped, HandRecords
<1>13. CASE Store!Publish(h)
  BY <1>1, <1>13 DEF Store!Publish, Store!At, Store!Ends, Store!Failed, Store!Goes, Store!Idle,
     AnnexSays, RowTyped, HandRecords
<1>14. CASE Store!DownloadFails(h)
  BY <1>1, <1>14 DEF Store!DownloadFails, Store!At, Store!Ends, Store!Failed, Store!Goes,
     Store!Idle, AnnexSays, RowTyped, HandRecords
<1>15. CASE Store!Extract(h)
  BY <1>1, <1>15 DEF Store!Extract, Store!At, Store!Ends, Store!Goes, Store!Half, Store!Nothing,
     Store!Read, Store!StatusOf, Store!Idle, AnnexSays, RowTyped, HandRecords
<1>16. CASE Store!Scan(h)
  BY <1>1, <1>16 DEF Store!Scan, Store!At, Store!Ends, Store!Goes, Store!Idle, AnnexSays, RowTyped,
     HandRecords
<1>17. CASE Store!Vectorize(h)
  BY <1>1, <1>17 DEF Store!Vectorize, Store!At, Store!Ends, Store!Idle, AnnexSays, RowTyped,
     HandRecords
<1>18. CASE Store!VectorsFail(h)
  BY <1>1, <1>18 DEF Store!VectorsFail, Store!At, Store!Ends, Store!Idle, AnnexSays, RowTyped,
     HandRecords
<1>19. CASE Store!ReadRows(h)
  BY <1>1, <1>19 DEF Store!ReadRows, Store!At, Store!Rows, Store!Idle, AnnexSays, RowTyped,
     HandRecords
<1>20. CASE Store!IndexRows(h)
  BY <1>1, <1>20 DEF Store!IndexRows, Store!At, Store!Copied, Store!Ends, Store!Rows, Store!Idle,
     AnnexSays, RowTyped, HandRecords
<1>21. CASE Store!Stop(h)
  BY <1>1, <1>21 DEF Store!Stop, Store!At, Store!Ends, Store!Leaves, Store!Idle, AnnexSays,
     RowTyped, HandRecords
<1>22. CASE Store!Reread(h)
  BY <1>1, <1>22 DEF Store!Reread, Store!At, Store!Valid, AnnexSays, RowTyped, HandRecords
<1>23. CASE Store!Recommit(h)
  BY <1>1, <1>23, Recommitted DEF AnnexSays
<1>24. CASE Store!Reindex(h)
  BY <1>1, <1>24 DEF Store!Reindex, Store!At, AnnexSays, RowTyped, HandRecords
<1>25. QED
  BY <1>2, <1>3, <1>4, <1>5, <1>6, <1>7, <1>8, <1>9, <1>10, <1>11, <1>12, <1>13, <1>14, <1>15, <1>16, <1>17, <1>18,
     <1>19, <1>20, <1>21, <1>22, <1>23, <1>24 DEF HandSteps

LEMMA IndexStillFollows ==
  ASSUME StoreInv, NEW h \in Hands, HandSteps(h)
  PROVE  IndexFollows'
<1> Pages \in Nat /\ Pages > 0 /\ HandBound \in Nat /\ ErrandBound \in Nat
  BY StoreAssumption
<1>1. /\ hand' \in [Hands -> HandRecords] /\ hand \in [Hands -> HandRecords]
      /\ \A g \in Hands : g # h => hand'[g] = hand[g]
      /\ IndexFollows /\ RowTyped
  BY HandsStayTyped DEF StoreInv, StoreTyped, RowTyped, FilesTyped
<1>2. CASE Store!ReadCached(h)
  BY <1>1, <1>2 DEF Store!ReadCached, Store!At, Store!Fetched, Store!Forces, Store!Goes,
     Store!Proceeds, Store!Valid, Store!Idle, IndexFollows, InStep, Store!Owes, Store!Fetchings,
     HandRecords, RowTyped, RowsSeen
<1>3. CASE Store!OpenPart(h)
  BY <1>1, <1>3 DEF Store!OpenPart, Store!At, Store!Idle, IndexFollows, InStep, Store!Owes,
     Store!Fetchings, HandRecords, RowTyped, RowsSeen
<1>4. CASE Store!WritePart(h)
  BY <1>1, <1>4 DEF Store!WritePart, Store!At, Store!Goes, Store!Idle, IndexFollows, InStep,
     Store!Owes, Store!Fetchings, HandRecords, RowTyped, RowsSeen
<1>5. CASE Store!RenamePart(h)
  <2>1. CASE cache.part = Store!NoFile
    BY <1>1, <1>5, <2>1 DEF Store!RenamePart, Store!Leaves, Store!Ends, IndexFollows, InStep, Store!Owes
  <2>2. CASE cache.part # Store!NoFile
    <3>1. hand' = [hand EXCEPT ![h].at = Store!Fetched(h),
                               ![h].page = IF Store!Fetched(h) = "row" THEN 0 ELSE hand[h].page]
          /\ UNCHANGED <<body, annex, fts, slipped, behind>> /\ hand[h].at = "rename"
      BY <1>5, <2>2 DEF Store!RenamePart, Store!Proceeds, Store!At
    <3>2. hand'[h].task = hand[h].task /\ hand'[h].at = Store!Fetched(h)
      BY <1>1, <3>1 DEF HandRecords
    <3>3. Store!Owes(h) => Store!Owes(h)'
      BY <3>1, <3>2 DEF Store!Owes, Store!Fetchings, Store!Fetched
    <3>4. QED
      BY <1>1, <3>1, <3>3 DEF IndexFollows, InStep, Store!Owes
  <2>3. QED
    BY <2>1, <2>2
<1>6. CASE Store!FetchFails(h)
  BY <1>1, <1>6 DEF Store!FetchFails, Store!At, Store!Ends, Store!Leaves, Store!Idle, IndexFollows,
     InStep, Store!Owes, Store!Fetchings, HandRecords, RowTyped, RowsSeen
<1>7. CASE Store!Save(h)
  BY <1>1, <1>7 DEF Store!Save, Store!At, Store!Idle, IndexFollows, InStep, Store!Owes,
     Store!Fetchings, HandRecords, RowTyped, RowsSeen
<1>8. CASE Store!Keep(h)
  BY <1>1, <1>8 DEF Store!Keep, Store!At, Store!Idle, IndexFollows, InStep, Store!Owes,
     Store!Fetchings, HandRecords, RowTyped, RowsSeen
<1>9. CASE Store!AddRow(h)
  BY <1>1, <1>9 DEF Store!AddRow, Store!At, Store!Goes, Store!NoAnnex, Store!Nothing, Store!Idle,
     IndexFollows, InStep, Store!Owes, Store!Fetchings, HandRecords, RowTyped, RowsSeen
<1>10. CASE Store!Seek(h)
  BY <1>1, <1>10 DEF Store!Seek, Store!At, Store!Ends, Store!Goes, Store!Idle, IndexFollows,
     InStep, Store!Owes, Store!Fetchings, HandRecords, RowTyped, RowsSeen
<1>11. CASE Store!Stream(h)
  BY <1>1, <1>11 DEF Store!Stream, Store!At, Store!Goes, Store!Idle, IndexFollows, InStep,
     Store!Owes, Store!Fetchings, HandRecords, RowTyped, RowsSeen
<1>12. CASE Store!Fill(h)
  BY <1>1, <1>12 DEF Store!Fill, Store!At, Store!Goes, Store!Idle, IndexFollows, InStep,
     Store!Owes, Store!Fetchings, HandRecords, RowTyped, RowsSeen
<1>13. CASE Store!Publish(h)
  BY <1>1, <1>13 DEF Store!Publish, Store!At, Store!Ends, Store!Failed, Store!Goes, Store!Idle,
     IndexFollows, InStep, Store!Owes, Store!Fetchings, HandRecords, RowTyped, RowsSeen
<1>14. CASE Store!DownloadFails(h)
  BY <1>1, <1>14 DEF Store!DownloadFails, Store!At, Store!Ends, Store!Failed, Store!Goes,
     Store!Idle, IndexFollows, InStep, Store!Owes, Store!Fetchings, HandRecords, RowTyped, RowsSeen
<1>15. CASE Store!Extract(h)
  BY <1>1, <1>15 DEF Store!Extract, Store!At, Store!Ends, Store!Goes, Store!Half, Store!Nothing,
     Store!Read, Store!StatusOf, Store!Idle, IndexFollows, InStep, Store!Owes, Store!Fetchings,
     HandRecords, RowTyped, RowsSeen
<1>16. CASE Store!Scan(h)
  BY <1>1, <1>16 DEF Store!Scan, Store!At, Store!Ends, Store!Goes, Store!Idle, IndexFollows,
     InStep, Store!Owes, Store!Fetchings, HandRecords, RowTyped, RowsSeen
<1>17. CASE Store!Vectorize(h)
  BY <1>1, <1>17 DEF Store!Vectorize, Store!At, Store!Ends, Store!Idle, IndexFollows, InStep,
     Store!Owes, Store!Fetchings, HandRecords, RowTyped, RowsSeen
<1>18. CASE Store!VectorsFail(h)
  BY <1>1, <1>18 DEF Store!VectorsFail, Store!At, Store!Ends, Store!Idle, IndexFollows, InStep,
     Store!Owes, Store!Fetchings, HandRecords, RowTyped, RowsSeen
<1>19. CASE Store!ReadRows(h)
  BY <1>1, <1>19 DEF Store!ReadRows, Store!At, Store!Rows, Store!Idle, IndexFollows, InStep,
     Store!Owes, Store!Fetchings, HandRecords, RowTyped, RowsSeen
<1>20. CASE Store!IndexRows(h)
  <2>1. slipped' = (slipped \/ hand[h].seen # Store!Rows) /\ fts' = hand[h].seen /\ UNCHANGED <<body, annex>>
    BY <1>20 DEF Store!IndexRows, Store!Copied
  <2>2. CASE hand[h].seen = Store!Rows
    BY <2>1, <2>2 DEF IndexFollows, InStep, Store!Rows
  <2>3. CASE hand[h].seen # Store!Rows
    BY <2>1, <2>3 DEF IndexFollows
  <2>4. QED
    BY <2>2, <2>3
<1>21. CASE Store!Stop(h)
  BY <1>1, <1>21 DEF Store!Stop, Store!At, Store!Ends, Store!Leaves, Store!Idle, IndexFollows,
     InStep, Store!Owes, Store!Fetchings, HandRecords, RowTyped, RowsSeen
<1>22. CASE Store!Reread(h)
  BY <1>1, <1>22 DEF Store!Reread, Store!At, IndexFollows, InStep, Store!Owes, Store!Fetchings, HandRecords
<1>23. CASE Store!Recommit(h)
  <2>1. CASE hand[h].task = "anew"
    BY <1>1, <1>23, <2>1 DEF Store!Recommit, IndexFollows, Store!Owes, HandRecords
  <2>2. CASE hand[h].task # "anew"
    <3>1. behind' \/ (~behind' /\ ~behind /\ body' = body)
      BY <1>23, <2>2 DEF Store!Recommit
    <3>2. annex'.indexed => annex.indexed /\ annex'.text = annex.text
      BY <1>1, <1>23 DEF Store!Recommit, Store!Reextracted, RowTyped
    <3>3. UNCHANGED <<fts, slipped>> /\ hand[h].at = "commit"
      BY <1>23 DEF Store!Recommit, Store!At
    <3>4. \A g \in Hands : Store!Owes(g) => Store!Owes(g)'
      BY <1>1, <3>3 DEF Store!Owes, Store!Fetchings
    <3>5. QED
      BY <1>1, <3>1, <3>2, <3>3, <3>4 DEF IndexFollows, InStep
  <2>3. QED
    BY <2>1, <2>2
<1>24. CASE Store!Reindex(h)
  BY <1>1, <1>24 DEF Store!Reindex, IndexFollows, Store!Owes, HandRecords
<1>25. QED
  BY <1>2, <1>3, <1>4, <1>5, <1>6, <1>7, <1>8, <1>9, <1>10, <1>11, <1>12, <1>13, <1>14, <1>15, <1>16, <1>17, <1>18,
     <1>19, <1>20, <1>21, <1>22, <1>23, <1>24 DEF HandSteps

LEMMA StartKeepsStoreInv ==
  ASSUME StoreInv, NEW h \in Hands, NEW task \in Errands, Store!Start(h, task)
  PROVE  StoreInv'
<1> Pages \in Nat /\ Pages > 0 /\ HandBound \in Nat /\ ErrandBound \in Nat
  BY StoreAssumption
<1> DEFINE r == [Store!Idle EXCEPT !.task = task, !.at = Store!Entry(task)]
<1>1. r \in HandRecords /\ r.seen.body = 0 /\ r.at \in {"annex", "fetch", "cached"} /\ r.task = task
  <2>1. Store!NoRow \in RowsSeen /\ Store!NoRow.body = 0
    BY DEF Store!NoRow, Store!Nothing, RowsSeen, Contents
  <2>2. task \in Store!Tasks
    BY StoreAssumption DEF Store!Tasks
  <2>3. Store!Idle \in HandRecords /\ Store!Idle.seen = Store!NoRow
    BY <2>1 DEF Store!Idle, HandRecords, Store!Tasks, Store!StepNames
  <2>5. Store!Entry(task) \in {"annex", "fetch", "cached"}
    BY DEF Store!Entry
  <2>4. QED
    BY <2>1, <2>2, <2>3, <2>5 DEF HandRecords, Store!StepNames
<1>2. /\ hand' = [hand EXCEPT ![h] = r] /\ begun < ErrandBound /\ begun' = begun + 1
      /\ hand[h].at = "idle" /\ (task \in {"view", "reload"} => annex.status # "none")
      /\ UNCHANGED <<html, cache, disk, body, annex, scanned, fts, stops, slipped, behind>>
  BY DEF Store!Start, Store!At
<1> HIDE DEF r
<1>3. /\ hand \in [Hands -> HandRecords] /\ hand' \in [Hands -> HandRecords] /\ hand'[h] = r
      /\ \A g \in Hands : g # h => hand'[g] = hand[g]
  BY <1>1, <1>2 DEF StoreInv, StoreTyped
<1>4. begun' \in 0..ErrandBound
  BY <1>2 DEF StoreInv, StoreTyped, FlagsTyped
<1>5. StoreTyped'
  BY <1>2, <1>3, <1>4 DEF StoreInv, StoreTyped, RowTyped, FilesTyped, FlagsTyped
<1>6. PagesInHand'
  BY <1>1, <1>3 DEF StoreInv, PagesInHand, Carrying
<1>7. BodyStays' /\ AnnexSays'
  BY <1>1, <1>2, <1>3 DEF StoreInv, BodyStays, AnnexSays
<1>8. IndexFollows'
  <2>1. ~Store!Owes(h)
    BY <1>2, <1>3 DEF Store!Owes, Store!Fetchings
  <2>2. \A g \in Hands : Store!Owes(g) => Store!Owes(g)'
    BY <1>3, <2>1 DEF Store!Owes
  <2>3. QED
    BY <1>2, <2>2 DEF StoreInv, IndexFollows, InStep
<1>9. QED
  BY <1>5, <1>6, <1>7, <1>8 DEF StoreInv

LEMMA StoreStaysInv ==
  ASSUME StoreInv, [Store!StoreNext]_storeState
  PROVE  StoreInv'
<1>1. CASE UNCHANGED storeState
  BY <1>1 DEF storeState, StoreInv, StoreTyped, RowTyped, FilesTyped, FlagsTyped, PagesInHand, BodyStays,
     AnnexSays, IndexFollows, InStep, Store!Owes
<1>2. CASE Store!Republish
  <2>1. html' \in 1..Pages /\ UNCHANGED <<cache, disk, body, annex, scanned, fts, hand, stops, begun, slipped, behind>>
    BY <1>2, StoreAssumption DEF Store!Republish, StoreInv, StoreTyped, FilesTyped
  <2>2. QED
    BY <2>1 DEF StoreInv, StoreTyped, RowTyped, FilesTyped, FlagsTyped, PagesInHand, BodyStays,
       AnnexSays, IndexFollows, InStep, Store!Owes
<1>3. CASE \E h \in Hands, task \in Errands : Store!Start(h, task)
  BY <1>3, StartKeepsStoreInv
<1>4. CASE \E h \in Hands : HandSteps(h)
  <2>1. PICK h \in Hands : HandSteps(h)
    BY <1>4
  <2>2. StoreTyped'
    BY <2>1, HandsStayTyped, RowStaysTyped, FilesStayTyped, FlagsStayTyped DEF StoreTyped
  <2>3. QED
    BY <2>1, <2>2, PagesStayInHand, BodyStillStays, AnnexStillSays, IndexStillFollows DEF StoreInv
<1>5. QED
  BY <1>1, <1>2, <1>3, <1>4 DEF Store!StoreNext, HandSteps

\* What the three invariants of the store say follows from it.
LEMMA StoreSays ==
  ASSUME StoreInv
  PROVE  Store!StoreTypeOK /\ Store!TextIsAPage /\ Store!NothingIsForgotten /\ Store!KeywordsFollowText
<1>1. Store!StoreTypeOK
  BY DEF StoreInv, StoreTyped, RowTyped, FilesTyped, FlagsTyped, Downloads, Files, RowsSeen, Contents, HandRecords,
     Store!StoreTypeOK, Store!Contents, Store!Half
<1>2. Store!TextIsAPage
  BY DEF StoreInv, BodyStays, PagesInHand, Carrying, Store!TextIsAPage, Store!At
<1>3. Store!NothingIsForgotten
  BY DEF StoreInv, StoreTyped, RowTyped, AnnexSays, Store!NothingIsForgotten, Store!Selected, Store!Present,
     Store!Nothing
<1>4. Store!KeywordsFollowText
  BY DEF StoreInv, IndexFollows, InStep, Store!KeywordsFollowText, Store!Owes, Store!At, Store!Fetchings
<1>5. QED
  BY <1>1, <1>2, <1>3, <1>4

LEMMA StoreHolds ==
  Store!StoreInit /\ [][Store!StoreNext]_storeState
  => [](StoreInv /\ Store!StoreTypeOK /\ Store!TextIsAPage /\ Store!NothingIsForgotten /\ Store!KeywordsFollowText)
BY StoreBegins, StoreStaysInv, StoreSays, PTL

-----------------------------------------------------------------------------
(***************************************************************************)
(* GapWriters.  The invariant, with server the process that works the      *)
(* queue: an attempt has no row before it begins; what was read of the row *)
(* was true when it was read; what an attempt read at its end shows its    *)
(* own claim, if that is still there; the server works at one attempt, and *)
(* at none while it recovers; and what its recovery has read of the row    *)
(* shows every claim of an attempt that it will close.                     *)
(***************************************************************************)

Attempts == Queueing!Attempts
Rows     == Queueing!Gaps
Servers  == [at : {"down", "recovering", "missing", "up"}, list : SUBSET Attempts, todo : SUBSET Attempts,
             linked : SUBSET Attempts, seen : Rows, draft : Rows, turn : Attempts \union {"nobody"}, news : Nat]
Doings   == [at : Queueing!Places, seen : Rows, found : BOOLEAN]
Records  == [row : {"none", "running", "over"}, linked : BOOLEAN]
Clicks   == [at : {"none", "read"}, to : {"none", "skipped", "pending"}, seen : Rows]

GapTyped ==
  /\ gap \in Rows /\ stored \in BOOLEAN
  /\ attempt \in [Attempts -> Records]
  /\ doing \in [Attempts -> Doings]
  /\ server \in Servers
  /\ click \in Clicks /\ upsets \in 0..UpsetBound

NotBegun == \A a \in Attempts :
  doing[a].at \in {"idle", "opened"} \/ (doing[a].at = "looked" /\ a \in Backfills) => attempt[a].row = "none"

IsARow(row) == row.is \/ row = Queueing!NoGap
RowSound  == IsARow(gap) /\ (gap.status = "resolved" => stored)
ReadSound == \A a \in Attempts :
  /\ IsARow(doing[a].seen) /\ (doing[a].seen.is => gap.is) /\ (doing[a].found => stored)
  /\ a \in Backfills /\ doing[a].at \in {"opened", "looked"} => doing[a].seen.is
LinkSound == \A a \in Attempts : attempt[a].linked => gap.is /\ attempt[a].row = "running"
ViewSound == /\ click.at = "read" => click.seen.is /\ gap.is /\ click.to \in {"skipped", "pending"}
             /\ server.seen.is => gap.is
Snapshots == RowSound /\ ReadSound /\ LinkSound /\ ViewSound

ClaimIsSeen == \A a \in Attempts :
  doing[a].at \in {"reloaded", "ready"} =>
    /\ gap.claim = a => doing[a].seen.claim = a
    /\ a \in Backfills /\ gap.status = "running" => doing[a].seen.status = "running"

OneWorks ==
  /\ server.at # "up" => \A b \in Backfills : ~Queueing!Works(b)
  /\ \A b, c \in Backfills : Queueing!Works(b) /\ Queueing!Works(c) => b = c
  /\ \A o \in Outsiders : doing[o].at \notin {"looked", "reloaded"}

Listing ==
  /\ server.linked \subseteq server.list /\ server.todo \subseteq server.list
  /\ server.at = "missing" => server.turn \in server.todo \ server.linked
  /\ \A a \in server.list : /\ attempt[a].row # "none"
                            /\ attempt[a].row = "running" => (a \in server.linked <=> attempt[a].linked)
Drafting ==
  /\ server.linked \ server.todo # {} => server.seen.is
  /\ server.seen.is =>
       /\ server.at \in {"recovering", "missing"}
       /\ gap.claim \in server.list => server.seen.claim = gap.claim
       /\ gap.status = "running" => server.seen.status = "running"
       /\ server.draft.status = "resolved" => stored
       /\ \/ server.draft = server.seen /\ server.todo \intersect server.linked # {}
          \/ server.draft.claim = "nobody" /\ server.draft.status \in {"resolved", "failed"}
  /\ server.list # server.todo => server.seen.is \/ server.news > 0 \/ stored

GapInv == GapTyped /\ NotBegun /\ Snapshots /\ ClaimIsSeen /\ OneWorks /\ Listing /\ Drafting
          /\ Queueing!NothingIsStranded /\ Queueing!MissIsQueued

\* What an attempt does, the server at its queue, and an administrator.
WriterSteps(a) ==
  \/ a \in Backfills /\ (Queueing!OpenGap(a) \/ Queueing!AlreadyPresent(a) \/ Queueing!ClaimGap(a))
  \/ a \in Outsiders /\ (Queueing!Register(a) \/ Queueing!SettleStray(a))
  \/ Queueing!Read(a) \/ Queueing!Fetch(a) \/ Queueing!Settle(a) \/ Queueing!GiveUp(a)
  \/ Queueing!RecoverLinked(a) \/ Queueing!RecoverStray(a)
ServerSteps ==
  \/ Queueing!Die \/ Queueing!Boot \/ Queueing!RecoveryReads \/ Queueing!QueueStray \/ Queueing!EndRecovery
  \/ Queueing!ClickReads \/ Queueing!ClickWrites

LEMMA RowsMade ==
  /\ \A s \in {"none", "pending", "running", "resolved", "failed", "skipped"}, c \in Attempts \union {"nobody"} :
       Queueing!Row(s, c) \in Rows
  /\ Queueing!Stray \in Rows /\ Queueing!NoGap \in Rows
  /\ Queueing!Ended \in Records /\ [row |-> "running", linked |-> TRUE] \in Records
BY DEF Queueing!Row, Queueing!Stray, Queueing!NoGap, Queueing!Ended, Rows, Queueing!Gaps, Records, Attempts

\* How a recovery ends.
LEMMA EndRecoveryDoes ==
  ASSUME GapInv, Queueing!EndRecovery
  PROVE  /\ UNCHANGED <<stored, doing, click, upsets>> /\ server.todo = {} /\ server.at = "recovering"
         /\ gap' \in Rows /\ IsARow(gap') /\ (gap.is => gap'.is)
         /\ gap'.claim \in {gap.claim, "nobody"} /\ gap'.status \in {gap.status, "resolved", "failed"}
         /\ gap'.status = "resolved" => gap.status = "resolved" \/ stored
         /\ \/ server' = Queueing!Booted("down") /\ UNCHANGED <<gap, attempt>>
            \/ /\ server' = Queueing!Booted("up")
               /\ \A a \in Attempts : attempt'[a] = IF a \in server.list THEN Queueing!Ended ELSE attempt[a]
               /\ server.news > 0 => gap'.is /\ gap'.claim = "nobody" /\ gap'.status = "failed"
               /\ server.seen.is /\ server.seen.claim # "nobody" => gap'.claim = "nobody"
               /\ server.seen.is /\ server.seen.status = "running" => gap'.status # "running"
<1>1. server \in Servers /\ gap \in Rows /\ server.news \in Nat
  BY DEF GapInv, GapTyped, Servers
<1>2. /\ UNCHANGED <<stored, doing, click, upsets>> /\ server.todo = {} /\ server.at = "recovering"
      /\ server.seen.is => gap.is /\ server.draft.claim = "nobody" /\ server.draft.status \in {"resolved", "failed"}
                           /\ (server.draft.status = "resolved" => stored)
      /\ IsARow(gap)
  BY DEF Queueing!EndRecovery, GapInv, Drafting, Snapshots, ViewSound, RowSound
<1>3. CASE Queueing!Collides
  BY <1>1, <1>2, <1>3 DEF Queueing!EndRecovery
<1>4. CASE ~Queueing!Collides
  <2>1. /\ server' = Queueing!Booted("up")
        /\ \A a \in Attempts : attempt'[a] = IF a \in server.list THEN Queueing!Ended ELSE attempt[a]
        /\ gap' = IF server.news = 1 THEN Queueing!Stray ELSE IF server.seen.is THEN Queueing!Recovered ELSE gap
        /\ server.news = 0 \/ (server.news = 1 /\ ~gap.is)
    BY <1>1, <1>4 DEF Queueing!EndRecovery, Queueing!Collides, Attempts
  <2>2. CASE server.news = 1
    BY <1>1, <1>2, <2>1, <2>2, RowsMade DEF Queueing!Stray, Queueing!Row, IsARow
  <2>3. CASE server.news = 0 /\ server.seen.is
    <3>1. /\ gap' = [gap EXCEPT !.status = IF server.draft.status = server.seen.status THEN gap.status
                                           ELSE server.draft.status,
                                !.claim = IF server.draft.claim = server.seen.claim THEN gap.claim
                                          ELSE server.draft.claim]
      BY <2>1, <2>3 DEF Queueing!Recovered, Queueing!Written
    <3>2. gap' \in Rows
      BY <1>1, <3>1 DEF Servers, Rows, Queueing!Gaps
    <3>3. /\ gap'.is /\ gap'.claim = (IF server.seen.claim = "nobody" THEN gap.claim ELSE "nobody")
          /\ gap'.status = (IF server.draft.status = server.seen.status THEN gap.status ELSE server.draft.status)
      BY <1>1, <1>2, <2>3, <3>1 DEF Servers, Rows, Queueing!Gaps
    <3>4. QED
      BY <1>2, <2>1, <2>3, <3>2, <3>3 DEF IsARow
  <2>4. CASE server.news = 0 /\ ~server.seen.is
    BY <1>1, <1>2, <2>1, <2>4
  <2>5. QED
    BY <2>1, <2>2, <2>3, <2>4
<1>5. QED
  BY <1>3, <1>4

LEMMA WriterKeepsRow ==
  ASSUME GapInv, NEW a \in Attempts, WriterSteps(a)
  PROVE  gap' \in Rows /\ stored' \in BOOLEAN
<1>1. gap \in Rows /\ stored \in BOOLEAN /\ doing \in [Attempts -> Doings] /\ server \in Servers /\ click \in Clicks
      /\ Backfills \subseteq Attempts /\ Outsiders \subseteq Attempts
  BY WriterAssumption DEF GapInv, GapTyped, Attempts, Queueing!Attempts
<1>2. CASE a \in Backfills /\ Queueing!OpenGap(a)
  BY <1>1, <1>2 DEF Queueing!OpenGap, Queueing!Reads, Queueing!Leaves, Queueing!Takeable, Rows,
     Queueing!Gaps, Attempts, Doings, Servers, Clicks
<1>3. CASE a \in Backfills /\ Queueing!AlreadyPresent(a)
  BY <1>1, <1>3 DEF Queueing!AlreadyPresent, Queueing!Over, Queueing!Leaves, Queueing!Ended,
     Queueing!Written, Rows, Queueing!Gaps, Attempts, Doings, Servers, Clicks
<1>4. CASE a \in Backfills /\ Queueing!ClaimGap(a)
  <2>1. gap' = gap \/ gap' = Queueing!Row("running", a)
    BY <1>4 DEF Queueing!ClaimGap
  <2>2. QED
    BY <1>1, <1>4, <2>1, RowsMade DEF Queueing!ClaimGap
<1>5. CASE a \in Outsiders /\ Queueing!Register(a)
  BY <1>1, <1>5 DEF Queueing!Register, Queueing!Written, Queueing!Moves, Rows, Queueing!Gaps,
     Attempts, Doings, Servers, Clicks
<1>6. CASE a \in Outsiders /\ Queueing!SettleStray(a)
  <2>1. gap' = gap \/ gap' = Queueing!Stray
    BY <1>6 DEF Queueing!SettleStray
  <2>2. QED
    BY <1>1, <1>6, <2>1, RowsMade DEF Queueing!SettleStray
<1>7. CASE Queueing!Read(a)
  BY <1>1, <1>7 DEF Queueing!Read, Queueing!Looks, Queueing!Reads, Rows, Queueing!Gaps, Attempts,
     Doings, Servers, Clicks
<1>8. CASE Queueing!Fetch(a)
  BY <1>1, <1>8 DEF Queueing!Fetch, Queueing!Moves, Rows, Queueing!Gaps, Attempts, Doings, Servers,
     Clicks
<1>9. CASE Queueing!Settle(a)
  BY <1>1, <1>9 DEF Queueing!Settle, Queueing!Written, Queueing!Outcome, Queueing!Row,
     Queueing!Over, Queueing!Ended, Queueing!Leaves, Rows, Queueing!Gaps, Attempts, Doings,
     Servers, Clicks
<1>10. CASE Queueing!GiveUp(a)
  BY <1>1, <1>10 DEF Queueing!GiveUp, Queueing!Leaves, Queueing!Upset, Rows, Queueing!Gaps,
     Attempts, Doings, Servers, Clicks
<1>11. CASE Queueing!RecoverLinked(a)
  BY <1>1, <1>11 DEF Queueing!RecoverLinked, Queueing!Recovers, Queueing!Outcome, Queueing!Row,
     Rows, Queueing!Gaps, Attempts, Doings, Servers, Clicks
<1>12. CASE Queueing!RecoverStray(a)
  BY <1>1, <1>12 DEF Queueing!RecoverStray, Queueing!Recovers, Rows, Queueing!Gaps, Attempts,
     Doings, Servers, Clicks
<1>13. QED
  BY <1>2, <1>3, <1>4, <1>5, <1>6, <1>7, <1>8, <1>9, <1>10, <1>11, <1>12 DEF WriterSteps

LEMMA ServerKeepsRow ==
  ASSUME GapInv, ServerSteps
  PROVE  gap' \in Rows /\ stored' \in BOOLEAN
<1>1. gap \in Rows /\ stored \in BOOLEAN /\ doing \in [Attempts -> Doings] /\ server \in Servers /\ click \in Clicks
      /\ Backfills \subseteq Attempts /\ Outsiders \subseteq Attempts
  BY WriterAssumption DEF GapInv, GapTyped, Attempts, Queueing!Attempts
<1>2. CASE Queueing!Die
  BY <1>1, <1>2 DEF Queueing!Die, Queueing!Upset, Queueing!Booted, Queueing!NoClick, Rows,
     Queueing!Gaps, Attempts, Doings, Servers, Clicks
<1>3. CASE Queueing!Boot
  BY <1>1, <1>3 DEF Queueing!Boot, Queueing!Booted, Rows, Queueing!Gaps, Attempts, Doings, Servers,
     Clicks
<1>4. CASE Queueing!RecoveryReads
  BY <1>1, <1>4 DEF Queueing!RecoveryReads, Rows, Queueing!Gaps, Attempts, Doings, Servers, Clicks
<1>5. CASE Queueing!QueueStray
  BY <1>1, <1>5 DEF Queueing!QueueStray, Queueing!Recovers, Queueing!Stray, Queueing!Row, Rows,
     Queueing!Gaps, Attempts, Doings, Servers, Clicks
<1>6. CASE Queueing!EndRecovery
  <2>1. gap' = gap \/ gap' = Queueing!Stray \/ gap' = Queueing!Recovered
    BY <1>6 DEF Queueing!EndRecovery
  <2>2. Queueing!Recovered \in Rows
    BY <1>1 DEF Queueing!Recovered, Queueing!Written, Rows, Queueing!Gaps, Servers
  <2>3. QED
    BY <1>1, <1>6, <2>1, <2>2, RowsMade DEF Queueing!EndRecovery
<1>7. CASE Queueing!ClickReads
  BY <1>1, <1>7 DEF Queueing!ClickReads, Queueing!Upset, Rows, Queueing!Gaps, Attempts, Doings,
     Servers, Clicks
<1>8. CASE Queueing!ClickWrites
  BY <1>1, <1>8 DEF Queueing!ClickWrites, Queueing!Written, Queueing!NoClick, Rows, Queueing!Gaps,
     Attempts, Doings, Servers, Clicks
<1>9. QED
  BY <1>2, <1>3, <1>4, <1>5, <1>6, <1>7, <1>8 DEF ServerSteps

LEMMA WriterKeepsRecords ==
  ASSUME GapInv, NEW a \in Attempts, WriterSteps(a)
  PROVE  attempt' \in [Attempts -> Records]
<1>1. attempt \in [Attempts -> Records]
  BY WriterAssumption DEF GapInv, GapTyped
<1>2. CASE a \in Backfills /\ Queueing!OpenGap(a)
  BY <1>1, <1>2 DEF Queueing!OpenGap, Queueing!Reads, Queueing!Leaves, Queueing!Takeable, Records
<1>3. CASE a \in Backfills /\ Queueing!AlreadyPresent(a)
  BY <1>1, <1>3 DEF Queueing!AlreadyPresent, Queueing!Over, Queueing!Leaves, Queueing!Ended,
     Queueing!Written, Records
<1>4. CASE a \in Backfills /\ Queueing!ClaimGap(a)
  <2>1. attempt' = attempt \/ attempt' = [attempt EXCEPT ![a] = [row |-> "running", linked |-> TRUE]]
    BY <1>4 DEF Queueing!ClaimGap
  <2>2. QED
    BY <1>1, <2>1, RowsMade
<1>5. CASE a \in Outsiders /\ Queueing!Register(a)
  BY <1>1, <1>5 DEF Queueing!Register, Queueing!Written, Queueing!Moves, Records
<1>6. CASE a \in Outsiders /\ Queueing!SettleStray(a)
  <2>1. attempt' = attempt \/ attempt' = [attempt EXCEPT ![a] = Queueing!Ended]
    BY <1>6 DEF Queueing!SettleStray, Queueing!Over
  <2>2. QED
    BY <1>1, <2>1, RowsMade
<1>7. CASE Queueing!Read(a)
  BY <1>1, <1>7 DEF Queueing!Read, Queueing!Looks, Queueing!Reads, Records
<1>8. CASE Queueing!Fetch(a)
  BY <1>1, <1>8 DEF Queueing!Fetch, Queueing!Moves, Records
<1>9. CASE Queueing!Settle(a)
  BY <1>1, <1>9 DEF Queueing!Settle, Queueing!Written, Queueing!Outcome, Queueing!Row,
     Queueing!Over, Queueing!Ended, Queueing!Leaves, Records
<1>10. CASE Queueing!GiveUp(a)
  BY <1>1, <1>10 DEF Queueing!GiveUp, Queueing!Leaves, Queueing!Upset, Records
<1>11. CASE Queueing!RecoverLinked(a)
  BY <1>1, <1>11 DEF Queueing!RecoverLinked, Queueing!Recovers, Queueing!Outcome, Queueing!Row,
     Records
<1>12. CASE Queueing!RecoverStray(a)
  BY <1>1, <1>12 DEF Queueing!RecoverStray, Queueing!Recovers, Records
<1>13. QED
  BY <1>2, <1>3, <1>4, <1>5, <1>6, <1>7, <1>8, <1>9, <1>10, <1>11, <1>12 DEF WriterSteps

LEMMA ServerKeepsRecords ==
  ASSUME GapInv, ServerSteps
  PROVE  attempt' \in [Attempts -> Records]
<1>1. attempt \in [Attempts -> Records]
  BY WriterAssumption DEF GapInv, GapTyped
<1>2. CASE Queueing!Die
  BY <1>1, <1>2 DEF Queueing!Die, Queueing!Upset, Queueing!Booted, Queueing!NoClick, Records
<1>3. CASE Queueing!Boot
  BY <1>1, <1>3 DEF Queueing!Boot, Queueing!Booted, Records
<1>4. CASE Queueing!RecoveryReads
  BY <1>1, <1>4 DEF Queueing!RecoveryReads, Records
<1>5. CASE Queueing!QueueStray
  BY <1>1, <1>5 DEF Queueing!QueueStray, Queueing!Recovers, Queueing!Stray, Queueing!Row, Records
<1>6. CASE Queueing!EndRecovery
  <2>1. attempt' = attempt
        \/ attempt' = [a \in Attempts |-> IF a \in server.list THEN Queueing!Ended ELSE attempt[a]]
    BY <1>6 DEF Queueing!EndRecovery, Attempts
  <2>2. QED
    BY <1>1, <2>1, RowsMade
<1>7. CASE Queueing!ClickReads
  BY <1>1, <1>7 DEF Queueing!ClickReads, Queueing!Upset, Records
<1>8. CASE Queueing!ClickWrites
  BY <1>1, <1>8 DEF Queueing!ClickWrites, Queueing!Written, Queueing!NoClick, Records
<1>9. QED
  BY <1>2, <1>3, <1>4, <1>5, <1>6, <1>7, <1>8 DEF ServerSteps

LEMMA WriterKeepsDoings ==
  ASSUME GapInv, NEW a \in Attempts, WriterSteps(a)
  PROVE  doing' \in [Attempts -> Doings]
<1>1. doing \in [Attempts -> Doings] /\ gap \in Rows /\ stored \in BOOLEAN /\ Queueing!Gone \in Doings
  BY WriterAssumption DEF GapInv, GapTyped, Queueing!Idle, Queueing!Gone, Queueing!NoGap, Doings,
     Rows, Queueing!Gaps, Queueing!Places
<1>2. CASE a \in Backfills /\ Queueing!OpenGap(a)
  BY <1>1, <1>2 DEF Queueing!OpenGap, Queueing!Reads, Queueing!Leaves, Queueing!Takeable, Doings,
     Queueing!Places, Attempts
<1>3. CASE a \in Backfills /\ Queueing!AlreadyPresent(a)
  BY <1>1, <1>3 DEF Queueing!AlreadyPresent, Queueing!Over, Queueing!Leaves, Queueing!Ended,
     Queueing!Written, Doings, Queueing!Places, Attempts
<1>4. CASE a \in Backfills /\ Queueing!ClaimGap(a)
  BY <1>1, <1>4 DEF Queueing!ClaimGap, Queueing!Takeable, Queueing!Moves, Queueing!Leaves,
     Queueing!Row, Doings, Queueing!Places, Attempts
<1>5. CASE a \in Outsiders /\ Queueing!Register(a)
  BY <1>1, <1>5 DEF Queueing!Register, Queueing!Written, Queueing!Moves, Doings, Queueing!Places,
     Attempts
<1>6. CASE a \in Outsiders /\ Queueing!SettleStray(a)
  BY <1>1, <1>6 DEF Queueing!SettleStray, Queueing!Over, Queueing!Ended, Queueing!Leaves,
     Queueing!Stray, Queueing!Row, Doings, Queueing!Places, Attempts
<1>7. CASE Queueing!Read(a)
  BY <1>1, <1>7 DEF Queueing!Read, Queueing!Looks, Queueing!Reads, Doings, Queueing!Places,
     Attempts
<1>8. CASE Queueing!Fetch(a)
  BY <1>1, <1>8 DEF Queueing!Fetch, Queueing!Moves, Doings, Queueing!Places, Attempts
<1>9. CASE Queueing!Settle(a)
  BY <1>1, <1>9 DEF Queueing!Settle, Queueing!Written, Queueing!Outcome, Queueing!Row,
     Queueing!Over, Queueing!Ended, Queueing!Leaves, Doings, Queueing!Places, Attempts
<1>10. CASE Queueing!GiveUp(a)
  BY <1>1, <1>10 DEF Queueing!GiveUp, Queueing!Leaves, Queueing!Upset, Doings, Queueing!Places,
     Attempts
<1>11. CASE Queueing!RecoverLinked(a)
  BY <1>1, <1>11 DEF Queueing!RecoverLinked, Queueing!Recovers, Queueing!Outcome, Queueing!Row,
     Doings, Queueing!Places, Attempts
<1>12. CASE Queueing!RecoverStray(a)
  BY <1>1, <1>12 DEF Queueing!RecoverStray, Queueing!Recovers, Doings, Queueing!Places, Attempts
<1>13. QED
  BY <1>2, <1>3, <1>4, <1>5, <1>6, <1>7, <1>8, <1>9, <1>10, <1>11, <1>12 DEF WriterSteps

LEMMA ServerKeepsDoings ==
  ASSUME GapInv, ServerSteps
  PROVE  doing' \in [Attempts -> Doings]
<1>1. doing \in [Attempts -> Doings] /\ gap \in Rows /\ stored \in BOOLEAN /\ Queueing!Gone \in Doings
  BY WriterAssumption DEF GapInv, GapTyped, Queueing!Idle, Queueing!Gone, Queueing!NoGap, Doings,
     Rows, Queueing!Gaps, Queueing!Places
<1>2. CASE Queueing!Die
  BY <1>1, <1>2 DEF Queueing!Die, Queueing!Upset, Queueing!Booted, Queueing!NoClick, Doings,
     Queueing!Places, Attempts
<1>3. CASE Queueing!Boot
  BY <1>1, <1>3 DEF Queueing!Boot, Queueing!Booted, Doings, Queueing!Places, Attempts
<1>4. CASE Queueing!RecoveryReads
  BY <1>1, <1>4 DEF Queueing!RecoveryReads, Doings, Queueing!Places, Attempts
<1>5. CASE Queueing!QueueStray
  BY <1>1, <1>5 DEF Queueing!QueueStray, Queueing!Recovers, Queueing!Stray, Queueing!Row, Doings,
     Queueing!Places, Attempts
<1>6. CASE Queueing!EndRecovery
  BY <1>1, <1>6 DEF Queueing!EndRecovery, Queueing!Collides, Queueing!Booted, Queueing!Stray,
     Queueing!Row, Queueing!Recovered, Queueing!Written, Queueing!Ended, Doings, Queueing!Places,
     Attempts
<1>7. CASE Queueing!ClickReads
  BY <1>1, <1>7 DEF Queueing!ClickReads, Queueing!Upset, Doings, Queueing!Places, Attempts
<1>8. CASE Queueing!ClickWrites
  BY <1>1, <1>8 DEF Queueing!ClickWrites, Queueing!Written, Queueing!NoClick, Doings,
     Queueing!Places, Attempts
<1>9. QED
  BY <1>2, <1>3, <1>4, <1>5, <1>6, <1>7, <1>8 DEF ServerSteps

LEMMA WriterKeepsServer ==
  ASSUME GapInv, NEW a \in Attempts, WriterSteps(a)
  PROVE  server' \in Servers
<1>1. server \in Servers /\ gap \in Rows /\ Queueing!NoGap \in Rows
  BY WriterAssumption DEF GapInv, GapTyped, Queueing!NoGap, Rows, Queueing!Gaps
<1>2. CASE a \in Backfills /\ Queueing!OpenGap(a)
  BY <1>1, <1>2 DEF Queueing!OpenGap, Queueing!Reads, Queueing!Leaves, Queueing!Takeable, Servers,
     Queueing!Row, Rows, Queueing!Gaps, Attempts
<1>3. CASE a \in Backfills /\ Queueing!AlreadyPresent(a)
  BY <1>1, <1>3 DEF Queueing!AlreadyPresent, Queueing!Over, Queueing!Leaves, Queueing!Ended,
     Queueing!Written, Servers, Queueing!Row, Rows, Queueing!Gaps, Attempts
<1>4. CASE a \in Backfills /\ Queueing!ClaimGap(a)
  BY <1>1, <1>4 DEF Queueing!ClaimGap, Queueing!Takeable, Queueing!Moves, Queueing!Leaves,
     Queueing!Row, Servers, Rows, Queueing!Gaps, Attempts
<1>5. CASE a \in Outsiders /\ Queueing!Register(a)
  BY <1>1, <1>5 DEF Queueing!Register, Queueing!Written, Queueing!Moves, Servers, Queueing!Row,
     Rows, Queueing!Gaps, Attempts
<1>6. CASE a \in Outsiders /\ Queueing!SettleStray(a)
  BY <1>1, <1>6 DEF Queueing!SettleStray, Queueing!Over, Queueing!Ended, Queueing!Leaves,
     Queueing!Stray, Queueing!Row, Servers, Rows, Queueing!Gaps, Attempts
<1>7. CASE Queueing!Read(a)
  BY <1>1, <1>7 DEF Queueing!Read, Queueing!Looks, Queueing!Reads, Servers, Queueing!Row, Rows,
     Queueing!Gaps, Attempts
<1>8. CASE Queueing!Fetch(a)
  BY <1>1, <1>8 DEF Queueing!Fetch, Queueing!Moves, Servers, Queueing!Row, Rows, Queueing!Gaps,
     Attempts
<1>9. CASE Queueing!Settle(a)
  BY <1>1, <1>9 DEF Queueing!Settle, Queueing!Written, Queueing!Outcome, Queueing!Row,
     Queueing!Over, Queueing!Ended, Queueing!Leaves, Servers, Rows, Queueing!Gaps, Attempts
<1>10. CASE Queueing!GiveUp(a)
  BY <1>1, <1>10 DEF Queueing!GiveUp, Queueing!Leaves, Queueing!Upset, Servers, Queueing!Row, Rows,
     Queueing!Gaps, Attempts
<1>11. CASE Queueing!RecoverLinked(a)
  BY <1>1, <1>11 DEF Queueing!RecoverLinked, Queueing!Recovers, Queueing!Outcome, Queueing!Row,
     Servers, Rows, Queueing!Gaps, Attempts
<1>12. CASE Queueing!RecoverStray(a)
  BY <1>1, <1>12 DEF Queueing!RecoverStray, Queueing!Recovers, Servers, Queueing!Row, Rows,
     Queueing!Gaps, Attempts
<1>13. QED
  BY <1>2, <1>3, <1>4, <1>5, <1>6, <1>7, <1>8, <1>9, <1>10, <1>11, <1>12 DEF WriterSteps

LEMMA ServerKeepsServer ==
  ASSUME GapInv, ServerSteps
  PROVE  server' \in Servers
<1>1. server \in Servers /\ gap \in Rows /\ Queueing!NoGap \in Rows
  BY WriterAssumption DEF GapInv, GapTyped, Queueing!NoGap, Rows, Queueing!Gaps
<1>2. CASE Queueing!Die
  BY <1>1, <1>2 DEF Queueing!Die, Queueing!Upset, Queueing!Booted, Queueing!NoClick, Servers,
     Queueing!Row, Rows, Queueing!Gaps, Attempts
<1>3. CASE Queueing!Boot
  BY <1>1, <1>3 DEF Queueing!Boot, Queueing!Booted, Servers, Queueing!Row, Rows, Queueing!Gaps,
     Attempts
<1>4. CASE Queueing!RecoveryReads
  BY <1>1, <1>4 DEF Queueing!RecoveryReads, Servers, Queueing!Row, Rows, Queueing!Gaps, Attempts
<1>5. CASE Queueing!QueueStray
  <2> DEFINE seen  == IF server.seen.is THEN server.seen ELSE gap
             made  == IF seen.is THEN Queueing!Stray ELSE server.draft
             news  == IF seen.is THEN server.news ELSE server.news + 1
  <2>1. seen \in Rows
    BY <1>1 DEF Servers
  <2>2. made \in Rows /\ news \in Nat
    BY <1>1, RowsMade DEF Servers
  <2>3. server' = [server EXCEPT !.at = "recovering", !.todo = server.todo \ {server.turn}, !.draft = made,
                                 !.seen = seen, !.turn = "nobody", !.news = news]
    BY <1>5 DEF Queueing!QueueStray, Queueing!Recovers
  <2> HIDE DEF seen, made, news
  <2>4. QED
    BY <1>1, <2>1, <2>2, <2>3 DEF Servers
<1>6. CASE Queueing!EndRecovery
  BY <1>1, <1>6 DEF Queueing!EndRecovery, Queueing!Collides, Queueing!Booted, Queueing!Stray,
     Queueing!Row, Queueing!Recovered, Queueing!Written, Queueing!Ended, Servers, Rows,
     Queueing!Gaps, Attempts
<1>7. CASE Queueing!ClickReads
  BY <1>1, <1>7 DEF Queueing!ClickReads, Queueing!Upset, Servers, Queueing!Row, Rows,
     Queueing!Gaps, Attempts
<1>8. CASE Queueing!ClickWrites
  BY <1>1, <1>8 DEF Queueing!ClickWrites, Queueing!Written, Queueing!NoClick, Servers,
     Queueing!Row, Rows, Queueing!Gaps, Attempts
<1>9. QED
  BY <1>2, <1>3, <1>4, <1>5, <1>6, <1>7, <1>8 DEF ServerSteps

LEMMA WriterKeepsClick ==
  ASSUME GapInv, NEW a \in Attempts, WriterSteps(a)
  PROVE  click' \in Clicks /\ upsets' \in 0..UpsetBound
<1>1. click \in Clicks /\ gap \in Rows /\ Queueing!NoGap \in Rows /\ UpsetBound \in Nat /\ upsets \in 0..UpsetBound
  BY WriterAssumption DEF GapInv, GapTyped, Queueing!NoGap, Rows, Queueing!Gaps
<1>2. CASE a \in Backfills /\ Queueing!OpenGap(a)
  BY <1>1, <1>2 DEF Queueing!OpenGap, Queueing!Reads, Queueing!Leaves, Queueing!Takeable, Clicks,
     Queueing!NoClick
<1>3. CASE a \in Backfills /\ Queueing!AlreadyPresent(a)
  BY <1>1, <1>3 DEF Queueing!AlreadyPresent, Queueing!Over, Queueing!Leaves, Queueing!Ended,
     Queueing!Written, Clicks, Queueing!NoClick
<1>4. CASE a \in Backfills /\ Queueing!ClaimGap(a)
  BY <1>1, <1>4 DEF Queueing!ClaimGap, Queueing!Takeable, Queueing!Moves, Queueing!Leaves,
     Queueing!Row, Clicks, Queueing!NoClick
<1>5. CASE a \in Outsiders /\ Queueing!Register(a)
  BY <1>1, <1>5 DEF Queueing!Register, Queueing!Written, Queueing!Moves, Clicks, Queueing!NoClick
<1>6. CASE a \in Outsiders /\ Queueing!SettleStray(a)
  BY <1>1, <1>6 DEF Queueing!SettleStray, Queueing!Over, Queueing!Ended, Queueing!Leaves,
     Queueing!Stray, Queueing!Row, Clicks, Queueing!NoClick
<1>7. CASE Queueing!Read(a)
  BY <1>1, <1>7 DEF Queueing!Read, Queueing!Looks, Queueing!Reads, Clicks, Queueing!NoClick
<1>8. CASE Queueing!Fetch(a)
  BY <1>1, <1>8 DEF Queueing!Fetch, Queueing!Moves, Clicks, Queueing!NoClick
<1>9. CASE Queueing!Settle(a)
  BY <1>1, <1>9 DEF Queueing!Settle, Queueing!Written, Queueing!Outcome, Queueing!Row,
     Queueing!Over, Queueing!Ended, Queueing!Leaves, Clicks, Queueing!NoClick
<1>10. CASE Queueing!GiveUp(a)
  BY <1>1, <1>10 DEF Queueing!GiveUp, Queueing!Leaves, Queueing!Upset, Clicks, Queueing!NoClick
<1>11. CASE Queueing!RecoverLinked(a)
  BY <1>1, <1>11 DEF Queueing!RecoverLinked, Queueing!Recovers, Queueing!Outcome, Queueing!Row,
     Clicks, Queueing!NoClick
<1>12. CASE Queueing!RecoverStray(a)
  BY <1>1, <1>12 DEF Queueing!RecoverStray, Queueing!Recovers, Clicks, Queueing!NoClick
<1>13. QED
  BY <1>2, <1>3, <1>4, <1>5, <1>6, <1>7, <1>8, <1>9, <1>10, <1>11, <1>12 DEF WriterSteps

LEMMA ServerKeepsClick ==
  ASSUME GapInv, ServerSteps
  PROVE  click' \in Clicks /\ upsets' \in 0..UpsetBound
<1>1. click \in Clicks /\ gap \in Rows /\ Queueing!NoGap \in Rows /\ UpsetBound \in Nat /\ upsets \in 0..UpsetBound
  BY WriterAssumption DEF GapInv, GapTyped, Queueing!NoGap, Rows, Queueing!Gaps
<1>2. CASE Queueing!Die
  BY <1>1, <1>2 DEF Queueing!Die, Queueing!Upset, Queueing!Booted, Queueing!NoClick, Clicks
<1>3. CASE Queueing!Boot
  BY <1>1, <1>3 DEF Queueing!Boot, Queueing!Booted, Clicks, Queueing!NoClick
<1>4. CASE Queueing!RecoveryReads
  BY <1>1, <1>4 DEF Queueing!RecoveryReads, Clicks, Queueing!NoClick
<1>5. CASE Queueing!QueueStray
  BY <1>1, <1>5 DEF Queueing!QueueStray, Queueing!Recovers, Queueing!Stray, Queueing!Row, Clicks,
     Queueing!NoClick
<1>6. CASE Queueing!EndRecovery
  BY <1>1, <1>6 DEF Queueing!EndRecovery, Queueing!Collides, Queueing!Booted, Queueing!Stray,
     Queueing!Row, Queueing!Recovered, Queueing!Written, Queueing!Ended, Clicks, Queueing!NoClick
<1>7. CASE Queueing!ClickReads
  BY <1>1, <1>7 DEF Queueing!ClickReads, Queueing!Upset, Clicks, Queueing!NoClick
<1>8. CASE Queueing!ClickWrites
  BY <1>1, <1>8 DEF Queueing!ClickWrites, Queueing!Written, Queueing!NoClick, Clicks
<1>9. QED
  BY <1>2, <1>3, <1>4, <1>5, <1>6, <1>7, <1>8 DEF ServerSteps

LEMMA GapStaysTyped ==
  ASSUME GapInv, (\E a \in Attempts : WriterSteps(a)) \/ ServerSteps
  PROVE  GapTyped'
BY WriterKeepsRow, WriterKeepsRecords, WriterKeepsDoings, WriterKeepsServer, WriterKeepsClick,
   ServerKeepsRow, ServerKeepsRecords, ServerKeepsDoings, ServerKeepsServer, ServerKeepsClick DEF GapTyped

LEMMA WriterKeepsNotBegun ==
  ASSUME GapInv, NEW a \in Attempts, WriterSteps(a)
  PROVE  NotBegun'
<1>1. gap \in Rows /\ stored \in BOOLEAN /\ doing \in [Attempts -> Doings] /\ attempt \in [Attempts -> Records]
      /\ server \in Servers /\ click \in Clicks /\ Attempts = Backfills \union Outsiders
      /\ Queueing!Attempts = Attempts /\ "nobody" \notin Attempts /\ Backfills \intersect Outsiders = {}
      /\ NotBegun /\ Listing
  BY WriterAssumption DEF GapInv, GapTyped, Attempts, Queueing!Attempts
<1>2. CASE a \in Backfills /\ Queueing!OpenGap(a)
  BY <1>1, <1>2 DEF Queueing!OpenGap, Queueing!Reads, Queueing!Leaves, Queueing!Takeable, NotBegun,
     Listing, Queueing!Idle, Queueing!Gone, Records, Doings, Queueing!Works
<1>3. CASE a \in Backfills /\ Queueing!AlreadyPresent(a)
  BY <1>1, <1>3 DEF Queueing!AlreadyPresent, Queueing!Over, Queueing!Leaves, Queueing!Ended,
     Queueing!Written, NotBegun, Listing, Queueing!Idle, Queueing!Gone, Records, Doings,
     Queueing!Works
<1>4. CASE a \in Backfills /\ Queueing!ClaimGap(a)
  BY <1>1, <1>4 DEF Queueing!ClaimGap, Queueing!Takeable, Queueing!Moves, Queueing!Leaves,
     Queueing!Row, NotBegun, Listing, Queueing!Idle, Queueing!Gone, Records, Doings, Queueing!Works
<1>5. CASE a \in Outsiders /\ Queueing!Register(a)
  BY <1>1, <1>5 DEF Queueing!Register, Queueing!Written, Queueing!Moves, NotBegun, Listing,
     Queueing!Idle, Queueing!Gone, Records, Doings, Queueing!Works
<1>6. CASE a \in Outsiders /\ Queueing!SettleStray(a)
  BY <1>1, <1>6 DEF Queueing!SettleStray, Queueing!Over, Queueing!Ended, Queueing!Leaves,
     Queueing!Stray, Queueing!Row, NotBegun, Listing, Queueing!Idle, Queueing!Gone, Records,
     Doings, Queueing!Works
<1>7. CASE Queueing!Read(a)
  BY <1>1, <1>7 DEF Queueing!Read, Queueing!Looks, Queueing!Reads, NotBegun, Listing,
     Queueing!Idle, Queueing!Gone, Records, Doings, Queueing!Works
<1>8. CASE Queueing!Fetch(a)
  BY <1>1, <1>8 DEF Queueing!Fetch, Queueing!Moves, NotBegun, Listing, Queueing!Idle,
     Queueing!Gone, Records, Doings, Queueing!Works
<1>9. CASE Queueing!Settle(a)
  BY <1>1, <1>9 DEF Queueing!Settle, Queueing!Written, Queueing!Outcome, Queueing!Row,
     Queueing!Over, Queueing!Ended, Queueing!Leaves, NotBegun, Listing, Queueing!Idle,
     Queueing!Gone, Records, Doings, Queueing!Works
<1>10. CASE Queueing!GiveUp(a)
  BY <1>1, <1>10 DEF Queueing!GiveUp, Queueing!Leaves, Queueing!Upset, NotBegun, Listing,
     Queueing!Idle, Queueing!Gone, Records, Doings, Queueing!Works
<1>11. CASE Queueing!RecoverLinked(a)
  BY <1>1, <1>11 DEF Queueing!RecoverLinked, Queueing!Recovers, Queueing!Outcome, Queueing!Row,
     NotBegun, Listing, Queueing!Idle, Queueing!Gone, Records, Doings, Queueing!Works
<1>12. CASE Queueing!RecoverStray(a)
  BY <1>1, <1>12 DEF Queueing!RecoverStray, Queueing!Recovers, NotBegun, Listing, Queueing!Idle,
     Queueing!Gone, Records, Doings, Queueing!Works
<1>13. QED
  BY <1>2, <1>3, <1>4, <1>5, <1>6, <1>7, <1>8, <1>9, <1>10, <1>11, <1>12 DEF WriterSteps

LEMMA ServerKeepsNotBegun ==
  ASSUME GapInv, ServerSteps
  PROVE  NotBegun'
<1>1. gap \in Rows /\ stored \in BOOLEAN /\ doing \in [Attempts -> Doings] /\ attempt \in [Attempts -> Records]
      /\ server \in Servers /\ click \in Clicks /\ Attempts = Backfills \union Outsiders
      /\ Queueing!Attempts = Attempts /\ "nobody" \notin Attempts /\ Backfills \intersect Outsiders = {}
      /\ NotBegun /\ Listing
  BY WriterAssumption DEF GapInv, GapTyped, Attempts, Queueing!Attempts
<1>2. CASE Queueing!Die
  BY <1>1, <1>2 DEF Queueing!Die, Queueing!Upset, Queueing!Booted, Queueing!NoClick, NotBegun,
     Listing, Queueing!Idle, Queueing!Gone, Records, Doings, Queueing!Works
<1>3. CASE Queueing!Boot
  BY <1>1, <1>3 DEF Queueing!Boot, Queueing!Booted, NotBegun, Listing, Queueing!Idle,
     Queueing!Gone, Records, Doings, Queueing!Works
<1>4. CASE Queueing!RecoveryReads
  BY <1>1, <1>4 DEF Queueing!RecoveryReads, NotBegun, Listing, Queueing!Idle, Queueing!Gone,
     Records, Doings, Queueing!Works
<1>5. CASE Queueing!QueueStray
  BY <1>1, <1>5 DEF Queueing!QueueStray, Queueing!Recovers, Queueing!Stray, Queueing!Row, NotBegun,
     Listing, Queueing!Idle, Queueing!Gone, Records, Doings, Queueing!Works
<1>6. CASE Queueing!EndRecovery
  BY <1>1, <1>6, EndRecoveryDoes DEF Queueing!Booted, Queueing!Ended, NotBegun, Listing,
     Queueing!Idle, Queueing!Gone, Records, Doings, Queueing!Works
<1>7. CASE Queueing!ClickReads
  BY <1>1, <1>7 DEF Queueing!ClickReads, Queueing!Upset, NotBegun, Listing, Queueing!Idle,
     Queueing!Gone, Records, Doings, Queueing!Works
<1>8. CASE Queueing!ClickWrites
  BY <1>1, <1>8 DEF Queueing!ClickWrites, Queueing!Written, Queueing!NoClick, NotBegun, Listing,
     Queueing!Idle, Queueing!Gone, Records, Doings, Queueing!Works
<1>9. QED
  BY <1>2, <1>3, <1>4, <1>5, <1>6, <1>7, <1>8 DEF ServerSteps

LEMMA WriterKeepsOneWorks ==
  ASSUME GapInv, NEW a \in Attempts, WriterSteps(a)
  PROVE  OneWorks'
<1>1. gap \in Rows /\ stored \in BOOLEAN /\ doing \in [Attempts -> Doings] /\ attempt \in [Attempts -> Records]
      /\ server \in Servers /\ click \in Clicks /\ Attempts = Backfills \union Outsiders
      /\ Queueing!Attempts = Attempts /\ "nobody" \notin Attempts /\ Backfills \intersect Outsiders = {}
      /\ OneWorks
  BY WriterAssumption DEF GapInv, GapTyped, Attempts, Queueing!Attempts
<1>2. CASE a \in Backfills /\ Queueing!OpenGap(a)
  BY <1>1, <1>2 DEF Queueing!OpenGap, Queueing!Reads, Queueing!Leaves, Queueing!Takeable, OneWorks,
     Queueing!Idle, Queueing!Gone, Doings, Servers, Queueing!Works
<1>3. CASE a \in Backfills /\ Queueing!AlreadyPresent(a)
  BY <1>1, <1>3 DEF Queueing!AlreadyPresent, Queueing!Over, Queueing!Leaves, Queueing!Ended,
     Queueing!Written, OneWorks, Queueing!Idle, Queueing!Gone, Doings, Servers, Queueing!Works
<1>4. CASE a \in Backfills /\ Queueing!ClaimGap(a)
  BY <1>1, <1>4 DEF Queueing!ClaimGap, Queueing!Takeable, Queueing!Moves, Queueing!Leaves,
     Queueing!Row, OneWorks, Queueing!Idle, Queueing!Gone, Doings, Servers, Queueing!Works
<1>5. CASE a \in Outsiders /\ Queueing!Register(a)
  BY <1>1, <1>5 DEF Queueing!Register, Queueing!Written, Queueing!Moves, OneWorks, Queueing!Idle,
     Queueing!Gone, Doings, Servers, Queueing!Works
<1>6. CASE a \in Outsiders /\ Queueing!SettleStray(a)
  BY <1>1, <1>6 DEF Queueing!SettleStray, Queueing!Over, Queueing!Ended, Queueing!Leaves,
     Queueing!Stray, Queueing!Row, OneWorks, Queueing!Idle, Queueing!Gone, Doings, Servers,
     Queueing!Works
<1>7. CASE Queueing!Read(a)
  BY <1>1, <1>7 DEF Queueing!Read, Queueing!Looks, Queueing!Reads, OneWorks, Queueing!Idle,
     Queueing!Gone, Doings, Servers, Queueing!Works
<1>8. CASE Queueing!Fetch(a)
  BY <1>1, <1>8 DEF Queueing!Fetch, Queueing!Moves, OneWorks, Queueing!Idle, Queueing!Gone, Doings,
     Servers, Queueing!Works
<1>9. CASE Queueing!Settle(a)
  BY <1>1, <1>9 DEF Queueing!Settle, Queueing!Written, Queueing!Outcome, Queueing!Row,
     Queueing!Over, Queueing!Ended, Queueing!Leaves, OneWorks, Queueing!Idle, Queueing!Gone,
     Doings, Servers, Queueing!Works
<1>10. CASE Queueing!GiveUp(a)
  BY <1>1, <1>10 DEF Queueing!GiveUp, Queueing!Leaves, Queueing!Upset, OneWorks, Queueing!Idle,
     Queueing!Gone, Doings, Servers, Queueing!Works
<1>11. CASE Queueing!RecoverLinked(a)
  BY <1>1, <1>11 DEF Queueing!RecoverLinked, Queueing!Recovers, Queueing!Outcome, Queueing!Row,
     OneWorks, Queueing!Idle, Queueing!Gone, Doings, Servers, Queueing!Works
<1>12. CASE Queueing!RecoverStray(a)
  BY <1>1, <1>12 DEF Queueing!RecoverStray, Queueing!Recovers, OneWorks, Queueing!Idle,
     Queueing!Gone, Doings, Servers, Queueing!Works
<1>13. QED
  BY <1>2, <1>3, <1>4, <1>5, <1>6, <1>7, <1>8, <1>9, <1>10, <1>11, <1>12 DEF WriterSteps

LEMMA ServerKeepsOneWorks ==
  ASSUME GapInv, ServerSteps
  PROVE  OneWorks'
<1>1. gap \in Rows /\ stored \in BOOLEAN /\ doing \in [Attempts -> Doings] /\ attempt \in [Attempts -> Records]
      /\ server \in Servers /\ click \in Clicks /\ Attempts = Backfills \union Outsiders
      /\ Queueing!Attempts = Attempts /\ "nobody" \notin Attempts /\ Backfills \intersect Outsiders = {}
      /\ OneWorks
  BY WriterAssumption DEF GapInv, GapTyped, Attempts, Queueing!Attempts
<1>2. CASE Queueing!Die
  BY <1>1, <1>2 DEF Queueing!Die, Queueing!Upset, Queueing!Booted, Queueing!NoClick, OneWorks,
     Queueing!Idle, Queueing!Gone, Doings, Servers, Queueing!Works
<1>3. CASE Queueing!Boot
  BY <1>1, <1>3 DEF Queueing!Boot, Queueing!Booted, OneWorks, Queueing!Idle, Queueing!Gone, Doings,
     Servers, Queueing!Works
<1>4. CASE Queueing!RecoveryReads
  BY <1>1, <1>4 DEF Queueing!RecoveryReads, OneWorks, Queueing!Idle, Queueing!Gone, Doings,
     Servers, Queueing!Works
<1>5. CASE Queueing!QueueStray
  BY <1>1, <1>5 DEF Queueing!QueueStray, Queueing!Recovers, Queueing!Stray, Queueing!Row, OneWorks,
     Queueing!Idle, Queueing!Gone, Doings, Servers, Queueing!Works
<1>6. CASE Queueing!EndRecovery
  BY <1>1, <1>6, EndRecoveryDoes DEF Queueing!Booted, Queueing!Ended, OneWorks, Queueing!Idle,
     Queueing!Gone, Doings, Servers, Queueing!Works
<1>7. CASE Queueing!ClickReads
  BY <1>1, <1>7 DEF Queueing!ClickReads, Queueing!Upset, OneWorks, Queueing!Idle, Queueing!Gone,
     Doings, Servers, Queueing!Works
<1>8. CASE Queueing!ClickWrites
  BY <1>1, <1>8 DEF Queueing!ClickWrites, Queueing!Written, Queueing!NoClick, OneWorks,
     Queueing!Idle, Queueing!Gone, Doings, Servers, Queueing!Works
<1>9. QED
  BY <1>2, <1>3, <1>4, <1>5, <1>6, <1>7, <1>8 DEF ServerSteps

LEMMA WriterKeepsRowSound ==
  ASSUME GapInv, NEW a \in Attempts, WriterSteps(a)
  PROVE  RowSound'
<1>1. gap \in Rows /\ stored \in BOOLEAN /\ doing \in [Attempts -> Doings] /\ attempt \in [Attempts -> Records]
      /\ server \in Servers /\ click \in Clicks /\ Attempts = Backfills \union Outsiders
      /\ Queueing!Attempts = Attempts /\ "nobody" \notin Attempts /\ Backfills \intersect Outsiders = {}
      /\ NotBegun /\ Drafting /\ RowSound /\ ReadSound /\ LinkSound /\ ViewSound
  BY WriterAssumption DEF GapInv, GapTyped, Attempts, Queueing!Attempts, Snapshots
<1>2. CASE a \in Backfills /\ Queueing!OpenGap(a)
  BY <1>1, <1>2 DEF Queueing!OpenGap, Queueing!Reads, Queueing!Leaves, Queueing!Takeable, RowSound,
     ReadSound, ViewSound, IsARow, Drafting, Queueing!Idle, Queueing!Gone, Queueing!NoGap,
     Queueing!Works, Rows, Queueing!Gaps, Doings, Records, Servers, Clicks
<1>3. CASE a \in Backfills /\ Queueing!AlreadyPresent(a)
  <2>1. /\ doing[a].seen \in Rows /\ stored /\ stored' = stored
        /\ gap' = Queueing!Written(doing[a].seen, [doing[a].seen EXCEPT !.status = "resolved"])
    BY <1>1, <1>3 DEF Queueing!AlreadyPresent, ReadSound, Doings
  <2>2. gap'.is = gap.is /\ gap' \in Rows
    BY <1>1, <2>1 DEF Queueing!Written, Rows, Queueing!Gaps
  <2>3. gap.is
    BY <1>1, <1>3 DEF Queueing!AlreadyPresent, ReadSound
  <2>4. QED
    BY <2>1, <2>2, <2>3 DEF RowSound, IsARow
<1>4. CASE a \in Backfills /\ Queueing!ClaimGap(a)
  BY <1>1, <1>4 DEF Queueing!ClaimGap, Queueing!Takeable, Queueing!Moves, Queueing!Leaves,
     Queueing!Row, RowSound, ReadSound, ViewSound, IsARow, Drafting, Queueing!Idle, Queueing!Gone,
     Queueing!NoGap, Queueing!Works, Rows, Queueing!Gaps, Doings, Records, Servers, Clicks
<1>5. CASE a \in Outsiders /\ Queueing!Register(a)
  BY <1>1, <1>5 DEF Queueing!Register, Queueing!Written, Queueing!Moves, RowSound, ReadSound,
     ViewSound, IsARow, Drafting, Queueing!Idle, Queueing!Gone, Queueing!NoGap, Queueing!Works,
     Rows, Queueing!Gaps, Doings, Records, Servers, Clicks
<1>6. CASE a \in Outsiders /\ Queueing!SettleStray(a)
  BY <1>1, <1>6 DEF Queueing!SettleStray, Queueing!Over, Queueing!Ended, Queueing!Leaves,
     Queueing!Stray, Queueing!Row, RowSound, ReadSound, ViewSound, IsARow, Drafting, Queueing!Idle,
     Queueing!Gone, Queueing!NoGap, Queueing!Works, Rows, Queueing!Gaps, Doings, Records, Servers,
     Clicks
<1>7. CASE Queueing!Read(a)
  BY <1>1, <1>7 DEF Queueing!Read, Queueing!Looks, Queueing!Reads, RowSound, ReadSound, ViewSound,
     IsARow, Drafting, Queueing!Idle, Queueing!Gone, Queueing!NoGap, Queueing!Works, Rows,
     Queueing!Gaps, Doings, Records, Servers, Clicks
<1>8. CASE Queueing!Fetch(a)
  BY <1>1, <1>8 DEF Queueing!Fetch, Queueing!Moves, RowSound, ReadSound, ViewSound, IsARow,
     Drafting, Queueing!Idle, Queueing!Gone, Queueing!NoGap, Queueing!Works, Rows, Queueing!Gaps,
     Doings, Records, Servers, Clicks
<1>9. CASE Queueing!Settle(a)
  BY <1>1, <1>9 DEF Queueing!Settle, Queueing!Written, Queueing!Outcome, Queueing!Row,
     Queueing!Over, Queueing!Ended, Queueing!Leaves, RowSound, ReadSound, ViewSound, IsARow,
     Drafting, Queueing!Idle, Queueing!Gone, Queueing!NoGap, Queueing!Works, Rows, Queueing!Gaps,
     Doings, Records, Servers, Clicks
<1>10. CASE Queueing!GiveUp(a)
  BY <1>1, <1>10 DEF Queueing!GiveUp, Queueing!Leaves, Queueing!Upset, RowSound, ReadSound,
     ViewSound, IsARow, Drafting, Queueing!Idle, Queueing!Gone, Queueing!NoGap, Queueing!Works,
     Rows, Queueing!Gaps, Doings, Records, Servers, Clicks
<1>11. CASE Queueing!RecoverLinked(a)
  BY <1>1, <1>11 DEF Queueing!RecoverLinked, Queueing!Recovers, Queueing!Outcome, Queueing!Row,
     RowSound, ReadSound, ViewSound, IsARow, Drafting, Queueing!Idle, Queueing!Gone,
     Queueing!NoGap, Queueing!Works, Rows, Queueing!Gaps, Doings, Records, Servers, Clicks
<1>12. CASE Queueing!RecoverStray(a)
  BY <1>1, <1>12 DEF Queueing!RecoverStray, Queueing!Recovers, RowSound, ReadSound, ViewSound,
     IsARow, Drafting, Queueing!Idle, Queueing!Gone, Queueing!NoGap, Queueing!Works, Rows,
     Queueing!Gaps, Doings, Records, Servers, Clicks
<1>13. QED
  BY <1>2, <1>3, <1>4, <1>5, <1>6, <1>7, <1>8, <1>9, <1>10, <1>11, <1>12 DEF WriterSteps

LEMMA ServerKeepsRowSound ==
  ASSUME GapInv, ServerSteps
  PROVE  RowSound'
<1>1. gap \in Rows /\ stored \in BOOLEAN /\ doing \in [Attempts -> Doings] /\ attempt \in [Attempts -> Records]
      /\ server \in Servers /\ click \in Clicks /\ Attempts = Backfills \union Outsiders
      /\ Queueing!Attempts = Attempts /\ "nobody" \notin Attempts /\ Backfills \intersect Outsiders = {}
      /\ NotBegun /\ Drafting /\ RowSound /\ ReadSound /\ LinkSound /\ ViewSound
  BY WriterAssumption DEF GapInv, GapTyped, Attempts, Queueing!Attempts, Snapshots
<1>2. CASE Queueing!Die
  BY <1>1, <1>2 DEF Queueing!Die, Queueing!Upset, Queueing!Booted, Queueing!NoClick, RowSound,
     ReadSound, ViewSound, IsARow, Drafting, Queueing!Idle, Queueing!Gone, Queueing!NoGap,
     Queueing!Works, Rows, Queueing!Gaps, Doings, Records, Servers, Clicks
<1>3. CASE Queueing!Boot
  BY <1>1, <1>3 DEF Queueing!Boot, Queueing!Booted, RowSound, ReadSound, ViewSound, IsARow,
     Drafting, Queueing!Idle, Queueing!Gone, Queueing!NoGap, Queueing!Works, Rows, Queueing!Gaps,
     Doings, Records, Servers, Clicks
<1>4. CASE Queueing!RecoveryReads
  BY <1>1, <1>4 DEF Queueing!RecoveryReads, RowSound, ReadSound, ViewSound, IsARow, Drafting,
     Queueing!Idle, Queueing!Gone, Queueing!NoGap, Queueing!Works, Rows, Queueing!Gaps, Doings,
     Records, Servers, Clicks
<1>5. CASE Queueing!QueueStray
  BY <1>1, <1>5 DEF Queueing!QueueStray, Queueing!Recovers, Queueing!Stray, Queueing!Row, RowSound,
     ReadSound, ViewSound, IsARow, Drafting, Queueing!Idle, Queueing!Gone, Queueing!NoGap,
     Queueing!Works, Rows, Queueing!Gaps, Doings, Records, Servers, Clicks
<1>6. CASE Queueing!EndRecovery
  BY <1>1, <1>6, EndRecoveryDoes DEF Queueing!Booted, Queueing!Ended, RowSound, ReadSound, ViewSound,
     IsARow, Drafting, Queueing!Idle, Queueing!Gone, Queueing!NoGap, Queueing!Works, Rows,
     Queueing!Gaps, Doings, Records, Servers, Clicks
<1>7. CASE Queueing!ClickReads
  BY <1>1, <1>7 DEF Queueing!ClickReads, Queueing!Upset, RowSound, ReadSound, ViewSound, IsARow,
     Drafting, Queueing!Idle, Queueing!Gone, Queueing!NoGap, Queueing!Works, Rows, Queueing!Gaps,
     Doings, Records, Servers, Clicks
<1>8. CASE Queueing!ClickWrites
  BY <1>1, <1>8 DEF Queueing!ClickWrites, Queueing!Written, Queueing!NoClick, RowSound, ReadSound,
     ViewSound, IsARow, Drafting, Queueing!Idle, Queueing!Gone, Queueing!NoGap, Queueing!Works,
     Rows, Queueing!Gaps, Doings, Records, Servers, Clicks
<1>9. QED
  BY <1>2, <1>3, <1>4, <1>5, <1>6, <1>7, <1>8 DEF ServerSteps

LEMMA WriterKeepsReadSound ==
  ASSUME GapInv, NEW a \in Attempts, WriterSteps(a)
  PROVE  ReadSound'
<1>1. gap \in Rows /\ stored \in BOOLEAN /\ doing \in [Attempts -> Doings] /\ attempt \in [Attempts -> Records]
      /\ server \in Servers /\ click \in Clicks /\ Attempts = Backfills \union Outsiders
      /\ Queueing!Attempts = Attempts /\ "nobody" \notin Attempts /\ Backfills \intersect Outsiders = {}
      /\ NotBegun /\ Drafting /\ RowSound /\ ReadSound /\ LinkSound /\ ViewSound
  BY WriterAssumption DEF GapInv, GapTyped, Attempts, Queueing!Attempts, Snapshots
<1>2. CASE a \in Backfills /\ Queueing!OpenGap(a)
  <2>1. gap' = gap /\ stored' = stored /\ \A c \in Attempts : c # a => doing'[c] = doing[c]
    BY <1>1, <1>2 DEF Queueing!OpenGap, Queueing!Takeable, Queueing!Reads, Queueing!Leaves
  <2>2. \/ doing'[a].seen = gap /\ doing'[a].found = doing[a].found /\ gap.is
        \/ doing'[a] = Queueing!Gone
    BY <1>1, <1>2 DEF Queueing!OpenGap, Queueing!Takeable, Queueing!Reads, Queueing!Leaves, Doings
  <2>3. Queueing!Gone.at = "gone" /\ Queueing!Gone.seen = Queueing!NoGap /\ Queueing!Gone.found = FALSE
        /\ IsARow(Queueing!NoGap) /\ Queueing!NoGap.is = FALSE /\ IsARow(gap)
    BY <1>1 DEF Queueing!Gone, Queueing!Idle, Queueing!NoGap, RowSound, IsARow
  <2>4. /\ IsARow(doing'[a].seen) /\ (doing'[a].seen.is => gap'.is) /\ (doing'[a].found => stored')
        /\ a \in Backfills /\ doing'[a].at \in {"opened", "looked"} => doing'[a].seen.is
    BY <1>1, <1>2, <2>1, <2>2, <2>3 DEF ReadSound, Queueing!OpenGap
  <2>5. QED
    BY <1>1, <2>1, <2>4 DEF ReadSound
<1>3. CASE a \in Backfills /\ Queueing!AlreadyPresent(a)
  BY <1>1, <1>3 DEF Queueing!AlreadyPresent, Queueing!Over, Queueing!Leaves, Queueing!Ended,
     Queueing!Written, ReadSound, RowSound, ViewSound, IsARow, Queueing!Idle, Queueing!Gone,
     Queueing!NoGap, Queueing!Works, Rows, Queueing!Gaps, Doings, Records, Servers, Clicks
<1>4. CASE a \in Backfills /\ Queueing!ClaimGap(a)
  <2>1. (gap' = gap \/ gap'.is) /\ stored' = stored /\ \A c \in Attempts : c # a => doing'[c] = doing[c]
    BY <1>1, <1>4 DEF Queueing!ClaimGap, Queueing!Moves, Queueing!Leaves, Queueing!Row
  <2>2. \/ doing'[a].seen = doing[a].seen /\ doing'[a].found = doing[a].found /\ doing'[a].at = "fetching"
        \/ doing'[a] = Queueing!Gone
    BY <1>1, <1>4 DEF Queueing!ClaimGap, Queueing!Moves, Queueing!Leaves, Queueing!Row, Doings
  <2>3. Queueing!Gone.at = "gone" /\ Queueing!Gone.seen = Queueing!NoGap /\ Queueing!Gone.found = FALSE
        /\ IsARow(Queueing!NoGap) /\ Queueing!NoGap.is = FALSE /\ IsARow(gap)
    BY <1>1 DEF Queueing!Gone, Queueing!Idle, Queueing!NoGap, RowSound, IsARow
  <2>4. /\ IsARow(doing'[a].seen) /\ (doing'[a].seen.is => gap'.is) /\ (doing'[a].found => stored')
        /\ a \in Backfills /\ doing'[a].at \in {"opened", "looked"} => doing'[a].seen.is
    BY <1>1, <1>4, <2>1, <2>2, <2>3 DEF ReadSound, Queueing!ClaimGap
  <2>5. QED
    BY <1>1, <2>1, <2>4 DEF ReadSound
<1>5. CASE a \in Outsiders /\ Queueing!Register(a)
  BY <1>1, <1>5 DEF Queueing!Register, Queueing!Written, Queueing!Moves, ReadSound, RowSound,
     ViewSound, IsARow, Queueing!Idle, Queueing!Gone, Queueing!NoGap, Queueing!Works, Rows,
     Queueing!Gaps, Doings, Records, Servers, Clicks
<1>6. CASE a \in Outsiders /\ Queueing!SettleStray(a)
  BY <1>1, <1>6 DEF Queueing!SettleStray, Queueing!Over, Queueing!Ended, Queueing!Leaves,
     Queueing!Stray, Queueing!Row, ReadSound, RowSound, ViewSound, IsARow, Queueing!Idle,
     Queueing!Gone, Queueing!NoGap, Queueing!Works, Rows, Queueing!Gaps, Doings, Records, Servers,
     Clicks
<1>7. CASE Queueing!Read(a)
  BY <1>1, <1>7 DEF Queueing!Read, Queueing!Looks, Queueing!Reads, ReadSound, RowSound, ViewSound,
     IsARow, Queueing!Idle, Queueing!Gone, Queueing!NoGap, Queueing!Works, Rows, Queueing!Gaps,
     Doings, Records, Servers, Clicks
<1>8. CASE Queueing!Fetch(a)
  <2>1. gap' = gap /\ (stored => stored') /\ \A c \in Attempts : c # a => doing'[c] = doing[c]
    BY <1>1, <1>8 DEF Queueing!Fetch, Queueing!Moves
  <2>2. doing'[a].seen = doing[a].seen /\ doing'[a].found = doing[a].found /\ doing'[a].at = "fetched"
    BY <1>1, <1>8 DEF Queueing!Fetch, Queueing!Moves, Doings
  <2>3. Queueing!Gone.at = "gone" /\ Queueing!Gone.seen = Queueing!NoGap /\ Queueing!Gone.found = FALSE
        /\ IsARow(Queueing!NoGap) /\ Queueing!NoGap.is = FALSE /\ IsARow(gap)
    BY <1>1 DEF Queueing!Gone, Queueing!Idle, Queueing!NoGap, RowSound, IsARow
  <2>4. /\ IsARow(doing'[a].seen) /\ (doing'[a].seen.is => gap'.is) /\ (doing'[a].found => stored')
        /\ a \in Backfills /\ doing'[a].at \in {"opened", "looked"} => doing'[a].seen.is
    BY <1>1, <1>8, <2>1, <2>2, <2>3 DEF ReadSound, Queueing!Fetch
  <2>5. QED
    BY <1>1, <2>1, <2>4 DEF ReadSound
<1>9. CASE Queueing!Settle(a)
  BY <1>1, <1>9 DEF Queueing!Settle, Queueing!Written, Queueing!Outcome, Queueing!Row,
     Queueing!Over, Queueing!Ended, Queueing!Leaves, ReadSound, RowSound, ViewSound, IsARow,
     Queueing!Idle, Queueing!Gone, Queueing!NoGap, Queueing!Works, Rows, Queueing!Gaps, Doings,
     Records, Servers, Clicks
<1>10. CASE Queueing!GiveUp(a)
  BY <1>1, <1>10 DEF Queueing!GiveUp, Queueing!Leaves, Queueing!Upset, ReadSound, RowSound,
     ViewSound, IsARow, Queueing!Idle, Queueing!Gone, Queueing!NoGap, Queueing!Works, Rows,
     Queueing!Gaps, Doings, Records, Servers, Clicks
<1>11. CASE Queueing!RecoverLinked(a)
  BY <1>1, <1>11 DEF Queueing!RecoverLinked, Queueing!Recovers, Queueing!Outcome, Queueing!Row,
     ReadSound, RowSound, ViewSound, IsARow, Queueing!Idle, Queueing!Gone, Queueing!NoGap,
     Queueing!Works, Rows, Queueing!Gaps, Doings, Records, Servers, Clicks
<1>12. CASE Queueing!RecoverStray(a)
  BY <1>1, <1>12 DEF Queueing!RecoverStray, Queueing!Recovers, ReadSound, RowSound, ViewSound,
     IsARow, Queueing!Idle, Queueing!Gone, Queueing!NoGap, Queueing!Works, Rows, Queueing!Gaps,
     Doings, Records, Servers, Clicks
<1>13. QED
  BY <1>2, <1>3, <1>4, <1>5, <1>6, <1>7, <1>8, <1>9, <1>10, <1>11, <1>12 DEF WriterSteps

LEMMA ServerKeepsReadSound ==
  ASSUME GapInv, ServerSteps
  PROVE  ReadSound'
<1>1. gap \in Rows /\ stored \in BOOLEAN /\ doing \in [Attempts -> Doings] /\ attempt \in [Attempts -> Records]
      /\ server \in Servers /\ click \in Clicks /\ Attempts = Backfills \union Outsiders
      /\ Queueing!Attempts = Attempts /\ "nobody" \notin Attempts /\ Backfills \intersect Outsiders = {}
      /\ NotBegun /\ Drafting /\ RowSound /\ ReadSound /\ LinkSound /\ ViewSound
  BY WriterAssumption DEF GapInv, GapTyped, Attempts, Queueing!Attempts, Snapshots
<1>2. CASE Queueing!Die
  BY <1>1, <1>2 DEF Queueing!Die, Queueing!Upset, Queueing!Booted, Queueing!NoClick, ReadSound,
     RowSound, ViewSound, IsARow, Queueing!Idle, Queueing!Gone, Queueing!NoGap, Queueing!Works,
     Rows, Queueing!Gaps, Doings, Records, Servers, Clicks
<1>3. CASE Queueing!Boot
  BY <1>1, <1>3 DEF Queueing!Boot, Queueing!Booted, ReadSound, RowSound, ViewSound, IsARow,
     Queueing!Idle, Queueing!Gone, Queueing!NoGap, Queueing!Works, Rows, Queueing!Gaps, Doings,
     Records, Servers, Clicks
<1>4. CASE Queueing!RecoveryReads
  BY <1>1, <1>4 DEF Queueing!RecoveryReads, ReadSound, RowSound, ViewSound, IsARow, Queueing!Idle,
     Queueing!Gone, Queueing!NoGap, Queueing!Works, Rows, Queueing!Gaps, Doings, Records, Servers,
     Clicks
<1>5. CASE Queueing!QueueStray
  BY <1>1, <1>5 DEF Queueing!QueueStray, Queueing!Recovers, Queueing!Stray, Queueing!Row,
     ReadSound, RowSound, ViewSound, IsARow, Queueing!Idle, Queueing!Gone, Queueing!NoGap,
     Queueing!Works, Rows, Queueing!Gaps, Doings, Records, Servers, Clicks
<1>6. CASE Queueing!EndRecovery
  BY <1>1, <1>6, EndRecoveryDoes DEF Queueing!Booted, Queueing!Ended, ReadSound, RowSound, ViewSound,
     IsARow, Queueing!Idle, Queueing!Gone, Queueing!NoGap, Queueing!Works, Rows, Queueing!Gaps,
     Doings, Records, Servers, Clicks
<1>7. CASE Queueing!ClickReads
  BY <1>1, <1>7 DEF Queueing!ClickReads, Queueing!Upset, ReadSound, RowSound, ViewSound, IsARow,
     Queueing!Idle, Queueing!Gone, Queueing!NoGap, Queueing!Works, Rows, Queueing!Gaps, Doings,
     Records, Servers, Clicks
<1>8. CASE Queueing!ClickWrites
  BY <1>1, <1>8 DEF Queueing!ClickWrites, Queueing!Written, Queueing!NoClick, ReadSound, RowSound,
     ViewSound, IsARow, Queueing!Idle, Queueing!Gone, Queueing!NoGap, Queueing!Works, Rows,
     Queueing!Gaps, Doings, Records, Servers, Clicks
<1>9. QED
  BY <1>2, <1>3, <1>4, <1>5, <1>6, <1>7, <1>8 DEF ServerSteps

LEMMA WriterKeepsLinkSound ==
  ASSUME GapInv, NEW a \in Attempts, WriterSteps(a)
  PROVE  LinkSound'
<1>1. gap \in Rows /\ stored \in BOOLEAN /\ doing \in [Attempts -> Doings] /\ attempt \in [Attempts -> Records]
      /\ server \in Servers /\ click \in Clicks /\ Attempts = Backfills \union Outsiders
      /\ Queueing!Attempts = Attempts /\ "nobody" \notin Attempts /\ Backfills \intersect Outsiders = {}
      /\ NotBegun /\ Drafting /\ RowSound /\ ReadSound /\ LinkSound /\ ViewSound
  BY WriterAssumption DEF GapInv, GapTyped, Attempts, Queueing!Attempts, Snapshots
<1>2. CASE a \in Backfills /\ Queueing!OpenGap(a)
  BY <1>1, <1>2 DEF Queueing!OpenGap, Queueing!Reads, Queueing!Leaves, Queueing!Takeable,
     LinkSound, ReadSound, ViewSound, NotBegun, Queueing!Idle, Queueing!Gone, Queueing!NoGap,
     Queueing!Works, Rows, Queueing!Gaps, Doings, Records, Servers, Clicks
<1>3. CASE a \in Backfills /\ Queueing!AlreadyPresent(a)
  BY <1>1, <1>3 DEF Queueing!AlreadyPresent, Queueing!Over, Queueing!Leaves, Queueing!Ended,
     Queueing!Written, LinkSound, ReadSound, ViewSound, NotBegun, Queueing!Idle, Queueing!Gone,
     Queueing!NoGap, Queueing!Works, Rows, Queueing!Gaps, Doings, Records, Servers, Clicks
<1>4. CASE a \in Backfills /\ Queueing!ClaimGap(a)
  BY <1>1, <1>4 DEF Queueing!ClaimGap, Queueing!Takeable, Queueing!Moves, Queueing!Leaves,
     Queueing!Row, LinkSound, ReadSound, ViewSound, NotBegun, Queueing!Idle, Queueing!Gone,
     Queueing!NoGap, Queueing!Works, Rows, Queueing!Gaps, Doings, Records, Servers, Clicks
<1>5. CASE a \in Outsiders /\ Queueing!Register(a)
  BY <1>1, <1>5 DEF Queueing!Register, Queueing!Written, Queueing!Moves, LinkSound, ReadSound,
     ViewSound, NotBegun, Queueing!Idle, Queueing!Gone, Queueing!NoGap, Queueing!Works, Rows,
     Queueing!Gaps, Doings, Records, Servers, Clicks
<1>6. CASE a \in Outsiders /\ Queueing!SettleStray(a)
  BY <1>1, <1>6 DEF Queueing!SettleStray, Queueing!Over, Queueing!Ended, Queueing!Leaves,
     Queueing!Stray, Queueing!Row, LinkSound, ReadSound, ViewSound, NotBegun, Queueing!Idle,
     Queueing!Gone, Queueing!NoGap, Queueing!Works, Rows, Queueing!Gaps, Doings, Records, Servers,
     Clicks
<1>7. CASE Queueing!Read(a)
  BY <1>1, <1>7 DEF Queueing!Read, Queueing!Looks, Queueing!Reads, LinkSound, ReadSound, ViewSound,
     NotBegun, Queueing!Idle, Queueing!Gone, Queueing!NoGap, Queueing!Works, Rows, Queueing!Gaps,
     Doings, Records, Servers, Clicks
<1>8. CASE Queueing!Fetch(a)
  BY <1>1, <1>8 DEF Queueing!Fetch, Queueing!Moves, LinkSound, ReadSound, ViewSound, NotBegun,
     Queueing!Idle, Queueing!Gone, Queueing!NoGap, Queueing!Works, Rows, Queueing!Gaps, Doings,
     Records, Servers, Clicks
<1>9. CASE Queueing!Settle(a)
  BY <1>1, <1>9 DEF Queueing!Settle, Queueing!Written, Queueing!Outcome, Queueing!Row,
     Queueing!Over, Queueing!Ended, Queueing!Leaves, LinkSound, ReadSound, ViewSound, NotBegun,
     Queueing!Idle, Queueing!Gone, Queueing!NoGap, Queueing!Works, Rows, Queueing!Gaps, Doings,
     Records, Servers, Clicks
<1>10. CASE Queueing!GiveUp(a)
  BY <1>1, <1>10 DEF Queueing!GiveUp, Queueing!Leaves, Queueing!Upset, LinkSound, ReadSound,
     ViewSound, NotBegun, Queueing!Idle, Queueing!Gone, Queueing!NoGap, Queueing!Works, Rows,
     Queueing!Gaps, Doings, Records, Servers, Clicks
<1>11. CASE Queueing!RecoverLinked(a)
  BY <1>1, <1>11 DEF Queueing!RecoverLinked, Queueing!Recovers, Queueing!Outcome, Queueing!Row,
     LinkSound, ReadSound, ViewSound, NotBegun, Queueing!Idle, Queueing!Gone, Queueing!NoGap,
     Queueing!Works, Rows, Queueing!Gaps, Doings, Records, Servers, Clicks
<1>12. CASE Queueing!RecoverStray(a)
  BY <1>1, <1>12 DEF Queueing!RecoverStray, Queueing!Recovers, LinkSound, ReadSound, ViewSound,
     NotBegun, Queueing!Idle, Queueing!Gone, Queueing!NoGap, Queueing!Works, Rows, Queueing!Gaps,
     Doings, Records, Servers, Clicks
<1>13. QED
  BY <1>2, <1>3, <1>4, <1>5, <1>6, <1>7, <1>8, <1>9, <1>10, <1>11, <1>12 DEF WriterSteps

LEMMA ServerKeepsLinkSound ==
  ASSUME GapInv, ServerSteps
  PROVE  LinkSound'
<1>1. gap \in Rows /\ stored \in BOOLEAN /\ doing \in [Attempts -> Doings] /\ attempt \in [Attempts -> Records]
      /\ server \in Servers /\ click \in Clicks /\ Attempts = Backfills \union Outsiders
      /\ Queueing!Attempts = Attempts /\ "nobody" \notin Attempts /\ Backfills \intersect Outsiders = {}
      /\ NotBegun /\ Drafting /\ RowSound /\ ReadSound /\ LinkSound /\ ViewSound
  BY WriterAssumption DEF GapInv, GapTyped, Attempts, Queueing!Attempts, Snapshots
<1>2. CASE Queueing!Die
  BY <1>1, <1>2 DEF Queueing!Die, Queueing!Upset, Queueing!Booted, Queueing!NoClick, LinkSound,
     ReadSound, ViewSound, NotBegun, Queueing!Idle, Queueing!Gone, Queueing!NoGap, Queueing!Works,
     Rows, Queueing!Gaps, Doings, Records, Servers, Clicks
<1>3. CASE Queueing!Boot
  BY <1>1, <1>3 DEF Queueing!Boot, Queueing!Booted, LinkSound, ReadSound, ViewSound, NotBegun,
     Queueing!Idle, Queueing!Gone, Queueing!NoGap, Queueing!Works, Rows, Queueing!Gaps, Doings,
     Records, Servers, Clicks
<1>4. CASE Queueing!RecoveryReads
  BY <1>1, <1>4 DEF Queueing!RecoveryReads, LinkSound, ReadSound, ViewSound, NotBegun,
     Queueing!Idle, Queueing!Gone, Queueing!NoGap, Queueing!Works, Rows, Queueing!Gaps, Doings,
     Records, Servers, Clicks
<1>5. CASE Queueing!QueueStray
  BY <1>1, <1>5 DEF Queueing!QueueStray, Queueing!Recovers, Queueing!Stray, Queueing!Row,
     LinkSound, ReadSound, ViewSound, NotBegun, Queueing!Idle, Queueing!Gone, Queueing!NoGap,
     Queueing!Works, Rows, Queueing!Gaps, Doings, Records, Servers, Clicks
<1>6. CASE Queueing!EndRecovery
  BY <1>1, <1>6, EndRecoveryDoes DEF Queueing!Booted, Queueing!Ended, LinkSound, ReadSound, ViewSound,
     NotBegun, Queueing!Idle, Queueing!Gone, Queueing!NoGap, Queueing!Works, Rows, Queueing!Gaps,
     Doings, Records, Servers, Clicks
<1>7. CASE Queueing!ClickReads
  BY <1>1, <1>7 DEF Queueing!ClickReads, Queueing!Upset, LinkSound, ReadSound, ViewSound, NotBegun,
     Queueing!Idle, Queueing!Gone, Queueing!NoGap, Queueing!Works, Rows, Queueing!Gaps, Doings,
     Records, Servers, Clicks
<1>8. CASE Queueing!ClickWrites
  BY <1>1, <1>8 DEF Queueing!ClickWrites, Queueing!Written, Queueing!NoClick, LinkSound, ReadSound,
     ViewSound, NotBegun, Queueing!Idle, Queueing!Gone, Queueing!NoGap, Queueing!Works, Rows,
     Queueing!Gaps, Doings, Records, Servers, Clicks
<1>9. QED
  BY <1>2, <1>3, <1>4, <1>5, <1>6, <1>7, <1>8 DEF ServerSteps

LEMMA WriterKeepsViewSound ==
  ASSUME GapInv, NEW a \in Attempts, WriterSteps(a)
  PROVE  ViewSound'
<1>1. gap \in Rows /\ stored \in BOOLEAN /\ doing \in [Attempts -> Doings] /\ attempt \in [Attempts -> Records]
      /\ server \in Servers /\ click \in Clicks /\ Attempts = Backfills \union Outsiders
      /\ Queueing!Attempts = Attempts /\ "nobody" \notin Attempts /\ Backfills \intersect Outsiders = {}
      /\ NotBegun /\ Drafting /\ RowSound /\ ReadSound /\ LinkSound /\ ViewSound
  BY WriterAssumption DEF GapInv, GapTyped, Attempts, Queueing!Attempts, Snapshots
<1>2. CASE a \in Backfills /\ Queueing!OpenGap(a)
  BY <1>1, <1>2 DEF Queueing!OpenGap, Queueing!Reads, Queueing!Leaves, Queueing!Takeable,
     ViewSound, ReadSound, LinkSound, Queueing!Idle, Queueing!Gone, Queueing!NoGap, Queueing!Works,
     Rows, Queueing!Gaps, Doings, Records, Servers, Clicks
<1>3. CASE a \in Backfills /\ Queueing!AlreadyPresent(a)
  BY <1>1, <1>3 DEF Queueing!AlreadyPresent, Queueing!Over, Queueing!Leaves, Queueing!Ended,
     Queueing!Written, ViewSound, ReadSound, LinkSound, Queueing!Idle, Queueing!Gone,
     Queueing!NoGap, Queueing!Works, Rows, Queueing!Gaps, Doings, Records, Servers, Clicks
<1>4. CASE a \in Backfills /\ Queueing!ClaimGap(a)
  BY <1>1, <1>4 DEF Queueing!ClaimGap, Queueing!Takeable, Queueing!Moves, Queueing!Leaves,
     Queueing!Row, ViewSound, ReadSound, LinkSound, Queueing!Idle, Queueing!Gone, Queueing!NoGap,
     Queueing!Works, Rows, Queueing!Gaps, Doings, Records, Servers, Clicks
<1>5. CASE a \in Outsiders /\ Queueing!Register(a)
  BY <1>1, <1>5 DEF Queueing!Register, Queueing!Written, Queueing!Moves, ViewSound, ReadSound,
     LinkSound, Queueing!Idle, Queueing!Gone, Queueing!NoGap, Queueing!Works, Rows, Queueing!Gaps,
     Doings, Records, Servers, Clicks
<1>6. CASE a \in Outsiders /\ Queueing!SettleStray(a)
  BY <1>1, <1>6 DEF Queueing!SettleStray, Queueing!Over, Queueing!Ended, Queueing!Leaves,
     Queueing!Stray, Queueing!Row, ViewSound, ReadSound, LinkSound, Queueing!Idle, Queueing!Gone,
     Queueing!NoGap, Queueing!Works, Rows, Queueing!Gaps, Doings, Records, Servers, Clicks
<1>7. CASE Queueing!Read(a)
  BY <1>1, <1>7 DEF Queueing!Read, Queueing!Looks, Queueing!Reads, ViewSound, ReadSound, LinkSound,
     Queueing!Idle, Queueing!Gone, Queueing!NoGap, Queueing!Works, Rows, Queueing!Gaps, Doings,
     Records, Servers, Clicks
<1>8. CASE Queueing!Fetch(a)
  BY <1>1, <1>8 DEF Queueing!Fetch, Queueing!Moves, ViewSound, ReadSound, LinkSound, Queueing!Idle,
     Queueing!Gone, Queueing!NoGap, Queueing!Works, Rows, Queueing!Gaps, Doings, Records, Servers,
     Clicks
<1>9. CASE Queueing!Settle(a)
  BY <1>1, <1>9 DEF Queueing!Settle, Queueing!Written, Queueing!Outcome, Queueing!Row,
     Queueing!Over, Queueing!Ended, Queueing!Leaves, ViewSound, ReadSound, LinkSound,
     Queueing!Idle, Queueing!Gone, Queueing!NoGap, Queueing!Works, Rows, Queueing!Gaps, Doings,
     Records, Servers, Clicks
<1>10. CASE Queueing!GiveUp(a)
  BY <1>1, <1>10 DEF Queueing!GiveUp, Queueing!Leaves, Queueing!Upset, ViewSound, ReadSound,
     LinkSound, Queueing!Idle, Queueing!Gone, Queueing!NoGap, Queueing!Works, Rows, Queueing!Gaps,
     Doings, Records, Servers, Clicks
<1>11. CASE Queueing!RecoverLinked(a)
  BY <1>1, <1>11 DEF Queueing!RecoverLinked, Queueing!Recovers, Queueing!Outcome, Queueing!Row,
     ViewSound, ReadSound, LinkSound, Queueing!Idle, Queueing!Gone, Queueing!NoGap, Queueing!Works,
     Rows, Queueing!Gaps, Doings, Records, Servers, Clicks
<1>12. CASE Queueing!RecoverStray(a)
  BY <1>1, <1>12 DEF Queueing!RecoverStray, Queueing!Recovers, ViewSound, ReadSound, LinkSound,
     Queueing!Idle, Queueing!Gone, Queueing!NoGap, Queueing!Works, Rows, Queueing!Gaps, Doings,
     Records, Servers, Clicks
<1>13. QED
  BY <1>2, <1>3, <1>4, <1>5, <1>6, <1>7, <1>8, <1>9, <1>10, <1>11, <1>12 DEF WriterSteps

LEMMA ServerKeepsViewSound ==
  ASSUME GapInv, ServerSteps
  PROVE  ViewSound'
<1>1. gap \in Rows /\ stored \in BOOLEAN /\ doing \in [Attempts -> Doings] /\ attempt \in [Attempts -> Records]
      /\ server \in Servers /\ click \in Clicks /\ Attempts = Backfills \union Outsiders
      /\ Queueing!Attempts = Attempts /\ "nobody" \notin Attempts /\ Backfills \intersect Outsiders = {}
      /\ NotBegun /\ Drafting /\ RowSound /\ ReadSound /\ LinkSound /\ ViewSound
  BY WriterAssumption DEF GapInv, GapTyped, Attempts, Queueing!Attempts, Snapshots
<1>2. CASE Queueing!Die
  BY <1>1, <1>2 DEF Queueing!Die, Queueing!Upset, Queueing!Booted, Queueing!NoClick, ViewSound,
     ReadSound, LinkSound, Queueing!Idle, Queueing!Gone, Queueing!NoGap, Queueing!Works, Rows,
     Queueing!Gaps, Doings, Records, Servers, Clicks
<1>3. CASE Queueing!Boot
  BY <1>1, <1>3 DEF Queueing!Boot, Queueing!Booted, ViewSound, ReadSound, LinkSound, Queueing!Idle,
     Queueing!Gone, Queueing!NoGap, Queueing!Works, Rows, Queueing!Gaps, Doings, Records, Servers,
     Clicks
<1>4. CASE Queueing!RecoveryReads
  BY <1>1, <1>4 DEF Queueing!RecoveryReads, ViewSound, ReadSound, LinkSound, Queueing!Idle,
     Queueing!Gone, Queueing!NoGap, Queueing!Works, Rows, Queueing!Gaps, Doings, Records, Servers,
     Clicks
<1>5. CASE Queueing!QueueStray
  BY <1>1, <1>5 DEF Queueing!QueueStray, Queueing!Recovers, Queueing!Stray, Queueing!Row,
     ViewSound, ReadSound, LinkSound, Queueing!Idle, Queueing!Gone, Queueing!NoGap, Queueing!Works,
     Rows, Queueing!Gaps, Doings, Records, Servers, Clicks
<1>6. CASE Queueing!EndRecovery
  BY <1>1, <1>6, EndRecoveryDoes DEF Queueing!Booted, Queueing!Ended, ViewSound, ReadSound, LinkSound,
     Queueing!Idle, Queueing!Gone, Queueing!NoGap, Queueing!Works, Rows, Queueing!Gaps, Doings,
     Records, Servers, Clicks
<1>7. CASE Queueing!ClickReads
  BY <1>1, <1>7 DEF Queueing!ClickReads, Queueing!Upset, ViewSound, ReadSound, LinkSound,
     Queueing!Idle, Queueing!Gone, Queueing!NoGap, Queueing!Works, Rows, Queueing!Gaps, Doings,
     Records, Servers, Clicks
<1>8. CASE Queueing!ClickWrites
  BY <1>1, <1>8 DEF Queueing!ClickWrites, Queueing!Written, Queueing!NoClick, ViewSound, ReadSound,
     LinkSound, Queueing!Idle, Queueing!Gone, Queueing!NoGap, Queueing!Works, Rows, Queueing!Gaps,
     Doings, Records, Servers, Clicks
<1>9. QED
  BY <1>2, <1>3, <1>4, <1>5, <1>6, <1>7, <1>8 DEF ServerSteps

LEMMA WriterKeepsClaimIsSeen ==
  ASSUME GapInv, NEW a \in Attempts, WriterSteps(a)
  PROVE  ClaimIsSeen'
<1>1. gap \in Rows /\ stored \in BOOLEAN /\ doing \in [Attempts -> Doings] /\ attempt \in [Attempts -> Records]
      /\ server \in Servers /\ click \in Clicks /\ Attempts = Backfills \union Outsiders
      /\ Queueing!Attempts = Attempts /\ "nobody" \notin Attempts /\ Backfills \intersect Outsiders = {}
      /\ ClaimIsSeen /\ NotBegun /\ OneWorks /\ Snapshots /\ Queueing!NothingIsStranded
  BY WriterAssumption DEF GapInv, GapTyped, Attempts, Queueing!Attempts
<1>2. CASE a \in Backfills /\ Queueing!OpenGap(a)
  BY <1>1, <1>2 DEF Queueing!OpenGap, Queueing!Reads, Queueing!Leaves, Queueing!Takeable,
     ClaimIsSeen, NotBegun, OneWorks, Snapshots, ReadSound, LinkSound, Queueing!NothingIsStranded,
     Queueing!Idle, Queueing!Gone, Queueing!Works, Rows, Queueing!Gaps, Doings, Records, Servers,
     Clicks
<1>3. CASE a \in Backfills /\ Queueing!AlreadyPresent(a)
  BY <1>1, <1>3 DEF Queueing!AlreadyPresent, Queueing!Over, Queueing!Leaves, Queueing!Ended,
     Queueing!Written, ClaimIsSeen, NotBegun, OneWorks, Snapshots, ReadSound, LinkSound,
     Queueing!NothingIsStranded, Queueing!Idle, Queueing!Gone, Queueing!Works, Rows, Queueing!Gaps,
     Doings, Records, Servers, Clicks
<1>4. CASE a \in Backfills /\ Queueing!ClaimGap(a)
  BY <1>1, <1>4 DEF Queueing!ClaimGap, Queueing!Takeable, Queueing!Moves, Queueing!Leaves,
     Queueing!Row, ClaimIsSeen, NotBegun, OneWorks, Snapshots, ReadSound, LinkSound,
     Queueing!NothingIsStranded, Queueing!Idle, Queueing!Gone, Queueing!Works, Rows, Queueing!Gaps,
     Doings, Records, Servers, Clicks
<1>5. CASE a \in Outsiders /\ Queueing!Register(a)
  BY <1>1, <1>5 DEF Queueing!Register, Queueing!Written, Queueing!Moves, ClaimIsSeen, NotBegun,
     OneWorks, Snapshots, ReadSound, LinkSound, Queueing!NothingIsStranded, Queueing!Idle,
     Queueing!Gone, Queueing!Works, Rows, Queueing!Gaps, Doings, Records, Servers, Clicks
<1>6. CASE a \in Outsiders /\ Queueing!SettleStray(a)
  BY <1>1, <1>6 DEF Queueing!SettleStray, Queueing!Over, Queueing!Ended, Queueing!Leaves,
     Queueing!Stray, Queueing!Row, ClaimIsSeen, NotBegun, OneWorks, Snapshots, ReadSound,
     LinkSound, Queueing!NothingIsStranded, Queueing!Idle, Queueing!Gone, Queueing!Works, Rows,
     Queueing!Gaps, Doings, Records, Servers, Clicks
<1>7. CASE Queueing!Read(a)
  BY <1>1, <1>7 DEF Queueing!Read, Queueing!Looks, Queueing!Reads, ClaimIsSeen, NotBegun, OneWorks,
     Snapshots, ReadSound, LinkSound, Queueing!NothingIsStranded, Queueing!Idle, Queueing!Gone,
     Queueing!Works, Rows, Queueing!Gaps, Doings, Records, Servers, Clicks
<1>8. CASE Queueing!Fetch(a)
  BY <1>1, <1>8 DEF Queueing!Fetch, Queueing!Moves, ClaimIsSeen, NotBegun, OneWorks, Snapshots,
     ReadSound, LinkSound, Queueing!NothingIsStranded, Queueing!Idle, Queueing!Gone,
     Queueing!Works, Rows, Queueing!Gaps, Doings, Records, Servers, Clicks
<1>9. CASE Queueing!Settle(a)
  BY <1>1, <1>9 DEF Queueing!Settle, Queueing!Written, Queueing!Outcome, Queueing!Row,
     Queueing!Over, Queueing!Ended, Queueing!Leaves, ClaimIsSeen, NotBegun, OneWorks, Snapshots,
     ReadSound, LinkSound, Queueing!NothingIsStranded, Queueing!Idle, Queueing!Gone,
     Queueing!Works, Rows, Queueing!Gaps, Doings, Records, Servers, Clicks
<1>10. CASE Queueing!GiveUp(a)
  BY <1>1, <1>10 DEF Queueing!GiveUp, Queueing!Leaves, Queueing!Upset, ClaimIsSeen, NotBegun,
     OneWorks, Snapshots, ReadSound, LinkSound, Queueing!NothingIsStranded, Queueing!Idle,
     Queueing!Gone, Queueing!Works, Rows, Queueing!Gaps, Doings, Records, Servers, Clicks
<1>11. CASE Queueing!RecoverLinked(a)
  BY <1>1, <1>11 DEF Queueing!RecoverLinked, Queueing!Recovers, Queueing!Outcome, Queueing!Row,
     ClaimIsSeen, NotBegun, OneWorks, Snapshots, ReadSound, LinkSound, Queueing!NothingIsStranded,
     Queueing!Idle, Queueing!Gone, Queueing!Works, Rows, Queueing!Gaps, Doings, Records, Servers,
     Clicks
<1>12. CASE Queueing!RecoverStray(a)
  BY <1>1, <1>12 DEF Queueing!RecoverStray, Queueing!Recovers, ClaimIsSeen, NotBegun, OneWorks,
     Snapshots, ReadSound, LinkSound, Queueing!NothingIsStranded, Queueing!Idle, Queueing!Gone,
     Queueing!Works, Rows, Queueing!Gaps, Doings, Records, Servers, Clicks
<1>13. QED
  BY <1>2, <1>3, <1>4, <1>5, <1>6, <1>7, <1>8, <1>9, <1>10, <1>11, <1>12 DEF WriterSteps

LEMMA ServerKeepsClaimIsSeen ==
  ASSUME GapInv, ServerSteps
  PROVE  ClaimIsSeen'
<1>1. gap \in Rows /\ stored \in BOOLEAN /\ doing \in [Attempts -> Doings] /\ attempt \in [Attempts -> Records]
      /\ server \in Servers /\ click \in Clicks /\ Attempts = Backfills \union Outsiders
      /\ Queueing!Attempts = Attempts /\ "nobody" \notin Attempts /\ Backfills \intersect Outsiders = {}
      /\ ClaimIsSeen /\ NotBegun /\ OneWorks /\ Snapshots /\ Queueing!NothingIsStranded
  BY WriterAssumption DEF GapInv, GapTyped, Attempts, Queueing!Attempts
<1>2. CASE Queueing!Die
  BY <1>1, <1>2 DEF Queueing!Die, Queueing!Upset, Queueing!Booted, Queueing!NoClick, ClaimIsSeen,
     NotBegun, OneWorks, Snapshots, ReadSound, LinkSound, Queueing!NothingIsStranded,
     Queueing!Idle, Queueing!Gone, Queueing!Works, Rows, Queueing!Gaps, Doings, Records, Servers,
     Clicks
<1>3. CASE Queueing!Boot
  BY <1>1, <1>3 DEF Queueing!Boot, Queueing!Booted, ClaimIsSeen, NotBegun, OneWorks, Snapshots,
     ReadSound, LinkSound, Queueing!NothingIsStranded, Queueing!Idle, Queueing!Gone,
     Queueing!Works, Rows, Queueing!Gaps, Doings, Records, Servers, Clicks
<1>4. CASE Queueing!RecoveryReads
  BY <1>1, <1>4 DEF Queueing!RecoveryReads, ClaimIsSeen, NotBegun, OneWorks, Snapshots, ReadSound,
     LinkSound, Queueing!NothingIsStranded, Queueing!Idle, Queueing!Gone, Queueing!Works, Rows,
     Queueing!Gaps, Doings, Records, Servers, Clicks
<1>5. CASE Queueing!QueueStray
  BY <1>1, <1>5 DEF Queueing!QueueStray, Queueing!Recovers, Queueing!Stray, Queueing!Row,
     ClaimIsSeen, NotBegun, OneWorks, Snapshots, ReadSound, LinkSound, Queueing!NothingIsStranded,
     Queueing!Idle, Queueing!Gone, Queueing!Works, Rows, Queueing!Gaps, Doings, Records, Servers,
     Clicks
<1>6. CASE Queueing!EndRecovery
  BY <1>1, <1>6, EndRecoveryDoes DEF Queueing!Booted, Queueing!Ended, ClaimIsSeen, NotBegun, OneWorks,
     Snapshots, ReadSound, LinkSound, Queueing!NothingIsStranded, Queueing!Idle, Queueing!Gone,
     Queueing!Works, Rows, Queueing!Gaps, Doings, Records, Servers, Clicks
<1>7. CASE Queueing!ClickReads
  BY <1>1, <1>7 DEF Queueing!ClickReads, Queueing!Upset, ClaimIsSeen, NotBegun, OneWorks,
     Snapshots, ReadSound, LinkSound, Queueing!NothingIsStranded, Queueing!Idle, Queueing!Gone,
     Queueing!Works, Rows, Queueing!Gaps, Doings, Records, Servers, Clicks
<1>8. CASE Queueing!ClickWrites
  BY <1>1, <1>8 DEF Queueing!ClickWrites, Queueing!Written, Queueing!NoClick, ClaimIsSeen,
     NotBegun, OneWorks, Snapshots, ReadSound, LinkSound, Queueing!NothingIsStranded,
     Queueing!Idle, Queueing!Gone, Queueing!Works, Rows, Queueing!Gaps, Doings, Records, Servers,
     Clicks
<1>9. QED
  BY <1>2, <1>3, <1>4, <1>5, <1>6, <1>7, <1>8 DEF ServerSteps

LEMMA WriterKeepsListing ==
  ASSUME GapInv, NEW a \in Attempts, WriterSteps(a)
  PROVE  Listing'
<1>1. gap \in Rows /\ stored \in BOOLEAN /\ doing \in [Attempts -> Doings] /\ attempt \in [Attempts -> Records]
      /\ server \in Servers /\ click \in Clicks /\ Attempts = Backfills \union Outsiders
      /\ Queueing!Attempts = Attempts /\ "nobody" \notin Attempts /\ Backfills \intersect Outsiders = {}
      /\ Listing /\ NotBegun
  BY WriterAssumption DEF GapInv, GapTyped, Attempts, Queueing!Attempts
<1>2. CASE a \in Backfills /\ Queueing!OpenGap(a)
  BY <1>1, <1>2 DEF Queueing!OpenGap, Queueing!Reads, Queueing!Leaves, Queueing!Takeable, Listing,
     NotBegun, Records, Servers
<1>3. CASE a \in Backfills /\ Queueing!AlreadyPresent(a)
  BY <1>1, <1>3 DEF Queueing!AlreadyPresent, Queueing!Over, Queueing!Leaves, Queueing!Ended,
     Queueing!Written, Listing, NotBegun, Records, Servers
<1>4. CASE a \in Backfills /\ Queueing!ClaimGap(a)
  BY <1>1, <1>4 DEF Queueing!ClaimGap, Queueing!Takeable, Queueing!Moves, Queueing!Leaves,
     Queueing!Row, Listing, NotBegun, Records, Servers
<1>5. CASE a \in Outsiders /\ Queueing!Register(a)
  BY <1>1, <1>5 DEF Queueing!Register, Queueing!Written, Queueing!Moves, Listing, NotBegun,
     Records, Servers
<1>6. CASE a \in Outsiders /\ Queueing!SettleStray(a)
  BY <1>1, <1>6 DEF Queueing!SettleStray, Queueing!Over, Queueing!Ended, Queueing!Leaves,
     Queueing!Stray, Queueing!Row, Listing, NotBegun, Records, Servers
<1>7. CASE Queueing!Read(a)
  BY <1>1, <1>7 DEF Queueing!Read, Queueing!Looks, Queueing!Reads, Listing, NotBegun, Records,
     Servers
<1>8. CASE Queueing!Fetch(a)
  BY <1>1, <1>8 DEF Queueing!Fetch, Queueing!Moves, Listing, NotBegun, Records, Servers
<1>9. CASE Queueing!Settle(a)
  BY <1>1, <1>9 DEF Queueing!Settle, Queueing!Written, Queueing!Outcome, Queueing!Row,
     Queueing!Over, Queueing!Ended, Queueing!Leaves, Listing, NotBegun, Records, Servers
<1>10. CASE Queueing!GiveUp(a)
  BY <1>1, <1>10 DEF Queueing!GiveUp, Queueing!Leaves, Queueing!Upset, Listing, NotBegun, Records,
     Servers
<1>11. CASE Queueing!RecoverLinked(a)
  BY <1>1, <1>11 DEF Queueing!RecoverLinked, Queueing!Recovers, Queueing!Outcome, Queueing!Row,
     Listing, NotBegun, Records, Servers
<1>12. CASE Queueing!RecoverStray(a)
  BY <1>1, <1>12 DEF Queueing!RecoverStray, Queueing!Recovers, Listing, NotBegun, Records, Servers
<1>13. QED
  BY <1>2, <1>3, <1>4, <1>5, <1>6, <1>7, <1>8, <1>9, <1>10, <1>11, <1>12 DEF WriterSteps

LEMMA ServerKeepsListing ==
  ASSUME GapInv, ServerSteps
  PROVE  Listing'
<1>1. gap \in Rows /\ stored \in BOOLEAN /\ doing \in [Attempts -> Doings] /\ attempt \in [Attempts -> Records]
      /\ server \in Servers /\ click \in Clicks /\ Attempts = Backfills \union Outsiders
      /\ Queueing!Attempts = Attempts /\ "nobody" \notin Attempts /\ Backfills \intersect Outsiders = {}
      /\ Listing /\ NotBegun
  BY WriterAssumption DEF GapInv, GapTyped, Attempts, Queueing!Attempts
<1>2. CASE Queueing!Die
  BY <1>1, <1>2 DEF Queueing!Die, Queueing!Upset, Queueing!Booted, Queueing!NoClick, Listing,
     NotBegun, Records, Servers
<1>3. CASE Queueing!Boot
  BY <1>1, <1>3 DEF Queueing!Boot, Queueing!Booted, Listing, NotBegun, Records, Servers
<1>4. CASE Queueing!RecoveryReads
  BY <1>1, <1>4 DEF Queueing!RecoveryReads, Listing, NotBegun, Records, Servers
<1>5. CASE Queueing!QueueStray
  BY <1>1, <1>5 DEF Queueing!QueueStray, Queueing!Recovers, Queueing!Stray, Queueing!Row, Listing,
     NotBegun, Records, Servers
<1>6. CASE Queueing!EndRecovery
  BY <1>1, <1>6, EndRecoveryDoes DEF Queueing!Booted, Queueing!Ended, Listing, NotBegun, Records,
     Servers
<1>7. CASE Queueing!ClickReads
  BY <1>1, <1>7 DEF Queueing!ClickReads, Queueing!Upset, Listing, NotBegun, Records, Servers
<1>8. CASE Queueing!ClickWrites
  BY <1>1, <1>8 DEF Queueing!ClickWrites, Queueing!Written, Queueing!NoClick, Listing, NotBegun,
     Records, Servers
<1>9. QED
  BY <1>2, <1>3, <1>4, <1>5, <1>6, <1>7, <1>8 DEF ServerSteps

LEMMA WriterKeepsMissIsQueued ==
  ASSUME GapInv, NEW a \in Attempts, WriterSteps(a)
  PROVE  Queueing!MissIsQueued'
<1>1. gap \in Rows /\ stored \in BOOLEAN /\ doing \in [Attempts -> Doings] /\ attempt \in [Attempts -> Records]
      /\ server \in Servers /\ click \in Clicks /\ Attempts = Backfills \union Outsiders
      /\ Queueing!Attempts = Attempts /\ "nobody" \notin Attempts /\ Backfills \intersect Outsiders = {}
      /\ Queueing!MissIsQueued /\ Snapshots /\ Drafting /\ Listing
  BY WriterAssumption DEF GapInv, GapTyped, Attempts, Queueing!Attempts
<1>2. CASE a \in Backfills /\ Queueing!OpenGap(a)
  BY <1>1, <1>2 DEF Queueing!OpenGap, Queueing!Reads, Queueing!Leaves, Queueing!Takeable,
     Queueing!MissIsQueued, Snapshots, RowSound, ReadSound, LinkSound, ViewSound, Drafting,
     Listing, Rows, Queueing!Gaps, Doings, Records, Servers, Clicks
<1>3. CASE a \in Backfills /\ Queueing!AlreadyPresent(a)
  BY <1>1, <1>3 DEF Queueing!AlreadyPresent, Queueing!Over, Queueing!Leaves, Queueing!Ended,
     Queueing!Written, Queueing!MissIsQueued, Snapshots, RowSound, ReadSound, LinkSound, ViewSound,
     Drafting, Listing, Rows, Queueing!Gaps, Doings, Records, Servers, Clicks
<1>4. CASE a \in Backfills /\ Queueing!ClaimGap(a)
  BY <1>1, <1>4 DEF Queueing!ClaimGap, Queueing!Takeable, Queueing!Moves, Queueing!Leaves,
     Queueing!Row, Queueing!MissIsQueued, Snapshots, RowSound, ReadSound, LinkSound, ViewSound,
     Drafting, Listing, Rows, Queueing!Gaps, Doings, Records, Servers, Clicks
<1>5. CASE a \in Outsiders /\ Queueing!Register(a)
  BY <1>1, <1>5 DEF Queueing!Register, Queueing!Written, Queueing!Moves, Queueing!MissIsQueued,
     Snapshots, RowSound, ReadSound, LinkSound, ViewSound, Drafting, Listing, Rows, Queueing!Gaps,
     Doings, Records, Servers, Clicks
<1>6. CASE a \in Outsiders /\ Queueing!SettleStray(a)
  BY <1>1, <1>6 DEF Queueing!SettleStray, Queueing!Over, Queueing!Ended, Queueing!Leaves,
     Queueing!Stray, Queueing!Row, Queueing!MissIsQueued, Snapshots, RowSound, ReadSound,
     LinkSound, ViewSound, Drafting, Listing, Rows, Queueing!Gaps, Doings, Records, Servers, Clicks
<1>7. CASE Queueing!Read(a)
  BY <1>1, <1>7 DEF Queueing!Read, Queueing!Looks, Queueing!Reads, Queueing!MissIsQueued,
     Snapshots, RowSound, ReadSound, LinkSound, ViewSound, Drafting, Listing, Rows, Queueing!Gaps,
     Doings, Records, Servers, Clicks
<1>8. CASE Queueing!Fetch(a)
  BY <1>1, <1>8 DEF Queueing!Fetch, Queueing!Moves, Queueing!MissIsQueued, Snapshots, RowSound,
     ReadSound, LinkSound, ViewSound, Drafting, Listing, Rows, Queueing!Gaps, Doings, Records,
     Servers, Clicks
<1>9. CASE Queueing!Settle(a)
  BY <1>1, <1>9 DEF Queueing!Settle, Queueing!Written, Queueing!Outcome, Queueing!Row,
     Queueing!Over, Queueing!Ended, Queueing!Leaves, Queueing!MissIsQueued, Snapshots, RowSound,
     ReadSound, LinkSound, ViewSound, Drafting, Listing, Rows, Queueing!Gaps, Doings, Records,
     Servers, Clicks
<1>10. CASE Queueing!GiveUp(a)
  BY <1>1, <1>10 DEF Queueing!GiveUp, Queueing!Leaves, Queueing!Upset, Queueing!MissIsQueued,
     Snapshots, RowSound, ReadSound, LinkSound, ViewSound, Drafting, Listing, Rows, Queueing!Gaps,
     Doings, Records, Servers, Clicks
<1>11. CASE Queueing!RecoverLinked(a)
  BY <1>1, <1>11 DEF Queueing!RecoverLinked, Queueing!Recovers, Queueing!Outcome, Queueing!Row,
     Queueing!MissIsQueued, Snapshots, RowSound, ReadSound, LinkSound, ViewSound, Drafting,
     Listing, Rows, Queueing!Gaps, Doings, Records, Servers, Clicks
<1>12. CASE Queueing!RecoverStray(a)
  BY <1>1, <1>12 DEF Queueing!RecoverStray, Queueing!Recovers, Queueing!MissIsQueued, Snapshots,
     RowSound, ReadSound, LinkSound, ViewSound, Drafting, Listing, Rows, Queueing!Gaps, Doings,
     Records, Servers, Clicks
<1>13. QED
  BY <1>2, <1>3, <1>4, <1>5, <1>6, <1>7, <1>8, <1>9, <1>10, <1>11, <1>12 DEF WriterSteps

LEMMA ServerKeepsMissIsQueued ==
  ASSUME GapInv, ServerSteps
  PROVE  Queueing!MissIsQueued'
<1>1. gap \in Rows /\ stored \in BOOLEAN /\ doing \in [Attempts -> Doings] /\ attempt \in [Attempts -> Records]
      /\ server \in Servers /\ click \in Clicks /\ Attempts = Backfills \union Outsiders
      /\ Queueing!Attempts = Attempts /\ "nobody" \notin Attempts /\ Backfills \intersect Outsiders = {}
      /\ Queueing!MissIsQueued /\ Snapshots /\ Drafting /\ Listing
  BY WriterAssumption DEF GapInv, GapTyped, Attempts, Queueing!Attempts
<1>2. CASE Queueing!Die
  BY <1>1, <1>2 DEF Queueing!Die, Queueing!Upset, Queueing!Booted, Queueing!NoClick,
     Queueing!MissIsQueued, Snapshots, RowSound, ReadSound, LinkSound, ViewSound, Drafting,
     Listing, Rows, Queueing!Gaps, Doings, Records, Servers, Clicks
<1>3. CASE Queueing!Boot
  BY <1>1, <1>3 DEF Queueing!Boot, Queueing!Booted, Queueing!MissIsQueued, Snapshots, RowSound,
     ReadSound, LinkSound, ViewSound, Drafting, Listing, Rows, Queueing!Gaps, Doings, Records,
     Servers, Clicks
<1>4. CASE Queueing!RecoveryReads
  BY <1>1, <1>4 DEF Queueing!RecoveryReads, Queueing!MissIsQueued, Snapshots, RowSound, ReadSound,
     LinkSound, ViewSound, Drafting, Listing, Rows, Queueing!Gaps, Doings, Records, Servers, Clicks
<1>5. CASE Queueing!QueueStray
  BY <1>1, <1>5 DEF Queueing!QueueStray, Queueing!Recovers, Queueing!Stray, Queueing!Row,
     Queueing!MissIsQueued, Snapshots, RowSound, ReadSound, LinkSound, ViewSound, Drafting,
     Listing, Rows, Queueing!Gaps, Doings, Records, Servers, Clicks
<1>6. CASE Queueing!EndRecovery
  BY <1>1, <1>6, EndRecoveryDoes DEF Queueing!Booted, Queueing!Ended, Queueing!MissIsQueued,
     Snapshots, RowSound, ReadSound, LinkSound, ViewSound, Drafting, Listing, Rows, Queueing!Gaps,
     Doings, Records, Servers, Clicks
<1>7. CASE Queueing!ClickReads
  BY <1>1, <1>7 DEF Queueing!ClickReads, Queueing!Upset, Queueing!MissIsQueued, Snapshots,
     RowSound, ReadSound, LinkSound, ViewSound, Drafting, Listing, Rows, Queueing!Gaps, Doings,
     Records, Servers, Clicks
<1>8. CASE Queueing!ClickWrites
  BY <1>1, <1>8 DEF Queueing!ClickWrites, Queueing!Written, Queueing!NoClick,
     Queueing!MissIsQueued, Snapshots, RowSound, ReadSound, LinkSound, ViewSound, Drafting,
     Listing, Rows, Queueing!Gaps, Doings, Records, Servers, Clicks
<1>9. QED
  BY <1>2, <1>3, <1>4, <1>5, <1>6, <1>7, <1>8 DEF ServerSteps


LEMMA WriterKeepsDrafting ==
  ASSUME GapInv, NEW a \in Attempts, WriterSteps(a)
  PROVE  Drafting'
<1>1. gap \in Rows /\ stored \in BOOLEAN /\ doing \in [Attempts -> Doings] /\ attempt \in [Attempts -> Records]
      /\ server \in Servers /\ click \in Clicks /\ Attempts = Backfills \union Outsiders
      /\ Queueing!Attempts = Attempts /\ "nobody" \notin Attempts /\ Backfills \intersect Outsiders = {}
      /\ Snapshots /\ ClaimIsSeen /\ NotBegun /\ OneWorks /\ Listing /\ Drafting /\ Queueing!NothingIsStranded
  BY WriterAssumption DEF GapInv, GapTyped, Attempts, Queueing!Attempts
<1>2. CASE a \in Backfills /\ Queueing!OpenGap(a)
  BY <1>1, <1>2 DEF Queueing!OpenGap, Queueing!Reads, Queueing!Leaves, Queueing!Takeable, Drafting,
     Listing, NotBegun, OneWorks, ClaimIsSeen, Queueing!NothingIsStranded, Queueing!Works,
     Snapshots, RowSound, ReadSound, LinkSound, ViewSound, IsARow, Rows, Queueing!Gaps, Doings,
     Records, Servers, Clicks
<1>3. CASE a \in Backfills /\ Queueing!AlreadyPresent(a)
  BY <1>1, <1>3 DEF Queueing!AlreadyPresent, Queueing!Over, Queueing!Leaves, Queueing!Ended,
     Queueing!Written, Drafting, Listing, NotBegun, OneWorks, ClaimIsSeen,
     Queueing!NothingIsStranded, Queueing!Works, Snapshots, RowSound, ReadSound, LinkSound,
     ViewSound, IsARow, Rows, Queueing!Gaps, Doings, Records, Servers, Clicks
<1>4. CASE a \in Backfills /\ Queueing!ClaimGap(a)
  <2>1. a \in Backfills /\ server.at = "up" /\ ~server.seen.is /\ a \notin server.list
    BY <1>1, <1>4 DEF Queueing!ClaimGap, OneWorks, Queueing!Works, Drafting, Listing, NotBegun
  <2>2. server' = server /\ stored' = stored
    BY <1>4 DEF Queueing!ClaimGap
  <2>3. QED
    BY <1>1, <2>1, <2>2 DEF Drafting
<1>5. CASE a \in Outsiders /\ Queueing!Register(a)
  BY <1>1, <1>5 DEF Queueing!Register, Queueing!Written, Queueing!Moves, Drafting, Listing,
     NotBegun, OneWorks, ClaimIsSeen, Queueing!NothingIsStranded, Queueing!Works, Snapshots,
     RowSound, ReadSound, LinkSound, ViewSound, IsARow, Rows, Queueing!Gaps, Doings, Records,
     Servers, Clicks
<1>6. CASE a \in Outsiders /\ Queueing!SettleStray(a)
  BY <1>1, <1>6 DEF Queueing!SettleStray, Queueing!Over, Queueing!Ended, Queueing!Leaves,
     Queueing!Stray, Queueing!Row, Drafting, Listing, NotBegun, OneWorks, ClaimIsSeen,
     Queueing!NothingIsStranded, Queueing!Works, Snapshots, RowSound, ReadSound, LinkSound,
     ViewSound, IsARow, Rows, Queueing!Gaps, Doings, Records, Servers, Clicks
<1>7. CASE Queueing!Read(a)
  BY <1>1, <1>7 DEF Queueing!Read, Queueing!Looks, Queueing!Reads, Drafting, Listing, NotBegun,
     OneWorks, ClaimIsSeen, Queueing!NothingIsStranded, Queueing!Works, Snapshots, RowSound,
     ReadSound, LinkSound, ViewSound, IsARow, Rows, Queueing!Gaps, Doings, Records, Servers, Clicks
<1>8. CASE Queueing!Fetch(a)
  BY <1>1, <1>8 DEF Queueing!Fetch, Queueing!Moves, Drafting, Listing, NotBegun, OneWorks,
     ClaimIsSeen, Queueing!NothingIsStranded, Queueing!Works, Snapshots, RowSound, ReadSound,
     LinkSound, ViewSound, IsARow, Rows, Queueing!Gaps, Doings, Records, Servers, Clicks
<1>9. CASE Queueing!Settle(a)
  BY <1>1, <1>9 DEF Queueing!Settle, Queueing!Written, Queueing!Outcome, Queueing!Row,
     Queueing!Over, Queueing!Ended, Queueing!Leaves, Drafting, Listing, NotBegun, OneWorks,
     ClaimIsSeen, Queueing!NothingIsStranded, Queueing!Works, Snapshots, RowSound, ReadSound,
     LinkSound, ViewSound, IsARow, Rows, Queueing!Gaps, Doings, Records, Servers, Clicks
<1>10. CASE Queueing!GiveUp(a)
  BY <1>1, <1>10 DEF Queueing!GiveUp, Queueing!Leaves, Queueing!Upset, Drafting, Listing, NotBegun,
     OneWorks, ClaimIsSeen, Queueing!NothingIsStranded, Queueing!Works, Snapshots, RowSound,
     ReadSound, LinkSound, ViewSound, IsARow, Rows, Queueing!Gaps, Doings, Records, Servers, Clicks
<1>11. CASE Queueing!RecoverLinked(a)
  BY <1>1, <1>11 DEF Queueing!RecoverLinked, Queueing!Recovers, Queueing!Outcome, Queueing!Row,
     Drafting, Listing, NotBegun, OneWorks, ClaimIsSeen, Queueing!NothingIsStranded,
     Queueing!Works, Snapshots, RowSound, ReadSound, LinkSound, ViewSound, IsARow, Rows,
     Queueing!Gaps, Doings, Records, Servers, Clicks
<1>12. CASE Queueing!RecoverStray(a)
  BY <1>1, <1>12 DEF Queueing!RecoverStray, Queueing!Recovers, Drafting, Listing, NotBegun,
     OneWorks, ClaimIsSeen, Queueing!NothingIsStranded, Queueing!Works, Snapshots, RowSound,
     ReadSound, LinkSound, ViewSound, IsARow, Rows, Queueing!Gaps, Doings, Records, Servers, Clicks
<1>13. QED
  BY <1>2, <1>3, <1>4, <1>5, <1>6, <1>7, <1>8, <1>9, <1>10, <1>11, <1>12 DEF WriterSteps

LEMMA ServerKeepsDrafting ==
  ASSUME GapInv, ServerSteps
  PROVE  Drafting'
<1>1. gap \in Rows /\ stored \in BOOLEAN /\ doing \in [Attempts -> Doings] /\ attempt \in [Attempts -> Records]
      /\ server \in Servers /\ click \in Clicks /\ Attempts = Backfills \union Outsiders
      /\ Queueing!Attempts = Attempts /\ "nobody" \notin Attempts /\ Backfills \intersect Outsiders = {}
      /\ Snapshots /\ ClaimIsSeen /\ NotBegun /\ OneWorks /\ Listing /\ Drafting /\ Queueing!NothingIsStranded
  BY WriterAssumption DEF GapInv, GapTyped, Attempts, Queueing!Attempts
<1>2. CASE Queueing!Die
  <2>1. server'.list = {} /\ server'.todo = {} /\ server'.linked = {} /\ ~server'.seen.is
    BY <1>2 DEF Queueing!Die, Queueing!Booted, Queueing!NoGap
  <2>2. QED
    BY <2>1 DEF Drafting
<1>3. CASE Queueing!Boot
  <2>1. server'.list = server'.todo /\ server'.linked \subseteq server'.todo /\ ~server'.seen.is
    BY <1>3 DEF Queueing!Boot, Queueing!Booted, Queueing!NoGap
  <2>2. QED
    BY <2>1 DEF Drafting
<1>4. CASE Queueing!RecoveryReads
  BY <1>1, <1>4 DEF Queueing!RecoveryReads, Drafting, Listing, NotBegun, OneWorks, ClaimIsSeen,
     Queueing!NothingIsStranded, Queueing!Works, Snapshots, RowSound, ReadSound, LinkSound,
     ViewSound, IsARow, Rows, Queueing!Gaps, Doings, Records, Servers, Clicks
<1>5. CASE Queueing!QueueStray
  BY <1>1, <1>5 DEF Queueing!QueueStray, Queueing!Recovers, Queueing!Stray, Queueing!Row, Drafting,
     Listing, NotBegun, OneWorks, ClaimIsSeen, Queueing!NothingIsStranded, Queueing!Works,
     Snapshots, RowSound, ReadSound, LinkSound, ViewSound, IsARow, Rows, Queueing!Gaps, Doings,
     Records, Servers, Clicks
<1>6. CASE Queueing!EndRecovery
  <2>1. server' = Queueing!Booted("up") \/ server' = Queueing!Booted("down")
    BY <1>6, EndRecoveryDoes
  <2>2. server'.list = {} /\ server'.todo = {} /\ server'.linked = {} /\ ~server'.seen.is
    BY <2>1 DEF Queueing!Booted, Queueing!NoGap
  <2>3. QED
    BY <2>2 DEF Drafting
<1>7. CASE Queueing!ClickReads
  BY <1>1, <1>7 DEF Queueing!ClickReads, Queueing!Upset, Drafting, Listing, NotBegun, OneWorks,
     ClaimIsSeen, Queueing!NothingIsStranded, Queueing!Works, Snapshots, RowSound, ReadSound,
     LinkSound, ViewSound, IsARow, Rows, Queueing!Gaps, Doings, Records, Servers, Clicks
<1>8. CASE Queueing!ClickWrites
  BY <1>1, <1>8 DEF Queueing!ClickWrites, Queueing!Written, Queueing!NoClick, Drafting, Listing,
     NotBegun, OneWorks, ClaimIsSeen, Queueing!NothingIsStranded, Queueing!Works, Snapshots,
     RowSound, ReadSound, LinkSound, ViewSound, IsARow, Rows, Queueing!Gaps, Doings, Records,
     Servers, Clicks
<1>9. QED
  BY <1>2, <1>3, <1>4, <1>5, <1>6, <1>7, <1>8 DEF ServerSteps

LEMMA WriterKeepsNothingIsStranded ==
  ASSUME GapInv, NEW a \in Attempts, WriterSteps(a)
  PROVE  Queueing!NothingIsStranded'
<1>1. gap \in Rows /\ stored \in BOOLEAN /\ doing \in [Attempts -> Doings] /\ attempt \in [Attempts -> Records]
      /\ server \in Servers /\ click \in Clicks /\ Attempts = Backfills \union Outsiders
      /\ Queueing!Attempts = Attempts /\ "nobody" \notin Attempts /\ Backfills \intersect Outsiders = {}
      /\ Snapshots /\ ClaimIsSeen /\ NotBegun /\ OneWorks /\ Listing /\ Drafting /\ Queueing!NothingIsStranded
  BY WriterAssumption DEF GapInv, GapTyped, Attempts, Queueing!Attempts
<1>2. CASE a \in Backfills /\ Queueing!OpenGap(a)
  BY <1>1, <1>2 DEF Queueing!OpenGap, Queueing!Reads, Queueing!Leaves, Queueing!Takeable,
     Queueing!NothingIsStranded, Drafting, Listing, NotBegun, OneWorks, ClaimIsSeen,
     Queueing!Works, Snapshots, RowSound, ReadSound, LinkSound, ViewSound, IsARow, Rows,
     Queueing!Gaps, Doings, Records, Servers, Clicks
<1>3. CASE a \in Backfills /\ Queueing!AlreadyPresent(a)
  BY <1>1, <1>3 DEF Queueing!AlreadyPresent, Queueing!Over, Queueing!Leaves, Queueing!Ended,
     Queueing!Written, Queueing!NothingIsStranded, Drafting, Listing, NotBegun, OneWorks,
     ClaimIsSeen, Queueing!Works, Snapshots, RowSound, ReadSound, LinkSound, ViewSound, IsARow,
     Rows, Queueing!Gaps, Doings, Records, Servers, Clicks
<1>4. CASE a \in Backfills /\ Queueing!ClaimGap(a)
  <2>1. \/ gap' = gap /\ attempt' = attempt
        \/ /\ gap'.claim = a /\ attempt' = [attempt EXCEPT ![a] = [row |-> "running", linked |-> TRUE]]
    BY <1>4 DEF Queueing!ClaimGap, Queueing!Row
  <2>2. QED
    BY <1>1, <1>4, <2>1 DEF Queueing!NothingIsStranded, Rows, Queueing!Gaps
<1>5. CASE a \in Outsiders /\ Queueing!Register(a)
  <2>1. \/ gap' = gap /\ attempt' = [attempt EXCEPT ![a] = [row |-> "running", linked |-> FALSE]]
        \/ /\ gap' = [gap EXCEPT !.claim = a]
           /\ attempt' = [attempt EXCEPT ![a] = [row |-> "running", linked |-> TRUE]]
    BY <1>1, <1>5 DEF Queueing!Register, Queueing!Written, Doings, Rows, Queueing!Gaps
  <2>2. attempt[a].row = "none" /\ gap.claim # a
    BY <1>1, <1>5 DEF Queueing!Register, NotBegun, Queueing!NothingIsStranded
  <2>3. \A c \in Attempts : c # a => attempt'[c] = attempt[c]
    BY <1>1, <2>1
  <2>4. a \in Attempts /\ a \notin Backfills
    BY <1>1, <1>5
  <2>5. gap'.status = gap.status /\ gap'.claim \in {gap.claim, a}
    BY <1>1, <2>1 DEF Rows, Queueing!Gaps
  <2>6. gap'.claim # "nobody" => attempt'[gap'.claim] = [row |-> "running", linked |-> TRUE]
    BY <1>1, <2>1, <2>2, <2>3, <2>5 DEF Queueing!NothingIsStranded, Rows, Queueing!Gaps
  <2>7. QED
    BY <1>1, <2>3, <2>4, <2>5, <2>6 DEF Queueing!NothingIsStranded
<1>6. CASE a \in Outsiders /\ Queueing!SettleStray(a)
  <2>1. /\ doing[a].seen.is = FALSE /\ doing[a].at = "ready" /\ gap' \in {gap, Queueing!Stray}
        /\ attempt' \in {attempt, [attempt EXCEPT ![a] = Queueing!Ended]}
    BY <1>1, <1>6 DEF Queueing!SettleStray, Queueing!Over, Doings, Rows, Queueing!Gaps
  <2>2. doing[a].seen.claim = "nobody"
    BY <1>1, <2>1 DEF Snapshots, ReadSound, IsARow, Queueing!NoGap
  <2>3. gap.claim # a
    BY <1>1, <2>1, <2>2 DEF ClaimIsSeen
  <2>4. \A c \in Attempts : c # a => attempt'[c] = attempt[c]
    BY <1>1, <2>1
  <2>5. Queueing!Stray.claim = "nobody" /\ Queueing!Stray.status = "failed"
    BY DEF Queueing!Stray, Queueing!Row
  <2>6. QED
    BY <1>1, <1>6, <2>1, <2>3, <2>4, <2>5 DEF Queueing!NothingIsStranded, Rows, Queueing!Gaps
<1>7. CASE Queueing!Read(a)
  BY <1>1, <1>7 DEF Queueing!Read, Queueing!Looks, Queueing!Reads, Queueing!NothingIsStranded,
     Drafting, Listing, NotBegun, OneWorks, ClaimIsSeen, Queueing!Works, Snapshots, RowSound,
     ReadSound, LinkSound, ViewSound, IsARow, Rows, Queueing!Gaps, Doings, Records, Servers, Clicks
<1>8. CASE Queueing!Fetch(a)
  BY <1>1, <1>8 DEF Queueing!Fetch, Queueing!Moves, Queueing!NothingIsStranded, Drafting, Listing,
     NotBegun, OneWorks, ClaimIsSeen, Queueing!Works, Snapshots, RowSound, ReadSound, LinkSound,
     ViewSound, IsARow, Rows, Queueing!Gaps, Doings, Records, Servers, Clicks
<1>9. CASE Queueing!Settle(a)
  BY <1>1, <1>9 DEF Queueing!Settle, Queueing!Written, Queueing!Outcome, Queueing!Row,
     Queueing!Over, Queueing!Ended, Queueing!Leaves, Queueing!NothingIsStranded, Drafting, Listing,
     NotBegun, OneWorks, ClaimIsSeen, Queueing!Works, Snapshots, RowSound, ReadSound, LinkSound,
     ViewSound, IsARow, Rows, Queueing!Gaps, Doings, Records, Servers, Clicks
<1>10. CASE Queueing!GiveUp(a)
  BY <1>1, <1>10 DEF Queueing!GiveUp, Queueing!Leaves, Queueing!Upset, Queueing!NothingIsStranded,
     Drafting, Listing, NotBegun, OneWorks, ClaimIsSeen, Queueing!Works, Snapshots, RowSound,
     ReadSound, LinkSound, ViewSound, IsARow, Rows, Queueing!Gaps, Doings, Records, Servers, Clicks
<1>11. CASE Queueing!RecoverLinked(a)
  BY <1>1, <1>11 DEF Queueing!RecoverLinked, Queueing!Recovers, Queueing!Outcome, Queueing!Row,
     Queueing!NothingIsStranded, Drafting, Listing, NotBegun, OneWorks, ClaimIsSeen,
     Queueing!Works, Snapshots, RowSound, ReadSound, LinkSound, ViewSound, IsARow, Rows,
     Queueing!Gaps, Doings, Records, Servers, Clicks
<1>12. CASE Queueing!RecoverStray(a)
  BY <1>1, <1>12 DEF Queueing!RecoverStray, Queueing!Recovers, Queueing!NothingIsStranded,
     Drafting, Listing, NotBegun, OneWorks, ClaimIsSeen, Queueing!Works, Snapshots, RowSound,
     ReadSound, LinkSound, ViewSound, IsARow, Rows, Queueing!Gaps, Doings, Records, Servers, Clicks
<1>13. QED
  BY <1>2, <1>3, <1>4, <1>5, <1>6, <1>7, <1>8, <1>9, <1>10, <1>11, <1>12 DEF WriterSteps

LEMMA ServerKeepsNothingIsStranded ==
  ASSUME GapInv, ServerSteps
  PROVE  Queueing!NothingIsStranded'
<1>1. gap \in Rows /\ stored \in BOOLEAN /\ doing \in [Attempts -> Doings] /\ attempt \in [Attempts -> Records]
      /\ server \in Servers /\ click \in Clicks /\ Attempts = Backfills \union Outsiders
      /\ Queueing!Attempts = Attempts /\ "nobody" \notin Attempts /\ Backfills \intersect Outsiders = {}
      /\ Snapshots /\ ClaimIsSeen /\ NotBegun /\ OneWorks /\ Listing /\ Drafting /\ Queueing!NothingIsStranded
  BY WriterAssumption DEF GapInv, GapTyped, Attempts, Queueing!Attempts
<1>2. CASE Queueing!Die
  BY <1>1, <1>2 DEF Queueing!Die, Queueing!Upset, Queueing!Booted, Queueing!NoClick,
     Queueing!NothingIsStranded, Drafting, Listing, NotBegun, OneWorks, ClaimIsSeen,
     Queueing!Works, Snapshots, RowSound, ReadSound, LinkSound, ViewSound, IsARow, Rows,
     Queueing!Gaps, Doings, Records, Servers, Clicks
<1>3. CASE Queueing!Boot
  BY <1>1, <1>3 DEF Queueing!Boot, Queueing!Booted, Queueing!NothingIsStranded, Drafting, Listing,
     NotBegun, OneWorks, ClaimIsSeen, Queueing!Works, Snapshots, RowSound, ReadSound, LinkSound,
     ViewSound, IsARow, Rows, Queueing!Gaps, Doings, Records, Servers, Clicks
<1>4. CASE Queueing!RecoveryReads
  BY <1>1, <1>4 DEF Queueing!RecoveryReads, Queueing!NothingIsStranded, Drafting, Listing,
     NotBegun, OneWorks, ClaimIsSeen, Queueing!Works, Snapshots, RowSound, ReadSound, LinkSound,
     ViewSound, IsARow, Rows, Queueing!Gaps, Doings, Records, Servers, Clicks
<1>5. CASE Queueing!QueueStray
  BY <1>1, <1>5 DEF Queueing!QueueStray, Queueing!Recovers, Queueing!Stray, Queueing!Row,
     Queueing!NothingIsStranded, Drafting, Listing, NotBegun, OneWorks, ClaimIsSeen,
     Queueing!Works, Snapshots, RowSound, ReadSound, LinkSound, ViewSound, IsARow, Rows,
     Queueing!Gaps, Doings, Records, Servers, Clicks
<1>6. CASE Queueing!EndRecovery
  BY <1>1, <1>6, EndRecoveryDoes DEF Queueing!Booted, Queueing!Ended, Queueing!NothingIsStranded,
     Drafting, Listing, NotBegun, OneWorks, ClaimIsSeen, Queueing!Works, Snapshots, RowSound,
     ReadSound, LinkSound, ViewSound, IsARow, Rows, Queueing!Gaps, Doings, Records, Servers, Clicks
<1>7. CASE Queueing!ClickReads
  BY <1>1, <1>7 DEF Queueing!ClickReads, Queueing!Upset, Queueing!NothingIsStranded, Drafting,
     Listing, NotBegun, OneWorks, ClaimIsSeen, Queueing!Works, Snapshots, RowSound, ReadSound,
     LinkSound, ViewSound, IsARow, Rows, Queueing!Gaps, Doings, Records, Servers, Clicks
<1>8. CASE Queueing!ClickWrites
  BY <1>1, <1>8 DEF Queueing!ClickWrites, Queueing!Written, Queueing!NoClick,
     Queueing!NothingIsStranded, Drafting, Listing, NotBegun, OneWorks, ClaimIsSeen,
     Queueing!Works, Snapshots, RowSound, ReadSound, LinkSound, ViewSound, IsARow, Rows,
     Queueing!Gaps, Doings, Records, Servers, Clicks
<1>9. QED
  BY <1>2, <1>3, <1>4, <1>5, <1>6, <1>7, <1>8 DEF ServerSteps

LEMMA GapBegins ==
  ASSUME Queueing!GapInit
  PROVE  GapInv
<1>1. /\ gap \in {Queueing!NoGap, Queueing!Row("pending", "nobody")} /\ stored = FALSE
      /\ attempt = [a \in Attempts |-> [row |-> "none", linked |-> FALSE]]
      /\ doing = [a \in Attempts |-> Queueing!Idle]
      /\ server = Queueing!Booted("up") /\ click = Queueing!NoClick /\ upsets = 0
  BY DEF Queueing!GapInit, Attempts
<1>2. gap \in Rows /\ IsARow(gap) /\ gap.claim = "nobody" /\ gap.status \in {"none", "pending"}
  <2>1. Queueing!NoGap \in Rows /\ Queueing!Row("pending", "nobody") \in Rows
    BY RowsMade
  <2>2. /\ Queueing!NoGap.claim = "nobody" /\ Queueing!NoGap.status = "none" /\ IsARow(Queueing!NoGap)
        /\ Queueing!Row("pending", "nobody").claim = "nobody" /\ Queueing!Row("pending", "nobody").status = "pending"
        /\ IsARow(Queueing!Row("pending", "nobody"))
    BY DEF Queueing!NoGap, Queueing!Row, IsARow
  <2>3. QED
    BY <1>1, <2>1, <2>2
<1>3. GapTyped
  <2>1. Queueing!Idle \in Doings /\ Queueing!NoClick \in Clicks /\ [row |-> "none", linked |-> FALSE] \in Records
    BY RowsMade DEF Queueing!Idle, Doings, Queueing!Places, Queueing!NoClick, Clicks, Records
  <2>2. Queueing!Booted("up") \in Servers
    BY RowsMade DEF Queueing!Booted, Servers
  <2>3. attempt \in [Attempts -> Records] /\ doing \in [Attempts -> Doings] /\ upsets \in 0..UpsetBound
    BY <1>1, <2>1, WriterAssumption
  <2>4. QED
    BY <1>1, <1>2, <2>1, <2>2, <2>3 DEF GapTyped
<1>4. \A a \in Attempts : /\ doing[a].at = "idle" /\ doing[a].seen = Queueing!NoGap /\ doing[a].found = FALSE
                          /\ attempt[a].row = "none" /\ ~attempt[a].linked
  BY <1>1 DEF Queueing!Idle
<1>5. /\ server.at = "up" /\ server.list = {} /\ server.todo = {} /\ server.linked = {} /\ ~server.seen.is
      /\ click.at = "none"
  BY <1>1 DEF Queueing!Booted, Queueing!NoGap, Queueing!NoClick
<1>6. NotBegun /\ ClaimIsSeen /\ OneWorks /\ Listing /\ Drafting
  BY <1>4, <1>5 DEF NotBegun, ClaimIsSeen, OneWorks, Listing, Drafting, Queueing!Works, Attempts, Queueing!Attempts
<1>7. Snapshots
  BY <1>2, <1>4, <1>5 DEF Snapshots, RowSound, ReadSound, LinkSound, ViewSound, IsARow, Queueing!NoGap
<1>8. Queueing!NothingIsStranded /\ Queueing!MissIsQueued
  BY <1>2, <1>4 DEF Queueing!NothingIsStranded, Queueing!MissIsQueued, Attempts
<1>9. QED
  BY <1>3, <1>6, <1>7, <1>8 DEF GapInv

LEMMA GapStaysInv == GapInv /\ [Queueing!GapNext]_gapState => GapInv'
<1>1. ASSUME GapInv, UNCHANGED gapState
      PROVE  GapInv'
  BY <1>1 DEF gapState, GapInv, GapTyped, NotBegun, Snapshots, RowSound, ReadSound, LinkSound, ViewSound, IsARow,
     ClaimIsSeen, OneWorks, Listing, Drafting, Queueing!NothingIsStranded, Queueing!MissIsQueued, Queueing!Works
<1>2. ASSUME GapInv, NEW a \in Attempts, WriterSteps(a)
      PROVE  GapInv'
  BY <1>2, GapStaysTyped, WriterKeepsNotBegun, WriterKeepsOneWorks, WriterKeepsRowSound, WriterKeepsReadSound,
     WriterKeepsLinkSound, WriterKeepsViewSound, WriterKeepsClaimIsSeen, WriterKeepsListing,
     WriterKeepsMissIsQueued, WriterKeepsDrafting, WriterKeepsNothingIsStranded DEF GapInv, Snapshots
<1>3. ASSUME GapInv, ServerSteps
      PROVE  GapInv'
  BY <1>3, GapStaysTyped, ServerKeepsNotBegun, ServerKeepsOneWorks, ServerKeepsRowSound, ServerKeepsReadSound,
     ServerKeepsLinkSound, ServerKeepsViewSound, ServerKeepsClaimIsSeen, ServerKeepsListing,
     ServerKeepsMissIsQueued, ServerKeepsDrafting, ServerKeepsNothingIsStranded DEF GapInv, Snapshots
<1>4. Queueing!GapNext => (\E a \in Attempts : WriterSteps(a)) \/ ServerSteps
  BY DEF Queueing!GapNext, WriterSteps, ServerSteps, Attempts, Queueing!Attempts
<1>5. QED
  BY <1>1, <1>2, <1>3, <1>4

LEMMA GapSays ==
  GapInv => Queueing!GapTypeOK /\ Queueing!NothingIsStranded /\ Queueing!ResolvedIsHeld /\ Queueing!MissIsQueued
<1>1. ASSUME GapInv
      PROVE  Queueing!GapTypeOK
  BY <1>1 DEF GapInv, GapTyped, Queueing!GapTypeOK, Rows, Records, Doings, Servers, Clicks, Attempts, Listing
<1>2. QED
  BY <1>1 DEF GapInv, Snapshots, RowSound, Queueing!ResolvedIsHeld

LEMMA GapHolds ==
  Queueing!GapInit /\ [][Queueing!GapNext]_gapState
  => [](GapInv /\ Queueing!GapTypeOK /\ Queueing!NothingIsStranded /\ Queueing!ResolvedIsHeld
        /\ Queueing!MissIsQueued)
BY GapBegins, GapStaysInv, GapSays, PTL

-----------------------------------------------------------------------------
(***************************************************************************)
(* Citations.  A document that has no handle finds one that is free, for   *)
(* there are more names to try than documents.                             *)
(***************************************************************************)
Papers == DOMAIN SlugOf
Named(n, d) == n = SlugOf[d] \/ Citing!Front(n) = SlugOf[d]
Offers(o) ==
  /\ o \in [DOMAIN o -> Papers] /\ DOMAIN o \subseteq Seq(Nat)
  /\ \A m, n \in DOMAIN o : o[m] = o[n] => m = n
  /\ \A n \in DOMAIN o : Named(n, o[n])

LEMMA CandidateIsFree ==
  ASSUME NEW o, Offers(o), NEW d \in Papers
  PROVE  /\ Citing!Candidate(o, d) \notin DOMAIN o /\ Citing!Candidate(o, d) \in Seq(Nat)
         /\ Named(Citing!Candidate(o, d), d)
<1> DEFINE C == Citing!Cardinality(Papers)
           more == [k \in 1..C |-> Append(SlugOf[d], k + 1)]
           tried == <<SlugOf[d]>> \o more
           Free(j) == tried[j] \notin DOMAIN o /\ \A k \in 1..(j - 1) : tried[k] \in DOMAIN o
<1>1. C = Cardinality(Papers) /\ IsFiniteSet(Papers) /\ SlugOf[d] \in Seq(Nat)
  <2>1. C = Cardinality(Papers)
    BY Zenon DEF Citing!Cardinality, Cardinality
  <2>2. QED
    BY <2>1, CitationAssumption DEF Papers
<1>2. C \in Nat
  BY <1>1, FS_CardinalityType
<1> HIDE DEF C
<1>3. more \in Seq(Seq(Nat)) /\ Len(more) = C
  <2>1. \A k \in 1..C : Append(SlugOf[d], k + 1) \in Seq(Nat)
    BY <1>1, <1>2
  <2>2. QED
    BY <1>2, <2>1
<1>4. /\ tried \in Seq(Seq(Nat)) /\ Len(tried) = C + 1 /\ DOMAIN tried = 1..(C + 1)
      /\ tried[1] = SlugOf[d] /\ \A k \in 1..C : tried[k + 1] = more[k]
  <2> HIDE DEF more
  <2>1. <<SlugOf[d]>> \in Seq(Seq(Nat))
    BY <1>1
  <2>2. tried \in Seq(Seq(Nat)) /\ Len(tried) = C + 1
    BY <1>2, <1>3, <2>1
  <2>3. tried[1] = SlugOf[d]
    BY <1>2, <1>3, <2>1
  <2>4. ASSUME NEW k \in 1..C
        PROVE  tried[k + 1] = more[k]
    <3>1. (k + 1) - 1 = k /\ k + 1 \in 1..(C + 1) /\ k + 1 > 1
      BY <1>2
    <3>2. QED
      BY <1>2, <1>3, <2>1, <3>1
  <2>5. QED
    BY <1>2, <2>2, <2>3, <2>4
<1>5. \A j \in 1..(C + 1) : j # 1 => tried[j] = Append(SlugOf[d], j)
  <2> SUFFICES ASSUME NEW j \in 1..(C + 1), j # 1
               PROVE  tried[j] = Append(SlugOf[d], j)
    OBVIOUS
  <2> HIDE DEF tried
  <2>1. j - 1 \in 1..C /\ (j - 1) + 1 = j
    BY <1>2
  <2>2. tried[(j - 1) + 1] = more[j - 1]
    BY <1>4, <2>1
  <2>4. tried[j] = more[j - 1]
    BY ONLY <2>1, <2>2
  <2>3. more[j - 1] = Append(SlugOf[d], j)
    BY <2>1
  <2>5. QED
    BY <2>3, <2>4
<1> HIDE DEF tried, more
<1>6. \A j, k \in 1..(C + 1) : tried[j] = tried[k] => j = k
  <2> SUFFICES ASSUME NEW j \in 1..(C + 1), NEW k \in 1..(C + 1), tried[j] = tried[k]
               PROVE  j = k
    OBVIOUS
  <2>1. j \in Nat /\ k \in Nat
    BY <1>2
  <2>2. \A i \in Nat : Append(SlugOf[d], i) # SlugOf[d]
    BY <1>1
  <2>3. \A i, l \in Nat : Append(SlugOf[d], i) = Append(SlugOf[d], l) => i = l
    BY <1>1
  <2>4. QED
    <3>1. CASE j = 1 \/ k = 1
      BY <1>4, <1>5, <2>1, <2>2, <3>1
    <3>2. CASE j # 1 /\ k # 1
      BY <1>5, <2>1, <2>3, <3>2
    <3>3. QED
      BY <3>1, <3>2
<1>7. \E j \in 1..(C + 1) : tried[j] \notin DOMAIN o
  <2> SUFFICES ASSUME \A j \in 1..(C + 1) : tried[j] \in DOMAIN o
               PROVE  FALSE
    OBVIOUS
  <2> DEFINE f == [j \in 1..(C + 1) |-> o[tried[j]]]
  <2>1. f \in [1..(C + 1) -> Papers]
    BY DEF Offers
  <2>2. IsFiniteSet(1..(C + 1)) /\ Cardinality(1..(C + 1)) = C + 1
    BY <1>2, FS_Interval
  <2> HIDE DEF f
  <2>3. PICK j, k \in 1..(C + 1) : j # k /\ f[j] = f[k]
    <3>1. Cardinality(Papers) < Cardinality(1..(C + 1))
      BY <1>1, <1>2, <2>2
    <3>2. QED
      BY ONLY <1>1, <2>1, <2>2, <3>1, FS_PigeonHole
  <2>4. o[tried[j]] = o[tried[k]]
    BY <2>3 DEF f
  <2>5. tried[j] = tried[k]
    BY <2>4 DEF Offers
  <2>6. QED
    BY <1>6, <2>3, <2>5
<1>8. \E j \in DOMAIN tried : Free(j)
  <2> DEFINE T == {j \in 1..(C + 1) : tried[j] \notin DOMAIN o}
  <2>1. T \in SUBSET Nat /\ T # {}
    BY <1>2, <1>7
  <2>2. PICK j \in T : \A k \in T : j <= k
    BY <2>1, Least
  <2>3. ASSUME NEW k \in 1..(j - 1)
        PROVE  tried[k] \in DOMAIN o
    <3>1. k \in 1..(C + 1) /\ ~(j <= k)
      BY <1>2, <2>1
    <3>2. QED
      BY <2>2, <3>1
  <2>4. QED
    BY <1>4, <2>2, <2>3
<1> DEFINE i == CHOOSE j \in DOMAIN tried : Free(j)
<1>9. i \in 1..(C + 1) /\ tried[i] \notin DOMAIN o
  BY <1>4, <1>8
<1>10. Citing!Candidate(o, d) = tried[i]
  BY DEF Citing!Candidate, tried, more, C, Citing!Documents, Papers
<1> HIDE DEF i
<1>11. tried[i] \in Seq(Nat) /\ Named(tried[i], d)
  <2>1. CASE i = 1
    BY <1>1, <1>4, <2>1 DEF Named
  <2>2. CASE i # 1
    <3>1. i \in Nat /\ tried[i] = Append(SlugOf[d], i)
      BY <1>2, <1>5, <1>9, <2>2
    <3>2. Append(SlugOf[d], i) \in Seq(Nat) /\ Len(Append(SlugOf[d], i)) = Len(SlugOf[d]) + 1
      BY <1>1, <3>1
    <3>3. SubSeq(Append(SlugOf[d], i), 1, Len(SlugOf[d])) = SlugOf[d]
      BY <1>1, <3>1
    <3>4. QED
      BY <1>1, <3>1, <3>2, <3>3 DEF Named, Citing!Front
  <2>3. QED
    BY <2>1, <2>2
<1>12. QED
  BY <1>9, <1>10, <1>11

LEMMA MintingOffers ==
  ASSUME NEW o, Offers(o), NEW d \in Papers
  PROVE  /\ Offers(Citing!Mint(o, d)) /\ \E n \in DOMAIN Citing!Mint(o, d) : Citing!Mint(o, d)[n] = d
         /\ \A n \in DOMAIN o : n \in DOMAIN Citing!Mint(o, d) /\ Citing!Mint(o, d)[n] = o[n]
<1>1. CASE \E n \in DOMAIN o : o[n] = d
  BY <1>1 DEF Citing!Mint
<1>2. CASE ~\E n \in DOMAIN o : o[n] = d
  <2> DEFINE c == Citing!Candidate(o, d)
             m == [n \in DOMAIN o \union {c} |-> IF n = c THEN d ELSE o[n]]
  <2>1. Citing!Mint(o, d) = m
    BY <1>2 DEF Citing!Mint
  <2>2. c \notin DOMAIN o /\ c \in Seq(Nat) /\ Named(c, d)
    BY CandidateIsFree
  <2> HIDE DEF c
  <2>3. /\ DOMAIN m = DOMAIN o \union {c} /\ m[c] = d
        /\ \A n \in DOMAIN o : n # c /\ m[n] = o[n]
    BY <2>2
  <2> HIDE DEF m
  <2>4. \A n \in DOMAIN m : n = c \/ n \in DOMAIN o
    BY <2>3
  <2>5. m \in [DOMAIN m -> Papers] /\ DOMAIN m \subseteq Seq(Nat)
    <3>1. \A n \in DOMAIN m : m[n] \in Papers
      BY <2>3, <2>4 DEF Offers
    <3>2. m = [n \in DOMAIN m |-> m[n]]
      BY DEF m
    <3>3. DOMAIN o \subseteq Seq(Nat)
      BY DEF Offers
    <3>4. QED
      BY <2>2, <2>3, <3>1, <3>2, <3>3
  <2>6. ASSUME NEW k \in DOMAIN m, NEW n \in DOMAIN m, m[k] = m[n]
        PROVE  k = n
    BY <1>2, <2>3, <2>4, <2>6 DEF Offers
  <2>7. \A n \in DOMAIN m : Named(n, m[n])
    BY <2>2, <2>3, <2>4 DEF Offers
  <2>8. QED
    BY <2>1, <2>3, <2>5, <2>6, <2>7 DEF Offers
<1>3. QED
  BY <1>1, <1>2

(***************************************************************************)
(* What a text says.  Where it is cut, no citation and no id is torn.      *)
(***************************************************************************)
Signs   == {"word", "bracket", "close", "idHead", "idTail", "handle", "token", "blank", "link", "open", "shut"}
Marks   == [u : Signs, name : Seq(Nat), doc : Papers \union {"none"}]
Written == {m \in Marks : m.u # "link"}
Texts   == Seq(Written)
\* What the reader may see: of links those to documents that were offered.
Visible == {m \in Marks : m.u = "link" => \E n \in DOMAIN offer : offer[n] = m.doc}
Plain   == {m \in Marks : m.u \in {"word", "bracket", "close", "link"}}

Round(m) == m.u \in {"open", "shut"}
Cites(t, i) == Citing!IsCitation(t, i)
Ids(t, i) == Citing!IsId(t, i)

LEMMA SignsAre ==
  /\ Citing!Bracket.u = "bracket" /\ Citing!Close.u = "close" /\ Citing!Head1.u = "idHead" /\ Citing!Tail1.u = "idTail"
  /\ Citing!Word.u = "word" /\ {Citing!Bracket, Citing!Close, Citing!Head1, Citing!Tail1, Citing!Word} \subseteq Written
  /\ Citing!Open.u = "open" /\ Citing!Shut.u = "shut" /\ Citing!Blank.u = "blank"
  /\ {Citing!Open, Citing!Shut, Citing!Blank} \subseteq Written
  /\ \A n \in Seq(Nat) : Citing!Handle(n) \in Written /\ Citing!Handle(n).u = "handle"
  /\ \A d \in Papers : /\ Citing!Token(d) \in Written /\ Citing!Token(d).u = "token"
                       /\ Citing!Link(d) \in Marks /\ Citing!Link(d).u = "link" /\ Citing!Link(d).doc = d
BY DEF Citing!Bracket, Citing!Close, Citing!Head1, Citing!Tail1, Citing!Word, Citing!Handle, Citing!Token, Citing!Link,
   Citing!Open, Citing!Shut, Citing!Blank, Citing!Unit, Citing!NoDoc, Written, Marks, Signs

\* A resolved citation is a link to a document that was offered, or a word.
LEMMA Resolves ==
  ASSUME NEW m \in Marks, Offers(offer)
  PROVE  Citing!Resolved(m) \in Plain \intersect Visible
<1>1. CASE m.u = "handle" /\ m.name \in Citing!Names
  <2>1. Citing!Resolved(m) = Citing!Link(offer[m.name]) /\ m.name \in DOMAIN offer
    BY <1>1 DEF Citing!Resolved, Citing!Names
  <2>2. offer[m.name] \in Papers
    BY <2>1 DEF Offers
  <2>3. QED
    BY <2>1, <2>2, SignsAre DEF Plain, Visible
<1>2. CASE m.u = "token" /\ \E n \in Citing!Names : offer[n] = m.doc
  <2>1. Citing!Resolved(m) = Citing!Link(m.doc)
    BY <1>2 DEF Citing!Resolved
  <2>2. PICK n \in DOMAIN offer : offer[n] = m.doc
    BY <1>2 DEF Citing!Names
  <2>3. m.doc \in Papers
    BY <2>2 DEF Offers
  <2>4. QED
    BY <2>1, <2>2, <2>3, SignsAre DEF Plain, Visible
<1>3. CASE ~(m.u = "handle" /\ m.name \in Citing!Names) /\ ~(m.u = "token" /\ \E n \in Citing!Names : offer[n] = m.doc)
  <2>1. Citing!Resolved(m) = Citing!Word
    BY <1>3 DEF Citing!Resolved
  <2>2. QED
    BY <2>1, SignsAre DEF Plain, Visible, Written
<1>4. QED
  BY <1>1, <1>2, <1>3

\* Every id has its two halves, and every handle and token is cited.
WellMade(t) ==
  \A i \in 1..Len(t) :
    /\ t[i].u = "idHead" => Ids(t, i)
    /\ t[i].u = "idTail" => i > 1 /\ Ids(t, i - 1)
    /\ t[i].u \in {"handle", "token", "blank"} => i > 2 /\ Cites(t, i - 2)

\* What of a text the stream and the whole have in common: all but the round brackets.
Bared(t, i) ==
  IF Cites(t, i) THEN Citing!Replacement(t[i + 2])
  ELSE IF Ids(t, i) \/ Citing!Within(t, i) \/ Round(t[i]) THEN <<>> ELSE <<t[i]>>
PieceFacts(t, i) ==
  /\ Cites(t, i) => Citing!Piece(t, i) = Citing!Replacement(t[i + 2]) /\ Bared(t, i) = Citing!Replacement(t[i + 2])
  /\ ~Cites(t, i) /\ (Ids(t, i) \/ Citing!Within(t, i)) => Citing!Piece(t, i) = <<>> /\ Bared(t, i) = <<>>
  /\ ~Cites(t, i) /\ ~Ids(t, i) /\ ~Citing!Within(t, i) =>
       /\ Citing!Piece(t, i) = <<t[i]>> \/ (Citing!Piece(t, i) = <<>> /\ Round(t[i]))
       /\ Bared(t, i) = IF Round(t[i]) THEN <<>> ELSE <<t[i]>>

LEMMA PieceIs ==
  ASSUME NEW t, NEW i
  PROVE  PieceFacts(t, i)
<1>1. Citing!Goes(t, i) => Round(t[i])
  BY SignsAre DEF Citing!Goes, Round
<1>2. CASE Cites(t, i)
  BY <1>2 DEF Citing!Piece, Cites, Bared, PieceFacts
<1>3. CASE ~Cites(t, i) /\ (Ids(t, i) \/ Citing!Within(t, i))
  BY <1>3 DEF Citing!Piece, Cites, Ids, Bared, PieceFacts
<1>4. CASE ~Cites(t, i) /\ ~Ids(t, i) /\ ~Citing!Within(t, i)
  BY <1>1, <1>4 DEF Citing!Piece, Cites, Ids, Bared, PieceFacts
<1>5. QED
  BY <1>2, <1>3, <1>4

LEMMA OfOne == ASSUME NEW S
               PROVE  <<>> \in Seq(S) /\ \A x \in S : <<x>> \in Seq(S)
  OBVIOUS

\* What stands for a citation is a link to a document that was offered, or a word, or nothing.
LEMMA Replaces ==
  ASSUME Offers(offer), NEW t \in Texts, NEW i \in 1..Len(t), Cites(t, i)
  PROVE  Citing!Replacement(t[i + 2]) \in Seq(Plain \intersect Visible)
<1>1. i + 2 \in 1..Len(t)
  BY DEF Cites, Citing!IsCitation, Texts
<1>2. t[i + 2] \in Marks
  BY <1>1 DEF Texts, Written
<1>3. Citing!Resolved(t[i + 2]) \in Plain \intersect Visible
  BY <1>2, Resolves
<1>4. Citing!Replacement(t[i + 2]) = <<>> \/ Citing!Replacement(t[i + 2]) = <<Citing!Resolved(t[i + 2])>>
  BY DEF Citing!Replacement
<1>5. QED
  BY ONLY <1>3, <1>4, OfOne

LEMMA PiecesAreVisible ==
  ASSUME Offers(offer), NEW t \in Texts, NEW i \in 1..Len(t)
  PROVE  Citing!Piece(t, i) \in Seq(Visible) /\ Bared(t, i) \in Seq(Visible)
<1>1. CASE Cites(t, i)
  <2>1. Citing!Replacement(t[i + 2]) \in Seq(Plain \intersect Visible)
    BY <1>1, Replaces
  <2>2. Citing!Replacement(t[i + 2]) \in Seq(Visible)
    BY ONLY <2>1
  <2>3. QED
    BY <1>1, <2>2, PieceIs DEF PieceFacts
<1>2. CASE ~Cites(t, i)
  <2>1. t[i] \in Visible
    BY DEF Texts, Written, Visible
  <2>2. Citing!Piece(t, i) \in {<<>>, <<t[i]>>} /\ Bared(t, i) \in {<<>>, <<t[i]>>}
    BY <1>2, PieceIs DEF PieceFacts
  <2>3. QED
    BY ONLY <2>1, <2>2, OfOne
<1>3. QED
  BY <1>1, <1>2

LEMMA PiecesArePlain ==
  ASSUME Offers(offer), NEW t \in Texts, WellMade(t), NEW i \in 1..Len(t)
  PROVE  Bared(t, i) \in Seq(Plain)
<1>1. CASE Cites(t, i)
  <2>1. Citing!Replacement(t[i + 2]) \in Seq(Plain \intersect Visible)
    BY <1>1, Replaces
  <2>2. Citing!Replacement(t[i + 2]) \in Seq(Plain)
    BY ONLY <2>1
  <2>3. QED
    BY <1>1, <2>2, PieceIs DEF PieceFacts
<1>2. CASE ~Cites(t, i) /\ (Ids(t, i) \/ Citing!Within(t, i))
  <2>1. Bared(t, i) = <<>>
    BY <1>2, PieceIs DEF PieceFacts
  <2>2. QED
    BY ONLY <2>1, OfOne
<1>3. CASE ~Cites(t, i) /\ ~Ids(t, i) /\ ~Citing!Within(t, i)
  <2>1. i \in Nat /\ \A k \in 1..(i - 1) : ~(Cites(t, k) /\ i <= k + 3) /\ ~(Ids(t, k) /\ i = k + 1)
    BY <1>3 DEF Citing!Within, Cites, Ids
  <2>2. t[i].u # "idHead"
    BY <1>3 DEF WellMade
  <2>3. t[i].u # "idTail"
    <3>1. i > 1 => i - 1 \in 1..(i - 1) /\ i = (i - 1) + 1
      BY <2>1
    <3>2. QED
      BY <2>1, <3>1 DEF WellMade
  <2>4. t[i].u \notin {"handle", "token", "blank"}
    <3>1. i > 2 => i - 2 \in 1..(i - 1) /\ i <= (i - 2) + 3
      BY <2>1
    <3>2. QED
      BY <2>1, <3>1 DEF WellMade
  <2>5. ~Round(t[i]) => t[i] \in Plain
    BY <2>2, <2>3, <2>4 DEF Texts, Written, Marks, Signs, Plain, Round
  <2>6. Bared(t, i) = IF Round(t[i]) THEN <<>> ELSE <<t[i]>>
    BY <1>3, PieceIs DEF PieceFacts
  <2>7. QED
    BY ONLY <2>5, <2>6, OfOne
<1>4. QED
  BY <1>1, <1>2, <1>3

Pieces(t) == [i \in 1..Len(t) |-> Citing!Piece(t, i)]
Bareds(t) == [i \in 1..Len(t) |-> Bared(t, i)]
Ones(s)   == [i \in 1..Len(s) |-> IF Round(s[i]) THEN <<>> ELSE <<s[i]>>]
\* What a text says, but for round brackets.
Meaning(t) == Citing!Bare(Citing!Expand(t))

LEMMA ExpandIs == \A t : Citing!Expand(t) = Flat(Pieces(t)) /\ Citing!Bare(t) = Flat(Ones(t))
  BY DEF Citing!Expand, Citing!Bare, Flat, Pieces, Ones, Round

LEMMA OnesTyped ==
  ASSUME NEW S, NEW s \in Seq(S)
  PROVE  Ones(s) \in Seq(Seq(S)) /\ Len(Ones(s)) = Len(s)
<1>1. Len(s) \in Nat /\ \A i \in 1..Len(s) : s[i] \in S
  OBVIOUS
<1>2. \A i \in 1..Len(s) : (IF Round(s[i]) THEN <<>> ELSE <<s[i]>>) \in Seq(S)
  BY <1>1, OfOne
<1>3. QED
  BY <1>1, <1>2 DEF Ones

LEMMA JoinedIs ==
  ASSUME NEW S, NEW a \in Seq(S), NEW b \in Seq(S)
  PROVE  /\ a \o b \in Seq(S) /\ Len(a \o b) = Len(a) + Len(b)
         /\ \A i \in 1..Len(a) : (a \o b)[i] = a[i]
         /\ \A i \in 1..Len(b) : (a \o b)[Len(a) + i] = b[i]
  OBVIOUS

\* Round brackets are left out of each part of a sequence alike.
LEMMA BareJoins ==
  ASSUME NEW S, NEW a \in Seq(S), NEW b \in Seq(S)
  PROVE  Citing!Bare(a) \in Seq(S) /\ Citing!Bare(a \o b) = Citing!Bare(a) \o Citing!Bare(b)
<1> DEFINE w == a \o b
           M == Len(a)
           N == Len(b)
<1>1. /\ M \in Nat /\ N \in Nat /\ w \in Seq(S) /\ Len(w) = M + N
      /\ \A i \in 1..M : w[i] = a[i]
      /\ \A i \in 1..N : w[M + i] = b[i]
  OBVIOUS
<1> HIDE DEF w
<1>2. /\ Ones(a) \in Seq(Seq(S)) /\ Len(Ones(a)) = M /\ Ones(b) \in Seq(Seq(S)) /\ Len(Ones(b)) = N
      /\ Ones(w) \in Seq(Seq(S)) /\ Len(Ones(w)) = M + N
  BY <1>1, OnesTyped
<1> DEFINE x == Ones(a)
           y == Ones(b)
           p == x \o y
<1> HIDE DEF x, y, M, N
<1>3. /\ p \in Seq(Seq(S)) /\ Len(p) = M + N
      /\ \A i \in 1..M : p[i] = x[i]
      /\ \A i \in 1..N : p[M + i] = y[i]
  <2> DEFINE Q == Seq(S)
  <2>1. x \in Seq(Q) /\ Len(x) = M /\ y \in Seq(Q) /\ Len(y) = N
    BY <1>2 DEF x, y
  <2> HIDE DEF Q
  <2>2. /\ x \o y \in Seq(Q) /\ Len(x \o y) = Len(x) + Len(y)
        /\ \A i \in 1..Len(x) : (x \o y)[i] = x[i]
        /\ \A i \in 1..Len(y) : (x \o y)[Len(x) + i] = y[i]
    <3> HIDE DEF p
    <3>1. x \in Seq(Q) /\ y \in Seq(Q)
      BY <2>1
    <3>2. QED
      BY ONLY <3>1, JoinedIs
  <2>3. p = x \o y
    BY DEF p
  <2> HIDE DEF p
  <2>4. QED
    BY ONLY <2>1, <2>2, <2>3 DEF Q
<1> HIDE DEF p
<1>4. ASSUME NEW i \in 1..(M + N)
      PROVE  Ones(w)[i] = p[i]
  <2>1. CASE i \in 1..M
    BY <1>1, <1>3, <2>1 DEF Ones, M, x
  <2>2. CASE i \notin 1..M
    <3>1. i - M \in 1..N /\ M + (i - M) = i
      BY <1>1, <2>2
    <3>2. w[i] = b[i - M] /\ p[i] = Ones(b)[i - M]
      BY <1>1, <1>3, <3>1 DEF y
    <3>3. QED
      BY <1>1, <3>1, <3>2 DEF Ones, N
  <2>3. QED
    BY <2>1, <2>2
<1>5. Ones(w) = p
  BY <1>1, <1>2, <1>3, <1>4, SeqEqual
<1>6. Flat(Ones(w)) = Flat(Ones(a)) \o Flat(Ones(b)) /\ Flat(Ones(a)) \in Seq(S)
  BY <1>2, <1>5, FlatJoins, FlatTyped DEF p, x, y
<1>7. QED
  BY <1>6, ExpandIs DEF w

LEMMA NothingJoins == <<>> \o <<>> = <<>>
  OBVIOUS

LEMMA BareOfOne ==
  ASSUME NEW S, NEW x \in S
  PROVE  Citing!Bare(<<>>) = <<>> /\ Citing!Bare(<<x>>) = IF Round(x) THEN <<>> ELSE <<x>>
<1>1. Citing!Bare(<<>>) = <<>>
  <2>1. Ones(<<>>) = <<>>
    BY DEF Ones
  <2>2. QED
    BY <2>1, ExpandIs DEF Flat, Citing!FlattenSeq
<1> DEFINE y == IF Round(x) THEN <<>> ELSE <<x>>
<1>2. <<x>> \in Seq(S) /\ Len(<<x>>) = 1 /\ <<x>>[1] = x /\ y \in Seq(S)
  BY OfOne
<1>3. Ones(<<x>>) \in Seq(Seq(S)) /\ Len(Ones(<<x>>)) = 1 /\ Ones(<<x>>)[1] = y
  BY <1>2, OnesTyped DEF Ones
<1> HIDE DEF y
<1> DEFINE q == Ones(<<x>>)
<1> HIDE DEF q
<1>4. q \in Seq(Seq(S)) /\ Len(q) = 1 /\ q[1] = y
  BY <1>3 DEF q
<1>5. PICK g \in [0..Len(q) -> Seq(S)] : Laid(g, q) /\ Flat(q) = g[Len(q)]
  BY <1>4, FlatIsLaid
<1>6. 1 \in 1..Len(q) /\ 1 - 1 = 0
  BY <1>4
<1>7. g[1] = <<>> \o y
  BY <1>4, <1>5, <1>6 DEF Laid
<1>8. <<>> \o y = y
  BY <1>2
<1>9. QED
  BY <1>1, <1>4, <1>5, <1>7, <1>8, ExpandIs DEF q, y

\* They are left out of what pieces make by leaving them out of the pieces.
LEMMA BareOfFlat ==
  ASSUME NEW S, NEW q \in Seq(Seq(S)), NEW r \in Seq(Seq(S)), Len(r) = Len(q),
         \A k \in 1..Len(q) : r[k] = Citing!Bare(q[k])
  PROVE  Citing!Bare(Flat(q)) = Flat(r)
<1>1. PICK g \in [0..Len(q) -> Seq(S)] : Laid(g, q) /\ Flat(q) = g[Len(q)]
  BY FlatIsLaid
<1>2. PICK h \in [0..Len(r) -> Seq(S)] : Laid(h, r) /\ Flat(r) = h[Len(r)]
  BY FlatIsLaid
<1> DEFINE N == Len(q)
           f == [k \in 0..N |-> Citing!Bare(g[k])]
<1>3. N \in Nat /\ \A k \in 1..N : q[k] \in Seq(S)
  OBVIOUS
<1>4. f[0] = h[0]
  <2>1. f[0] = Citing!Bare(<<>>)
    BY <1>1, <1>3 DEF Laid
  <2>2. h[0] = <<>>
    BY <1>2 DEF Laid
  <2>3. Citing!Bare(<<>>) = <<>>
    BY BareOfOne
  <2>4. QED
    BY ONLY <2>1, <2>2, <2>3
<1>5. ASSUME NEW k \in 1..N
      PROVE  f[k] = f[k - 1] \o r[k]
  <2>1. k \in 0..N /\ k - 1 \in 0..N
    BY <1>3
  <2>2. g[k] = g[k - 1] \o q[k]
    BY ONLY <1>1, k \in 1..N DEF Laid
  <2>3. g[k - 1] \in Seq(S) /\ q[k] \in Seq(S)
    BY <1>3, <2>1
  <2>4. Citing!Bare(g[k - 1] \o q[k]) = Citing!Bare(g[k - 1]) \o Citing!Bare(q[k])
    BY ONLY <2>3, BareJoins
  <2>5. f[k] = Citing!Bare(g[k]) /\ f[k - 1] = Citing!Bare(g[k - 1])
    BY <2>1
  <2>6. r[k] = Citing!Bare(q[k])
    OBVIOUS
  <2>7. QED
    BY ONLY <2>2, <2>4, <2>5, <2>6
<1> HIDE DEF f
<1>6. Lays(f, r, N)
  BY ONLY <1>5 DEF Lays
<1>7. Lays(h, r, N)
  BY <1>2 DEF Laid, Lays
<1>8. f[N] = h[N]
  BY <1>3, <1>4, <1>6, <1>7, LaidOnce
<1>9. f[N] = Citing!Bare(g[N])
  BY <1>3 DEF f
<1>10. QED
  BY <1>1, <1>2, <1>8, <1>9

LEMMA BaredIs ==
  ASSUME Offers(offer), NEW t \in Texts, NEW i \in 1..Len(t)
  PROVE  Bared(t, i) = Citing!Bare(Citing!Piece(t, i))
<1>1. CASE Cites(t, i)
  <2> DEFINE m == t[i + 2]
  <2>1. i + 2 \in 1..Len(t)
    BY <1>1 DEF Cites, Citing!IsCitation, Texts
  <2>2. m \in Marks
    BY <2>1 DEF Texts, Written
  <2> HIDE DEF m
  <2>3. Citing!Resolved(m) \in Plain /\ ~Round(Citing!Resolved(m))
    BY <2>2, Resolves DEF Plain, Round
  <2>4. Citing!Bare(<<>>) = <<>> /\ Citing!Bare(<<Citing!Resolved(m)>>) = <<Citing!Resolved(m)>>
    BY <2>3, BareOfOne
  <2>5. Citing!Bare(Citing!Replacement(m)) = Citing!Replacement(m)
    BY <2>4 DEF Citing!Replacement
  <2>6. QED
    BY <1>1, <2>5, PieceIs DEF PieceFacts, m
<1>2. CASE ~Cites(t, i)
  <2> DEFINE m == t[i]
             p == Citing!Piece(t, i)
             e == Bared(t, i)
  <2>1. \/ p = <<>> /\ e = <<>>
        \/ (p = <<m>> \/ (p = <<>> /\ Round(m))) /\ e = IF Round(m) THEN <<>> ELSE <<m>>
    BY <1>2, PieceIs DEF PieceFacts
  <2>2. m \in Written
    BY DEF Texts
  <2> HIDE DEF m, p, e
  <2>3. Citing!Bare(<<>>) = <<>> /\ Citing!Bare(<<m>>) = IF Round(m) THEN <<>> ELSE <<m>>
    BY <2>2, BareOfOne
  <2>4. e = Citing!Bare(p)
    BY ONLY <2>1, <2>3
  <2>5. QED
    BY <2>4 DEF e, p
<1>3. QED
  BY <1>1, <1>2

LEMMA PiecesTyped ==
  ASSUME NEW S, NEW t \in Texts, \A i \in 1..Len(t) : Citing!Piece(t, i) \in Seq(S)
  PROVE  Pieces(t) \in Seq(Seq(S)) /\ Len(Pieces(t)) = Len(t) /\ Citing!Expand(t) \in Seq(S)
<1>1. Len(t) \in Nat
  BY DEF Texts
<1>2. Pieces(t) \in Seq(Seq(S)) /\ Len(Pieces(t)) = Len(t)
  BY <1>1 DEF Pieces
<1>3. Flat(Pieces(t)) \in Seq(S)
  BY <1>2, FlatTyped
<1>4. QED
  BY <1>2, <1>3, ExpandIs

LEMMA BaredsTyped ==
  ASSUME NEW S, NEW t \in Texts, \A i \in 1..Len(t) : Bared(t, i) \in Seq(S)
  PROVE  Bareds(t) \in Seq(Seq(S)) /\ Len(Bareds(t)) = Len(t) /\ Flat(Bareds(t)) \in Seq(S)
<1>1. Len(t) \in Nat
  BY DEF Texts
<1>2. Bareds(t) \in Seq(Seq(S)) /\ Len(Bareds(t)) = Len(t)
  BY <1>1 DEF Bareds
<1>3. QED
  BY <1>2, FlatTyped

LEMMA SaysIs ==
  ASSUME Offers(offer), NEW t \in Texts
  PROVE  Meaning(t) = Flat(Bareds(t))
<1>1. /\ Pieces(t) \in Seq(Seq(Visible)) /\ Len(Pieces(t)) = Len(t)
      /\ Bareds(t) \in Seq(Seq(Visible)) /\ Len(Bareds(t)) = Len(t)
  BY PiecesAreVisible, PiecesTyped, BaredsTyped
<1>2. \A k \in 1..Len(t) : Bareds(t)[k] = Citing!Bare(Pieces(t)[k])
  BY BaredIs DEF Bareds, Pieces
<1>3. Citing!Bare(Flat(Pieces(t))) = Flat(Bareds(t))
  BY <1>1, <1>2, BareOfFlat
<1>4. QED
  BY <1>3, ExpandIs DEF Meaning

\* A text that is cut where nothing is torn says what its two parts say.
LEMMA ExpandJoins ==
  ASSUME Offers(offer), NEW a \in Texts, NEW b \in Texts,
         \A i \in 1..Len(a) : (Cites(a \o b, i) => i + 3 <= Len(a)) /\ (Ids(a \o b, i) => i + 1 <= Len(a))
  PROVE  Meaning(a \o b) = Meaning(a) \o Meaning(b)
<1> DEFINE w == a \o b
           M == Len(a)
           N == Len(b)
<1>1. /\ M \in Nat /\ N \in Nat /\ w \in Texts /\ Len(w) = M + N
      /\ \A i \in 1..M : w[i] = a[i]
      /\ \A i \in 1..N : w[M + i] = b[i]
  BY DEF Texts
<1>2. \A i \in 1..M : (Cites(w, i) => i + 3 <= M) /\ (Ids(w, i) => i + 1 <= M)
  OBVIOUS
<1> HIDE DEF w
<1>3. ASSUME NEW i \in 1..M
      PROVE  (Cites(w, i) <=> Cites(a, i)) /\ (Ids(w, i) <=> Ids(a, i))
  <2>1. i \in Nat
    BY <1>1
  <2>2. i + 3 <= M => i + 1 \in 1..M /\ i + 2 \in 1..M /\ i + 3 \in 1..M /\ i + 3 <= M + N
    BY <1>1
  <2>3. Cites(w, i) => Cites(a, i)
    BY <1>1, <1>2, <2>2 DEF Cites, Citing!IsCitation
  <2>4. Cites(a, i) => Cites(w, i)
    BY <1>1, <2>2 DEF Cites, Citing!IsCitation
  <2>5. i + 1 <= M => i + 1 \in 1..M /\ i < M /\ i < M + N
    BY <1>1
  <2>6. i < M => i + 1 <= M
    BY <1>1
  <2>7. Ids(w, i) => Ids(a, i)
    BY <1>1, <1>2, <2>5 DEF Ids, Citing!IsId
  <2>8. Ids(a, i) => Ids(w, i)
    BY <1>1, <2>5, <2>6 DEF Ids, Citing!IsId
  <2>9. QED
    BY <2>3, <2>4, <2>7, <2>8
<1>4. ASSUME NEW i \in 1..N
      PROVE  (Cites(w, M + i) <=> Cites(b, i)) /\ (Ids(w, M + i) <=> Ids(b, i))
  <2>1. \A k \in 0..3 : (M + i) + k = M + (i + k)
    BY <1>1
  <2>2. /\ (M + i) + 3 <= M + N <=> i + 3 <= N
        /\ M + i < M + N <=> i < N
    BY <1>1
  <2>3. i + 3 <= N => i + 1 \in 1..N /\ i + 2 \in 1..N /\ i + 3 \in 1..N
    BY <1>1
  <2>4. i < N => i + 1 \in 1..N
    BY <1>1
  <2>5. Cites(w, M + i) <=> Cites(b, i)
    BY <1>1, <2>1, <2>2, <2>3 DEF Cites, Citing!IsCitation
  <2>8. w[M + i] = b[i] /\ (i < N => w[(M + i) + 1] = b[i + 1])
    BY <1>1, <2>1, <2>4
  <2>6. Ids(w, M + i) <=> Ids(b, i)
    BY <1>1, <2>2, <2>8 DEF Ids, Citing!IsId
  <2>7. QED
    BY <2>5, <2>6
<1>5. ASSUME NEW i \in 1..M
      PROVE  Bared(w, i) = Bared(a, i)
  <2>1. Citing!Within(w, i) <=> Citing!Within(a, i)
    <3>1. \A k \in 1..(i - 1) : k \in 1..M
      BY <1>1
    <3>2. \A k \in 1..(i - 1) : (Cites(w, k) <=> Cites(a, k)) /\ (Ids(w, k) <=> Ids(a, k))
      BY <1>3, <3>1
    <3>3. QED
      BY <3>2 DEF Citing!Within, Cites, Ids
  <2>2. (Cites(w, i) <=> Cites(a, i)) /\ (Ids(w, i) <=> Ids(a, i)) /\ w[i] = a[i]
    BY <1>1, <1>3
  <2>3. Cites(w, i) => w[i + 2] = a[i + 2]
    <3>1. i + 3 <= M => i + 2 \in 1..M
      BY <1>1
    <3>2. QED
      BY <1>1, <1>2, <3>1
  <2>4. QED
    BY <2>1, <2>2, <2>3, PieceIs DEF PieceFacts
<1>6. ASSUME NEW i \in 1..N
      PROVE  Bared(w, M + i) = Bared(b, i)
  <2>1. Citing!Within(w, M + i) => Citing!Within(b, i)
    <3> SUFFICES ASSUME Citing!Within(w, M + i)
                 PROVE  Citing!Within(b, i)
      OBVIOUS
    <3>1. PICK k \in 1..(M + i - 1) : (Cites(w, k) /\ M + i <= k + 3) \/ (Ids(w, k) /\ M + i = k + 1)
      BY DEF Citing!Within, Cites, Ids
    <3>2. k \notin 1..M
      <4>1. k \in 1..M => ~(M + i <= k + 3 /\ k + 3 <= M) /\ ~(M + i = k + 1 /\ k + 1 <= M)
        BY <1>1
      <4>2. QED
        BY <1>2, <3>1, <4>1
    <3>3. k - M \in 1..(i - 1) /\ k - M \in 1..N /\ M + (k - M) = k
      BY <1>1, <3>2
    <3>4. (Cites(w, k) <=> Cites(b, k - M)) /\ (Ids(w, k) <=> Ids(b, k - M))
      BY <1>4, <3>3
    <3>5. (M + i <= k + 3 => i <= (k - M) + 3) /\ (M + i = k + 1 => i = (k - M) + 1)
      BY <1>1
    <3>6. QED
      BY <3>1, <3>3, <3>4, <3>5 DEF Citing!Within, Cites, Ids
  <2>2. Citing!Within(b, i) => Citing!Within(w, M + i)
    <3> SUFFICES ASSUME Citing!Within(b, i)
                 PROVE  Citing!Within(w, M + i)
      OBVIOUS
    <3>1. PICK k \in 1..(i - 1) : (Cites(b, k) /\ i <= k + 3) \/ (Ids(b, k) /\ i = k + 1)
      BY DEF Citing!Within, Cites, Ids
    <3>2. M + k \in 1..(M + i - 1) /\ k \in 1..N
      BY <1>1
    <3>3. (Cites(w, M + k) <=> Cites(b, k)) /\ (Ids(w, M + k) <=> Ids(b, k))
      BY <1>4, <3>2
    <3>4. (i <= k + 3 => M + i <= (M + k) + 3) /\ (i = k + 1 => M + i = (M + k) + 1)
      BY <1>1
    <3>5. QED
      BY <3>1, <3>2, <3>3, <3>4 DEF Citing!Within, Cites, Ids
  <2>3. (Cites(w, M + i) <=> Cites(b, i)) /\ (Ids(w, M + i) <=> Ids(b, i)) /\ w[M + i] = b[i]
    BY <1>1, <1>4
  <2>4. Cites(b, i) => w[(M + i) + 2] = b[i + 2]
    <3>1. i + 3 <= N => i + 2 \in 1..N /\ (M + i) + 2 = M + (i + 2)
      BY <1>1
    <3>2. Cites(b, i) => i + 3 <= N
      BY DEF Cites, Citing!IsCitation
    <3>3. QED
      BY <1>1, <3>1, <3>2
  <2>5. QED
    BY <2>1, <2>2, <2>3, <2>4, PieceIs DEF PieceFacts
<1>7. /\ Bareds(a) \in Seq(Seq(Visible)) /\ Len(Bareds(a)) = M
      /\ Bareds(b) \in Seq(Seq(Visible)) /\ Len(Bareds(b)) = N
      /\ Bareds(w) \in Seq(Seq(Visible)) /\ Len(Bareds(w)) = M + N
  BY <1>1, PiecesAreVisible, BaredsTyped
<1>8. Bareds(w) = Bareds(a) \o Bareds(b)
  <2> DEFINE p == Bareds(a) \o Bareds(b)
  <2>1. /\ p \in Seq(Seq(Visible)) /\ Len(p) = M + N
        /\ \A i \in 1..M : p[i] = Bareds(a)[i]
        /\ \A i \in 1..N : p[M + i] = Bareds(b)[i]
    BY ONLY <1>1, <1>7
  <2> HIDE DEF p
  <2>2. ASSUME NEW i \in 1..(M + N)
        PROVE  Bareds(w)[i] = p[i]
    <3>1. CASE i \in 1..M
      BY <1>1, <1>5, <2>1, <3>1 DEF Bareds
    <3>2. CASE i \notin 1..M
      <4>1. i - M \in 1..N /\ M + (i - M) = i
        BY <1>1, <3>2
      <4>2. Bared(w, M + (i - M)) = Bared(b, i - M) /\ p[M + (i - M)] = Bareds(b)[i - M]
        BY <1>6, <2>1, <4>1
      <4>3. QED
        BY <1>1, <4>1, <4>2 DEF Bareds
    <3>3. QED
      BY <3>1, <3>2
  <2>3. Bareds(w) = p
    BY <1>1, <1>7, <2>1, <2>2, SeqEqual
  <2>4. QED
    BY <2>3 DEF p
<1>9. Flat(Bareds(w)) = Flat(Bareds(a)) \o Flat(Bareds(b))
  BY <1>7, <1>8, FlatJoins
<1>10. QED
  BY <1>1, <1>9, SaysIs DEF w

LEMMA CutIs ==
  ASSUME NEW t \in Texts
  PROVE  /\ Citing!HeldFrom(t) \subseteq 1..Len(t) /\ Citing!SafeCut(t) \in 0..Len(t)
         /\ ~Citing!Overflows(t) => /\ \A h \in Citing!HeldFrom(t) : Citing!SafeCut(t) < h
                                    /\ Citing!SafeCut(t) = Len(t) \/ Citing!SafeCut(t) + 1 \in Citing!HeldFrom(t)
<1> DEFINE n == Len(t)
           H == Citing!HeldFrom(t)
           Cut(c) == (\A i \in H : c < i) /\ (c = n \/ c + 1 \in H)
           cut == CHOOSE c \in 0..n : Cut(c)
<1>1. n \in Nat
  BY DEF Texts
<1>2. H \subseteq 1..n
  BY <1>1 DEF Citing!HeldFrom, Citing!OpenAt
<1> HIDE DEF H, n
<1>3. \E c \in 0..n : Cut(c)
  <2>1. CASE H = {}
    <3>1. n \in 0..n /\ Cut(n)
      BY <1>1, <2>1
    <3>2. QED
      BY <3>1
  <2>2. CASE H # {}
    <3>1. H \in SUBSET Nat
      BY <1>1, <1>2
    <3>2. PICK m \in H : \A k \in H : m <= k
      BY <2>2, <3>1, Least
    <3>3. m \in 1..n /\ m - 1 \in 0..n /\ (m - 1) + 1 = m
      BY <1>1, <1>2, <3>2
    <3>4. \A k \in H : m - 1 < k
      BY <1>1, <1>2, <3>2, <3>3
    <3>5. Cut(m - 1)
      BY <3>2, <3>3, <3>4
    <3>6. QED
      BY <3>3, <3>5
  <2>3. QED
    BY <2>1, <2>2
<1>4. cut \in 0..n /\ Cut(cut)
  BY <1>3
<1>5. Citing!SafeCut(t) = IF n - cut > MaxHold THEN n ELSE cut
  BY DEF Citing!SafeCut, n, H
<1> HIDE DEF cut
<1>6. Citing!SafeCut(t) \in 0..n
  BY <1>1, <1>4, <1>5
<1>7. ASSUME ~Citing!Overflows(t)
      PROVE  Citing!SafeCut(t) = cut
  <2>1. \A i \in H : ~(n - i + 1 > MaxHold)
    BY <1>7 DEF Citing!Overflows, n, H
  <2>2. CASE cut = n
    BY <1>5, <2>2
  <2>3. CASE cut + 1 \in H
    <3>1. n - cut = n - (cut + 1) + 1
      BY <1>1, <1>4
    <3>2. ~(n - cut > MaxHold)
      BY <2>1, <2>3, <3>1
    <3>3. QED
      BY <1>5, <3>2
  <2>4. QED
    BY <1>4, <2>2, <2>3
<1>8. QED
  BY <1>2, <1>4, <1>6, <1>7 DEF n, H

\* What is held begins with a bracket or with the first half of an id.
LEMMA HeldBegins ==
  ASSUME NEW t \in Texts, NEW h \in Citing!HeldFrom(t)
  PROVE  \/ h \in Citing!OpenAt(t)
         \/ h = Len(t) /\ t[h] = Citing!Bracket /\ Citing!OpenAt(t) = {}
         \/ t[h] = Citing!Head1
  BY DEF Citing!HeldFrom, Citing!IsId

LEMMA OpenIsHeld ==
  ASSUME NEW t \in Texts, Citing!OpenAt(t) # {}
  PROVE  Citing!HeldFrom(t) # {}
<1>1. Len(t) \in Nat /\ Citing!OpenAt(t) \in SUBSET (0..Len(t))
  BY DEF Texts, Citing!OpenAt
<1>2. PICK m \in Citing!OpenAt(t) : \A k \in Citing!OpenAt(t) : k <= m
  BY <1>1, Greatest
<1>3. QED
  BY <1>2 DEF Citing!HeldFrom

\* Whatever comes behind a text that does not overflow, nothing is torn where the text is cut.
LEMMA NothingIsTorn ==
  ASSUME NEW t \in Texts, NEW r \in Texts, ~Citing!Overflows(t), NEW i \in 1..Citing!SafeCut(t)
  PROVE  /\ Cites(t \o r, i) => i + 3 <= Citing!SafeCut(t)
         /\ Ids(t \o r, i) => i + 1 <= Citing!SafeCut(t)
<1> DEFINE n == Len(t)
           c == Citing!SafeCut(t)
           H == Citing!HeldFrom(t)
           O == Citing!OpenAt(t)
           w == t \o r
           B == Citing!Bracket
           E == Citing!Close
           Z == Citing!Head1
<1>1. /\ n \in Nat /\ c \in 0..n /\ H \subseteq 1..n /\ \A k \in 1..n : w[k] = t[k]
      /\ \A h \in H : c < h /\ (c = n \/ c + 1 \in H)
      /\ i \in Nat /\ i <= c
  BY CutIs DEF Texts
<1>2. B # E /\ Z # B /\ Z # E /\ Citing!Tail1 # B /\ Citing!Tail1 # Z
      /\ B.u \notin {"handle", "token", "blank"} /\ E.u \notin {"handle", "token", "blank"} /\ Z.u \notin {"handle", "token", "blank"}
  BY SignsAre
<1>3. c = n \/ c + 1 \in H
  BY CutIs
<1>4. /\ O # {} => H # {}
      /\ \A h \in H : h \in O \/ (h = n /\ t[h] = B /\ O = {}) \/ t[h] = Z
      /\ \A h \in O : h \in 1..(n - 1) /\ t[h] = B /\ t[h + 1] = B
      /\ \A h \in 1..(n - 1) : t[h] = B /\ t[h + 1] = B /\ (\A j \in h..n : t[j] # E) => h \in O
      /\ n > 0 /\ (t[n] = Z \/ (t[n] = B /\ O = {})) => n \in H
  BY HeldBegins, OpenIsHeld DEF Citing!OpenAt, Citing!HeldFrom
<1>5. c = n => H = {} /\ O = {}
  BY <1>1, <1>4
<1>6. ASSUME Cites(w, i), ~(i + 3 <= c)
      PROVE  FALSE
  <2>1. w[i] = B /\ w[i + 1] = B /\ w[i + 2].u \in {"handle", "token", "blank"} /\ w[i + 3] = E
    BY <1>6 DEF Cites, Citing!IsCitation
  <2> HIDE DEF w, B, E, Z, O, H, c, n
  <2>2. n > i /\ n < i + 3 => i \in O
    <3> SUFFICES ASSUME n > i, n < i + 3
                 PROVE  i \in O
      OBVIOUS
    <3>1. i \in 1..(n - 1) /\ i \in 1..n /\ i + 1 \in 1..n
      BY <1>1
    <3>2. t[i] = B /\ t[i + 1] = B
      BY <1>1, <2>1, <3>1
    <3>3. ASSUME NEW j \in i..n
          PROVE  t[j] # E
      <4>1. j \in 1..n /\ j \in {i, i + 1, i + 2}
        BY <1>1
      <4>2. w[j] # E
        BY <1>2, <2>1, <4>1
      <4>3. QED
        BY <1>1, <4>1, <4>2
    <3>4. QED
      BY <1>4, <3>1, <3>2, <3>3
  <2>3. CASE c = n
    <3>1. CASE i = n
      <4>1. n \in 1..n
        BY <1>1, <3>1
      <4>2. t[n] = B /\ n > 0
        BY <1>1, <2>1, <3>1, <4>1
      <4>3. QED
        BY <1>4, <1>5, <2>3, <4>2
    <3>2. CASE i # n
      <4>1. n > i /\ n < i + 3
        BY <1>1, <1>6, <2>3, <3>2
      <4>2. QED
        BY <1>5, <2>2, <2>3, <4>1
    <3>3. QED
      BY <3>1, <3>2
  <2>4. CASE c # n
    <3> DEFINE h == c + 1
    <3>1. h \in H /\ h \in 1..n /\ h \in {i + 1, i + 2, i + 3}
      BY <1>1, <1>3, <1>6, <2>4
    <3>2. w[h] = t[h]
      BY <1>1, <3>1
    <3> HIDE DEF h
    <3>3. CASE h \in O
      <4>1. t[h] = B /\ t[h + 1] = B /\ h + 1 \in 1..n
        BY <1>1, <1>4, <3>3
      <4>2. h = i + 1
        BY <1>2, <2>1, <3>1, <3>2, <4>1
      <4>3. w[i + 2] = B
        BY <1>1, <4>1, <4>2
      <4>4. QED
        BY <1>2, <2>1, <4>3
    <3>4. CASE h = n /\ t[h] = B /\ O = {}
      <4>1. h = i + 1
        BY <1>2, <2>1, <3>1, <3>2, <3>4
      <4>2. n > i /\ n < i + 3
        BY <1>1, <3>4, <4>1
      <4>3. QED
        BY <2>2, <3>4, <4>2
    <3>5. CASE t[h] = Z
      BY <1>2, <2>1, <3>1, <3>2, <3>5
    <3>6. QED
      BY <1>4, <3>1, <3>3, <3>4, <3>5
  <2>5. QED
    BY <2>3, <2>4
<1>7. ASSUME Ids(w, i), ~(i + 1 <= c)
      PROVE  FALSE
  <2>1. w[i] = Z /\ w[i + 1] = Citing!Tail1
    BY <1>7 DEF Ids, Citing!IsId
  <2>2. i = c
    BY <1>1, <1>7
  <2> HIDE DEF w, B, E, Z, O, H, c, n
  <2>3. CASE c = n
    <3>1. n \in 1..n /\ n > 0
      BY <1>1, <2>2, <2>3
    <3>2. t[n] = Z
      BY <1>1, <2>1, <2>2, <2>3, <3>1
    <3>3. QED
      BY <1>4, <1>5, <2>3, <3>1, <3>2
  <2>4. CASE c # n
    <3>1. c + 1 \in H /\ c + 1 \in 1..n
      BY <1>1, <1>3, <2>4
    <3>2. t[c + 1] = Citing!Tail1
      BY <1>1, <2>1, <2>2, <3>1
    <3>3. QED
      BY <1>2, <1>4, <3>1, <3>2
  <2>5. QED
    BY <2>3, <2>4
<1>8. QED
  BY <1>6, <1>7

LEMMA WellMadeJoins ==
  ASSUME NEW a \in Texts, NEW b \in Texts, WellMade(a), WellMade(b)
  PROVE  WellMade(a \o b)
<1> DEFINE w == a \o b
           M == Len(a)
           N == Len(b)
<1>1. /\ M \in Nat /\ N \in Nat /\ w \in Texts /\ Len(w) = M + N
      /\ \A i \in 1..M : w[i] = a[i]
      /\ \A i \in 1..N : w[M + i] = b[i]
  BY ONLY a \in Texts, b \in Texts DEF Texts
<1> HIDE DEF w
<1>2. ASSUME NEW i \in 1..M
      PROVE  (Ids(a, i) => Ids(w, i)) /\ (Cites(a, i) => Cites(w, i))
  <2>1. /\ i < M => i < M + N /\ i + 1 \in 1..M
        /\ i + 3 <= M => i + 3 <= M + N /\ i + 1 \in 1..M /\ i + 2 \in 1..M /\ i + 3 \in 1..M
    BY <1>1
  <2>2. Ids(a, i) => Ids(w, i)
    BY <1>1, <2>1 DEF Ids, Citing!IsId
  <2>3. Cites(a, i) => Cites(w, i)
    BY <1>1, <2>1 DEF Cites, Citing!IsCitation
  <2>4. QED
    BY <2>2, <2>3
<1>3. ASSUME NEW i \in 1..N
      PROVE  (Ids(b, i) => Ids(w, M + i)) /\ (Cites(b, i) => Cites(w, M + i))
  <2>1. /\ i < N => M + i < M + N /\ i + 1 \in 1..N
        /\ i + 3 <= N => (M + i) + 3 <= M + N /\ i + 1 \in 1..N /\ i + 2 \in 1..N /\ i + 3 \in 1..N
        /\ (M + i) + 1 = M + (i + 1) /\ (M + i) + 2 = M + (i + 2) /\ (M + i) + 3 = M + (i + 3)
    BY <1>1
  <2>2. Ids(b, i) => Ids(w, M + i)
    <3> SUFFICES ASSUME Ids(b, i)
                 PROVE  Ids(w, M + i)
      OBVIOUS
    <3>1. i < N /\ b[i] = Citing!Head1 /\ b[i + 1] = Citing!Tail1
      BY DEF Ids, Citing!IsId
    <3>2. w[M + i] = b[i] /\ w[(M + i) + 1] = b[i + 1]
      BY <1>1, <2>1, <3>1
    <3>3. QED
      BY <1>1, <2>1, <3>1, <3>2 DEF Ids, Citing!IsId
  <2>3. Cites(b, i) => Cites(w, M + i)
    <3> SUFFICES ASSUME Cites(b, i)
                 PROVE  Cites(w, M + i)
      OBVIOUS
    <3>1. i + 3 <= N
      BY DEF Cites, Citing!IsCitation
    <3>2. w[M + i] = b[i] /\ w[(M + i) + 1] = b[i + 1] /\ w[(M + i) + 2] = b[i + 2] /\ w[(M + i) + 3] = b[i + 3]
      BY <1>1, <2>1, <3>1
    <3>3. QED
      BY <1>1, <2>1, <3>1, <3>2 DEF Cites, Citing!IsCitation
  <2>4. QED
    BY <2>2, <2>3
<1>4. ASSUME NEW i \in 1..Len(w)
      PROVE  /\ w[i].u = "idHead" => Ids(w, i)
             /\ w[i].u = "idTail" => i > 1 /\ Ids(w, i - 1)
             /\ w[i].u \in {"handle", "token", "blank"} => i > 2 /\ Cites(w, i - 2)
  <2>1. CASE i \in 1..M
    <3>1. (i > 1 => i - 1 \in 1..M) /\ (i > 2 => i - 2 \in 1..M)
      BY <1>1, <2>1
    <3>2. QED
      BY <1>1, <1>2, <2>1, <3>1 DEF WellMade
  <2>2. CASE i \notin 1..M
    <3> DEFINE j == i - M
    <3>1. /\ j \in 1..N /\ M + j = i /\ (j > 1 => j - 1 \in 1..N /\ M + (j - 1) = i - 1 /\ i > 1)
          /\ (j > 2 => j - 2 \in 1..N /\ M + (j - 2) = i - 2 /\ i > 2)
      BY <1>1, <2>2
    <3> HIDE DEF j
    <3>2. w[i] = b[j]
      BY <1>1, <3>1
    <3>3. /\ b[j].u = "idHead" => Ids(b, j)
          /\ b[j].u = "idTail" => j > 1 /\ Ids(b, j - 1)
          /\ b[j].u \in {"handle", "token", "blank"} => j > 2 /\ Cites(b, j - 2)
      BY <3>1 DEF WellMade
    <3>4. /\ Ids(b, j) => Ids(w, i)
          /\ j > 1 /\ Ids(b, j - 1) => Ids(w, i - 1)
          /\ j > 2 /\ Cites(b, j - 2) => Cites(w, i - 2)
      BY <1>3, <3>1
    <3>5. QED
      BY <3>1, <3>2, <3>3, <3>4
  <2>3. QED
    BY <2>1, <2>2
<1>5. QED
  BY <1>4 DEF WellMade, w

LEMMA TextsJoin ==
  /\ <<>> \in Texts /\ \A a, b \in Texts : a \o b \in Texts
  /\ \A a \in Texts : a \o <<>> = a /\ <<>> \o a = a /\ Len(a) \in Nat
  /\ \A a \in Texts : \A i, j \in Nat : 1 <= i /\ j <= Len(a) => SubSeq(a, i, j) \in Texts
BY DEF Texts

LEMMA SayingsAreMade ==
  ASSUME Offers(offer), NEW said \in Citing!Sayings
  PROVE  said \in Texts /\ WellMade(said)
<1>1. ASSUME NEW m \in Written, m.u \in {"handle", "token", "blank"}
      PROVE  Citing!Cited(m) \in Texts /\ WellMade(Citing!Cited(m))
  <2> DEFINE c == <<Citing!Bracket, Citing!Bracket, m, Citing!Close>>
  <2>1. c \in Texts /\ Len(c) = 4 /\ c[1] = Citing!Bracket /\ c[2] = Citing!Bracket /\ c[3] = m /\ c[4] = Citing!Close
    BY SignsAre DEF Texts
  <2> HIDE DEF c
  <2>2. Cites(c, 1)
    BY <1>1, <2>1 DEF Cites, Citing!IsCitation
  <2>3. WellMade(c)
    BY <1>1, <2>1, <2>2, SignsAre DEF WellMade
  <2>4. QED
    BY <2>1, <2>3 DEF c, Citing!Cited
<1>2. CASE said = <<Citing!Word>>
  BY <1>2, SignsAre DEF Texts, WellMade
<1>3. CASE said = <<Citing!Bracket, Citing!Bracket, Citing!Word>>
  BY <1>3, SignsAre DEF Texts, WellMade
<1>4. CASE said = <<Citing!Head1, Citing!Tail1>>
  <2>1. said \in Texts /\ Len(said) = 2 /\ said[1] = Citing!Head1 /\ said[2] = Citing!Tail1
    BY <1>4, SignsAre DEF Texts
  <2>2. Ids(said, 1)
    BY <2>1 DEF Ids, Citing!IsId
  <2>3. QED
    BY <2>1, <2>2, SignsAre DEF WellMade
<1>5. CASE said = Citing!Cited(Citing!Handle(Citing!Unknown))
  <2>1. Citing!Unknown \in Seq(Nat)
    BY DEF Citing!Unknown
  <2>2. QED
    BY <1>1, <1>5, <2>1, SignsAre
<1>6. CASE \E n \in Citing!Names : said = Citing!Cited(Citing!Handle(n))
  BY <1>1, <1>6, SignsAre DEF Citing!Names, Offers
<1>7. CASE \E d \in Papers : said = Citing!Cited(Citing!Token(d))
  BY <1>1, <1>7, SignsAre
<1>8. CASE said = Citing!Cited(Citing!Blank)
  BY <1>1, <1>8, SignsAre
<1>9. CASE said = <<Citing!Open, Citing!Head1, Citing!Tail1, Citing!Shut>>
  <2>1. /\ said \in Texts /\ Len(said) = 4 /\ said[1] = Citing!Open /\ said[2] = Citing!Head1
        /\ said[3] = Citing!Tail1 /\ said[4] = Citing!Shut
    BY <1>9, SignsAre DEF Texts
  <2>2. Ids(said, 2)
    BY <2>1 DEF Ids, Citing!IsId
  <2>3. QED
    BY <2>1, <2>2, SignsAre DEF WellMade
<1>10. CASE said = <<Citing!Open>> \o Citing!Cited(Citing!Blank) \o <<Citing!Shut>>
  <2>1. Citing!Cited(Citing!Blank) \in Texts /\ WellMade(Citing!Cited(Citing!Blank))
    BY <1>1, SignsAre
  <2>2. ASSUME NEW m \in {Citing!Open, Citing!Shut}
        PROVE  <<m>> \in Texts /\ WellMade(<<m>>)
    BY SignsAre DEF Texts, WellMade
  <2> DEFINE c == Citing!Cited(Citing!Blank)
  <2> HIDE DEF c
  <2>3. c \in Texts /\ WellMade(c)
    BY <2>1 DEF c
  <2>4. <<Citing!Open>> \o c \in Texts /\ WellMade(<<Citing!Open>> \o c)
    BY <2>2, <2>3, WellMadeJoins, TextsJoin
  <2>5. (<<Citing!Open>> \o c) \o <<Citing!Shut>> \in Texts /\ WellMade((<<Citing!Open>> \o c) \o <<Citing!Shut>>)
    BY <2>2, <2>4, WellMadeJoins, TextsJoin
  <2>6. QED
    BY <1>10, <2>5 DEF c
<1>11. QED
  BY <1>2, <1>3, <1>4, <1>5, <1>6, <1>7, <1>8, <1>9, <1>10 DEF Citing!Sayings, Citing!Documents, Papers

LEMMA AnswersAreMade ==
  ASSUME Offers(offer), NEW k \in Nat, NEW said \in [1..k -> Citing!Sayings]
  PROVE  Flat(said) \in Texts /\ WellMade(Flat(said))
<1> DEFINE T == {t \in Texts : WellMade(t)}
<1>1. T \in SUBSET Seq(Written) /\ <<>> \in T
  BY DEF Texts, WellMade
<1>2. \A a, b \in T : a \o b \in T
  <2>1. \A a, b \in Texts : a \o b \in Texts
    BY DEF Texts
  <2>2. QED
    BY <2>1, WellMadeJoins
<1>3. said \in Seq(Seq(Written)) /\ Len(said) = k
  BY SayingsAreMade DEF Texts
<1>4. \A j \in 1..Len(said) : said[j] \in T
  BY <1>3, SayingsAreMade
<1> HIDE DEF T
<1>5. Flat(said) \in T
  BY ONLY <1>1, <1>2, <1>3, <1>4, FlatKeeps
<1>6. QED
  BY <1>5 DEF T

(***************************************************************************)
(* The stream: what is seen, and what is held and is to come, says what    *)
(* the whole text says.                                                    *)
(***************************************************************************)
Drafts == [at : {"none", "writing", "written", "saved"}, text : Texts, come : Nat, rounds : Nat]
Rest0  == SubSeq(draft.text, draft.come + 1, Len(draft.text))
StreamTyped == /\ draft \in Drafts /\ draft.come <= Len(draft.text) /\ held \in Texts /\ shown \in Seq(Visible)
               /\ WellMade(draft.text)
AtItsEnds == /\ draft.at = "none" => draft.text = <<>> /\ draft.come = 0 /\ held = <<>> /\ shown = <<>>
             /\ draft.at \in {"written", "saved"} => draft.come = Len(draft.text) /\ held = <<>>
NothingIsSpilt == ~spilt => Citing!Bare(shown) \o Meaning(held \o Rest0) = Meaning(draft.text)
CiteInv == Offers(offer) /\ StreamTyped /\ AtItsEnds /\ NothingIsSpilt /\ Citing!UnreadIsWarned

LEMMA ExpandOfNothing == Citing!Expand(<<>>) = <<>> /\ Meaning(<<>>) = <<>>
<1>1. Pieces(<<>>) = <<>>
  BY DEF Pieces
<1>2. Citing!Expand(<<>>) = <<>>
  BY <1>1, ExpandIs DEF Flat, Citing!FlattenSeq
<1>3. Citing!Bare(<<>>) = <<>>
  BY BareOfOne
<1>4. QED
  BY <1>2, <1>3 DEF Meaning

LEMMA ExpandTyped ==
  ASSUME Offers(offer), NEW t \in Texts
  PROVE  /\ Citing!Expand(t) \in Seq(Visible) /\ Meaning(t) \in Seq(Visible)
         /\ WellMade(t) => Meaning(t) \in Seq(Plain)
  BY PiecesAreVisible, PiecesArePlain, PiecesTyped, BaredsTyped, SaysIs

LEMMA SameExpand ==
  ASSUME NEW t, offer' = offer
  PROVE  Citing!Expand(t)' = Citing!Expand(t) /\ Meaning(t)' = Meaning(t) /\ Visible' = Visible
  BY DEF Meaning, Citing!Bare, Citing!Expand, Citing!Piece, Citing!Replacement, Citing!Resolved, Citing!Names, Visible

LEMMA CutsJoin ==
  ASSUME NEW a \in Texts, NEW c \in 0..Len(a)
  PROVE  /\ SubSeq(a, 1, c) \in Texts /\ SubSeq(a, c + 1, Len(a)) \in Texts /\ Len(SubSeq(a, 1, c)) = c
         /\ a = SubSeq(a, 1, c) \o SubSeq(a, c + 1, Len(a))
<1>1. a \in Seq(Written)
  BY DEF Texts
<1> DEFINE x == SubSeq(a, 1, c)
           y == SubSeq(a, c + 1, Len(a))
<1>2. /\ x \in Seq(Written) /\ Len(x) = c /\ y \in Seq(Written) /\ Len(y) = Len(a) - c
      /\ \A i \in 1..c : x[i] = a[i]
      /\ \A i \in 1..(Len(a) - c) : y[i] = a[c + i]
  BY <1>1
<1> HIDE DEF x, y
<1>3. x \o y \in Seq(Written) /\ Len(x \o y) = Len(a)
  BY <1>1, <1>2
<1>4. ASSUME NEW i \in 1..Len(a)
      PROVE  a[i] = (x \o y)[i]
  <2>1. CASE i <= c
    <3>1. i \in 1..c /\ i \in 1..Len(x)
      BY <1>2, <2>1
    <3>2. (x \o y)[i] = x[i]
      BY <1>1, <1>2, <3>1
    <3>3. QED
      BY <1>2, <3>1, <3>2
  <2>2. CASE i > c
    <3>1. i - c \in 1..(Len(a) - c) /\ c + (i - c) = i
      BY <1>1, <2>2
    <3>2. (x \o y)[i] = y[i - c]
      BY <1>1, <1>2, <2>2, <3>1
    <3>3. QED
      BY <1>2, <3>1, <3>2
  <2>3. i <= c \/ i > c
    BY <1>1
  <2>4. QED
    BY ONLY <2>1, <2>2, <2>3
<1>5. a = x \o y
  BY <1>1, <1>3, <1>4, SeqEqual
<1>6. QED
  BY <1>2, <1>5 DEF Texts, x, y

LEMMA BehindIs ==
  ASSUME NEW t \in Texts, NEW a \in 0..Len(t), NEW n \in 0..(Len(t) - a)
  PROVE  LET z == SubSeq(t, a + 1, Len(t)) IN
           /\ z \in Texts /\ Len(z) = Len(t) - a
           /\ SubSeq(z, 1, n) = SubSeq(t, a + 1, a + n) /\ SubSeq(z, n + 1, Len(z)) = SubSeq(t, a + n + 1, Len(t))
<1> DEFINE N == Len(t)
           z == SubSeq(t, a + 1, N)
<1>1. t \in Seq(Written) /\ N \in Nat /\ a \in Nat /\ n \in Nat /\ a <= N /\ a + n <= N
  BY DEF Texts
<1>2. z \in Seq(Written) /\ Len(z) = N - a /\ \A i \in 1..(N - a) : z[i] = t[a + i]
  BY <1>1
<1> HIDE DEF z
<1>3. SubSeq(z, 1, n) = SubSeq(t, a + 1, a + n)
  <2> DEFINE x == SubSeq(z, 1, n)
             y == SubSeq(t, a + 1, a + n)
  <2>1. x \in Seq(Written) /\ Len(x) = n /\ \A i \in 1..n : x[i] = z[i]
    BY <1>1, <1>2
  <2>2. y \in Seq(Written) /\ Len(y) = n /\ \A i \in 1..n : y[i] = t[a + i]
    BY <1>1
  <2> HIDE DEF x, y
  <2>3. \A i \in 1..n : i \in 1..(N - a)
    BY <1>1
  <2>4. \A i \in 1..Len(x) : x[i] = y[i]
    BY <1>2, <2>1, <2>2, <2>3
  <2>5. x = y
    BY <2>1, <2>2, <2>4, SeqEqual
  <2>6. QED
    BY <2>5 DEF x, y
<1>4. SubSeq(z, n + 1, Len(z)) = SubSeq(t, a + n + 1, N)
  <2> DEFINE x == SubSeq(z, n + 1, Len(z))
             y == SubSeq(t, a + n + 1, N)
             m == N - a - n
  <2>1. x \in Seq(Written) /\ Len(x) = m /\ \A i \in 1..m : x[i] = z[n + i]
    BY <1>1, <1>2
  <2>2. y \in Seq(Written) /\ Len(y) = m /\ \A i \in 1..m : y[i] = t[a + n + i]
    BY <1>1
  <2> HIDE DEF x, y
  <2>3. \A i \in 1..m : n + i \in 1..(N - a) /\ a + (n + i) = a + n + i
    BY <1>1
  <2>4. \A i \in 1..Len(x) : x[i] = y[i]
    BY <1>2, <2>1, <2>2, <2>3
  <2>5. x = y
    BY <2>1, <2>2, <2>4, SeqEqual
  <2>6. QED
    BY <2>5 DEF x, y
<1>5. QED
  BY <1>2, <1>3, <1>4 DEF z, Texts

LEMMA FeedingKeeps ==
  ASSUME CiteInv, NEW n \in 1..2, Citing!Feed(n)
  PROVE  CiteInv'
<1> DEFINE piece == SubSeq(draft.text, draft.come + 1, draft.come + n)
           come == held \o piece
           cut == Citing!SafeCut(come)
           A == SubSeq(come, 1, cut)
           B == SubSeq(come, cut + 1, Len(come))
           R == SubSeq(draft.text, draft.come + n + 1, Len(draft.text))
<1>1. /\ draft.at = "writing" /\ draft.come + n <= Len(draft.text)
      /\ draft' = [draft EXCEPT !.come = draft.come + n] /\ shown' = shown \o Citing!Expand(A) /\ held' = B
      /\ spilt' = (spilt \/ Citing!Overflows(come)) /\ offer' = offer /\ read' = read /\ cited' = cited
  BY DEF Citing!Feed
<1>2. /\ draft \in Drafts /\ draft.text \in Texts /\ draft.come \in Nat /\ held \in Texts /\ shown \in Seq(Visible)
      /\ WellMade(draft.text) /\ Len(draft.text) \in Nat /\ Offers(offer)
  BY TextsJoin DEF CiteInv, StreamTyped, Drafts
<1>3. /\ draft' \in Drafts /\ draft'.text = draft.text /\ draft'.come = draft.come + n /\ draft'.at = "writing"
      /\ draft'.come <= Len(draft'.text)
  <2>1. n \in Nat /\ draft.come + n \in Nat
    BY <1>2
  <2>2. QED
    BY <1>1, <1>2, <2>1 DEF Drafts
<1>4. piece \in Texts /\ R \in Texts /\ Rest0 = piece \o R /\ Rest0' = R
  <2>1. draft.come \in 0..Len(draft.text) /\ n \in Nat
    <3>1. n \in Nat
      BY <1>2
    <3>2. QED
      BY ONLY <1>1, <1>2, <3>1
  <2> DEFINE t == draft.text
             a == draft.come
             z == SubSeq(t, a + 1, Len(t))
  <2>2. /\ n \in 0..(Len(t) - a) /\ t \in Texts
    BY <1>1, <1>2, <2>1
  <2>3. z \in Texts /\ n \in 0..Len(z)
    BY <2>1, <2>2, BehindIs
  <2>4. SubSeq(z, 1, n) = piece /\ SubSeq(z, n + 1, Len(z)) = R
    BY <2>1, <2>2, BehindIs
  <2>5. Rest0' = R
    BY <1>3 DEF Rest0
  <2> HIDE DEF z, piece, R
  <2>6. SubSeq(z, 1, n) \in Texts /\ SubSeq(z, n + 1, Len(z)) \in Texts /\ z = SubSeq(z, 1, n) \o SubSeq(z, n + 1, Len(z))
    BY <2>3, CutsJoin
  <2>7. QED
    BY <2>4, <2>5, <2>6 DEF Rest0, z
<1> HIDE DEF piece, R
<1>5. come \in Texts
  BY <1>2, <1>4, TextsJoin
<1> HIDE DEF come
<1>6. cut \in 0..Len(come) /\ A \in Texts /\ B \in Texts /\ Len(A) = cut /\ come = A \o B
  <2>1. cut \in 0..Len(come)
    BY <1>5, CutIs
  <2> HIDE DEF cut
  <2>2. QED
    BY <1>5, <2>1, CutsJoin
<1> HIDE DEF A, B
<1>7. Citing!Expand(A) \in Seq(Visible) /\ Meaning(A) \in Seq(Visible)
  BY <1>2, <1>6, ExpandTyped
<1>8. StreamTyped'
  <2>1. Visible' = Visible
    BY <1>1, SameExpand
  <2>2. shown' \in Seq(Visible)
    BY ONLY <1>1, <1>2, <1>7
  <2>3. QED
    BY <1>1, <1>2, <1>3, <1>6, <2>1, <2>2 DEF StreamTyped, WellMade, Ids, Cites, Citing!IsCitation, Citing!IsId
<1>9. AtItsEnds'
  BY <1>3 DEF AtItsEnds
<1>10. NothingIsSpilt'
  <2> SUFFICES ASSUME ~spilt'
               PROVE  Citing!Bare(shown') \o Meaning(held' \o R) = Meaning(draft.text)
    <3>6. offer' = offer /\ (held \o Rest0)' = held' \o R
      BY <1>1, <1>4
    <3>1. (Meaning(held \o Rest0))' = Meaning(held' \o R)
      BY ONLY <3>6 DEF Meaning, Citing!Bare, Citing!Expand, Citing!Piece, Citing!Replacement, Citing!Resolved, Citing!Names
    <3>4. offer' = offer /\ draft'.text = draft.text
      BY <1>1, <1>3
    <3>2. Meaning(draft.text)' = Meaning(draft.text)
      BY ONLY <3>4 DEF Meaning, Citing!Bare, Citing!Expand, Citing!Piece, Citing!Replacement, Citing!Resolved, Citing!Names
    <3>5. Citing!Bare(shown)' = Citing!Bare(shown')
      BY DEF Citing!Bare
    <3>3. QED
      BY <3>1, <3>2, <3>5 DEF NothingIsSpilt
  <2>1. ~spilt /\ ~Citing!Overflows(come)
    BY <1>1
  <2>2. Citing!Bare(shown) \o Meaning(held \o Rest0) = Meaning(draft.text)
    BY <2>1 DEF CiteInv, NothingIsSpilt
  <2>3. held \o Rest0 = come \o R
    BY <1>2, <1>4, ConcatAssociative DEF Texts, come
  <2>4. come \o R = A \o (B \o R)
    BY <1>4, <1>6, ConcatAssociative DEF Texts
  <2>5. \A i \in 1..cut : (Cites(come \o R, i) => i + 3 <= cut) /\ (Ids(come \o R, i) => i + 1 <= cut)
    BY <1>4, <1>5, <2>1, NothingIsTorn
  <2>6. Meaning(A \o (B \o R)) = Meaning(A) \o Meaning(B \o R)
    <3>1. B \o R \in Texts
      BY <1>4, <1>6, TextsJoin
    <3>2. \A i \in 1..Len(A) : /\ Cites(A \o (B \o R), i) => i + 3 <= Len(A)
                               /\ Ids(A \o (B \o R), i) => i + 1 <= Len(A)
      BY <1>6, <2>4, <2>5
    <3>3. QED
      BY <1>2, <1>6, <3>1, <3>2, ExpandJoins
  <2>7. Meaning(B \o R) \in Seq(Visible)
    <3>1. B \o R \in Texts
      BY <1>4, <1>6, TextsJoin
    <3>2. QED
      BY <1>2, <3>1, ExpandTyped
  <2>8. Citing!Bare(shown) \in Seq(Visible) /\ Citing!Bare(shown') = Citing!Bare(shown) \o Meaning(A)
    <3>1. /\ Citing!Bare(shown) \in Seq(Visible)
          /\ Citing!Bare(shown \o Citing!Expand(A)) = Citing!Bare(shown) \o Citing!Bare(Citing!Expand(A))
      BY ONLY <1>2, <1>7, BareJoins
    <3>2. QED
      BY <1>1, <3>1 DEF Meaning
  <2>9. (Citing!Bare(shown) \o Meaning(A)) \o Meaning(B \o R) = Citing!Bare(shown) \o (Meaning(A) \o Meaning(B \o R))
    BY <1>7, <2>7, <2>8, ConcatAssociative
  <2>10. QED
    BY ONLY <1>1, <2>2, <2>3, <2>4, <2>6, <2>8, <2>9
<1>11. Offers(offer)'
  BY <1>1, <1>2 DEF Offers, Named
<1>12. Citing!UnreadIsWarned'
  BY <1>3 DEF Citing!UnreadIsWarned
<1>13. QED
  BY <1>8, <1>9, <1>10, <1>11, <1>12 DEF CiteInv

LEMMA ClosingStreamKeeps ==
  ASSUME CiteInv, Citing!CloseStream
  PROVE  CiteInv'
<1>1. /\ draft.at = "writing" /\ draft.come = Len(draft.text) /\ draft' = [draft EXCEPT !.at = "written"]
      /\ shown' = shown \o Citing!Expand(held) /\ held' = <<>> /\ UNCHANGED <<offer, read, spilt, cited>>
  BY DEF Citing!CloseStream
<1>2. /\ draft \in Drafts /\ draft.text \in Texts /\ Len(draft.text) \in Nat /\ held \in Texts /\ shown \in Seq(Visible)
      /\ WellMade(draft.text) /\ Offers(offer)
  BY TextsJoin DEF CiteInv, StreamTyped, Drafts
<1>3. draft' \in Drafts /\ draft'.text = draft.text /\ draft'.come = draft.come /\ draft'.at = "written"
  BY <1>1, <1>2 DEF Drafts
<1>4. Rest0 = <<>> /\ Rest0' = <<>>
  BY <1>1, <1>2, <1>3 DEF Rest0, Texts
<1>5. Citing!Expand(held) \in Seq(Visible) /\ Meaning(held) \in Seq(Visible) /\ Visible' = Visible
  BY <1>1, <1>2, ExpandTyped, SameExpand
<1>6. shown' \in Seq(Visible)
  BY ONLY <1>1, <1>2, <1>5
<1>7. StreamTyped'
  <2>1. <<>> \in Texts
    BY TextsJoin
  <2>2. QED
    BY <1>1, <1>2, <1>3, <1>5, <1>6, <2>1 DEF StreamTyped, WellMade, Ids, Cites, Citing!IsCitation, Citing!IsId
<1>8. AtItsEnds'
  BY <1>1, <1>3 DEF AtItsEnds
<1>9. NothingIsSpilt'
  <2> SUFFICES ASSUME ~spilt
               PROVE  Citing!Bare(shown') \o Meaning(<<>>) = Meaning(draft.text)
    <3>1. offer' = offer /\ draft'.text = draft.text /\ held' = <<>> /\ spilt' = spilt
      BY <1>1, <1>3
    <3>2. (Meaning(held \o Rest0))' = Meaning(<<>>)
      <4>1. held' \o Rest0' = <<>>
        BY <1>4, <3>1
      <4>2. QED
        BY ONLY <3>1, <4>1 DEF Meaning, Citing!Bare, Citing!Expand, Citing!Piece, Citing!Replacement, Citing!Resolved, Citing!Names
    <3>3. Meaning(draft.text)' = Meaning(draft.text)
      BY ONLY <3>1 DEF Meaning, Citing!Bare, Citing!Expand, Citing!Piece, Citing!Replacement, Citing!Resolved, Citing!Names
    <3>5. Citing!Bare(shown)' = Citing!Bare(shown')
      BY DEF Citing!Bare
    <3>4. QED
      BY <3>1, <3>2, <3>3, <3>5 DEF NothingIsSpilt
  <2>1. Citing!Bare(shown) \o Meaning(held \o Rest0) = Meaning(draft.text)
    BY DEF CiteInv, NothingIsSpilt
  <2>2. held \o Rest0 = held
    BY <1>2, <1>4, TextsJoin
  <2>3. /\ Citing!Bare(shown) \in Seq(Visible) /\ Citing!Bare(shown') \in Seq(Visible)
        /\ Citing!Bare(shown \o Citing!Expand(held)) = Citing!Bare(shown) \o Citing!Bare(Citing!Expand(held))
    BY ONLY <1>2, <1>5, <1>6, BareJoins
  <2>4. Citing!Bare(shown') = Citing!Bare(shown) \o Meaning(held)
    BY <1>1, <2>3 DEF Meaning
  <2>5. Citing!Bare(shown') \o <<>> = Citing!Bare(shown')
    BY ONLY <2>3
  <2>6. QED
    BY ONLY <2>1, <2>2, <2>4, <2>5, ExpandOfNothing
<1>10. Offers(offer)'
  BY <1>1, <1>2 DEF Offers, Named
<1>11. Citing!UnreadIsWarned'
  BY <1>3 DEF Citing!UnreadIsWarned
<1>12. QED
  BY <1>7, <1>8, <1>9, <1>10, <1>11 DEF CiteInv

LEMMA SavingAnswerKeeps ==
  ASSUME CiteInv, Citing!SaveAnswer
  PROVE  CiteInv'
<1>1. /\ draft.at = "written" /\ draft' = [draft EXCEPT !.at = "saved"]
      /\ cited' = Citing!Links(shown) \ Citing!Grounded(Citing!Links(shown))
      /\ UNCHANGED <<offer, read, held, shown, spilt>>
  BY DEF Citing!SaveAnswer
<1>2. draft \in Drafts /\ WellMade(draft.text) /\ held \in Texts /\ shown \in Seq(Visible) /\ Offers(offer)
  BY DEF CiteInv, StreamTyped
<1>3. draft' \in Drafts /\ draft'.text = draft.text /\ draft'.come = draft.come /\ draft'.at = "saved"
  BY <1>1, <1>2 DEF Drafts
<1>4. StreamTyped'
  <2>1. Visible' = Visible
    BY <1>1, SameExpand
  <2>2. QED
    BY <1>1, <1>2, <1>3, <2>1 DEF CiteInv, StreamTyped, WellMade, Ids, Cites, Citing!IsCitation, Citing!IsId
<1>5. AtItsEnds'
  BY <1>1, <1>3 DEF CiteInv, AtItsEnds
<1>6. NothingIsSpilt'
  <2>1. offer' = offer /\ draft'.text = draft.text /\ held' = held /\ spilt' = spilt /\ shown' = shown
    BY <1>1, <1>3
  <2>2. Rest0' = Rest0
    BY <1>3 DEF Rest0
  <2>3. (Meaning(held \o Rest0))' = Meaning(held \o Rest0)
    BY ONLY <2>1, <2>2 DEF Meaning, Citing!Bare, Citing!Expand, Citing!Piece, Citing!Replacement, Citing!Resolved, Citing!Names
  <2>4. Meaning(draft.text)' = Meaning(draft.text) /\ Citing!Bare(shown)' = Citing!Bare(shown)
    BY ONLY <2>1 DEF Meaning, Citing!Bare, Citing!Expand, Citing!Piece, Citing!Replacement, Citing!Resolved, Citing!Names
  <2>5. QED
    BY <2>1, <2>3, <2>4 DEF CiteInv, NothingIsSpilt
<1>7. Offers(offer)'
  BY <1>1, <1>2 DEF Offers, Named
<1>8. Citing!UnreadIsWarned'
  <2> DEFINE seen == Citing!Links(shown)
  <2> SUFFICES ASSUME NEW d \in seen, d \notin cited'
               PROVE  d \in read \/ \E e \in read \union seen : {<<d, e>>, <<e, d>>} \intersect Related # {}
    <3>1. Citing!Links(shown)' = seen /\ read' = read
      BY <1>1 DEF Citing!Links
    <3>2. QED
      BY <3>1 DEF Citing!UnreadIsWarned
  <2>1. d \in Citing!Grounded(seen)
    BY <1>1
  <2>2. d \in read \/ d \in Citing!Kindred(seen)
    BY <2>1 DEF Citing!Grounded
  <2>3. ASSUME d \in Citing!Kindred(seen)
        PROVE  \E e \in read \union seen : {<<d, e>>, <<e, d>>} \intersect Related # {}
    <3>1. PICK e \in seen \union read : <<d, e>> \in Related \/ <<e, d>> \in Related
      BY <2>3 DEF Citing!Kindred
    <3>2. QED
      BY <3>1
  <2>4. QED
    BY <2>2, <2>3
<1>9. QED
  BY <1>4, <1>5, <1>6, <1>7, <1>8 DEF CiteInv

\* When nothing is seen yet, what is to come is the whole text.
LEMMA NothingIsSeenYet ==
  ASSUME NEW text \in Texts, Offers(offer)
  PROVE  Citing!Bare(<<>>) \o Meaning(<<>> \o SubSeq(text, 0 + 1, Len(text))) = Meaning(text)
<1>1. text \in Seq(Written)
  BY DEF Texts
<1>2. SubSeq(text, 0 + 1, Len(text)) = text
  BY ONLY <1>1
<1>3. <<>> \o text = text
  BY TextsJoin
<1>4. Meaning(text) \in Seq(Visible)
  BY ExpandTyped
<1>5. <<>> \o Meaning(text) = Meaning(text)
  BY ONLY <1>4
<1>6. Citing!Bare(<<>>) = <<>>
  BY BareOfOne
<1>7. QED
  BY ONLY <1>2, <1>3, <1>5, <1>6

LEMMA WritingKeeps ==
  ASSUME CiteInv, NEW k \in 1..Phrases, NEW said \in [1..k -> Citing!Sayings], Citing!Write(said)
  PROVE  CiteInv'
<1>1. /\ draft.at = "none" /\ draft' = [draft EXCEPT !.at = "writing", !.text = Flat(said)]
      /\ UNCHANGED <<offer, read, held, shown, spilt, cited>>
  BY DEF Citing!Write, Flat
<1>2. draft \in Drafts /\ Offers(offer) /\ held = <<>> /\ shown = <<>> /\ draft.come = 0
  BY <1>1 DEF CiteInv, StreamTyped, AtItsEnds
<1>3. k \in Nat
  BY CitationAssumption
<1>4. Flat(said) \in Texts /\ WellMade(Flat(said))
  BY <1>2, <1>3, AnswersAreMade
<1>5. PICK text \in Texts : text = Flat(said) /\ WellMade(text)
  BY <1>4
<1>6. draft' \in Drafts /\ draft'.text = text /\ draft'.come = 0 /\ draft'.at = "writing"
  BY <1>1, <1>2, <1>5 DEF Drafts
<1>7. StreamTyped'
  <2>1. Len(text) \in Nat /\ <<>> \in Texts
    BY TextsJoin
  <2>2. WellMade(draft.text)'
    BY <1>5, <1>6 DEF WellMade, Ids, Cites, Citing!IsCitation, Citing!IsId
  <2>3. shown' \in Seq(Visible') /\ held' \in Texts
    BY <1>1, <1>2, <2>1
  <2>4. QED
    BY <1>5, <1>6, <2>1, <2>2, <2>3 DEF StreamTyped
<1>8. AtItsEnds'
  BY <1>6 DEF AtItsEnds
<1>9. NothingIsSpilt'
  <2>1. draft'.text = text /\ held' = <<>> /\ shown' = <<>> /\ Rest0' = SubSeq(text, 0 + 1, Len(text)) /\ offer' = offer
    BY <1>1, <1>2, <1>6 DEF Rest0
  <2>2. /\ (Meaning(held \o Rest0))' = Meaning(<<>> \o SubSeq(text, 0 + 1, Len(text)))
        /\ (Meaning(draft.text))' = Meaning(text) /\ (Citing!Bare(shown))' = Citing!Bare(<<>>)
    BY ONLY <2>1 DEF Meaning, Citing!Bare, Citing!Expand, Citing!Piece, Citing!Replacement, Citing!Resolved, Citing!Names
  <2>3. Citing!Bare(<<>>) \o Meaning(<<>> \o SubSeq(text, 0 + 1, Len(text))) = Meaning(text)
    BY <1>2, NothingIsSeenYet
  <2>4. (Citing!Bare(shown))' \o (Meaning(held \o Rest0))' = (Meaning(draft.text))'
    BY ONLY <2>2, <2>3
  <2>5. QED
    BY <2>4 DEF NothingIsSpilt
<1>10. Offers(offer)'
  BY <1>1, <1>2 DEF Offers, Named
<1>11. Citing!UnreadIsWarned'
  BY <1>6 DEF Citing!UnreadIsWarned
<1>12. QED
  BY <1>7, <1>8, <1>9, <1>10, <1>11 DEF CiteInv

\* A round in which the model calls tools begins its text anew.
LEMMA CallingToolKeeps ==
  ASSUME CiteInv, NEW d \in Papers, NEW named \in Papers, Citing!CallTool(d, named)
  PROVE  CiteInv'
<1>1. /\ offer' = Citing!Mint(Citing!Mint(offer, d), named) /\ draft' = [Citing!NoDraft EXCEPT !.rounds = draft.rounds + 1]
      /\ held' = <<>> /\ shown' = <<>> /\ spilt' = FALSE
  BY DEF Citing!CallTool
<1>2. draft \in Drafts /\ Offers(offer)
  BY DEF CiteInv, StreamTyped
<1>3. Offers(Citing!Mint(offer, d))
  BY <1>2, MintingOffers
<1>4. Offers(Citing!Mint(Citing!Mint(offer, d), named))
  BY <1>3, MintingOffers
<1>5. <<>> \in Texts /\ Len(<<>>) = 0
  BY TextsJoin
<1>6. draft' \in Drafts /\ draft'.text = <<>> /\ draft'.come = 0 /\ draft'.at = "none"
  BY <1>1, <1>2, <1>5 DEF Drafts, Citing!NoDraft
<1>7. StreamTyped'
  <2>1. WellMade(draft.text)'
    BY <1>5, <1>6 DEF WellMade
  <2>2. shown' \in Seq(Visible')
    BY <1>1
  <2>3. QED
    BY <1>1, <1>5, <1>6, <2>1, <2>2 DEF StreamTyped
<1>8. AtItsEnds'
  BY <1>1, <1>6 DEF AtItsEnds
<1>9. NothingIsSpilt'
  <2>1. (held \o Rest0)' = <<>>
    BY <1>1, <1>5, <1>6, TextsJoin DEF Rest0
  <2>2. draft'.text = <<>> /\ shown' = <<>>
    BY <1>1, <1>6
  <2>3. /\ (Meaning(held \o Rest0))' = (Meaning(draft.text))'
        /\ (Citing!Bare(shown))' = Citing!Bare(<<>>)
    BY ONLY <2>1, <2>2 DEF Meaning, Citing!Bare, Citing!Expand, Citing!Piece, Citing!Replacement, Citing!Resolved, Citing!Names
  <2>4. (Pieces(draft.text))' = <<>>
    <3>1. (Pieces(draft.text))' = [i \in 1..Len(<<>>) |-> 0]
      BY ONLY <2>2 DEF Pieces
    <3>2. [i \in 1..Len(<<>>) |-> 0] = <<>>
      OBVIOUS
    <3>3. QED
      BY ONLY <3>1, <3>2
  <2>5. (Citing!Expand(draft.text))' = <<>>
    <3>1. Flat(<<>>) = <<>>
      BY DEF Flat, Citing!FlattenSeq
    <3>2. (Citing!Expand(draft.text))' = Flat((Pieces(draft.text))')
      BY DEF Citing!Expand, Pieces, Flat
    <3>3. QED
      BY ONLY <2>4, <3>1, <3>2
  <2>6. (Meaning(draft.text))' = Citing!Bare(<<>>)
    BY ONLY <2>5 DEF Meaning, Citing!Bare
  <2>7. Citing!Bare(<<>>) = <<>> /\ <<>> \o <<>> = <<>>
    BY BareOfOne, NothingJoins
  <2>8. QED
    BY ONLY <2>3, <2>6, <2>7 DEF NothingIsSpilt
<1>10. Offers(offer)'
  BY <1>1, <1>4 DEF Offers, Named
<1>11. Citing!UnreadIsWarned'
  BY <1>6 DEF Citing!UnreadIsWarned
<1>12. QED
  BY <1>7, <1>8, <1>9, <1>10, <1>11 DEF CiteInv

LEMMA CitationsBeginSound ==
  ASSUME Citing!CitationInit
  PROVE  CiteInv
<1>1. draft = Citing!NoDraft /\ held = <<>> /\ shown = <<>> /\ spilt = FALSE
  BY DEF Citing!CitationInit
<1>2. <<>> \in Texts /\ Len(<<>>) = 0
  BY TextsJoin
<1>3. draft \in Drafts /\ draft.text = <<>> /\ draft.come = 0 /\ draft.at = "none"
  BY <1>1, <1>2 DEF Drafts, Citing!NoDraft
<1>4. Offers(offer)
  <2>1. Offers(<<>>)
    BY DEF Offers
  <2>2. \A d \in Papers : Offers(Citing!Mint(<<>>, d))
    BY <2>1, MintingOffers
  <2>3. \A before \in {<<>>} \union {Citing!Mint(<<>>, d) : d \in Papers} : Offers(before)
    BY <2>1, <2>2
  <2>4. Papers = Citing!Documents
    BY DEF Papers, Citing!Documents
  <2>5. PICK before \in {<<>>} \union {Citing!Mint(<<>>, d) : d \in Papers} :
          offer = before \/ \E selected \in Papers : offer = Citing!Mint(before, selected)
    BY <2>4 DEF Citing!CitationInit
  <2>6. QED
    BY <2>3, <2>5, MintingOffers
<1>5. StreamTyped
  BY <1>1, <1>2, <1>3 DEF StreamTyped, WellMade
<1>6. AtItsEnds
  BY <1>1, <1>3 DEF AtItsEnds
<1>7. NothingIsSpilt
  <2>1. held \o Rest0 = <<>>
    BY <1>1, <1>2, <1>3, TextsJoin DEF Rest0
  <2>2. Citing!Bare(<<>>) = <<>> /\ <<>> \o <<>> = <<>>
    BY BareOfOne, NothingJoins
  <2>3. QED
    BY ONLY <1>1, <1>3, <2>1, <2>2, ExpandOfNothing DEF NothingIsSpilt
<1>8. Citing!UnreadIsWarned
  BY <1>3 DEF Citing!UnreadIsWarned
<1>9. QED
  BY <1>4, <1>5, <1>6, <1>7, <1>8 DEF CiteInv

LEMMA CitationStep ==
  ASSUME CiteInv, [Citing!CitationNext]_citeState
  PROVE  CiteInv'
<1>1. CASE Citing!CitationNext
  <2>1. Citing!Documents = Papers
    BY DEF Papers, Citing!Documents
  <2>2. \/ Citing!CloseStream \/ Citing!SaveAnswer
        \/ \E d, named \in Papers : Citing!CallTool(d, named)
        \/ \E k \in 1..Phrases : \E said \in [1..k -> Citing!Sayings] : Citing!Write(said)
        \/ \E n \in 1..2 : Citing!Feed(n)
    BY <1>1, <2>1 DEF Citing!CitationNext
  <2>3. QED
    BY <2>2, ClosingStreamKeeps, SavingAnswerKeeps, CallingToolKeeps, WritingKeeps, FeedingKeeps
<1>2. CASE UNCHANGED citeState
  <2>1. /\ offer' = offer /\ read' = read /\ draft' = draft /\ held' = held /\ shown' = shown
        /\ spilt' = spilt /\ cited' = cited
    BY <1>2 DEF citeState
  <2>2. Offers(offer)'
    BY <2>1 DEF CiteInv, Offers, Named
  <2>3. StreamTyped'
    <3>1. Visible' = Visible
      BY <2>1 DEF Visible
    <3>2. WellMade(draft.text)' <=> WellMade(draft.text)
      BY <2>1 DEF WellMade, Ids, Cites, Citing!IsCitation, Citing!IsId
    <3>3. QED
      BY <2>1, <3>1, <3>2 DEF CiteInv, StreamTyped
  <2>4. AtItsEnds'
    BY <2>1 DEF CiteInv, AtItsEnds
  <2>5. NothingIsSpilt'
    <3>1. Rest0' = Rest0
      BY <2>1 DEF Rest0
    <3>2. /\ (Meaning(held \o Rest0))' = Meaning(held \o Rest0)
          /\ (Meaning(draft.text))' = Meaning(draft.text) /\ (Citing!Bare(shown))' = Citing!Bare(shown)
      BY ONLY <2>1, <3>1 DEF Meaning, Citing!Bare, Citing!Expand, Citing!Piece, Citing!Replacement, Citing!Resolved, Citing!Names
    <3>3. QED
      BY <2>1, <3>2 DEF CiteInv, NothingIsSpilt
  <2>6. Citing!UnreadIsWarned'
    BY <2>1 DEF CiteInv, Citing!UnreadIsWarned, Citing!Links
  <2>7. QED
    BY <2>2, <2>3, <2>4, <2>5, <2>6 DEF CiteInv
<1>3. QED
  BY <1>1, <1>2

\* All but round brackets is left.
LEMMA BareHas ==
  ASSUME NEW S, NEW s \in Seq(S)
  PROVE  \A i \in DOMAIN s : Round(s[i]) \/ Has(Citing!Bare(s), s[i])
<1> SUFFICES ASSUME NEW i \in 1..Len(s), ~Round(s[i])
             PROVE  Has(Citing!Bare(s), s[i])
  OBVIOUS
<1>1. Ones(s) \in Seq(Seq(S)) /\ Len(Ones(s)) = Len(s) /\ Ones(s)[i] = <<s[i]>>
  BY OnesTyped DEF Ones
<1>2. Has(<<s[i]>>, s[i])
  BY DEF Has
<1>3. Has(Flat(Ones(s)), s[i])
  BY ONLY <1>1, <1>2, i \in 1..Len(s), FlatHas
<1>4. QED
  BY <1>3, ExpandIs

\* What is seen is some of the whole text's meaning, and all of it once the stream is closed.
LEMMA CiteSays ==
  ASSUME CiteInv
  PROVE  Citing!HandlesAreAddresses /\ Citing!StreamIsTheAnswer /\ Citing!UnreadIsWarned
<1>1. Offers(offer) /\ draft \in Drafts /\ held \in Texts /\ shown \in Seq(Visible) /\ WellMade(draft.text)
  BY DEF CiteInv, StreamTyped
<1>2. draft.text \in Texts /\ Len(draft.text) \in Nat /\ draft.come \in Nat /\ draft.come <= Len(draft.text)
  BY <1>1, TextsJoin DEF Drafts, CiteInv, StreamTyped
<1>3. Citing!HandlesAreAddresses
  BY <1>1 DEF Offers, Named, Citing!HandlesAreAddresses, Citing!Names
<1>4. \A d \in Citing!Links(shown) : \E n \in Citing!Names : offer[n] = d
  BY <1>1 DEF Visible, Citing!Links, Citing!Names
<1>5. ASSUME ~spilt
      PROVE  /\ \A i \in DOMAIN shown : shown[i].u \notin {"idHead", "idTail", "handle", "token", "blank"}
             /\ draft.at \in {"written", "saved"} => Citing!Bare(shown) = Citing!Bare(Citing!Expand(draft.text))
  <2> DEFINE coming == Meaning(held \o Rest0)
             whole  == Meaning(draft.text)
             seen   == Citing!Bare(shown)
  <2>1. seen \o coming = whole
    BY <1>5 DEF CiteInv, NothingIsSpilt
  <2>2. Rest0 \in Texts
    <3>1. draft.come + 1 \in Nat /\ 1 <= draft.come + 1 /\ Len(draft.text) <= Len(draft.text)
      BY <1>2
    <3>2. QED
      BY <1>2, <3>1, TextsJoin DEF Rest0
  <2>3. held \o Rest0 \in Texts
    BY <1>1, <2>2, TextsJoin
  <2>4. coming \in Seq(Visible) /\ whole \in Seq(Plain)
    BY <1>1, <1>2, <2>3, ExpandTyped
  <2>10. seen \in Seq(Visible)
    BY ONLY <1>1, BareJoins
  <2>11. \A i \in DOMAIN shown : Round(shown[i]) \/ Has(seen, shown[i])
    BY ONLY <1>1, BareHas
  <2> HIDE DEF coming, whole, seen
  <2>5. \A i \in DOMAIN seen : i \in 1..Len(whole) /\ seen[i] = whole[i]
    BY ONLY <2>1, <2>4, <2>10
  <2>6. \A i \in DOMAIN shown : Round(shown[i]) \/ shown[i] \in Plain
    BY <2>4, <2>5, <2>10, <2>11 DEF Has
  <2>7. \A i \in DOMAIN shown : shown[i].u \notin {"idHead", "idTail", "handle", "token", "blank"}
    BY <2>6 DEF Plain, Round
  <2>8. ASSUME draft.at \in {"written", "saved"}
        PROVE  seen = whole
    <3>1. held = <<>> /\ Rest0 = <<>>
      BY <1>2, <2>8 DEF CiteInv, AtItsEnds, Rest0, Texts
    <3>2. held \o Rest0 = <<>>
      BY <3>1, TextsJoin
    <3>3. coming = <<>>
      BY <3>2, ExpandOfNothing DEF coming
    <3>4. seen \o <<>> = seen
      BY ONLY <2>10
    <3>5. QED
      BY ONLY <2>1, <3>3, <3>4
  <2>9. QED
    BY <2>7, <2>8 DEF whole, seen, Meaning
<1>6. Citing!StreamIsTheAnswer
  BY <1>4, <1>5 DEF Citing!StreamIsTheAnswer
<1>7. QED
  BY <1>3, <1>6 DEF CiteInv

LEMMA CiteHolds ==
  Citing!CitationInit /\ [][Citing!CitationNext]_citeState
    => [](Citing!HandlesAreAddresses /\ Citing!StreamIsTheAnswer /\ Citing!UnreadIsWarned)
<1>1. Citing!CitationInit => CiteInv
  BY CitationsBeginSound
<1>2. CiteInv /\ [Citing!CitationNext]_citeState => CiteInv'
  BY CitationStep
<1>3. CiteInv => Citing!HandlesAreAddresses /\ Citing!StreamIsTheAnswer /\ Citing!UnreadIsWarned
  BY CiteSays
<1>4. QED
  BY <1>1, <1>2, <1>3, PTL

-----------------------------------------------------------------------------
(***************************************************************************)
(* TraceLog.  Whoever writes an event of a trace knows its number, and no  *)
(* other of its process writes one meanwhile.                              *)
(***************************************************************************)
Threads   == Tracing!Threads
EventKinds == {"completed", "failed", "cancelled", "started", "request", "answer"}
Events    == [sequence : Nat, kind : EventKinds, by : Threads, attempt : Nat]
Emissions == [at : {"idle", "read", "number", "commit"}, kind : EventKinds \union {"none"}, saw : Nat, sequence : Nat,
              tries : Nat]
Outcome   == [is : BOOLEAN, status : {"completed", "failed", "cancelled", "running"}, attempts : Nat]
TraceTyped ==
  /\ record \in Outcome /\ timeline \in Seq(Events) /\ emitter \in [Threads -> Emissions]
  /\ stand \in [Threads -> Tracing!Places] /\ number \in [Callers -> Nat] /\ lost \in BOOLEAN

Logs(t) == emitter[t].at # "idle"
\* Before the trace is opened nobody writes, and there is nothing to write to.
Unopened == stand["owner"] = "off" => ~record.is /\ \A t \in Threads : stand[t] = "off" /\ ~Logs(t)
\* A thread of the operation that is numbering an event has the lock, and what it read is so still.
LatchHeld == \A t \in Threads \ {"boot"} : emitter[t].at \in {"number", "commit"} =>
               latch = t /\ (record.is => emitter[t].saw = record.attempts)
NextIsKnown == \A t \in Threads : record.is /\ emitter[t].at = "commit" => emitter[t].sequence \in 1..(Len(timeline) + 1)
SaysItsPart ==
  /\ \A c \in Callers : Logs(c) => \/ stand[c] = "asked" /\ emitter[c].kind = "request"
                                   \/ stand[c] = "ended" /\ emitter[c].kind = "answer"
  /\ Logs("owner") => \/ stand["owner"] = "working" /\ emitter["owner"].kind = "started"
                      \/ stand["owner"] = "completing" /\ emitter["owner"].kind = "completed"
                      \/ stand["owner"] = "failing" /\ emitter["owner"].kind = "failed"
                      \/ stand["owner"] = "cancelling" /\ emitter["owner"].kind = "cancelled"
  /\ Logs("boot") => stand["boot"] = "closing" /\ emitter["boot"].kind = "failed"
\* Until its request is on record a caller has no event.
Unheard == \A c \in Callers : stand[c] \in {"off", "calling"} \/ (stand[c] = "asked" /\ Logs(c)) =>
             \A i \in DOMAIN timeline : timeline[i].by # c
\* What a caller wrote carries its number, and only callers ask.
Answered == \A i \in DOMAIN timeline : /\ timeline[i].by \in Callers => timeline[i].attempt = number[timeline[i].by]
                                       /\ timeline[i].kind = "request" => timeline[i].by \in Callers
Counted == /\ \A i \in Tracing!Asked : timeline[i].attempt = Tracing!Cardinality({j \in Tracing!Asked : j <= i})
           /\ record.is => record.attempts = Tracing!Cardinality(Tracing!Asked)
Heard(kind) == \E i \in DOMAIN timeline : timeline[i].kind = kind
EndsHeard == record.is /\ ~lost => /\ record.status # "running" => Heard(record.status)
                                   /\ stand["owner"] = "completing" /\ ~Logs("owner") => Heard("completed")
                                   /\ stand["owner"] = "failing" /\ ~Logs("owner") => Heard("failed")
                                   /\ stand["owner"] = "cancelling" /\ ~Logs("owner") => Heard("cancelled")
                                   /\ stand["boot"] = "closing" /\ ~Logs("boot") => Heard("failed")
TraceInv == /\ TraceTyped /\ Tracing!EventsAreNumbered /\ Unopened /\ LatchHeld /\ NextIsKnown
            /\ SaysItsPart /\ Unheard /\ Answered /\ Counted /\ EndsHeard

LEMMA ThreadsAre == Threads = Callers \union {"owner", "boot"}
  BY DEF Threads, Tracing!Threads

LEMMA EndingsAre ==
  /\ DOMAIN Tracing!Endings = {"completing", "failing", "cancelling"}
  /\ Tracing!Endings["completing"] = "completed"
  /\ Tracing!Endings["failing"] = "failed"
  /\ Tracing!Endings["cancelling"] = "cancelled"
  BY DEF Tracing!Endings

LEMMA CountIs ==
  ASSUME NEW S
  PROVE  Tracing!Cardinality(S) = Cardinality(S)
  BY Zenon DEF Tracing!Cardinality, Cardinality

LEMMA Nobody == Tracing!Cardinality({}) = 0
  BY FS_EmptySet DEF Tracing!Cardinality, Cardinality

LEMMA CountStays ==
  ASSUME Counted, timeline' = timeline, record'.is => record.is /\ record'.attempts = record.attempts
  PROVE  Counted'
BY DEF Counted, Tracing!Asked

LEMMA OpeningIsSound ==
  ASSUME TraceInv, Tracing!Open
  PROVE  TraceInv'
<1>1. TraceTyped'
  BY DEF TraceInv, TraceTyped, Emissions, Outcome, EventKinds, Threads, Tracing!Places, Tracing!Open, Tracing!Emits, Tracing!NoRecord, Tracing!NoEvent
<1>2. Tracing!EventsAreNumbered'
  BY DEF TraceInv, Tracing!EventsAreNumbered, Tracing!Open
<1>3. Unopened'
  BY DEF Tracing!Threads, Unopened, Tracing!Open
<1>4. LatchHeld'
  BY DEF TraceInv, Logs, Unopened, LatchHeld, Tracing!Open, Tracing!Emits, Tracing!At
<1>5. NextIsKnown'
  BY DEF TraceInv, Logs, Unopened, NextIsKnown, Tracing!Open, Tracing!Emits, Tracing!At
<1>6. SaysItsPart'
  BY TraceAssumption DEF TraceInv, Threads, Tracing!Threads, Logs, Unopened, SaysItsPart, Tracing!Open, Tracing!Emits, Tracing!At
<1>7. Unheard'
  BY DEF TraceInv, Threads, Tracing!Threads, Unopened, Unheard, Tracing!Open, Tracing!At
<1>8. Answered'
  BY DEF TraceInv, Answered, Tracing!Open
<1>9. Counted'
  <2>1. timeline = <<>> /\ timeline' = <<>> /\ record'.attempts = 0
    BY DEF TraceInv, Unopened, Tracing!EventsAreNumbered, Tracing!Open, Tracing!At, Tracing!NoRecord
  <2>2. Tracing!Asked' = {}
    BY <2>1 DEF Tracing!Asked
  <2>3. QED
    BY <2>1, <2>2, Nobody DEF Counted
<1>10. EndsHeard'
  BY DEF TraceInv, Threads, Tracing!Threads, Unopened, EndsHeard, Tracing!Open, Tracing!At, Tracing!NoRecord
<1>11. QED
  BY <1>1, <1>2, <1>3, <1>4, <1>5, <1>6, <1>7, <1>8, <1>9, <1>10 DEF TraceInv

LEMMA RequestingIsSound ==
  ASSUME TraceInv, NEW c \in Callers, Tracing!Request(c)
  PROVE  TraceInv'
<1>0. /\ emitter' = [emitter EXCEPT ![c] = [Tracing!NoEvent EXCEPT !.at = "read", !.kind = "request"]]
      /\ stand' = [stand EXCEPT ![c] = "asked"] /\ stand[c] = "calling" /\ ~Logs(c) /\ c \in Threads /\ c \notin {"owner", "boot"}
      /\ UNCHANGED <<command, record, timeline, latch, number, lost>>
  BY TraceAssumption, ThreadsAre DEF Tracing!Request, Tracing!Emits, Tracing!At, Tracing!Idle, Logs
<1>1. TraceTyped'
  BY <1>0 DEF TraceInv, TraceTyped, Emissions, EventKinds, Tracing!Places, Tracing!NoEvent
<1>2. Tracing!EventsAreNumbered'
  BY <1>0 DEF TraceInv, Tracing!EventsAreNumbered
<1>3. Unopened'
  BY <1>0 DEF TraceInv, Unopened
<1>4. LatchHeld'
  BY <1>0 DEF TraceInv, LatchHeld
<1>5. NextIsKnown'
  BY <1>0 DEF TraceInv, NextIsKnown
<1>6. SaysItsPart'
  BY <1>0 DEF TraceInv, TraceTyped, Logs, SaysItsPart
<1>7. Unheard'
  BY <1>0 DEF TraceInv, Logs, Unheard
<1>8. Answered'
  BY <1>0 DEF TraceInv, Answered
<1>9. Counted'
  BY CountStays DEF TraceInv, Tracing!Request
<1>10. EndsHeard'
  BY <1>0 DEF TraceInv, Logs, EndsHeard, Heard
<1>11. QED
  BY <1>1, <1>2, <1>3, <1>4, <1>5, <1>6, <1>7, <1>8, <1>9, <1>10 DEF TraceInv

LEMMA AnsweringIsSound ==
  ASSUME TraceInv, NEW c \in Callers, Tracing!Answer(c)
  PROVE  TraceInv'
<1>0. /\ emitter' = [emitter EXCEPT ![c] = [Tracing!NoEvent EXCEPT !.at = "read", !.kind = "answer"]]
      /\ stand' = [stand EXCEPT ![c] = "ended"] /\ stand[c] = "asked" /\ ~Logs(c) /\ c \in Threads /\ c \notin {"owner", "boot"}
      /\ UNCHANGED <<command, record, timeline, latch, number, lost>>
  BY TraceAssumption, ThreadsAre DEF Tracing!Answer, Tracing!Emits, Tracing!At, Tracing!Idle, Logs
<1>1. TraceTyped'
  BY <1>0 DEF TraceInv, TraceTyped, Emissions, EventKinds, Tracing!Places, Tracing!NoEvent
<1>2. Tracing!EventsAreNumbered'
  BY <1>0 DEF TraceInv, Tracing!EventsAreNumbered
<1>3. Unopened'
  BY <1>0 DEF TraceInv, Unopened
<1>4. LatchHeld'
  BY <1>0 DEF TraceInv, LatchHeld
<1>5. NextIsKnown'
  BY <1>0 DEF TraceInv, NextIsKnown
<1>6. SaysItsPart'
  BY <1>0 DEF TraceInv, TraceTyped, Logs, SaysItsPart
<1>7. Unheard'
  BY <1>0 DEF TraceInv, TraceTyped, Logs, Unheard
<1>8. Answered'
  BY <1>0 DEF TraceInv, Answered
<1>9. Counted'
  BY CountStays DEF TraceInv, Tracing!Answer
<1>10. EndsHeard'
  BY <1>0 DEF TraceInv, Logs, EndsHeard, Heard
<1>11. QED
  BY <1>1, <1>2, <1>3, <1>4, <1>5, <1>6, <1>7, <1>8, <1>9, <1>10 DEF TraceInv

LEMMA FinishingWrites ==
  ASSUME TraceInv, stand["owner"] = "working", ~Logs("owner"),
         NEW p, NEW k,
         \/ p = "completing" /\ k = "completed"
         \/ p = "failing" /\ k = "failed"
         \/ p = "cancelling" /\ k = "cancelled",
         stand' = [stand EXCEPT !["owner"] = p], Tracing!Emits("owner", k),
         UNCHANGED <<command, record, timeline, latch, number, lost>>
  PROVE  TraceInv'
<1>0. /\ "owner" \in Threads /\ "boot" \in Threads /\ "owner" \notin Callers /\ "boot" \notin Callers
      /\ \/ p = "completing" /\ k = "completed"
         \/ p = "failing" /\ k = "failed"
         \/ p = "cancelling" /\ k = "cancelled"
      /\ stand' = [stand EXCEPT !["owner"] = p]
      /\ emitter' = [emitter EXCEPT !["owner"] = [Tracing!NoEvent EXCEPT !.at = "read", !.kind = k]]
  BY TraceAssumption, ThreadsAre DEF Tracing!Emits
<1>1. TraceTyped'
  <2>1. emitter \in [Threads -> Emissions] /\ stand \in [Threads -> Tracing!Places]
    BY DEF TraceInv, TraceTyped
  <2>2. p \in Tracing!Places /\ k \in EventKinds
    BY <1>0 DEF Tracing!Places, EventKinds
  <2>3. [Tracing!NoEvent EXCEPT !.at = "read", !.kind = k] \in Emissions
    BY <2>2 DEF Tracing!NoEvent, Emissions
  <2>4. emitter' \in [Threads -> Emissions] /\ stand' \in [Threads -> Tracing!Places]
    BY <1>0, <2>1, <2>2, <2>3
  <2>5. QED
    BY <2>4 DEF TraceInv, TraceTyped
<1>2. Tracing!EventsAreNumbered'
  BY DEF TraceInv, Tracing!EventsAreNumbered
<1>3. Unopened'
  BY DEF Unopened
<1>4. LatchHeld'
  BY <1>0 DEF TraceInv, LatchHeld
<1>5. NextIsKnown'
  BY <1>0 DEF TraceInv, NextIsKnown
<1>6. SaysItsPart'
  BY <1>0 DEF TraceInv, TraceTyped, Logs, SaysItsPart
<1>7. Unheard'
  BY <1>0 DEF TraceInv, Logs, Unheard
<1>8. Answered'
  BY DEF TraceInv, Answered
<1>9. Counted'
  BY CountStays DEF TraceInv, TraceTyped, Outcome
<1>10. EndsHeard'
  BY <1>0 DEF TraceInv, TraceTyped, Logs, EndsHeard, Heard
<1>11. QED
  BY <1>1, <1>2, <1>3, <1>4, <1>5, <1>6, <1>7, <1>8, <1>9, <1>10 DEF TraceInv

LEMMA FinishingLeaves ==
  ASSUME TraceInv, stand["owner"] = "working", ~Logs("owner"), stand' = [stand EXCEPT !["owner"] = "ended"],
         UNCHANGED <<command, record, timeline, latch, number, lost, emitter>>
  PROVE  TraceInv'
<1>0. "owner" \in Threads /\ "boot" \in Threads /\ "owner" \notin Callers /\ "boot" \notin Callers
  BY TraceAssumption, ThreadsAre
<1>1. TraceTyped'
  BY <1>0, ThreadsAre DEF TraceInv, TraceTyped, Tracing!Places, Logs
<1>2. Tracing!EventsAreNumbered'
  BY DEF TraceInv, Tracing!EventsAreNumbered
<1>3. Unopened'
  BY DEF Unopened
<1>4. LatchHeld'
  BY DEF TraceInv, LatchHeld
<1>5. NextIsKnown'
  BY DEF TraceInv, NextIsKnown
<1>6. SaysItsPart'
  BY DEF TraceInv, Logs, SaysItsPart
<1>7. Unheard'
  BY DEF TraceInv, Logs, Unheard
<1>8. Answered'
  BY DEF TraceInv, Answered
<1>9. Counted'
  BY CountStays DEF TraceInv, TraceTyped, Outcome
<1>10. EndsHeard'
  BY DEF TraceInv, Logs, EndsHeard, Heard
<1>11. QED
  BY <1>1, <1>2, <1>3, <1>4, <1>5, <1>6, <1>7, <1>8, <1>9, <1>10 DEF TraceInv

LEMMA FinishingIsSound ==
  ASSUME TraceInv, Tracing!Finish
  PROVE  TraceInv'
<1>1. /\ stand["owner"] = "working" /\ ~Logs("owner")
      /\ UNCHANGED <<command, record, timeline, latch, number, lost>>
  BY DEF Tracing!Finish, Tracing!At, Tracing!Idle, Logs
<1>2. CASE UNCHANGED emitter /\ stand' = [stand EXCEPT !["owner"] = "ended"]
  BY <1>1, <1>2, FinishingLeaves
<1>3. ASSUME NEW ending \in DOMAIN Tracing!Endings, stand' = [stand EXCEPT !["owner"] = ending],
             Tracing!Emits("owner", Tracing!Endings[ending])
      PROVE  TraceInv'
  <2>1. \/ ending = "completing" /\ Tracing!Endings[ending] = "completed"
        \/ ending = "failing" /\ Tracing!Endings[ending] = "failed"
        \/ ending = "cancelling" /\ Tracing!Endings[ending] = "cancelled"
    BY EndingsAre
  <2>2. QED
    BY <1>1, <1>3, <2>1, FinishingWrites
<1>4. QED
  BY <1>2, <1>3 DEF Tracing!Finish

LEMMA SettingIsSound ==
  ASSUME TraceInv, Tracing!SetStatus
  PROVE  TraceInv'
<1>1. TraceTyped'
  BY EndingsAre DEF TraceInv, TraceTyped, Outcome, Tracing!Places, Tracing!SetStatus
<1>2. Tracing!EventsAreNumbered'
  BY DEF TraceInv, Tracing!EventsAreNumbered, Tracing!SetStatus
<1>3. Unopened'
  BY EndingsAre DEF Unopened, Tracing!SetStatus
<1>4. LatchHeld'
  BY DEF TraceInv, LatchHeld, Tracing!SetStatus
<1>5. NextIsKnown'
  BY DEF TraceInv, NextIsKnown, Tracing!SetStatus
<1>6. SaysItsPart'
  BY EndingsAre DEF TraceInv, Logs, SaysItsPart, Tracing!SetStatus, Tracing!Idle
<1>7. Unheard'
  BY EndingsAre DEF TraceInv, Logs, Unheard, Tracing!SetStatus
<1>8. Answered'
  BY DEF TraceInv, Answered, Tracing!SetStatus
<1>9. Counted'
  BY CountStays DEF TraceInv, Tracing!SetStatus
<1>10. EndsHeard'
  BY EndingsAre DEF TraceInv, TraceTyped, Logs, EndsHeard, Heard, Tracing!SetStatus, Tracing!Idle
<1>11. QED
  BY <1>1, <1>2, <1>3, <1>4, <1>5, <1>6, <1>7, <1>8, <1>9, <1>10 DEF TraceInv

LEMMA DyingIsSound ==
  ASSUME TraceInv, Tracing!Die
  PROVE  TraceInv'
<1>1. TraceTyped'
  BY DEF TraceInv, TraceTyped, Emissions, Threads, Tracing!Places, Tracing!Die, Tracing!NoEvent
<1>2. Tracing!EventsAreNumbered'
  BY DEF TraceInv, Tracing!EventsAreNumbered, Tracing!Die
<1>3. Unopened'
  BY DEF Tracing!Threads, Unopened, Tracing!Die
<1>4. LatchHeld'
  BY DEF Threads, LatchHeld, Tracing!Die, Tracing!NoEvent
<1>5. NextIsKnown'
  BY DEF TraceInv, Threads, NextIsKnown, Tracing!Die, Tracing!NoEvent
<1>6. SaysItsPart'
  BY DEF TraceInv, Tracing!Threads, Logs, SaysItsPart, Tracing!Die, Tracing!NoEvent
<1>7. Unheard'
  BY TraceAssumption DEF Tracing!Threads, Unheard, Tracing!Die
<1>8. Answered'
  BY DEF TraceInv, Answered, Tracing!Die
<1>9. Counted'
  BY CountStays DEF TraceInv, Tracing!Die
<1>10. EndsHeard'
  BY DEF TraceInv, Tracing!Threads, Logs, EndsHeard, Heard, Tracing!Die
<1>11. QED
  BY <1>1, <1>2, <1>3, <1>4, <1>5, <1>6, <1>7, <1>8, <1>9, <1>10 DEF TraceInv

LEMMA BootingIsSound ==
  ASSUME TraceInv, Tracing!Boot
  PROVE  TraceInv'
<1>1. TraceTyped'
  BY DEF TraceInv, TraceTyped, Emissions, EventKinds, Tracing!Places, Tracing!Boot, Tracing!Emits, Tracing!NoEvent
<1>2. Tracing!EventsAreNumbered'
  BY DEF TraceInv, Tracing!EventsAreNumbered, Tracing!Boot
<1>3. Unopened'
  BY DEF TraceInv, Unopened, Tracing!Boot
<1>4. LatchHeld'
  BY DEF TraceInv, LatchHeld, Tracing!Boot, Tracing!Emits
<1>5. NextIsKnown'
  BY DEF TraceInv, NextIsKnown, Tracing!Boot, Tracing!Emits
<1>6. SaysItsPart'
  BY TraceAssumption DEF TraceInv, TraceTyped, Logs, SaysItsPart, Tracing!Boot, Tracing!Emits
<1>7. Unheard'
  BY TraceAssumption DEF TraceInv, Logs, Unheard, Tracing!Boot, Tracing!Emits
<1>8. Answered'
  BY DEF TraceInv, Answered, Tracing!Boot
<1>9. Counted'
  BY CountStays DEF TraceInv, Tracing!Boot
<1>10. EndsHeard'
  BY DEF TraceInv, TraceTyped, Logs, EndsHeard, Heard, Tracing!Boot, Tracing!Emits
<1>11. QED
  BY <1>1, <1>2, <1>3, <1>4, <1>5, <1>6, <1>7, <1>8, <1>9, <1>10 DEF TraceInv

LEMMA ClosingIsSound ==
  ASSUME TraceInv, Tracing!CloseTrace
  PROVE  TraceInv'
<1>1. TraceTyped'
  BY DEF TraceInv, TraceTyped, Outcome, Tracing!Places, Tracing!CloseTrace, Tracing!Closed
<1>2. Tracing!EventsAreNumbered'
  BY DEF TraceInv, Tracing!EventsAreNumbered, Tracing!CloseTrace, Tracing!Closed
<1>3. Unopened'
  BY DEF TraceInv, Logs, Unopened, Tracing!CloseTrace
<1>4. LatchHeld'
  BY DEF TraceInv, LatchHeld, Tracing!CloseTrace, Tracing!Closed
<1>5. NextIsKnown'
  BY DEF TraceInv, NextIsKnown, Tracing!CloseTrace
<1>6. SaysItsPart'
  BY DEF TraceInv, Logs, SaysItsPart, Tracing!CloseTrace, Tracing!At, Tracing!Idle
<1>7. Unheard'
  BY TraceAssumption DEF TraceInv, Logs, Unheard, Tracing!CloseTrace
<1>8. Answered'
  BY DEF TraceInv, Answered, Tracing!CloseTrace
<1>9. Counted'
  BY CountStays DEF TraceInv, Tracing!CloseTrace, Tracing!Closed
<1>10. EndsHeard'
  BY DEF TraceInv, Logs, EndsHeard, Heard, Tracing!CloseTrace, Tracing!At, Tracing!Idle, Tracing!Closed
<1>11. QED
  BY <1>1, <1>2, <1>3, <1>4, <1>5, <1>6, <1>7, <1>8, <1>9, <1>10 DEF TraceInv

LEMMA MissingStatusIsSound ==
  ASSUME TraceInv, Tracing!StatusFails
  PROVE  TraceInv'
<1>1. TraceTyped'
  BY EndingsAre DEF TraceInv, TraceTyped, Tracing!Places, Tracing!StatusFails
<1>2. Tracing!EventsAreNumbered'
  BY EndingsAre DEF TraceInv, Tracing!EventsAreNumbered, Tracing!StatusFails
<1>3. Unopened'
  BY EndingsAre DEF TraceInv, TraceTyped, Threads, Tracing!Threads, Unopened, Tracing!StatusFails, Tracing!At
<1>4. LatchHeld'
  BY EndingsAre DEF TraceInv, LatchHeld, Tracing!StatusFails
<1>5. NextIsKnown'
  BY EndingsAre DEF TraceInv, NextIsKnown, Tracing!StatusFails
<1>6. SaysItsPart'
  BY EndingsAre DEF TraceInv, TraceTyped, Threads, Tracing!Threads, Logs, SaysItsPart, Tracing!StatusFails, Tracing!At, Tracing!Idle
<1>7. Unheard'
  <2>1. \A c \in Callers : stand'[c] = stand[c]
    BY EndingsAre, TraceAssumption, ThreadsAre DEF TraceInv, TraceTyped, Tracing!StatusFails
  <2>2. UNCHANGED <<emitter, timeline>>
    BY EndingsAre DEF Tracing!StatusFails
  <2>3. QED
    BY <2>1, <2>2 DEF TraceInv, Unheard, Logs
<1>8. Answered'
  BY EndingsAre DEF TraceInv, Answered, Tracing!StatusFails
<1>9. Counted'
  BY CountStays DEF TraceInv, Tracing!StatusFails
<1>10. EndsHeard'
  BY EndingsAre DEF TraceInv, TraceTyped, Threads, Tracing!Threads, Logs, EndsHeard, Heard, Tracing!StatusFails
<1>11. QED
  BY <1>1, <1>2, <1>3, <1>4, <1>5, <1>6, <1>7, <1>8, <1>9, <1>10 DEF TraceInv

LEMMA DeletingIsSound ==
  ASSUME TraceInv, NEW prunes \in BOOLEAN, Tracing!DeleteTrace(prunes)
  PROVE  TraceInv'
<1>1. TraceTyped'
  BY DEF TraceInv, TraceTyped, Outcome, Tracing!DeleteTrace, Tracing!NoRecord
<1>2. Tracing!EventsAreNumbered'
  BY DEF Tracing!EventsAreNumbered, Tracing!DeleteTrace
<1>3. Unopened'
  BY DEF TraceInv, Unopened, Tracing!DeleteTrace
<1>4. LatchHeld'
  BY DEF TraceInv, LatchHeld, Tracing!DeleteTrace, Tracing!NoRecord
<1>5. NextIsKnown'
  BY DEF NextIsKnown, Tracing!DeleteTrace, Tracing!NoRecord
<1>6. SaysItsPart'
  BY DEF TraceInv, Logs, SaysItsPart, Tracing!DeleteTrace
<1>7. Unheard'
  BY DEF Unheard, Tracing!DeleteTrace
<1>8. Answered'
  BY DEF Answered, Tracing!DeleteTrace
<1>9. Counted'
  BY Nobody DEF Counted, Tracing!Asked, Tracing!DeleteTrace, Tracing!NoRecord
<1>10. EndsHeard'
  BY DEF EndsHeard, Tracing!DeleteTrace, Tracing!NoRecord
<1>11. QED
  BY <1>1, <1>2, <1>3, <1>4, <1>5, <1>6, <1>7, <1>8, <1>9, <1>10 DEF TraceInv

-----------------------------------------------------------------------------
(* emit_event: an event is given up, tried again, or appended.             *)
LEMMA GivingUpIsSound ==
  ASSUME TraceInv, NEW t \in Threads, Logs(t), ~record.is \/ lost', lost => lost', lost' \in BOOLEAN, Tracing!Gives(t),
         UNCHANGED <<record, timeline, stand, number>>
  PROVE  TraceInv'
<1>0. "owner" \in Threads /\ "boot" \in Threads /\ "free" \notin Threads /\ Callers \subseteq Threads
      /\ "owner" \notin Callers /\ "boot" \notin Callers
  BY TraceAssumption, ThreadsAre
<1>1. TraceTyped'
  BY DEF TraceInv, TraceTyped, Emissions, Tracing!NoEvent, Tracing!Gives
<1>2. Tracing!EventsAreNumbered'
  BY DEF TraceInv, Tracing!EventsAreNumbered
<1>3. Unopened'
  BY DEF TraceInv, Unopened
<1>4. LatchHeld'
  BY DEF TraceInv, TraceTyped, Tracing!NoEvent, Tracing!Gives, LatchHeld, Tracing!LetGo
<1>5. NextIsKnown'
  BY DEF TraceInv, Tracing!NoEvent, Tracing!Gives, NextIsKnown
<1>6. SaysItsPart'
  BY DEF TraceInv, Logs, Tracing!NoEvent, Tracing!Gives, SaysItsPart
<1>7. Unheard'
  BY DEF TraceInv, Logs, Tracing!Gives, Unheard
<1>8. Answered'
  BY DEF TraceInv, Answered
<1>9. Counted'
  BY CountStays DEF TraceInv, TraceTyped, Outcome
<1>10. EndsHeard'
  BY DEF EndsHeard
<1>11. QED
  BY <1>1, <1>2, <1>3, <1>4, <1>5, <1>6, <1>7, <1>8, <1>9, <1>10 DEF TraceInv

LEMMA TryingAgainIsSound ==
  ASSUME TraceInv, NEW t \in Threads, Logs(t), NEW n \in Nat,
         emitter' = [emitter EXCEPT ![t].at = "read", ![t].tries = n],
         UNCHANGED <<record, timeline, latch, stand, number, lost>>
  PROVE  TraceInv'
<1>0. "owner" \in Threads /\ "boot" \in Threads /\ "free" \notin Threads /\ Callers \subseteq Threads
      /\ "owner" \notin Callers /\ "boot" \notin Callers
  BY TraceAssumption, ThreadsAre
<1>1. TraceTyped'
  BY <1>0 DEF TraceInv, TraceTyped, Emissions, EventKinds, Logs, Tracing!NoEvent
<1>2. Tracing!EventsAreNumbered'
  BY DEF TraceInv, Tracing!EventsAreNumbered
<1>3. Unopened'
  BY DEF TraceInv, Unopened
<1>4. LatchHeld'
  BY DEF TraceInv, TraceTyped, LatchHeld
<1>5. NextIsKnown'
  BY DEF TraceInv, TraceTyped, NextIsKnown
<1>6. SaysItsPart'
  BY <1>0 DEF TraceInv, TraceTyped, Logs, SaysItsPart
<1>7. Unheard'
  BY <1>0 DEF TraceInv, TraceTyped, Logs, Unheard
<1>8. Answered'
  BY DEF TraceInv, Answered
<1>9. Counted'
  BY CountStays DEF TraceInv, TraceTyped, Outcome
<1>10. EndsHeard'
  BY <1>0 DEF TraceInv, TraceTyped, Logs, EndsHeard, Heard
<1>11. QED
  BY <1>1, <1>2, <1>3, <1>4, <1>5, <1>6, <1>7, <1>8, <1>9, <1>10 DEF TraceInv

LEMMA RetryingIsSound ==
  ASSUME TraceInv, NEW t \in Threads, Logs(t), Tracing!Retries(t), UNCHANGED <<record, timeline, stand, number>>
  PROVE  TraceInv'
<1>1. emitter[t].tries + 1 \in Nat
  BY DEF TraceInv, TraceTyped, Emissions
<1>2. CASE emitter[t].tries = 2
  BY <1>2, GivingUpIsSound DEF Tracing!Retries
<1>3. CASE emitter[t].tries # 2
  <2>1. /\ emitter' = [emitter EXCEPT ![t].at = "read", ![t].tries = emitter[t].tries + 1]
        /\ UNCHANGED <<latch, lost>>
    BY <1>3 DEF Tracing!Retries
  <2>2. QED
    BY <1>1, <2>1, TryingAgainIsSound
<1>4. QED
  BY <1>2, <1>3

LEMMA TakingLockIsSound ==
  ASSUME TraceInv, NEW t \in Threads, emitter[t].at = "read", record.is, Tracing!Latched(t), latch' = Tracing!Held(t),
         emitter' = [emitter EXCEPT ![t].at = "number", ![t].saw = record.attempts],
         UNCHANGED <<record, timeline, stand, number, lost>>
  PROVE  TraceInv'
<1>0. "owner" \in Threads /\ "boot" \in Threads /\ "free" \notin Threads /\ Callers \subseteq Threads
      /\ "owner" \notin Callers /\ "boot" \notin Callers
  BY TraceAssumption, ThreadsAre
<1>1. TraceTyped'
  BY <1>0 DEF TraceInv, TraceTyped, Emissions, EventKinds, Outcome
<1>2. Tracing!EventsAreNumbered'
  BY DEF TraceInv, Tracing!EventsAreNumbered
<1>3. Unopened'
  BY DEF TraceInv, Unopened
<1>4. LatchHeld'
  BY <1>0 DEF TraceInv, TraceTyped, LatchHeld, Tracing!Latched, Tracing!Held
<1>5. NextIsKnown'
  BY DEF TraceInv, TraceTyped, NextIsKnown
<1>6. SaysItsPart'
  BY <1>0 DEF TraceInv, TraceTyped, Logs, SaysItsPart
<1>7. Unheard'
  BY <1>0 DEF TraceInv, TraceTyped, Logs, Unheard
<1>8. Answered'
  BY DEF TraceInv, Answered
<1>9. Counted'
  BY CountStays DEF TraceInv, TraceTyped, Outcome
<1>10. EndsHeard'
  BY <1>0 DEF TraceInv, TraceTyped, Logs, EndsHeard, Heard
<1>11. QED
  BY <1>1, <1>2, <1>3, <1>4, <1>5, <1>6, <1>7, <1>8, <1>9, <1>10 DEF TraceInv

LEMMA ReadingTraceIsSound ==
  ASSUME TraceInv, NEW t \in Threads, Tracing!ReadTrace(t)
  PROVE  TraceInv'
<1>1. CASE record.is
  BY <1>1, TakingLockIsSound DEF Tracing!ReadTrace
<1>2. CASE ~record.is
  <2>1. lost \in BOOLEAN
    BY DEF TraceInv, TraceTyped
  <2>2. QED
    BY <1>2, <2>1, GivingUpIsSound DEF Tracing!ReadTrace, Logs
<1>3. QED
  BY <1>1, <1>2

LEMMA NumberingIsSound ==
  ASSUME TraceInv, NEW t \in Threads, emitter[t].at = "number", NEW n \in Nat, n = Len(timeline) + 1,
         emitter' = [emitter EXCEPT ![t].at = "commit", ![t].sequence = n],
         UNCHANGED <<record, timeline, latch, stand, number, lost>>
  PROVE  TraceInv'
<1>0. "owner" \in Threads /\ "boot" \in Threads /\ "free" \notin Threads /\ Callers \subseteq Threads
      /\ "owner" \notin Callers /\ "boot" \notin Callers
  BY TraceAssumption, ThreadsAre
<1>1. TraceTyped'
  BY <1>0 DEF TraceInv, TraceTyped, Emissions, EventKinds, Logs, Tracing!NoEvent
<1>2. Tracing!EventsAreNumbered'
  BY DEF TraceInv, Tracing!EventsAreNumbered
<1>3. Unopened'
  BY DEF TraceInv, Logs, Unopened
<1>4. LatchHeld'
  BY DEF TraceInv, TraceTyped, LatchHeld
<1>5. NextIsKnown'
  BY DEF TraceInv, TraceTyped, NextIsKnown
<1>6. SaysItsPart'
  BY <1>0 DEF TraceInv, TraceTyped, Logs, SaysItsPart
<1>7. Unheard'
  BY <1>0 DEF TraceInv, TraceTyped, Logs, Unheard
<1>8. Answered'
  BY DEF TraceInv, Answered
<1>9. Counted'
  BY CountStays DEF TraceInv, TraceTyped, Outcome
<1>10. EndsHeard'
  BY <1>0 DEF TraceInv, TraceTyped, Logs, EndsHeard, Heard
<1>11. QED
  BY <1>1, <1>2, <1>3, <1>4, <1>5, <1>6, <1>7, <1>8, <1>9, <1>10 DEF TraceInv


\* An event is appended under the number that is next.
LEMMA AppendingIsSound ==
  ASSUME TraceInv, NEW t \in Threads, emitter[t].at = "commit", record.is,
         ~\E i \in DOMAIN timeline : timeline[i].sequence = emitter[t].sequence,
         NEW asks, asks = (emitter[t].kind = "request"), NEW a, a = Tracing!Attempt(t),
         timeline' = Append(timeline, [sequence |-> emitter[t].sequence, kind |-> emitter[t].kind, by |-> t, attempt |-> a]),
         record' = IF asks THEN [record EXCEPT !.attempts = emitter[t].saw + 1] ELSE record,
         number' = IF asks THEN [number EXCEPT ![t] = a] ELSE number,
         Tracing!Gives(t), UNCHANGED <<stand, lost>>
  PROVE  TraceInv'
<1> DEFINE e == emitter[t]
           n == Len(timeline) + 1
           v == [sequence |-> e.sequence, kind |-> e.kind, by |-> t, attempt |-> a]
<1>1. /\ e \in Emissions /\ timeline \in Seq(Events) /\ number \in [Callers -> Nat] /\ record \in Outcome /\ record'.is
      /\ "owner" \in Threads /\ "boot" \in Threads /\ "free" \notin Threads /\ Callers \subseteq Threads
      /\ "owner" \notin Callers /\ "boot" \notin Callers
  BY TraceAssumption, ThreadsAre DEF TraceInv, TraceTyped, Outcome
<1>2. /\ e.kind \in EventKinds
      /\ e.kind \in {"request", "answer"} <=> t \in Callers
      /\ e.kind = "request" => stand[t] = "asked" /\ t # "boot"
      /\ e.kind = "answer" => stand[t] = "ended"
      /\ e.kind = "started" => t = "owner" /\ stand[t] = "working"
      /\ e.kind = "completed" => t = "owner" /\ stand[t] = "completing"
      /\ e.kind = "failed" => (t = "owner" /\ stand[t] = "failing") \/ (t = "boot" /\ stand[t] = "closing")
      /\ e.kind = "cancelled" => t = "owner" /\ stand[t] = "cancelling"
  BY <1>1, ThreadsAre DEF TraceInv, SaysItsPart, Logs, EventKinds
<1>3. asks => a = record.attempts + 1 /\ e.saw = record.attempts /\ record.attempts \in Nat
  BY <1>1, <1>2 DEF TraceInv, LatchHeld, Tracing!Attempt, Tracing!Asks, Outcome
<1>4. a \in Nat /\ (e.kind = "answer" => a = number[t])
  <2>1. CASE e.kind = "request"
    <3>1. asks
      BY <2>1
    <3>2. QED
      BY <1>3, <2>1, <3>1
  <2>2. CASE e.kind = "answer"
    <3>1. a = number[t]
      BY <2>2 DEF Tracing!Attempt, Tracing!Asks
    <3>2. number[t] \in Nat
      BY <1>1, <1>2, <2>2
    <3>3. QED
      BY <3>1, <3>2
  <2>3. CASE e.kind \notin {"request", "answer"}
    BY <2>3 DEF Tracing!Attempt, Tracing!Asks
  <2>4. QED
    BY <2>1, <2>2, <2>3
<1>5. n \in Nat /\ e.sequence = n
  <2>1. e.sequence \in 1..n /\ n \in Nat
    BY <1>1 DEF TraceInv, NextIsKnown
  <2>2. \A i \in 1..Len(timeline) : i \in DOMAIN timeline /\ timeline[i].sequence = i
    BY <1>1 DEF TraceInv, Tracing!EventsAreNumbered
  <2>3. QED
    BY <1>1, <2>1, <2>2
<1>6. v \in Events
  BY <1>1, <1>2, <1>4 DEF Events, Emissions
<1> HIDE DEF v
<1>7. /\ timeline' = Append(timeline, v) /\ timeline' \in Seq(Events) /\ Len(timeline') = n
      /\ DOMAIN timeline' = 1..n /\ DOMAIN timeline = 1..(n - 1) /\ timeline'[n] = v
      /\ \A i \in DOMAIN timeline : i \in DOMAIN timeline' /\ i # n /\ timeline'[i] = timeline[i]
      /\ \A i \in DOMAIN timeline' : i = n \/ i \in DOMAIN timeline
  BY <1>1, <1>5, <1>6 DEF v
<1>8. v.sequence = n /\ v.kind = e.kind /\ v.by = t /\ v.attempt = a
  BY <1>5 DEF v
<1>9. /\ emitter' = [emitter EXCEPT ![t] = Tracing!NoEvent] /\ latch' = Tracing!LetGo(t)
      /\ emitter' \in [Threads -> Emissions] /\ ~Logs(t)' /\ Logs(t)
      /\ \A u \in Threads : u # t => emitter'[u] = emitter[u]
  BY DEF TraceInv, TraceTyped, Tracing!Gives, Tracing!NoEvent, Logs, Emissions
<1>10. record' \in Outcome /\ record'.status = record.status /\ (~asks => record' = record)
       /\ (asks => record'.attempts = record.attempts + 1)
  <2>1. CASE asks
    <3>1. record' = [record EXCEPT !.attempts = record.attempts + 1]
      BY <1>3, <2>1
    <3>2. record.attempts + 1 \in Nat /\ record \in Outcome
      BY <1>1, <1>3, <2>1
    <3>3. record' \in Outcome
      BY <3>1, <3>2 DEF Outcome
    <3>4. record'.status = record.status /\ record'.attempts = record.attempts + 1
      BY <3>1, <3>2 DEF Outcome
    <3>5. QED
      BY <2>1, <3>3, <3>4
  <2>2. CASE ~asks
    BY <1>1, <2>2
  <2>3. QED
    BY <2>1, <2>2
<1>11. number' \in [Callers -> Nat] /\ (\A c \in Callers : c # t => number'[c] = number[c])
       /\ (t \in Callers => number'[t] = a)
  BY <1>1, <1>2, <1>4
<1> HIDE DEF e, n
<1>12. TraceTyped'
  BY <1>7, <1>9, <1>10, <1>11 DEF TraceInv, TraceTyped
<1>13. Tracing!EventsAreNumbered'
  BY <1>1, <1>7, <1>8 DEF TraceInv, Tracing!EventsAreNumbered
<1>14. Unopened'
  BY <1>1, <1>9 DEF TraceInv, Unopened
<1>15. LatchHeld'
  <2> SUFFICES ASSUME NEW u \in Threads \ {"boot"}, emitter'[u].at \in {"number", "commit"}
               PROVE  latch' = u /\ (record'.is => emitter'[u].saw = record'.attempts)
    BY DEF LatchHeld
  <2>1. u # t /\ emitter'[u] = emitter[u]
    BY <1>9 DEF Logs
  <2>2. latch = u /\ emitter[u].saw = record.attempts
    BY <2>1 DEF TraceInv, LatchHeld
  <2>3. ~asks
    <3>1. asks => latch = t
      BY <1>2 DEF TraceInv, LatchHeld, e
    <3>2. QED
      BY <2>1, <2>2, <3>1
  <2>4. QED
    BY <1>9, <1>10, <2>1, <2>2, <2>3 DEF Tracing!LetGo
<1>16. NextIsKnown'
  <2> SUFFICES ASSUME NEW u \in Threads, emitter'[u].at = "commit"
               PROVE  emitter'[u].sequence \in 1..(Len(timeline') + 1)
    BY DEF NextIsKnown
  <2>1. emitter'[u] = emitter[u]
    BY <1>9 DEF Logs
  <2>2. emitter[u].sequence \in 1..(Len(timeline) + 1)
    BY <2>1 DEF TraceInv, NextIsKnown
  <2>3. QED
    BY <1>5, <1>7, <2>1, <2>2 DEF n
<1>17. SaysItsPart'
  BY <1>1, <1>9 DEF TraceInv, SaysItsPart, Logs
<1>18. Unheard'
  <2> SUFFICES ASSUME NEW c \in Callers, stand[c] \in {"off", "calling"} \/ (stand[c] = "asked" /\ Logs(c)'),
                      NEW i \in DOMAIN timeline'
               PROVE  timeline'[i].by # c
    BY DEF Unheard
  <2>1. c # t
    BY <1>2, <1>9
  <2>2. Logs(c)' = Logs(c)
    BY <1>1, <1>9, <2>1 DEF Logs
  <2>3. QED
    BY <1>7, <1>8, <2>1, <2>2 DEF TraceInv, Unheard
<1>19. Answered'
  <2> SUFFICES ASSUME NEW i \in DOMAIN timeline'
               PROVE  /\ timeline'[i].by \in Callers => timeline'[i].attempt = number'[timeline'[i].by]
                      /\ timeline'[i].kind = "request" => timeline'[i].by \in Callers
    BY DEF Answered
  <2>1. CASE i = n
    BY <1>2, <1>7, <1>8, <1>11, <2>1
  <2>2. CASE i \in DOMAIN timeline
    <3>1. timeline'[i] = timeline[i]
      BY <1>7, <2>2
    <3>2. timeline[i].by \in Callers => number'[timeline[i].by] = number[timeline[i].by]
      <4>1. CASE timeline[i].by # t
        BY <1>11, <4>1
      <4>2. CASE timeline[i].by = t
        <5>1. ~asks
          BY <1>2, <1>9, <2>2, <4>2 DEF TraceInv, Unheard, e
        <5>2. QED
          BY <5>1
      <4>3. QED
        BY <4>1, <4>2
    <3>3. QED
      BY <2>2, <3>1, <3>2 DEF TraceInv, Answered
  <2>3. QED
    BY <1>7, <2>1, <2>2
<1>20. Counted'
  <2> DEFINE A == Tracing!Asked
             B == Tracing!Asked'
  <2>1. A \in SUBSET (1..(n - 1)) /\ B = IF asks THEN A \union {n} ELSE A
    <3>1. timeline'[n].kind = "request" <=> asks
      BY <1>7, <1>8 DEF e
    <3>2. A = {i \in DOMAIN timeline : timeline[i].kind = "request"}
      BY DEF Tracing!Asked
    <3>3. B = {i \in DOMAIN timeline' : timeline'[i].kind = "request"}
      BY DEF Tracing!Asked
    <3> HIDE DEF A, B
    <3>4. n \in DOMAIN timeline' /\ n \notin DOMAIN timeline
      BY <1>5, <1>7
    <3>5. \A i : i \in B <=> i \in A \/ (i = n /\ asks)
      BY <1>7, <3>1, <3>2, <3>3, <3>4
    <3>6. A \in SUBSET (1..(n - 1))
      BY <1>7, <3>2
    <3>7. CASE asks
      BY <3>5, <3>6, <3>7
    <3>8. CASE ~asks
      BY <3>5, <3>6, <3>8
    <3>9. QED
      BY <3>7, <3>8
  <2>2. IsFiniteSet(A) /\ n \notin A
    <3>1. IsFiniteSet(1..(n - 1))
      BY <1>5, FS_Interval
    <3>2. QED
      BY <1>5, <2>1, <3>1, FS_Subset
  <2>3. asks => Tracing!Cardinality(B) = Tracing!Cardinality(A) + 1
    <3> HIDE DEF A, B
    <3>1. asks => Cardinality(B) = Cardinality(A) + 1
      BY <2>1, <2>2, FS_AddElement
    <3>2. QED
      BY <3>1, CountIs
  <2>4. record'.attempts = Tracing!Cardinality(B)
    BY <1>10, <2>1, <2>3 DEF TraceInv, Counted
  <2>5. ASSUME NEW i \in B
        PROVE  timeline'[i].attempt = Tracing!Cardinality({j \in B : j <= i})
    <3> HIDE DEF A, B
    <3>1. CASE i \in A
      <4>1. {j \in B : j <= i} = {j \in A : j <= i}
        BY <1>5, <2>1, <3>1
      <4>2. timeline'[i] = timeline[i] /\ timeline[i].attempt = Tracing!Cardinality({j \in A : j <= i})
        BY <1>7, <2>1, <3>1 DEF TraceInv, Counted, A
      <4>3. QED
        BY <4>1, <4>2
    <3>2. CASE i = n /\ asks
      <4>1. {j \in B : j <= i} = B
        BY <1>5, <2>1, <3>2
      <4>2. timeline'[i].attempt = record'.attempts
        BY <1>3, <1>7, <1>8, <1>10, <3>2
      <4>3. QED
        BY <2>4, <4>1, <4>2
    <3>3. QED
      BY <2>1, <2>5, <3>1, <3>2
  <2>6. QED
    BY <2>4, <2>5 DEF Counted
<1>21. EndsHeard'
  <2>1. \A k : Heard(k) => Heard(k)'
    BY <1>7 DEF Heard
  <2>2. \A k : k = e.kind => Heard(k)'
    <3>1. n \in DOMAIN timeline' /\ timeline'[n].kind = e.kind
      BY <1>5, <1>7, <1>8
    <3>2. QED
      BY <3>1 DEF Heard
  <2>3. \A u \in {"owner", "boot"} : ~Logs(u)' => ~Logs(u) \/ u = t
    BY <1>1, <1>9 DEF Logs
  <2>4. QED
    <3> SUFFICES ASSUME record'.is, ~lost
                 PROVE  /\ record.status # "running" => Heard(record.status)'
                        /\ stand["owner"] = "completing" /\ ~Logs("owner")' => Heard("completed")'
                        /\ stand["owner"] = "failing" /\ ~Logs("owner")' => Heard("failed")'
                        /\ stand["owner"] = "cancelling" /\ ~Logs("owner")' => Heard("cancelled")'
                        /\ stand["boot"] = "closing" /\ ~Logs("boot")' => Heard("failed")'
      BY <1>10 DEF EndsHeard, Heard
    <3>1. /\ record.status # "running" => Heard(record.status)
          /\ stand["owner"] = "completing" /\ ~Logs("owner") => Heard("completed")
          /\ stand["owner"] = "failing" /\ ~Logs("owner") => Heard("failed")
          /\ stand["owner"] = "cancelling" /\ ~Logs("owner") => Heard("cancelled")
          /\ stand["boot"] = "closing" /\ ~Logs("boot") => Heard("failed")
      BY DEF TraceInv, EndsHeard
    <3>2. CASE t = "owner"
      <4>1. /\ stand["owner"] = "completing" => e.kind = "completed"
            /\ stand["owner"] = "failing" => e.kind = "failed"
            /\ stand["owner"] = "cancelling" => e.kind = "cancelled"
        BY <1>9, <3>2 DEF TraceInv, SaysItsPart, e
      <4>2. QED
        BY <1>1, <1>10, <2>1, <2>2, <2>3, <3>1, <3>2, <4>1
    <3>3. CASE t = "boot"
      <4>1. e.kind = "failed"
        BY <1>9, <3>3 DEF TraceInv, SaysItsPart, e
      <4>2. QED
        BY <1>1, <1>10, <2>1, <2>2, <2>3, <3>1, <3>3, <4>1
    <3>4. CASE t \notin {"owner", "boot"}
      BY <2>1, <2>3, <3>1, <3>4
    <3>5. QED
      BY <3>2, <3>3, <3>4
<1>22. QED
  BY <1>12, <1>13, <1>14, <1>15, <1>16, <1>17, <1>18, <1>19, <1>20, <1>21 DEF TraceInv

LEMMA CommittingEventIsSound ==
  ASSUME TraceInv, NEW t \in Threads, Tracing!CommitEvent(t)
  PROVE  TraceInv'
<1>1. Logs(t) /\ emitter[t].at = "commit" /\ UNCHANGED stand /\ lost \in BOOLEAN
  BY DEF Tracing!CommitEvent, Logs, TraceInv, TraceTyped
<1>2. CASE ~record.is
  BY <1>1, <1>2, GivingUpIsSound DEF Tracing!CommitEvent
<1>3. CASE record.is /\ \E i \in DOMAIN timeline : timeline[i].sequence = emitter[t].sequence
  BY <1>1, <1>3, RetryingIsSound DEF Tracing!CommitEvent
<1>4. CASE record.is /\ ~\E i \in DOMAIN timeline : timeline[i].sequence = emitter[t].sequence
  <2> DEFINE asks == emitter[t].kind = "request"
             a == Tracing!Attempt(t)
  <2>1. /\ timeline' = Append(timeline, [sequence |-> emitter[t].sequence, kind |-> emitter[t].kind, by |-> t, attempt |-> a])
        /\ record' = IF asks THEN [record EXCEPT !.attempts = emitter[t].saw + 1] ELSE record
        /\ number' = IF asks THEN [number EXCEPT ![t] = a] ELSE number
        /\ Tracing!Gives(t) /\ UNCHANGED <<stand, lost>>
    BY <1>4 DEF Tracing!CommitEvent, Tracing!Asks
  <2> HIDE DEF asks, a
  <2>2. asks = (emitter[t].kind = "request") /\ a = Tracing!Attempt(t)
    BY DEF asks, a
  <2>3. QED
    BY <1>1, <1>4, <2>1, <2>2, AppendingIsSound
<1>5. QED
  BY <1>2, <1>3, <1>4

LEMMA TraceBegins == Tracing!TraceInit => TraceInv
<1> SUFFICES ASSUME Tracing!TraceInit
             PROVE  TraceInv
  OBVIOUS
<1>1. TraceTyped
  <2>1. record \in Outcome
    BY DEF Tracing!TraceInit, Tracing!NoRecord, Outcome
  <2>2. timeline \in Seq(Events)
    BY DEF Tracing!TraceInit
  <2>3. emitter \in [Threads -> Emissions]
    BY DEF Tracing!TraceInit, Tracing!NoEvent, Emissions, Threads
  <2>4. stand \in [Threads -> Tracing!Places]
    BY DEF Tracing!TraceInit, Tracing!Places, Threads
  <2>5. number \in [Callers -> Nat] /\ lost \in BOOLEAN
    BY DEF Tracing!TraceInit
  <2>6. QED
    BY <2>1, <2>2, <2>3, <2>4, <2>5 DEF TraceTyped
<1>2. Counted
  <2>1. Tracing!Asked = {}
    BY DEF Tracing!Asked, Tracing!TraceInit
  <2>2. QED
    BY <2>1 DEF Counted, Tracing!TraceInit, Tracing!NoRecord
<1>3. \A t \in Threads : ~Logs(t) /\ emitter[t].at = "idle" /\ stand[t] = "off"
  BY DEF Tracing!TraceInit, Tracing!NoEvent, Logs, Threads
<1>4. Tracing!EventsAreNumbered /\ Unopened /\ LatchHeld /\ NextIsKnown /\ Answered /\ EndsHeard /\ Unheard
  BY <1>3 DEF Tracing!TraceInit, Tracing!NoRecord, Tracing!EventsAreNumbered, Unopened, LatchHeld, NextIsKnown, Answered, EndsHeard, Unheard
<1>5. SaysItsPart
  BY <1>3, ThreadsAre DEF SaysItsPart
<1>6. QED
  BY <1>1, <1>2, <1>4, <1>5 DEF TraceInv

LEMMA TraceStaysSound == TraceInv /\ [Tracing!TraceNext]_traceState => TraceInv'
<1> SUFFICES ASSUME TraceInv, [Tracing!TraceNext]_traceState
             PROVE  TraceInv'
  OBVIOUS
<1>1. CASE UNCHANGED traceState
  BY <1>1, CountStays DEF TraceInv, traceState, TraceTyped, Tracing!EventsAreNumbered, Unopened, LatchHeld, NextIsKnown,
     SaysItsPart, Unheard, Answered, EndsHeard, Heard, Logs
<1>2. ASSUME NEW t \in Threads, Tracing!ReadTrace(t) \/ Tracing!ReadSequence(t) \/ Tracing!CommitEvent(t) \/ Tracing!EventFails(t)
      PROVE  TraceInv'
  <2>1. CASE Tracing!ReadTrace(t)
    BY <2>1, ReadingTraceIsSound
  <2>2. CASE Tracing!ReadSequence(t)
    <3>1. Len(timeline) + 1 \in Nat
      BY DEF TraceInv, TraceTyped
    <3>2. QED
      BY <2>2, <3>1, NumberingIsSound DEF Tracing!ReadSequence
  <2>3. CASE Tracing!CommitEvent(t)
    BY <2>3, CommittingEventIsSound
  <2>4. CASE Tracing!EventFails(t)
    BY <2>4, RetryingIsSound DEF Tracing!EventFails, Logs
  <2>5. QED
    BY <1>2, <2>1, <2>2, <2>3, <2>4
<1>3. CASE Tracing!TraceNext
  BY <1>2, <1>3, OpeningIsSound, RequestingIsSound, AnsweringIsSound, FinishingIsSound, SettingIsSound, DyingIsSound,
     BootingIsSound, ClosingIsSound, MissingStatusIsSound, DeletingIsSound DEF Tracing!TraceNext, Threads
<1>4. QED
  BY <1>1, <1>3

LEMMA TraceSays == TraceInv => Tracing!EventsAreNumbered /\ Tracing!AttemptsAreNumbered /\ Tracing!EndIsOnRecord
<1> SUFFICES ASSUME TraceInv
             PROVE  Tracing!AttemptsAreNumbered /\ Tracing!EndIsOnRecord
  BY DEF TraceInv
<1>1. Tracing!EndIsOnRecord
  BY DEF TraceInv, EndsHeard, Heard, Tracing!EndIsOnRecord
<1>2. ASSUME NEW i \in DOMAIN timeline, NEW j \in Tracing!Asked, timeline[i].by = timeline[j].by
      PROVE  timeline[i].attempt = timeline[j].attempt
  BY <1>2 DEF TraceInv, Answered, Tracing!Asked
<1>3. QED
  BY <1>1, <1>2 DEF TraceInv, Counted, Tracing!AttemptsAreNumbered

LEMMA TraceHolds ==
  Tracing!TraceInit /\ [][Tracing!TraceNext]_traceState =>
    [](Tracing!EventsAreNumbered /\ Tracing!AttemptsAreNumbered /\ Tracing!EndIsOnRecord)
BY TraceBegins, TraceStaysSound, TraceSays, PTL

-----------------------------------------------------------------------------
(***************************************************************************)
(* Types.  What the invariants of the parts do not say of the types of     *)
(* what they keep.                                                         *)
(***************************************************************************)
\* The invariants of an extraction and of the analyses are typed already.
LEMMA ReadTypes == ReadInv => Reading!ExtractionTypeOK
BY DEF ReadInv, Subjects, Extractions, Reading!ExtractionTypeOK, Reading!Modes

LEMMA AnalysisTypes == LawsSound => Analysing!AnalysisTypeOK
<1> SUFFICES ASSUME LawsSound
             PROVE  Analysing!AnalysisTypeOK
  OBVIOUS
<1>1. ASSUME NEW p \in Parts, NEW e \in Editions
      PROVE  /\ {sheet[p][e].summary, sheet[p][e].tags} \subseteq 0..EditionBound /\ sheet[p][e].related \in BOOLEAN
             /\ sheet[p][e].entities \subseteq Analysing!Drawings
  BY DEF LawsSound, LawsTyped, SheetsTyped, Sheets
<1>2. rollup.is \in BOOLEAN /\ rollup.of \subseteq Parts \X Editions
  BY DEF LawsSound, LawsTyped, Rollups, Readings
<1>3. \A l \in OfLaws : edges[l] \subseteq Analysing!Drawings
  BY DEF LawsSound, LawsTyped
<1>4. \A r \in Runners : runner[r].at \in Analysing!Places /\ runner[r].edition \in 0..EditionBound
  BY DEF LawsSound, LawsTyped, Works
<1>5. QED
  BY <1>1, <1>2, <1>3, <1>4 DEF LawsSound, LawsTyped, Manifests, Analysing!AnalysisTypeOK, Parts, Editions, OfLaws, Runners

(* No kind of event happens to the chains more often than it may.          *)
ChainsCounted == /\ chainCount \in [{"relate", "fold", "fail", "any"} -> Nat]
                 /\ \A k \in {"relate", "fold", "fail"} : chainCount[k] <= ChainBound[k]

LEMMA ChainsAreCounted == Merging!ChainInit => ChainsCounted
BY ChainAssumption DEF Merging!ChainInit, ChainsCounted, Merging!ChainEvents

LEMMA ChainsStayCounted == ChainsCounted /\ [Merging!ChainNext]_chainState => ChainsCounted'
<1>1. ASSUME ChainsCounted, NEW k \in {"relate", "fold", "fail"}, Merging!ChainHappens(k)
      PROVE  ChainsCounted'
  BY <1>1, ChainAssumption DEF ChainsCounted, Merging!ChainHappens
<1>2. Merging!ChainNext => \/ UNCHANGED chainCount
                           \/ \E k \in {"relate", "fold", "fail"} : Merging!ChainHappens(k)
  BY DEF Merging!ChainNext, Merging!Relate, Merging!BeginFold, Merging!ExtractFirst, Merging!Align, Merging!LoadMerge,
     Merging!CommitMerge, Merging!FoldFails
<1>3. ChainsCounted /\ UNCHANGED chainCount => ChainsCounted'
  BY DEF ChainsCounted
<1>4. QED
  BY <1>1, <1>2, <1>3 DEF chainState

LEMMA ChainTypes == ChainInv /\ ChainsCounted => Merging!ChainTypeOK
<1> SUFFICES ASSUME ChainInv, ChainsCounted
             PROVE  Merging!ChainTypeOK
  OBVIOUS
<1>1. ASSUME NEW r \in Merges
      PROVE  Merging!MergeTypeOK(r)
  <2>1. \A i \in DOMAIN r.items : r.items[i] \in Items
    BY DEF Merges
  <2>2. \A i \in DOMAIN r.items : r.items[i].status \in {"unchanged", "added", "modified", "removed"}
    BY <2>1 DEF Items
  <2>3. QED
    BY <2>2 DEF Merges, Merging!MergeTypeOK, Circulars, Merging!Circular
<1>2. Circulars = Merging!Circular
  BY DEF Circulars, Merging!Circular
<1>3. amendments \subseteq Merging!Circular \X Merging!Circular /\ blank \subseteq Merging!Circular
  BY <1>2 DEF ChainInv, ChainsTyped
<1>4. \A c \in Merging!Circular : Merging!MergeTypeOK(merged[c])
  BY <1>1, <1>2 DEF ChainInv, ChainsTyped
<1>5. \A f \in Folders : /\ folding[f].at \in {"off", "extract", "fold", "commit"}
                         /\ folding[f].members \subseteq Merging!Circular /\ folding[f].saw \in Merges
  BY <1>2 DEF ChainInv, ChainsTyped, Foldings
<1>6. \A k \in Merging!ChainEvents : chainCount[k] \in 0..ChainBound[k]
  BY ChainAssumption DEF ChainsCounted, Merging!ChainEvents
<1>7. QED
  BY <1>1, <1>3, <1>4, <1>5, <1>6 DEF Merging!ChainTypeOK

(* What was read and what is warned of are documents, and the model calls  *)
(* tools no more often than it may.                                        *)
CitesTyped == read \subseteq Papers /\ cited \subseteq Papers /\ draft.rounds <= RoundBound /\ spilt \in BOOLEAN

LEMMA CitesBeginTyped == Citing!CitationInit => CitesTyped
<1> SUFFICES ASSUME Citing!CitationInit
             PROVE  CitesTyped
  OBVIOUS
<1>1. read \subseteq Papers
  BY DEF Citing!CitationInit, Citing!Documents, Papers
<1>2. cited = {} /\ draft.rounds = 0 /\ spilt = FALSE
  BY DEF Citing!CitationInit, Citing!NoDraft
<1>3. draft.rounds <= RoundBound
  <2>1. RoundBound \in Nat
    BY CitationAssumption
  <2>2. QED
    BY <1>2, <2>1
<1>4. QED
  BY <1>1, <1>2, <1>3 DEF CitesTyped

LEMMA CitesStayTyped ==
  CiteInv /\ Citing!StreamIsTheAnswer /\ CitesTyped /\ [Citing!CitationNext]_citeState => CitesTyped'
<1> SUFFICES ASSUME CiteInv, Citing!StreamIsTheAnswer, CitesTyped, [Citing!CitationNext]_citeState
             PROVE  CitesTyped'
  OBVIOUS
<1>0. draft \in Drafts
  BY DEF CiteInv, StreamTyped
<1>1. CASE UNCHANGED citeState
  BY <1>1 DEF citeState, CitesTyped
<1>2. CASE Citing!CloseStream \/ (\E n \in 1..2 : Citing!Feed(n))
  <2>1. UNCHANGED <<read, cited>> /\ draft'.rounds = draft.rounds /\ spilt' \in BOOLEAN
    BY <1>0, <1>2 DEF Citing!CloseStream, Citing!Feed, CitesTyped, Drafts
  <2>2. QED
    BY <2>1 DEF CitesTyped
<1>3. CASE Citing!SaveAnswer
  <2>1. Citing!Links(shown) \subseteq Papers
    BY DEF Citing!StreamIsTheAnswer, CiteInv, Offers, Citing!Names
  <2>2. UNCHANGED <<read, spilt>> /\ draft'.rounds = draft.rounds /\ cited' \subseteq Citing!Links(shown)
    BY <1>0, <1>3 DEF Citing!SaveAnswer, Drafts
  <2>3. QED
    BY <2>1, <2>2 DEF CitesTyped
<1>4. ASSUME NEW d \in Papers, NEW named \in Papers, Citing!CallTool(d, named)
      PROVE  CitesTyped'
  <2>1. draft.rounds < RoundBound /\ draft'.rounds = draft.rounds + 1 /\ UNCHANGED cited /\ spilt' = FALSE
        /\ read' = read \union {d}
    BY <1>4 DEF Citing!CallTool, Citing!NoDraft
  <2>2. draft.rounds \in Nat
    BY <1>0 DEF Drafts
  <2>3. draft'.rounds <= RoundBound
    BY <2>1, <2>2, CitationAssumption
  <2>4. QED
    BY <2>1, <2>3 DEF CitesTyped
<1>5. ASSUME NEW said, Citing!Write(said)
      PROVE  CitesTyped'
  BY <1>0, <1>5 DEF Citing!Write, CitesTyped, Drafts
<1>6. QED
  BY <1>1, <1>2, <1>3, <1>4, <1>5 DEF Citing!CitationNext, Citing!Documents, Papers

LEMMA CiteTypes == CiteInv /\ CitesTyped => Citing!CitationTypeOK
<1> SUFFICES ASSUME CiteInv, CitesTyped
             PROVE  Citing!CitationTypeOK
  OBVIOUS
<1>1. draft \in Drafts /\ draft.come <= Len(draft.text) /\ Len(draft.text) \in Nat
  BY DEF CiteInv, StreamTyped, Drafts, Texts
<1>2. draft.at \in {"none", "writing", "written", "saved"} /\ draft.come \in 0..Len(draft.text) /\ draft.rounds \in 0..RoundBound
  BY <1>1, CitationAssumption DEF Drafts, CitesTyped
<1>3. \A i \in DOMAIN shown : shown[i].u \in {"word", "bracket", "close", "idHead", "idTail", "handle", "token", "blank", "link", "open", "shut"}
  BY DEF CiteInv, StreamTyped, Visible, Marks, Signs
<1>4. \A n \in DOMAIN offer : offer[n] \in Papers
  BY DEF CiteInv, Offers
<1>5. QED
  BY <1>2, <1>3, <1>4 DEF Citing!CitationTypeOK, CitesTyped, Citing!Names, Citing!Documents, Papers

(* A caller's request is on the timeline once at most, for it is written   *)
(* by nobody else, and no more once it is there; so a trace counts no more *)
(* requests than there are callers, and gives none a higher number.        *)
AskedOnce == \A i, j \in Tracing!Asked : timeline[i].by = timeline[j].by => i = j
TraceKept == /\ command \in BOOLEAN /\ latch \in Threads \union {"free"} /\ mishaps \in 0..MishapBound
             /\ \A c \in Callers : number[c] <= Cardinality(Callers)
             /\ ~record.is => record.attempts = 0

\* The callers of the requests are all different.
LEMMA AskedOnceAtMost == TraceInv /\ AskedOnce => Tracing!Cardinality(Tracing!Asked) <= Cardinality(Callers)
<1> SUFFICES ASSUME TraceInv, AskedOnce
             PROVE  Cardinality(Tracing!Asked) <= Cardinality(Callers)
  BY CountIs
<1> DEFINE asker == [i \in Tracing!Asked |-> timeline[i].by]
<1>1. asker \in Injection(Tracing!Asked, Callers)
  BY DEF TraceInv, Answered, AskedOnce, Tracing!Asked, Injection, IsInjective
<1>2. QED
  BY <1>1, FS_Injection, TraceAssumption

LEMMA TraceBeginsKept == Tracing!TraceInit => AskedOnce /\ TraceKept
<1> SUFFICES ASSUME Tracing!TraceInit
             PROVE  AskedOnce /\ TraceKept
  OBVIOUS
<1>1. Tracing!Asked = {}
  BY DEF Tracing!TraceInit, Tracing!Asked
<1>2. Cardinality(Callers) \in Nat /\ MishapBound \in Nat
  BY FS_CardinalityType, TraceAssumption
<1>3. QED
  BY <1>1, <1>2 DEF Tracing!TraceInit, Tracing!NoRecord, AskedOnce, TraceKept

\* A request is appended by a caller of whom nothing is on the timeline yet.
LEMMA NobodyAsksTwice ==
  TraceInv /\ AskedOnce /\ [Tracing!TraceNext]_traceState => AskedOnce'
<1> SUFFICES ASSUME TraceInv, AskedOnce, [Tracing!TraceNext]_traceState
             PROVE  AskedOnce'
  OBVIOUS
<1>1. CASE UNCHANGED timeline
  BY <1>1 DEF AskedOnce, Tracing!Asked
<1>2. ASSUME NEW t \in Threads, Tracing!CommitEvent(t), ~UNCHANGED timeline
      PROVE  AskedOnce'
  <2> DEFINE event == [sequence |-> emitter[t].sequence, kind |-> emitter[t].kind, by |-> t, attempt |-> Tracing!Attempt(t)]
  <2>1. timeline' = Append(timeline, event) /\ Logs(t)
    BY <1>2 DEF Tracing!CommitEvent, Logs
  <2>2. event.by = t /\ event.kind = emitter[t].kind
    OBVIOUS
  <2>3. ASSUME emitter[t].kind = "request"
        PROVE  \A i \in DOMAIN timeline : timeline[i].by # t
    BY <2>1, <2>3, ThreadsAre DEF TraceInv, SaysItsPart, Unheard
  <2> HIDE DEF event
  <2>4. timeline \in Seq(Events)
    BY DEF TraceInv, TraceTyped
  <2>5. /\ DOMAIN timeline' = 1..(Len(timeline) + 1) /\ DOMAIN timeline = 1..Len(timeline) /\ Len(timeline) \in Nat
        /\ \A i \in 1..Len(timeline) : timeline'[i] = timeline[i]
        /\ timeline'[Len(timeline) + 1] = event
    BY <2>1, <2>4
  <2>6. ASSUME NEW i \in DOMAIN timeline', NEW j \in DOMAIN timeline', timeline'[i].kind = "request", timeline'[j].kind = "request",
               timeline'[i].by = timeline'[j].by
        PROVE  i = j
    <3>1. CASE i \in DOMAIN timeline /\ j \in DOMAIN timeline
      BY <2>5, <2>6, <3>1 DEF AskedOnce, Tracing!Asked
    <3>2. CASE i = Len(timeline) + 1 /\ j \in DOMAIN timeline
      BY <2>2, <2>3, <2>5, <2>6, <3>2
    <3>3. CASE j = Len(timeline) + 1 /\ i \in DOMAIN timeline
      BY <2>2, <2>3, <2>5, <2>6, <3>3
    <3>4. QED
      BY <2>5, <2>6, <3>1, <3>2, <3>3
  <2>7. QED
    BY <2>6 DEF AskedOnce, Tracing!Asked
<1>3. ASSUME NEW prunes, Tracing!DeleteTrace(prunes)
      PROVE  AskedOnce'
  BY <1>3 DEF Tracing!DeleteTrace, AskedOnce, Tracing!Asked
<1>4. Tracing!TraceNext => \/ UNCHANGED timeline \/ (\E prunes : Tracing!DeleteTrace(prunes))
                           \/ \E t \in Threads : Tracing!CommitEvent(t)
  BY DEF Tracing!TraceNext, Threads, Tracing!Open, Tracing!Finish, Tracing!SetStatus, Tracing!Die, Tracing!Boot, Tracing!CloseTrace,
     Tracing!StatusFails, Tracing!Request, Tracing!Answer, Tracing!ReadTrace, Tracing!ReadSequence, Tracing!EventFails
<1>5. QED
  BY <1>1, <1>2, <1>3, <1>4 DEF traceState

\* A thread takes the lock for itself, or lets go of it.
LEMMA LatchStaysTyped ==
  ASSUME latch \in Threads \union {"free"}, [Tracing!TraceNext]_traceState
  PROVE  latch' \in Threads \union {"free"}
<1>1. ASSUME NEW t \in Threads
      PROVE  Tracing!Held(t) \in Threads \union {"free"} /\ Tracing!LetGo(t) \in Threads \union {"free"}
  BY DEF Tracing!Held, Tracing!LetGo
<1>2. ASSUME NEW t \in Threads, Tracing!ReadTrace(t) \/ Tracing!CommitEvent(t) \/ Tracing!EventFails(t)
      PROVE  latch' \in {latch, Tracing!Held(t), Tracing!LetGo(t)}
  <2>1. Tracing!Gives(t) \/ Tracing!Retries(t) => latch' \in {latch, Tracing!LetGo(t)}
    BY DEF Tracing!Gives, Tracing!Retries
  <2>2. CASE Tracing!ReadTrace(t)
    BY <2>1, <2>2 DEF Tracing!ReadTrace
  <2>3. CASE Tracing!CommitEvent(t)
    BY <2>1, <2>3 DEF Tracing!CommitEvent
  <2>4. CASE Tracing!EventFails(t)
    BY <2>1, <2>4 DEF Tracing!EventFails
  <2>5. QED
    BY <1>2, <2>2, <2>3, <2>4
<1>3. Tracing!TraceNext => \/ UNCHANGED latch \/ latch' = "free"
                           \/ \E t \in Threads : Tracing!ReadTrace(t) \/ Tracing!CommitEvent(t) \/ Tracing!EventFails(t)
  BY DEF Tracing!TraceNext, Threads, Tracing!Open, Tracing!Finish, Tracing!SetStatus, Tracing!Die, Tracing!Boot, Tracing!CloseTrace,
     Tracing!StatusFails, Tracing!Request, Tracing!Answer, Tracing!ReadSequence, Tracing!DeleteTrace
<1>4. QED
  BY <1>1, <1>2, <1>3 DEF traceState

\* The number of a call is what the row has come to with its request.
LEMMA TraceStaysKept ==
  TraceInv /\ AskedOnce /\ TraceKept /\ TraceInv' /\ AskedOnce' /\ [Tracing!TraceNext]_traceState => TraceKept'
<1> SUFFICES ASSUME TraceInv, AskedOnce, TraceKept, TraceInv', AskedOnce', [Tracing!TraceNext]_traceState
             PROVE  TraceKept'
  OBVIOUS
<1>1. UNCHANGED command /\ (UNCHANGED mishaps \/ (mishaps < MishapBound /\ mishaps' = mishaps + 1))
  BY DEF Tracing!TraceNext, Tracing!Open, Tracing!Finish, Tracing!SetStatus, Tracing!Die, Tracing!Boot, Tracing!CloseTrace,
     Tracing!StatusFails, Tracing!Request, Tracing!Answer, Tracing!ReadTrace, Tracing!ReadSequence, Tracing!CommitEvent,
     Tracing!EventFails, Tracing!DeleteTrace, Tracing!Mishap, traceState
<1>2. mishaps' \in 0..MishapBound
  BY <1>1, TraceAssumption DEF TraceKept
<1>3. latch' \in Threads \union {"free"}
  BY LatchStaysTyped DEF TraceKept
<1>4. ASSUME NEW t \in Threads, Tracing!CommitEvent(t), ~UNCHANGED number
      PROVE  /\ number' = [number EXCEPT ![t] = emitter[t].saw + 1]
             /\ record'.is /\ record'.attempts = emitter[t].saw + 1
  <2>1. emitter[t].kind = "request" /\ record.is /\ record' = [record EXCEPT !.attempts = emitter[t].saw + 1]
        /\ number' = [number EXCEPT ![t] = Tracing!Attempt(t)]
    BY <1>4 DEF Tracing!CommitEvent, Tracing!Asks
  <2>2. record \in Outcome
    BY DEF TraceInv, TraceTyped
  <2>3. QED
    BY <2>1, <2>2 DEF Outcome, Tracing!Attempt, Tracing!Asks
<1>5. Tracing!TraceNext => UNCHANGED number \/ \E t \in Threads : Tracing!CommitEvent(t)
  BY DEF Tracing!TraceNext, Threads, Tracing!Open, Tracing!Finish, Tracing!SetStatus, Tracing!Die, Tracing!Boot, Tracing!CloseTrace,
     Tracing!StatusFails, Tracing!Request, Tracing!Answer, Tracing!ReadTrace, Tracing!ReadSequence, Tracing!EventFails,
     Tracing!DeleteTrace
<1>6. (Tracing!Cardinality(Tracing!Asked) <= Cardinality(Callers))'
  BY AskedOnceAtMost, PTL
<1>7. \A c \in Callers : number'[c] <= Cardinality(Callers)
  <2>1. CASE UNCHANGED number
    BY <2>1 DEF TraceKept
  <2>2. ASSUME NEW t \in Threads, Tracing!CommitEvent(t), ~UNCHANGED number
        PROVE  \A c \in Callers : number'[c] <= Cardinality(Callers)
    <3>1. number' = [number EXCEPT ![t] = record'.attempts] /\ record'.is
      BY <1>4, <2>2
    <3>2. record'.attempts <= Cardinality(Callers)
      BY <1>6, <3>1 DEF TraceInv, Counted
    <3>3. number \in [Callers -> Nat]
      BY DEF TraceInv, TraceTyped
    <3>4. QED
      BY <3>1, <3>2, <3>3 DEF TraceKept
  <2>3. QED
    BY <1>5, <2>1, <2>2 DEF traceState
<1>8. ~record'.is => record'.attempts = 0
  <2>1. record \in Outcome
    BY DEF TraceInv, TraceTyped
  <2>2. record' \in {record, Tracing!NoRecord} \/ record'.is
    BY <2>1 DEF Outcome, Tracing!NoRecord, Tracing!Closed, Tracing!TraceNext, Tracing!Open, Tracing!Finish, Tracing!SetStatus, Tracing!Die,
       Tracing!Boot, Tracing!CloseTrace, Tracing!StatusFails, Tracing!Request, Tracing!Answer, Tracing!ReadTrace,
       Tracing!ReadSequence, Tracing!CommitEvent, Tracing!EventFails, Tracing!DeleteTrace, traceState
  <2>3. QED
    BY <2>2 DEF TraceKept, Tracing!NoRecord
<1>9. QED
  BY <1>1, <1>2, <1>3, <1>7, <1>8 DEF TraceKept

LEMMA TraceTypes == TraceInv /\ AskedOnce /\ TraceKept => Tracing!TraceTypeOK
<1> SUFFICES ASSUME TraceInv, AskedOnce, TraceKept
             PROVE  Tracing!TraceTypeOK
  OBVIOUS
<1>1. Tracing!Cardinality(Callers) = Cardinality(Callers) /\ Cardinality(Callers) \in Nat
  BY CountIs, FS_CardinalityType, TraceAssumption
<1>2. record \in Outcome /\ timeline \in Seq(Events) /\ emitter \in [Threads -> Emissions] /\ stand \in [Threads -> Tracing!Places]
      /\ number \in [Callers -> Nat] /\ lost \in BOOLEAN
  BY DEF TraceInv, TraceTyped
<1>3. record.attempts \in 0..Cardinality(Callers)
  <2>1. CASE record.is
    <3>1. record.attempts <= Cardinality(Callers) /\ record.attempts \in Nat
      BY <1>2, <2>1, AskedOnceAtMost DEF TraceInv, Counted, Outcome
    <3>2. QED
      BY <1>1, <3>1
  <2>2. CASE ~record.is
    BY <1>1, <2>2 DEF TraceKept
  <2>3. QED
    BY <2>1, <2>2
<1>4. record.status \in Tracing!Terminals \union {"running"}
  BY <1>2 DEF Outcome, Tracing!Terminals
<1>5. \A i \in DOMAIN timeline : timeline[i].kind \in Tracing!Kinds /\ timeline[i].by \in Threads
  <2>1. \A i \in DOMAIN timeline : timeline[i] \in Events
    BY <1>2
  <2>2. QED
    BY <2>1 DEF Events, EventKinds, Tracing!Kinds, Tracing!Terminals
<1>6. \A t \in Threads : /\ emitter[t].at \in {"idle", "read", "number", "commit"} /\ stand[t] \in Tracing!Places
                         /\ emitter[t].kind \in Tracing!Kinds \union {"none"}
  BY <1>2 DEF Emissions, EventKinds, Tracing!Kinds, Tracing!Terminals
<1>7. number \in [Callers -> 0..Cardinality(Callers)]
  BY <1>1, <1>2 DEF TraceKept
<1>8. QED
  BY <1>1, <1>2, <1>3, <1>4, <1>5, <1>6, <1>7 DEF TraceKept, Tracing!TraceTypeOK, Threads

LEMMA DrawnAreTyped ==
  /\ Reading!ExtractionInit /\ [][Reading!ExtractionNext]_readState => []Reading!ExtractionTypeOK
  /\ Analysing!AnalysisInit /\ [][Analysing!AnalysisNext]_lawState => []Analysing!AnalysisTypeOK
  /\ Merging!ChainInit /\ [][Merging!ChainNext]_chainState => []Merging!ChainTypeOK
<1>1. Reading!ExtractionInit /\ [][Reading!ExtractionNext]_readState => []Reading!ExtractionTypeOK
  BY ExtractionBegins, ReadStaysSound, ReadTypes, PTL
<1>2. Analysing!AnalysisInit /\ [][Analysing!AnalysisNext]_lawState => []Analysing!AnalysisTypeOK
  BY LawsBegin, AnalysisStaysSound, AnalysisTypes, PTL
<1>3. Merging!ChainInit /\ [][Merging!ChainNext]_chainState => []Merging!ChainTypeOK
  BY ChainsBegin, ChainsStaySound, ChainsAreCounted, ChainsStayCounted, ChainTypes, PTL
<1>4. QED
  BY <1>1, <1>2, <1>3

LEMMA CitesAreTyped == Citing!CitationInit /\ [][Citing!CitationNext]_citeState => []Citing!CitationTypeOK
BY CitationsBeginSound, CitationStep, CiteSays, CitesBeginTyped, CitesStayTyped, CiteTypes, PTL

LEMMA TracesAreTyped == Tracing!TraceInit /\ [][Tracing!TraceNext]_traceState => []Tracing!TraceTypeOK
BY TraceBegins, TraceStaysSound, TraceBeginsKept, NobodyAsksTwice, TraceStaysKept, TraceTypes, PTL

-----------------------------------------------------------------------------
(***************************************************************************)
(* The composition.  One part runs and the others rest, so that what a     *)
(* part does in all is what it does alone.                                 *)
(***************************************************************************)

LEMMA OnePartReads ==
  ASSUME [DocumentsNext]_documentVars
  PROVE  /\ [Listings!CrawlNext]_crawlState /\ [Store!StoreNext]_storeState /\ [Queueing!GapNext]_gapState
         /\ [Searching!SearchNext]_searchState /\ [Inventory!InventoryNext]_askState
         /\ [Reading!ExtractionNext]_readState /\ [Merging!ChainNext]_chainState /\ [Analysing!AnalysisNext]_lawState
         /\ [Citing!CitationNext]_citeState /\ [Tracing!TraceNext]_traceState /\ [Relating!GraphNext]_graphState
<1>1. CASE Crawling
  BY <1>1 DEF Crawling, Rest
<1>2. CASE Storing
  BY <1>2 DEF Storing, Rest
<1>3. CASE Gapping
  BY <1>3 DEF Gapping, Rest
<1>4. CASE Finding
  BY <1>4 DEF Finding, Rest
<1>5. CASE Surveying
  BY <1>5 DEF Surveying, Rest
<1>6. CASE Extracting
  BY <1>6 DEF Extracting, Rest
<1>7. CASE Folding
  BY <1>7 DEF Folding, Rest
<1>8. CASE Judging
  BY <1>8 DEF Judging, Rest
<1>9. CASE Answering
  BY <1>9 DEF Answering, Rest
<1>10. CASE Recording
  BY <1>10 DEF Recording, Rest
<1>11. CASE Following
  BY <1>11 DEF Following, Rest
<1>12. CASE UNCHANGED documentVars
  BY <1>12 DEF documentVars
<1>13. QED
  BY <1>1, <1>2, <1>3, <1>4, <1>5, <1>6, <1>7, <1>8, <1>9, <1>10, <1>11, <1>12 DEF DocumentsNext

(* The crawl, the store and the writers of a gap each run in the whole as  *)
(* they do alone.                                                          *)
THEOREM KeepersRunAsAlone ==
  DocumentsSpec => /\ Listings!CrawlInit /\ [][Listings!CrawlNext]_crawlState
                   /\ Store!StoreInit /\ [][Store!StoreNext]_storeState
                   /\ Queueing!GapInit /\ [][Queueing!GapNext]_gapState
<1>1. DocumentsInit => Listings!CrawlInit /\ Store!StoreInit /\ Queueing!GapInit
  BY DEF DocumentsInit
<1>2. QED
  BY <1>1, OnePartReads, PTL DEF DocumentsSpec

(* What is kept of SBP's site is what SBP published: a crawl that succeeds *)
(* has the listing as it was at one moment, a text is a page, no annex     *)
(* without text is forgotten, the keyword index follows the text, and the  *)
(* row of a gap tells the truth and can be closed, whatever processes      *)
(* write it and whichever of them die.                                     *)
THEOREM WhatIsKeptIsTrue == DocumentsSpec => CopiesAreTrue
  BY KeepersRunAsAlone, CaptureHolds, StoreHolds, GapHolds, PTL DEF CopiesAreTrue

(* What is drawn from texts is true of them: a checklist covers its        *)
(* document or says what it lacks, a consolidation that is shown as        *)
(* current is one of the chain as it is and its histories explain what     *)
(* they show, what is kept with an edition of a law was drawn from it, and *)
(* a circular replaces earlier ones only; for any documents and any        *)
(* number of circulars, amendments, laws and commands.                     *)
THEOREM WhatIsDrawnIsTrue == DocumentsSpec => []DrawnFromTheirTexts
<1>1. DocumentsInit => Reading!ExtractionInit /\ Merging!ChainInit /\ Analysing!AnalysisInit /\ Relating!GraphInit
  BY DEF DocumentsInit
<1>2. LawsSound /\ Analysing!KeptWithItsEdition /\ Analysing!RollupSeesItsParts /\ Analysing!EdgesAreReplaced
      /\ Relating!NoneReplacesItself /\ Relating!ReplacedIsWarned
      /\ Merging!ShownIsCurrent /\ Merging!HistoryExplains /\ Reading!ChecklistSaysWhatItLacks => DrawnFromTheirTexts
  BY DEF DrawnFromTheirTexts
<1>3. QED
  BY <1>1, <1>2, OnePartReads, ReadHolds, ChainsHold, AnalysesHold, GraphHolds, PTL DEF DocumentsSpec

(* What the model said can be traced: a handle is the address of one       *)
(* document; the reader sees what the whole answer says, in whatever       *)
(* pieces it comes, with links to what the model was shown and a warning   *)
(* at what it did not read; the events of a trace are numbered without     *)
(* gaps whoever writes them, each call has the number of its request, and  *)
(* the end of an operation is on record; and an answer that cites a        *)
(* circular that was replaced says so or is warned about.  For any         *)
(* documents, answers, callers and circulars.                              *)
THEOREM AnswersStayTraced == DocumentsSpec => []AnswersAreTraced
<1>1. DocumentsInit => Citing!CitationInit /\ Tracing!TraceInit /\ Relating!GraphInit
  BY DEF DocumentsInit
<1>2. Citing!HandlesAreAddresses /\ Citing!StreamIsTheAnswer /\ Citing!UnreadIsWarned
      /\ Tracing!EventsAreNumbered /\ Tracing!AttemptsAreNumbered /\ Tracing!EndIsOnRecord
      /\ Relating!NoneReplacesItself /\ Relating!ReplacedIsWarned => AnswersAreTraced
  BY DEF AnswersAreTraced
<1>3. QED
  BY <1>1, <1>2, OnePartReads, CiteHolds, TraceHolds, GraphHolds, PTL DEF DocumentsSpec

(* Whatever is kept of circulars, laws, questions and answers has its      *)
(* type, in every part, for any number of them.                            *)
THEOREM DocumentsAreTyped == DocumentsSpec => []DocumentsTypeOK
<1>1. DocumentsInit =>
        /\ part \in PartNames
        /\ Listings!CrawlInit /\ Store!StoreInit /\ Queueing!GapInit /\ SearchStarts /\ Inventory!InventoryInit
        /\ Reading!ExtractionInit /\ Merging!ChainInit /\ Analysing!AnalysisInit
        /\ Citing!CitationInit /\ Tracing!TraceInit /\ Relating!GraphInit
  BY DEF DocumentsInit, SearchStarts
<1>2. part \in PartNames /\ [DocumentsNext]_documentVars => (part \in PartNames)'
  BY DEF DocumentsNext, documentVars, Rest, Crawling, Storing, Gapping, Finding, Surveying, Extracting, Folding, Judging,
     Answering, Recording, Following
<1>3. part \in PartNames /\ Listings!CrawlTypeOK /\ Store!StoreTypeOK /\ Queueing!GapTypeOK /\ Searching!SearchTypeOK
      /\ Inventory!InventoryTypeOK /\ Reading!ExtractionTypeOK /\ Merging!ChainTypeOK /\ Analysing!AnalysisTypeOK
      /\ Citing!CitationTypeOK /\ Tracing!TraceTypeOK /\ Relating!GraphTypeOK => DocumentsTypeOK
  BY DEF DocumentsTypeOK
<1>4. DocumentsSpec => [](part \in PartNames /\ Listings!CrawlTypeOK /\ Store!StoreTypeOK /\ Queueing!GapTypeOK)
  <2>1. DocumentsSpec => [](part \in PartNames)
    BY <1>1, <1>2, PTL DEF DocumentsSpec
  <2>2. DocumentsSpec => []Listings!CrawlTypeOK
    BY KeepersRunAsAlone, CaptureHolds, PTL
  <2>3. DocumentsSpec => [](Store!StoreTypeOK /\ Queueing!GapTypeOK)
    BY KeepersRunAsAlone, StoreHolds, GapHolds, PTL
  <2>4. QED
    BY <2>1, <2>2, <2>3, PTL
<1>5. DocumentsSpec => [](Searching!SearchTypeOK /\ Inventory!InventoryTypeOK /\ Relating!GraphTypeOK)
  BY <1>1, OnePartReads, SearchHolds, InventoryHolds, GraphCovers, PTL DEF DocumentsSpec
<1>6. DocumentsSpec => [](Reading!ExtractionTypeOK /\ Merging!ChainTypeOK /\ Analysing!AnalysisTypeOK)
  BY <1>1, OnePartReads, DrawnAreTyped, PTL DEF DocumentsSpec
<1>7. DocumentsSpec => [](Citing!CitationTypeOK /\ Tracing!TraceTypeOK)
  BY <1>1, OnePartReads, CitesAreTyped, TracesAreTyped, PTL DEF DocumentsSpec
<1>8. QED
  BY <1>3, <1>4, <1>5, <1>6, <1>7, PTL

(* Nothing found is lost between the retrievers and the reader: the best   *)
(* of the hits is in what the chat is told, the pages of a search cover    *)
(* them all and each keeps its passage; an inventory takes the terms' own  *)
(* hits first, accounts for every candidate, and says complete only of a   *)
(* complete one; and the circulars that relate to one the graph went       *)
(* through are gone through too.  For any number of circulars and chunks,  *)
(* any shelf and any limits.                                               *)
THEOREM NothingIsLost == DocumentsSpec => []NothingFoundIsLost
<1>1. DocumentsInit => SearchStarts /\ Inventory!InventoryInit /\ Relating!GraphInit
  BY DEF DocumentsInit, SearchStarts
<1>2. Searching!NothingFoundIsLost
      /\ Inventory!TermsComeFirst /\ Inventory!EveryCandidateIsAccountedFor /\ Inventory!CompleteIsComplete
      /\ Relating!GraphIsCovered => NothingFoundIsLost
  BY DEF NothingFoundIsLost
<1>3. QED
  BY <1>1, <1>2, OnePartReads, SearchHolds, InventoryHolds, GraphCovers, PTL DEF DocumentsSpec

=============================================================================
