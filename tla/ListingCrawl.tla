---------------------------- MODULE ListingCrawl ----------------------------
(***************************************************************************)
(* mirror.crawl_listing: an audit reads the pages of the site's listing    *)
(* concurrently, while the site goes on changing it, and decides whether   *)
(* what it holds is the listing.  A page is read again at the end, and a   *)
(* crawl the listing changed under is made once more.                      *)
(***************************************************************************)
EXTENDS Naturals, SequencesExt

CONSTANTS
  Listed,       \* circulars of the site
  PageSize,     \* LISTING_PAGE_SIZE
  Baseline,     \* rows of the last successful audit, 0 when there was none
  ChangeBound   \* how often the site changes

VARIABLES
  listing,    \* the site's listing, newest first
  withdrawn,  \* what was taken from it
  advertised, \* whether its pages say how many circulars there are
  changes,    \* bounds the model
  crawl       \* the crawl

crawlVars == <<listing, withdrawn, advertised, changes, crawl>>

Unread == <<>>
Fresh(restart) == [at |-> "start", restart |-> restart, pages |-> 0, total |-> 0,
                   got |-> <<>>, lost |-> {}, invalid |-> FALSE, status |-> "none"]

CrawlTypeOK ==
  /\ listing \in Seq(Listed \ withdrawn) /\ IsInjective(listing) /\ withdrawn \subseteq Listed
  /\ advertised \in BOOLEAN /\ changes \in 0..ChangeBound
  /\ crawl.at \in {"start", "pages", "done"} /\ crawl.restart \in {0, 1}
  /\ Len(crawl.got) \in {0, crawl.pages} /\ crawl.lost \subseteq DOMAIN crawl.got
  /\ crawl.invalid \in BOOLEAN /\ crawl.status \in {"none", "success", "partial", "failed"}

CrawlInit ==
  /\ listing = CHOOSE s \in [1..Cardinality(Listed) - ChangeBound -> Listed] : IsInjective(s)
  /\ withdrawn = {}
  /\ advertised \in BOOLEAN
  /\ changes = 0 /\ crawl = Fresh(0)

-----------------------------------------------------------------------------
(* The site: a circular that was never listed goes on top, and any may be  *)
(* withdrawn.                                                              *)

New == Listed \ (withdrawn \union Range(listing))
Publish == \E c \in New :
  /\ changes < ChangeBound
  /\ listing' = <<c>> \o listing /\ changes' = changes + 1
  /\ UNCHANGED <<withdrawn, advertised, crawl>>

Withdraw == \E i \in DOMAIN listing :
  /\ changes < ChangeBound
  /\ listing' = RemoveAt(listing, i) /\ withdrawn' = withdrawn \union {listing[i]}
  /\ changes' = changes + 1
  /\ UNCHANGED <<advertised, crawl>>

-----------------------------------------------------------------------------
(* Pages are numbered from 1.                                              *)

SitePages == (Len(listing) + PageSize - 1) \div PageSize
SitePage(p) == LET end == IF p * PageSize < Len(listing) THEN p * PageSize ELSE Len(listing)
               IN SubSeq(listing, (p - 1) * PageSize + 1, end)
\* What a page says of the whole listing.
Advertises == [pages |-> SitePages, total |-> IF advertised THEN Len(listing) ELSE 0]

\* The first page settles how many there are; without it there is no crawl.
ReadFirst ==
  /\ crawl.at = "start"
  /\ crawl' = IF listing = <<>> THEN [crawl EXCEPT !.at = "done", !.status = "failed"]
              ELSE [crawl EXCEPT !.at = "pages", !.pages = SitePages, !.total = Advertises.total,
                    !.got = [p \in 1..SitePages |-> IF p = 1 THEN SitePage(1) ELSE Unread]]
  /\ UNCHANGED <<listing, withdrawn, advertised, changes>>

LoseFirst ==
  /\ crawl.at = "start" /\ crawl' = [crawl EXCEPT !.at = "done", !.status = "failed"]
  /\ UNCHANGED <<listing, withdrawn, advertised, changes>>

Awaited == {p \in DOMAIN crawl.got : crawl.got[p] = Unread /\ p \notin crawl.lost}

\* A page is of this crawl when it says the same of the listing as the first one, and its rows
\* are no other page's.
Agrees(p) ==
  /\ Advertises = [pages |-> crawl.pages, total |-> crawl.total]
  /\ SitePage(p) # <<>> /\ \A q \in DOMAIN crawl.got : SitePage(p) # crawl.got[q]

\* Pages arrive in any order.
ReadPage(p) ==
  /\ crawl.at = "pages" /\ p \in Awaited
  /\ crawl' = IF Agrees(p) THEN [crawl EXCEPT !.got[p] = SitePage(p)]
              ELSE [crawl EXCEPT !.lost = @ \union {p}, !.invalid = TRUE]
  /\ UNCHANGED <<listing, withdrawn, advertised, changes>>

\* A fetch that failed, one that was cancelled too, loses its page; a page that did not parse,
\* or an error that is a ValueError, makes the crawl invalid as well.
LosePage(p) == \E invalid \in BOOLEAN :
  /\ crawl.at = "pages" /\ p \in Awaited
  /\ crawl' = [crawl EXCEPT !.lost = @ \union {p}, !.invalid = @ \/ invalid]
  /\ UNCHANGED <<listing, withdrawn, advertised, changes>>

Entries(x) == FlattenSeq(x.got)

\* What the pages amount to, before the listing is looked at again.
Amounts ==
  LET rows == Len(Entries(crawl)) IN
  IF crawl.lost # {} THEN IF crawl.invalid THEN "failed" ELSE "partial"
  ELSE IF crawl.total # 0 /\ rows # crawl.total THEN "failed"
  ELSE IF rows * 10 < Baseline * 9 THEN "failed" ELSE "success"

\* Faulty variant: the listing is the same when its first page is.
ChangedOnTop == SitePage(1) # crawl.got[1]
Changed == \/ Advertises # [pages |-> crawl.pages, total |-> crawl.total]
           \/ SitePage(1) # crawl.got[1]

\* Every page is in and the first one is read again, unless that fails.  A listing that
\* changed is crawled once more, and is partial at best the second time.
Close == \E lost \in BOOLEAN :
  /\ crawl.at = "pages" /\ Awaited = {}
  /\ crawl' = IF lost \/ Changed
              THEN IF crawl.restart = 0 THEN Fresh(1)
                   ELSE [crawl EXCEPT !.at = "done", !.status = "partial"]
              ELSE [crawl EXCEPT !.at = "done", !.status = Amounts]
  /\ UNCHANGED <<listing, withdrawn, advertised, changes>>

CrawlNext ==
  \/ Publish \/ Withdraw \/ ReadFirst \/ LoseFirst \/ Close
  \/ \E p \in DOMAIN crawl.got : ReadPage(p) \/ LosePage(p)
CrawlSpec == CrawlInit /\ [][CrawlNext]_crawlVars

-----------------------------------------------------------------------------
(* Properties.                                                             *)

\* A crawl that ends in success, which lets the audit close the gaps of what it did not list,
\* holds the listing as it stands at its end: every page of it, in order, although no two of
\* its pages were read at the same moment.  It takes a listing that says how long it is, and what
\* was withdrawn must not come back.
CaptureIsTheListing ==
  [][crawl'.status = "success" /\ crawl.status = "none" /\ advertised
     => crawl'.got = [p \in 1..SitePages |-> SitePage(p)]]_crawlVars
=============================================================================
