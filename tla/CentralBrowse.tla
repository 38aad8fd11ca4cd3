--------------------------- MODULE CentralBrowse ---------------------------
(* The Central page (routers/aggregate.py, aruba.py): what Aruba Central    *)
(* knows of one tenant's sites, kept in memory and on disk, and refreshed   *)
(* by a poller and by the requests that ask for it.  Under it each feed     *)
(* (devices, clients, alerts, insights) has a cache of its own, which all   *)
(* the clients of one Central account share.  Times are minutes.            *)
EXTENDS Integers

CONSTANTS
    Feed,       \* what is fetched besides the sites
    KeepFor,    \* KeepFor[f]: how long the cache of f answers
    KeepEmpty,  \* KeepEmpty[f]: the same for an empty or failed answer
    Poller,     \* the background task
    Viewer,     \* requests that may be under way at once
    Interval,   \* central_browse_interval_minutes
    MaxMinute,  \* bound: minutes that pass
    MaxHalt     \* bound: restarts of the hub

ASSUME BrowseAssumption ==
    /\ Poller \notin Viewer
    /\ MaxMinute \in Nat /\ MaxHalt \in Nat
    /\ \A f \in Feed : KeepFor[f] \in Nat /\ KeepEmpty[f] \in 1..KeepFor[f]

VARIABLES
    minute,     \* the clock
    account,    \* where the tenant's Central data comes from: fixed here, the
                \* mode is changed in CentralMonitor
    kept,       \* kept[f]: the cache of the feed f
    page,       \* _central_browse_cache of the tenant
    pageFile,   \* central_browse_cache.json
    reader,     \* reader[r]: a refresh under way
    warmed,     \* the poller has been through its first pass
    halts       \* restarts so far

browseVars == <<minute, account, kept, page, pageFile, reader, warmed, halts>>

Reader == Viewer \cup {Poller}
Account == {"none", "newCentral", "classic", "spokes"}

(* An answer is when it came and whether it holds anything.                 *)
Part == [fetched: 0..MaxMinute, empty: BOOLEAN]
Asked == [fetched |-> -1, empty |-> TRUE]
NeverKept == [at |-> -1, part |-> Asked]

(* rows: the clients are listed one by one, or as sums in an older format,  *)
(* or only counted by site.                                                 *)
PageValue == [parts: [Feed -> Part], cachedAt: 0..MaxMinute, from: Account,
              rows: {"each", "sums", "bySite"}]
NoPage == [parts |-> <<>>, cachedAt |-> 0, from |-> "none", rows |-> "each"]
IdleReader == [step |-> "idle", start |-> 0, from |-> "none", sites |-> "asked",
               got |-> [f \in Feed |-> Asked]]

BrowseTypeOK ==
    /\ minute \in 0..MaxMinute /\ account \in Account
    /\ kept \in [Feed -> [at: Int, part: Part] \cup {NeverKept}]
    /\ page \in PageValue \cup {NoPage} /\ pageFile \in PageValue \cup {NoPage}
    /\ reader \in [Reader -> [step: {"idle", "fetch"}, start: 0..MaxMinute, from: Account,
                              sites: {"asked", "there", "failed"},
                              got: [Feed -> Part \cup {Asked}]]]
    /\ warmed \in BOOLEAN /\ halts \in 0..MaxHalt

EmptyPart(now) == [fetched |-> now, empty |-> TRUE]
OldPage == [parts |-> [f \in Feed |-> EmptyPart(0)], cachedAt |-> 0,
            from |-> "spokes", rows |-> "sums"]

BrowseInit ==
    /\ minute = 0 /\ account \in Account
    /\ kept = [f \in Feed |-> NeverKept]
    /\ page = NoPage /\ pageFile \in {NoPage, OldPage}
    /\ reader = [r \in Reader |-> IdleReader]
    /\ warmed = FALSE /\ halts = 0

-----------------------------------------------------------------------------
(* Mutant of FromCache: an answer never gets old.                           *)
AnyAge(f) == IF kept[f] # NeverKept THEN kept[f].part ELSE Asked

(* _nc_devices, _nc_clients, _new_central_alerts and _insights: a cached    *)
(* answer is used while it is young.  The feeds are looked up together,     *)
(* before any of them is awaited.                                           *)
FromCache(f) ==
    IF kept[f] # NeverKept /\ minute - kept[f].at < KeepFor[f]
    THEN kept[f].part ELSE Asked

(* An answer is stamped when it comes; one with nothing in it, which an     *)
(* error is as well, as much earlier as it is to be kept for less.          *)
Stamped(f, part) ==
    [at |-> IF part.empty THEN minute - (KeepFor[f] - KeepEmpty[f]) ELSE minute,
     part |-> part]

Keep1(f, part) == kept' = [kept EXCEPT ![f] = Stamped(f, part)]

(* What is kept of a page in the older format.                              *)
Normalized(p) == IF p.rows = "sums" THEN [p EXCEPT !.rows = "bySite"] ELSE p

(* _save_browse_disk_cache, when the write succeeds.                        *)
Save(p) == page' = p /\ pageFile' = p

(* The page that was left on disk, when there is none in memory.            *)
Warm == IF page = NoPage THEN pageFile ELSE page

-----------------------------------------------------------------------------
(* _refresh_central_browse: the page is dated by the start.  Without an     *)
(* account, and from the spokes' telemetry, it is written at once;          *)
(* otherwise browse_all asks for everything the caches do not answer.       *)
Refresh(r) ==
    /\ reader[r].step = "idle"
    /\ \/ /\ account \in {"none", "spokes"}
          /\ \E parts \in IF account = "none" THEN {[f \in Feed |-> EmptyPart(minute)]}
                          ELSE [Feed -> [fetched: {minute}, empty: BOOLEAN]],
                rows \in IF account = "none" THEN {"each"} ELSE {"each", "bySite"} :
                Save([parts |-> parts, cachedAt |-> minute, from |-> account, rows |-> rows])
          /\ UNCHANGED reader
       \/ /\ account \in {"newCentral", "classic"}
          /\ reader' = [reader EXCEPT ![r] =
                [step |-> "fetch", start |-> minute, from |-> account, sites |-> "asked",
                 got |-> [f \in Feed |-> IF account = "newCentral" THEN FromCache(f)
                                         ELSE Asked]]]
          /\ page' = Warm
          /\ UNCHANGED pageFile
    /\ UNCHANGED <<minute, account, kept, warmed, halts>>

(* central_browse_poller: the first pass only reads the disk, the others    *)
(* refresh a page that is old enough.                                       *)
WarmUp ==
    /\ ~warmed /\ warmed' = TRUE
    /\ page' = Warm
    /\ UNCHANGED <<minute, account, kept, pageFile, reader, halts>>

Poll ==
    /\ warmed
    /\ page = NoPage \/ minute - page.cachedAt >= Interval
    /\ Refresh(Poller)

(* hub_central_browse: refreshed when asked to, when there is nothing, or   *)
(* when the clients are not listed one by one.                              *)
View(v) == Refresh(v)

(* The page as it is, read from the disk if need be.                        *)
ViewCached ==
    /\ Warm # NoPage /\ Warm.rows = "each" /\ page = NoPage
    /\ page' = Warm
    /\ UNCHANGED <<minute, account, kept, pageFile, reader, warmed, halts>>

-----------------------------------------------------------------------------
(* One feed has answered, or failed, which looks the same.                  *)
Answer(r, f) ==
    /\ reader[r].step = "fetch" /\ reader[r].got[f] = Asked
    /\ \E empty \in BOOLEAN :
        LET part == [fetched |-> minute, empty |-> empty]
        IN  /\ reader' = [reader EXCEPT ![r].got[f] = part]
            /\ IF reader[r].from = "newCentral" THEN Keep1(f, part) ELSE UNCHANGED kept
    /\ UNCHANGED <<minute, account, page, pageFile, warmed, halts>>

(* list_sites has no cache; the classic interface's errors are not raised.  *)
AnswerSites(r) ==
    /\ reader[r].step = "fetch" /\ reader[r].sites = "asked"
    /\ \E how \in IF reader[r].from = "newCentral" THEN {"there", "failed"} ELSE {"there"} :
        reader' = [reader EXCEPT ![r].sites = how]
    /\ UNCHANGED <<minute, account, kept, page, pageFile, warmed, halts>>

Complete(r) ==
    /\ reader[r].step = "fetch" /\ reader[r].sites # "asked"
    /\ \A f \in Feed : reader[r].got[f] # Asked

PageOf(r) == [parts |-> reader[r].got, cachedAt |-> reader[r].start,
              from |-> reader[r].from, rows |-> "each"]

(* The answers become the page, unless the sites failed; a request then     *)
(* brings what it finds in memory into the present format.                  *)
Finish(r) ==
    /\ Complete(r)
    /\ reader' = [reader EXCEPT ![r] = IdleReader]
    /\ IF reader[r].sites = "there" THEN Save(PageOf(r))
       ELSE IF r # Poller /\ page # Normalized(page) THEN Save(Normalized(page))
       ELSE UNCHANGED <<page, pageFile>>
    /\ UNCHANGED <<minute, account, kept, warmed, halts>>

-----------------------------------------------------------------------------
(* The memory is lost; a file that was being written cannot be read.        *)
Halt ==
    /\ halts < MaxHalt /\ halts' = halts + 1
    /\ kept' = [f \in Feed |-> NeverKept]
    /\ page' = NoPage /\ warmed' = FALSE
    /\ pageFile' \in {pageFile} \cup
           (IF \E r \in Reader : Complete(r) /\ reader[r].sites = "there" THEN {NoPage} ELSE {})
    /\ reader' = [r \in Reader |-> IdleReader]
    /\ UNCHANGED <<minute, account>>

AMinute ==
    /\ minute < MaxMinute /\ minute' = minute + 1
    /\ UNCHANGED <<account, kept, page, pageFile, reader, warmed, halts>>

BrowseNext ==
    \/ WarmUp \/ Poll \/ ViewCached
    \/ \E v \in Viewer : View(v)
    \/ \E r \in Reader, f \in Feed : Answer(r, f)
    \/ \E r \in Reader : AnswerSites(r) \/ Finish(r)
    \/ Halt \/ AMinute

BrowseSpec == BrowseInit /\ [][BrowseNext]_browseVars

-----------------------------------------------------------------------------
(* The date of the page, which says "cached_at" and decides when the poller *)
(* looks again, is true of all of it within the life of a cache entry:      *)
(* whoever refreshed first, whatever failed, and after a restart, nothing   *)
(* on a page is older than its date by more than its feed's cache allows,   *)
(* and an empty list by more than the shorter time given to empty answers.  *)
BrowseDated ==
    \A p \in {page, pageFile} :
        p # NoPage /\ p.from = "newCentral" =>
            \A f \in Feed :
                LET part == p.parts[f]
                IN  p.cachedAt < part.fetched
                        + (IF part.empty THEN KeepEmpty[f] ELSE KeepFor[f])
============================================================================
