----------------------------- MODULE AssetCache -----------------------------
(***************************************************************************)
(* The service worker (sw.js): one worker and one cache per deployed       *)
(* revision, network-first answers that are cached in passing, and an      *)
(* activation that throws other caches away.  Pages, the server and the    *)
(* browser's life cycle of workers are external.                           *)
(*                                                                         *)
(* Revisions are numbered in the order of their deployment.  The server    *)
(* answers a request for a path with the content it has deployed, whatever *)
(* ?v= the address carries; content is named by its revision.  Pages ask   *)
(* for most of their files with the ?v= of their revision and for some     *)
(* without any: the manifest, the icon, the fonts and the locales.         *)
(***************************************************************************)
EXTENDS Naturals, FiniteSets

CONSTANTS
    Assets,         \* the paths of urlsToCache
    Versioned,      \* paths that index.html asks for with ?v=
    Plain,          \* paths that pages ask for without it
    SessionPaths,   \* paths of networkOnlyPaths and under /api/
    MaxRevision,    \* bound: revisions deployed
    MaxPuts         \* bound: answers being cached at a time

ASSUME AssetCacheAssumption ==
    /\ MaxRevision \in Nat \ {0} /\ MaxPuts \in Nat \ {0}
    /\ IsFiniteSet(Assets)
    /\ (Assets \cup Versioned \cup Plain) \cap SessionPaths = {}

Revisions == 1..MaxRevision

\* The address of a path without ?v=
Unversioned == 0

Urls == ((Assets \cup Versioned) \X Revisions) \cup (Plain \X {Unversioned})

\* Broken variant: an address without a revision
assetUrlPlain(path, revision) == <<path, 1>>

\* The address of an asset under a revision
assetUrl(path, revision) == <<path, revision>>

\* What a page of revision p asks for
PageUrls(p) == {assetUrl(path, p) : path \in Versioned} \cup (Plain \X {Unversioned})

Missing == 0
NoCache == [url \in Urls |-> Missing]

VARIABLES
    deployed,       \* the revision the server has deployed
    online,         \* the browser reaches the server
    pages,          \* the revisions of the open pages
    worker,         \* worker[r]: the life of the worker of revision r
    open,           \* the revisions whose cache exists
    cached,         \* cached[r][url]: the content the cache of r holds
    detached,       \* installing workers whose cache was deleted
    gathered,       \* gathered[r][a]: what an installing worker fetched
    puts,           \* answers a worker has still to put into its cache
    sweep,          \* sweep[r]: caches the activation of r has still to delete
    robbed          \* history: workers whose cache another one deleted

vars == <<deployed, online, pages, worker, open, cached, detached, gathered,
          puts, sweep, robbed>>

Nothing == [a \in Assets |-> Missing]

CacheInit ==
    /\ deployed = 1 /\ online = TRUE /\ pages = {}
    /\ worker = [r \in Revisions |-> "none"]
    /\ open = {} /\ cached = [r \in Revisions |-> NoCache]
    /\ detached = {} /\ gathered = [r \in Revisions |-> Nothing]
    /\ puts = {} /\ sweep = [r \in Revisions |-> {}] /\ robbed = {}

ActiveWorkers == {r \in Revisions : worker[r] = "active"}

-----------------------------------------------------------------------------
(***************************************************************************)
(* The surroundings.                                                       *)
(***************************************************************************)
Deploy ==
    /\ deployed < MaxRevision
    /\ deployed' = deployed + 1
    /\ UNCHANGED <<online, pages, worker, open, cached, detached, gathered, puts,
                   sweep, robbed>>

LoseOrRegainNetwork ==
    /\ online' = ~online
    /\ UNCHANGED <<deployed, pages, worker, open, cached, detached, gathered, puts,
                   sweep, robbed>>

\* A navigation is never answered from a cache, so a page has the revision
\* that was deployed when it was opened; any page may be closed.
OpenPage ==
    /\ online /\ deployed \notin pages
    /\ pages' = pages \cup {deployed}
    /\ UNCHANGED <<deployed, online, worker, open, cached, detached, gathered, puts,
                   sweep, robbed>>

ClosePage ==
    /\ \E p \in pages : pages' = pages \ {p}
    /\ UNCHANGED <<deployed, online, worker, open, cached, detached, gathered, puts,
                   sweep, robbed>>

-----------------------------------------------------------------------------
(***************************************************************************)
(* Installation.  One worker installs at a time.                           *)
(***************************************************************************)
\* A page makes the browser look for a new worker; its install handler opens
\* the cache of its revision.
Install ==
    /\ online /\ pages # {}
    /\ worker[deployed] = "none"
    /\ \A r \in Revisions : worker[r] # "installing"
    /\ worker' = [worker EXCEPT ![deployed] = "installing"]
    /\ open' = open \cup {deployed}
    /\ gathered' = [gathered EXCEPT ![deployed] = Nothing]
    /\ robbed' = robbed \ {deployed}
    /\ UNCHANGED <<deployed, online, pages, cached, detached, puts, sweep>>

\* One request of cache.addAll is answered.
GatherAsset(r) ==
    /\ online /\ worker[r] = "installing"
    /\ \E a \in Assets : /\ gathered[r][a] = Missing
                         /\ gathered' = [gathered EXCEPT ![r][a] = deployed]
    /\ UNCHANGED <<deployed, online, pages, worker, open, cached, detached, puts,
                   sweep, robbed>>

\* Broken variant: each answer counts by itself
AllGatheredOne(r) == \E a \in Assets : gathered[r][a] # Missing

\* addAll stores all answers or none
AllGathered(r) == \A a \in Assets : gathered[r][a] # Missing

Stored(r) ==
    [url \in Urls |-> IF /\ url[1] \in Assets /\ url[2] = r
                         /\ gathered[r][url[1]] # Missing
                      THEN gathered[r][url[1]] ELSE cached[r][url]]

\* addAll succeeds; what it stores in a deleted cache is lost.
InstallEnds(r) ==
    /\ worker[r] = "installing" /\ AllGathered(r)
    /\ worker' = [q \in Revisions |->
                    IF q = r THEN "installed"
                    ELSE IF worker[q] = "installed" THEN "redundant" ELSE worker[q]]
    /\ cached' = IF r \in detached THEN cached ELSE [cached EXCEPT ![r] = Stored(r)]
    /\ detached' = detached \ {r}
    /\ UNCHANGED <<deployed, online, pages, open, gathered, puts, sweep, robbed>>

\* A request fails: the worker is thrown away, the cache it opened stays.
InstallFails(r) ==
    /\ worker[r] = "installing"
    /\ worker' = [worker EXCEPT ![r] = "none"]
    /\ detached' = detached \ {r}
    /\ UNCHANGED <<deployed, online, pages, open, cached, gathered, puts, sweep,
                   robbed>>

-----------------------------------------------------------------------------
(***************************************************************************)
(* Activation: skipWaiting lets a new worker take over while pages of the  *)
(* old one are open, but not while the old one has events to finish.       *)
(***************************************************************************)
\* Broken variant: putting an answer does not extend its event
NothingPending(r) == TRUE

\* event.waitUntil: an event lasts until its answer is in the cache
EventsFinished(r) == \A p \in puts : p.by # r

Activate(r) ==
    /\ worker[r] = "installed"
    /\ \A q \in Revisions : worker[q] \notin {"activating", "sweeping"}
    /\ \A q \in ActiveWorkers : EventsFinished(q)
    /\ worker' = [q \in Revisions |-> IF q = r THEN "activating"
                                      ELSE IF q \in ActiveWorkers THEN "redundant"
                                      ELSE worker[q]]
    /\ UNCHANGED <<deployed, online, pages, open, cached, detached, gathered, puts,
                   sweep, robbed>>

\* Those of caches.keys() that are not in cacheWhitelist
OtherCaches(r) == open \ {r}

ListCaches(r) ==
    /\ worker[r] = "activating"
    /\ worker' = [worker EXCEPT ![r] = "sweeping"]
    /\ sweep' = [sweep EXCEPT ![r] = OtherCaches(r)]
    /\ UNCHANGED <<deployed, online, pages, open, cached, detached, gathered, puts,
                   robbed>>

DeleteCache(r) ==
    \E c \in sweep[r] :
       /\ worker[r] = "sweeping"
       /\ sweep' = [sweep EXCEPT ![r] = @ \ {c}]
       /\ open' = open \ {c}
       /\ cached' = [cached EXCEPT ![c] = NoCache]
       /\ detached' = IF worker[c] = "installing" THEN detached \cup {c} ELSE detached
       /\ robbed' = robbed \cup {c}
       /\ UNCHANGED <<deployed, online, pages, worker, gathered, puts>>

\* Promise.all over the deletions
SweepDone(r) == sweep[r] = {}

\* clients.claim: the worker handles the requests of all open pages.
ClaimClients(r) ==
    /\ worker[r] = "sweeping" /\ SweepDone(r)
    /\ worker' = [worker EXCEPT ![r] = "active"]
    /\ UNCHANGED <<deployed, online, pages, open, cached, detached, gathered, puts,
                   sweep, robbed>>

-----------------------------------------------------------------------------
(***************************************************************************)
(* Requests.                                                               *)
(***************************************************************************)
shouldBypassCache(path) == path \in SessionPaths

\* A page asks for something and the server answers with status 200 (other
\* answers are passed on and change nothing): the page has the answer, the
\* cache will.
Fetch(r) ==
    /\ online /\ worker[r] = "active" /\ Cardinality(puts) < MaxPuts
    /\ \E p \in pages : \E url \in PageUrls(p) \cup (SessionPaths \X {Unversioned}) :
          /\ ~shouldBypassCache(url[1])
          /\ puts' = puts \cup {[by |-> r, url |-> url, content |-> deployed]}
    /\ UNCHANGED <<deployed, online, pages, worker, open, cached, detached, gathered,
                   sweep, robbed>>

\* caches.open creates the cache when it does not exist.
PutAnswer(r) ==
    \E p \in puts :
       /\ p.by = r
       /\ puts' = puts \ {p}
       /\ open' = open \cup {r}
       /\ cached' = [cached EXCEPT ![r][p.url] = p.content]
       /\ UNCHANGED <<deployed, online, pages, worker, detached, gathered, sweep,
                      robbed>>

\* What a page gets when the server cannot be reached: the first match of any
\* cache, if there is one.
Matches(url) == {cached[r][url] : r \in open} \ {Missing}

CacheNext ==
    \/ Deploy \/ LoseOrRegainNetwork \/ OpenPage \/ ClosePage \/ Install
    \/ \E r \in Revisions :
          \/ GatherAsset(r) \/ InstallEnds(r) \/ InstallFails(r)
          \/ Activate(r) \/ ListCaches(r) \/ DeleteCache(r) \/ ClaimClients(r)
          \/ Fetch(r) \/ PutAnswer(r)

CacheSpec == CacheInit /\ [][CacheNext]_vars

-----------------------------------------------------------------------------
(***************************************************************************)
(* Properties                                                              *)
(***************************************************************************)
\* Whatever cache answers a page that lost the network (caches.match over all
\* caches, sw.js:92), under the ?v= of its revision it gets nothing older than
\* the page.  An address without ?v= promises less: nothing older than the
\* worker that answers, which may be older than the page.
NothingStaleServed ==
    \A r \in ActiveWorkers, p \in pages : \A url \in PageUrls(p) :
       \A content \in Matches(url) :
          content >= IF url[2] = Unversioned THEN r ELSE p

\* A worker that took over has all assets of its revision in its cache, unless
\* the activation of another worker deleted it (addAll, sw.js:44; the deletion,
\* :111).
InstalledShellComplete ==
    \A r \in Revisions \ robbed :
       worker[r] \in {"installed", "activating", "sweeping", "active"} =>
          \A a \in Assets : cached[r][assetUrl(a, r)] # Missing

\* Once a worker is active, no cache of an older revision is left or comes
\* back: answers the old worker had still to store are stored before
\* (waitUntil around cache.put, sw.js:83).
OldCachesGone ==
    \A r \in ActiveWorkers, c \in open : c >= r
=============================================================================
