-------------------------- MODULE AssetCacheProofs --------------------------
(***************************************************************************)
(* Proofs about AssetCache, for any number of revisions and any assets.    *)
(* The invariant says of everything a worker holds or has still to store   *)
(* how old it may be, and who may still store anything at all.             *)
(***************************************************************************)
EXTENDS AssetCache, TLAPS

Life == {"none", "installing", "installed", "activating", "sweeping", "active", "redundant"}
Content == 0 .. MaxRevision
Answer == [by : Revisions, url : Urls, content : Revisions]

CacheTypeOK ==
    /\ deployed \in Revisions
    /\ online \in BOOLEAN
    /\ pages \subseteq Revisions
    /\ worker \in [Revisions -> Life]
    /\ open \subseteq Revisions
    /\ cached \in [Revisions -> [Urls -> Content]]
    /\ detached \subseteq Revisions
    /\ gathered \in [Revisions -> [Assets -> Content]]
    /\ puts \subseteq Answer
    /\ sweep \in [Revisions -> SUBSET Revisions]
    /\ robbed \subseteq Revisions

\* Pages and workers exist only of revisions that have been deployed.
NothingFromTheFuture ==
    /\ \A p \in pages : p <= deployed
    /\ \A r \in Revisions : worker[r] # "none" => r <= deployed

\* What is cached under an address, or will be, is of the revision the address
\* names or newer, and never older than the worker whose cache it is in.
CachedAreRecent ==
    \A r \in Revisions, url \in Urls :
        cached[r][url] # Missing => cached[r][url] >= url[2] /\ cached[r][url] >= r
PutsAreRecent ==
    \A p \in puts : p.content >= p.url[2] /\ p.content >= p.by
GatheredAreRecent ==
    \A r \in Revisions, a \in Assets :
        worker[r] = "installing" /\ gathered[r][a] # Missing => gathered[r][a] >= r

\* An installing worker without its cache lost it to another worker.
DetachedAreRobbed ==
    \A r \in detached : worker[r] = "installing" /\ r \in robbed

\* One worker takes over at a time, and only the active one has answers to store.
TakingOver == {r \in Revisions : worker[r] \in {"activating", "sweeping", "active"}}
OneTakesOver == \A q, r \in TakingOver : q = r
PutsByActive == \A p \in puts : worker[p.by] = "active"

\* An activation knows all older caches that are left.
OldCachesListed ==
    \A r \in Revisions, c \in open :
        worker[r] = "sweeping" /\ c < r => c \in sweep[r]

CacheInv ==
    /\ CacheTypeOK
    /\ NothingFromTheFuture
    /\ CachedAreRecent /\ PutsAreRecent /\ GatheredAreRecent
    /\ DetachedAreRobbed /\ InstalledShellComplete
    /\ OneTakesOver /\ PutsByActive /\ OldCachesListed /\ OldCachesGone

-----------------------------------------------------------------------------
(* Types *)

LEMMA InitCorrect == CacheInit => CacheInv
<1> SUFFICES ASSUME CacheInit  PROVE CacheInv
    OBVIOUS
<1>1. MaxRevision \in Nat \ {0}
    BY AssetCacheAssumption
<1>2. CacheTypeOK
    BY <1>1 DEF CacheInit, CacheTypeOK, Life, Content, Revisions, NoCache, Nothing, Missing
<1>3. \A r \in Revisions : worker[r] = "none"
    BY DEF CacheInit
<1>4. \A r \in Revisions, url \in Urls : cached[r][url] = Missing
    BY DEF CacheInit, NoCache
<1>5. pages = {} /\ puts = {} /\ open = {} /\ detached = {}
    BY DEF CacheInit
<1>6. InstalledShellComplete /\ OneTakesOver /\ OldCachesGone /\ GatheredAreRecent
    BY <1>3, <1>5 DEF InstalledShellComplete, OneTakesOver, TakingOver, OldCachesGone,
                      GatheredAreRecent
<1> QED
    BY <1>2, <1>3, <1>4, <1>5, <1>6 DEF CacheInv, NothingFromTheFuture, CachedAreRecent,
        PutsAreRecent, DetachedAreRobbed, PutsByActive, OldCachesListed

\* An asset's address is one, and names the asset and the revision.
LEMMA AddressOfAsset ==
    ASSUME NEW a \in Assets \cup Versioned, NEW r \in Revisions
    PROVE  /\ assetUrl(a, r) \in Urls
           /\ assetUrl(a, r)[1] = a /\ assetUrl(a, r)[2] = r
BY DEF assetUrl, Urls

\* The tag of an address is a revision, or the address is without one.
LEMMA TagOfAddress ==
    ASSUME NEW url \in Urls
    PROVE  url[2] \in Revisions \/ url[2] = Unversioned
BY DEF Urls

\* What a page of revision p asks for has the tag p or none.
LEMMA AddressesOfPage ==
    ASSUME NEW p \in Revisions, NEW url \in PageUrls(p)
    PROVE  url \in Urls /\ (url[2] = p \/ url[2] = Unversioned)
<1>1. CASE \E path \in Versioned : url = assetUrl(path, p)
    BY <1>1, AddressOfAsset
<1>2. CASE url \in Plain \X {Unversioned}
    BY <1>2 DEF Urls
<1> QED  BY <1>1, <1>2 DEF PageUrls

\* A request that is cached is one of these: nothing of a session is.
LEMMA FetchedAddress ==
    ASSUME NEW r \in Revisions, Fetch(r)
    PROVE  \E p \in pages : \E url \in PageUrls(p) :
              puts' = puts \cup {[by |-> r, url |-> url, content |-> deployed]}
<1>1. PICK p \in pages : \E url \in PageUrls(p) \cup (SessionPaths \X {Unversioned}) :
         /\ ~shouldBypassCache(url[1])
         /\ puts' = puts \cup {[by |-> r, url |-> url, content |-> deployed]}
    BY DEF Fetch
<1>2. PICK url \in PageUrls(p) \cup (SessionPaths \X {Unversioned}) :
         /\ ~shouldBypassCache(url[1])
         /\ puts' = puts \cup {[by |-> r, url |-> url, content |-> deployed]}
    BY <1>1
<1>3. url \in PageUrls(p)
    BY <1>2 DEF shouldBypassCache
<1> QED  BY <1>2, <1>3

\* What a worker of r installs: its own addresses have what it gathered.
LEMMA StoredContent ==
    ASSUME CacheTypeOK, NEW r \in Revisions
    PROVE  /\ Stored(r) \in [Urls -> Content]
           /\ \A url \in Urls :
                 Stored(r)[url] = IF /\ url[1] \in Assets /\ url[2] = r
                                     /\ gathered[r][url[1]] # Missing
                                  THEN gathered[r][url[1]] ELSE cached[r][url]
<1>1. \A url \in Urls : /\ cached[r][url] \in Content
                        /\ url[1] \in Assets => gathered[r][url[1]] \in Content
    BY DEF CacheTypeOK
<1> QED  BY <1>1 DEF Stored

LEMMA TypesKept ==
    ASSUME CacheInv, CacheNext
    PROVE  CacheTypeOK'
<1> USE DEF CacheInv, CacheTypeOK
<1>0. MaxRevision \in Nat \ {0} /\ Revisions \subseteq Content /\ Missing \in Content
    BY AssetCacheAssumption DEF Revisions, Content, Missing
<1>1. CASE Deploy
    BY <1>1, <1>0 DEF Deploy, Revisions
<1>2. CASE LoseOrRegainNetwork \/ OpenPage \/ ClosePage
    BY <1>2 DEF LoseOrRegainNetwork, OpenPage, ClosePage
<1>3. CASE Install
    <2>1. Nothing \in [Assets -> Content]
        BY <1>0 DEF Nothing
    <2> QED  BY <1>3, <2>1 DEF Install, Life
<1>4. ASSUME NEW r \in Revisions, GatherAsset(r)  PROVE CacheTypeOK'
    BY <1>0, <1>4 DEF GatherAsset
<1>5. ASSUME NEW r \in Revisions, InstallEnds(r)  PROVE CacheTypeOK'
    <2>1. worker' \in [Revisions -> Life]
        BY <1>5 DEF InstallEnds, Life
    <2>2. cached' \in [Revisions -> [Urls -> Content]]
        BY <1>5, StoredContent DEF InstallEnds
    <2> QED  BY <1>5, <2>1, <2>2 DEF InstallEnds
<1>6. ASSUME NEW r \in Revisions, InstallFails(r) \/ ListCaches(r) \/ ClaimClients(r)
      PROVE  CacheTypeOK'
    BY <1>6 DEF InstallFails, ListCaches, ClaimClients, OtherCaches, Life
<1>7. ASSUME NEW r \in Revisions, Activate(r)  PROVE CacheTypeOK'
    BY <1>7 DEF Activate, Life
<1>8. ASSUME NEW r \in Revisions, DeleteCache(r)  PROVE CacheTypeOK'
    <2>1. PICK c \in sweep[r] : DeleteCache(r)!(c)
        BY <1>8 DEF DeleteCache
    <2>2. c \in Revisions
        OBVIOUS
    <2>3. NoCache \in [Urls -> Content]
        BY <1>0 DEF NoCache
    <2> QED  BY <2>1, <2>2, <2>3
<1>9. ASSUME NEW r \in Revisions, Fetch(r)  PROVE CacheTypeOK'
    <2>1. PICK p \in pages : \E url \in PageUrls(p) :
              puts' = puts \cup {[by |-> r, url |-> url, content |-> deployed]}
        BY <1>9, FetchedAddress
    <2>2. PICK url \in PageUrls(p) :
              puts' = puts \cup {[by |-> r, url |-> url, content |-> deployed]}
        BY <2>1
    <2>3. [by |-> r, url |-> url, content |-> deployed] \in Answer
        BY <2>2, AddressesOfPage DEF Answer
    <2> QED  BY <1>9, <2>2, <2>3 DEF Fetch
<1>10. ASSUME NEW r \in Revisions, PutAnswer(r)  PROVE CacheTypeOK'
    <2>1. PICK p \in puts : /\ p.by = r /\ puts' = puts \ {p} /\ open' = open \cup {r}
                            /\ cached' = [cached EXCEPT ![r][p.url] = p.content]
        BY <1>10 DEF PutAnswer
    <2>2. p.url \in Urls /\ p.content \in Content
        BY <1>0 DEF Answer
    <2>3. cached' \in [Revisions -> [Urls -> Content]]
        BY <2>1, <2>2
    <2> QED  BY <1>10, <2>1, <2>3 DEF PutAnswer
<1> QED
    BY <1>1, <1>2, <1>3, <1>4, <1>5, <1>6, <1>7, <1>8, <1>9, <1>10 DEF CacheNext

-----------------------------------------------------------------------------
(* How old things may be *)

LEMMA RecentKept ==
    ASSUME CacheInv, CacheNext
    PROVE  (NothingFromTheFuture /\ CachedAreRecent /\ PutsAreRecent /\ GatheredAreRecent)'
<1> USE DEF CacheInv, CacheTypeOK
<1> DEFINE Recent == NothingFromTheFuture /\ CachedAreRecent /\ PutsAreRecent /\ GatheredAreRecent
<1>0. MaxRevision \in Nat \ {0} /\ Revisions \subseteq Nat \ {0} /\ Content \subseteq Nat
      /\ \A url \in Urls : url[2] \in Nat
    BY AssetCacheAssumption, TagOfAddress DEF Revisions, Content, Unversioned
<1> USE DEF NothingFromTheFuture, CachedAreRecent, PutsAreRecent, GatheredAreRecent
<1>1. CASE Deploy
    BY <1>0, <1>1 DEF Deploy
<1>2. CASE LoseOrRegainNetwork \/ OpenPage \/ ClosePage
    <2>1. UNCHANGED <<deployed, worker, cached, gathered, puts>>
        BY <1>2 DEF LoseOrRegainNetwork, OpenPage, ClosePage
    <2>2. pages' \subseteq pages \cup {deployed}
        BY <1>2 DEF LoseOrRegainNetwork, OpenPage, ClosePage
    <2>3. deployed \in Nat /\ deployed <= deployed
        BY <1>0
    <2>4. \A p \in pages : p <= deployed
        OBVIOUS
    <2>5. \A p \in pages' : p <= deployed'
        BY <2>1, <2>2, <2>3, <2>4, Zenon
    <2>6. NothingFromTheFuture'
        BY <2>1, <2>5
    <2> QED  BY <2>1, <2>6
<1>3. CASE Install
    BY <1>0, <1>3 DEF Install, Nothing
<1>4. ASSUME NEW r \in Revisions, GatherAsset(r)  PROVE Recent'
    <2>1. UNCHANGED <<deployed, pages, worker, cached, puts>> /\ worker[r] = "installing"
        BY <1>4 DEF GatherAsset
    <2>2. PICK a \in Assets : gathered' = [gathered EXCEPT ![r][a] = deployed]
        BY <1>4 DEF GatherAsset
    <2>3. r <= deployed
        BY <2>1
    <2>4. \A q \in Revisions, b \in Assets :
             gathered'[q][b] = gathered[q][b] \/ (q = r /\ gathered'[q][b] = deployed)
        BY <2>2
    <2>5. GatheredAreRecent'
        BY <1>0, <2>1, <2>3, <2>4
    <2> QED  BY <2>1, <2>5
<1>5. ASSUME NEW r \in Revisions, InstallEnds(r)  PROVE Recent'
    <2>1. UNCHANGED <<deployed, pages, gathered, puts>> /\ worker[r] = "installing"
        BY <1>5 DEF InstallEnds
    <2> \A q \in Revisions : /\ worker'[q] # "none" => worker[q] # "none"
                             /\ worker'[q] = "installing" => worker[q] = "installing"
        BY <1>5 DEF InstallEnds
    <2>2. \A q \in Revisions, url \in Urls :
             \/ cached'[q][url] = cached[q][url]
             \/ q = r /\ cached'[q][url] = Stored(r)[url]
        BY <1>5 DEF InstallEnds
    <2>3. \A url \in Urls : Stored(r)[url] # Missing
                               => Stored(r)[url] >= url[2] /\ Stored(r)[url] >= r
        <3> SUFFICES ASSUME NEW url \in Urls, Stored(r)[url] # Missing
                     PROVE  Stored(r)[url] >= url[2] /\ Stored(r)[url] >= r
            OBVIOUS
        <3>1. \/ /\ url[1] \in Assets /\ url[2] = r /\ gathered[r][url[1]] # Missing
                 /\ Stored(r)[url] = gathered[r][url[1]]
              \/ Stored(r)[url] = cached[r][url]
            BY StoredContent
        <3>2. CASE Stored(r)[url] = cached[r][url]
            BY <3>2
        <3>3. CASE /\ url[1] \in Assets /\ url[2] = r /\ gathered[r][url[1]] # Missing
                   /\ Stored(r)[url] = gathered[r][url[1]]
            <4>1. gathered[r][url[1]] >= r
                BY <2>1, <3>3
            <4> QED  BY <3>3, <4>1
        <3> QED  BY <3>1, <3>2, <3>3
    <2>4. CachedAreRecent'
        <3> SUFFICES ASSUME NEW q \in Revisions, NEW url \in Urls, cached'[q][url] # Missing
                     PROVE  cached'[q][url] >= url[2] /\ cached'[q][url] >= q
            OBVIOUS
        <3>1. CASE cached'[q][url] = cached[q][url]
            BY <3>1
        <3>2. CASE q = r /\ cached'[q][url] = Stored(r)[url]
            BY <2>3, <3>2
        <3> QED  BY <2>2, <3>1, <3>2
    <2>5. NothingFromTheFuture'
        BY <2>1
    <2>6. GatheredAreRecent'
        BY <2>1
    <2> QED  BY <2>1, <2>4, <2>5, <2>6
<1>6. ASSUME NEW r \in Revisions, InstallFails(r) \/ ListCaches(r) \/ ClaimClients(r)
      PROVE  Recent'
    BY <1>6 DEF InstallFails, ListCaches, ClaimClients
<1>7. ASSUME NEW r \in Revisions, Activate(r)  PROVE Recent'
    BY <1>7 DEF Activate, ActiveWorkers
<1>8. ASSUME NEW r \in Revisions, DeleteCache(r)  PROVE Recent'
    <2>1. PICK c \in sweep[r] : DeleteCache(r)!(c)
        BY <1>8 DEF DeleteCache
    <2>2. c \in Revisions /\ cached' = [cached EXCEPT ![c] = NoCache]
        BY <2>1
    <2>3. CachedAreRecent'
        BY <2>2 DEF NoCache
    <2> QED  BY <2>1, <2>3
<1>9. ASSUME NEW r \in Revisions, Fetch(r)  PROVE Recent'
    <2>1. PICK p \in pages : \E url \in PageUrls(p) :
              puts' = puts \cup {[by |-> r, url |-> url, content |-> deployed]}
        BY <1>9, FetchedAddress
    <2>2. PICK url \in PageUrls(p) :
              puts' = puts \cup {[by |-> r, url |-> url, content |-> deployed]}
        BY <2>1
    <2>3. p <= deployed /\ r <= deployed /\ (url[2] = p \/ url[2] = Unversioned)
        BY <1>9, AddressesOfPage DEF Fetch
    <2>4. deployed >= url[2] /\ deployed >= r
        BY <1>0, <2>3 DEF Unversioned
    <2>5. PutsAreRecent'
        BY <2>2, <2>4
    <2> QED  BY <1>9, <2>5 DEF Fetch
<1>10. ASSUME NEW r \in Revisions, PutAnswer(r)  PROVE Recent'
    <2>1. PICK p \in puts : /\ p.by = r /\ puts' = puts \ {p}
                            /\ cached' = [cached EXCEPT ![r][p.url] = p.content]
        BY <1>10 DEF PutAnswer
    <2>2. UNCHANGED <<deployed, pages, worker, gathered>>
        BY <1>10 DEF PutAnswer
    <2>3. p.url \in Urls /\ p.content >= p.url[2] /\ p.content >= r
        BY <2>1 DEF Answer
    <2>4. \A q \in Revisions, url \in Urls :
             \/ cached'[q][url] = cached[q][url]
             \/ q = r /\ url = p.url /\ cached'[q][url] = p.content
        BY <2>1, <2>3
    <2>5. CachedAreRecent'
        BY <2>3, <2>4
    <2> QED  BY <2>1, <2>2, <2>5
<1> QED
    BY <1>1, <1>2, <1>3, <1>4, <1>5, <1>6, <1>7, <1>8, <1>9, <1>10 DEF CacheNext

-----------------------------------------------------------------------------
(* Complete caches *)

LEMMA ShellKept ==
    ASSUME CacheInv, CacheNext
    PROVE  (DetachedAreRobbed /\ InstalledShellComplete)'
<1> USE DEF CacheInv, CacheTypeOK
<1> DEFINE Shell == DetachedAreRobbed /\ InstalledShellComplete
           Has(r) == worker[r] \in {"installed", "activating", "sweeping", "active"}
<1>0. MaxRevision \in Nat \ {0} /\ Revisions \subseteq Nat \ {0}
    BY AssetCacheAssumption DEF Revisions
<1> USE DEF DetachedAreRobbed, InstalledShellComplete
<1>1. CASE Deploy \/ LoseOrRegainNetwork \/ OpenPage \/ ClosePage
    BY <1>1 DEF Deploy, LoseOrRegainNetwork, OpenPage, ClosePage
<1>2. CASE Install
    <2>1. UNCHANGED <<cached, detached>> /\ robbed' = robbed \ {deployed}
          /\ worker' = [worker EXCEPT ![deployed] = "installing"] /\ worker[deployed] = "none"
        BY <1>2 DEF Install
    <2> QED  BY <2>1
<1>3. ASSUME NEW r \in Revisions, GatherAsset(r) \/ InstallFails(r) \/ ListCaches(r)
                                   \/ ClaimClients(r) \/ Fetch(r)
      PROVE  Shell'
    BY <1>3 DEF GatherAsset, InstallFails, ListCaches, ClaimClients, Fetch
<1>4. ASSUME NEW r \in Revisions, InstallEnds(r)  PROVE Shell'
    <2>1. /\ worker[r] = "installing" /\ worker'[r] = "installed"
          /\ \A q \in Revisions \ {r} : Has(q)' => Has(q)
          /\ detached' = detached \ {r} /\ robbed' = robbed
          /\ \A q \in Revisions \ {r} : cached'[q] = cached[q]
          /\ \A q \in detached : q # r => worker'[q] = "installing"
        BY <1>4 DEF InstallEnds
    <2>2. ASSUME r \notin robbed, NEW a \in Assets
          PROVE  cached'[r][assetUrl(a, r)] # Missing
        <3>1. cached' = [cached EXCEPT ![r] = Stored(r)] /\ gathered[r][a] # Missing
            BY <1>4, <2>2 DEF InstallEnds, AllGathered
        <3>2. cached'[r] = Stored(r)
            BY <3>1
        <3>3. Stored(r)[assetUrl(a, r)] = gathered[r][a]
            <4>1. /\ assetUrl(a, r) \in Urls
                  /\ assetUrl(a, r)[1] = a /\ assetUrl(a, r)[2] = r
                BY AddressOfAsset
            <4>2. \A url \in Urls : url[1] \in Assets /\ url[2] = r
                                       /\ gathered[r][url[1]] # Missing
                                       => Stored(r)[url] = gathered[r][url[1]]
                BY StoredContent
            <4> QED  BY <3>1, <4>1, <4>2
        <3> QED  BY <3>1, <3>2, <3>3
    <2>3. DetachedAreRobbed'
        BY <2>1
    <2>4. ASSUME NEW q \in Revisions \ robbed', Has(q)', NEW a \in Assets
          PROVE  cached'[q][assetUrl(a, q)] # Missing
        <3>1. CASE q = r
            BY <2>1, <2>2, <2>4, <3>1
        <3>2. CASE q # r
            BY <2>1, <2>4, <3>2
        <3> QED  BY <3>1, <3>2
    <2> QED  BY <2>3, <2>4
<1>5. ASSUME NEW r \in Revisions, Activate(r)  PROVE Shell'
    <2>1. /\ UNCHANGED <<cached, detached, robbed>>
          /\ \A q \in Revisions : Has(q)' => Has(q)
          /\ \A q \in detached : worker'[q] = "installing"
        BY <1>5 DEF Activate, ActiveWorkers
    <2> QED  BY <2>1
<1>6. ASSUME NEW r \in Revisions, DeleteCache(r)  PROVE Shell'
    <2>1. PICK c \in sweep[r] : DeleteCache(r)!(c)
        BY <1>6 DEF DeleteCache
    <2>2. /\ worker' = worker /\ robbed' = robbed \cup {c}
          /\ \A q \in Revisions \ {c} : cached'[q] = cached[q]
          /\ \A q \in detached' : q \in detached \/ (q = c /\ worker[q] = "installing")
        BY <2>1
    <2> QED  BY <2>2
<1>7. ASSUME NEW r \in Revisions, PutAnswer(r)  PROVE Shell'
    <2>1. PICK p \in puts : cached' = [cached EXCEPT ![r][p.url] = p.content]
        BY <1>7 DEF PutAnswer
    <2>2. p.url \in Urls /\ p.content # Missing
        BY <1>0 DEF Answer, Missing
    <2>3. \A q \in Revisions, url \in Urls :
             cached'[q][url] = cached[q][url] \/ cached'[q][url] # Missing
        BY <2>1, <2>2
    <2>4. UNCHANGED <<worker, detached, robbed>>
        BY <1>7 DEF PutAnswer
    <2> QED  BY <2>3, <2>4, AddressOfAsset
<1> QED
    BY <1>1, <1>2, <1>3, <1>4, <1>5, <1>6, <1>7 DEF CacheNext

-----------------------------------------------------------------------------
(* Who takes over, and which caches it leaves *)

LEMMA TakeOverKept ==
    ASSUME CacheInv, CacheNext
    PROVE  (OneTakesOver /\ PutsByActive /\ OldCachesListed /\ OldCachesGone)'
<1> USE DEF CacheInv, CacheTypeOK
<1> DEFINE Orderly == OneTakesOver /\ PutsByActive /\ OldCachesListed /\ OldCachesGone
<1>0. MaxRevision \in Nat \ {0} /\ Revisions \subseteq Nat \ {0}
    BY AssetCacheAssumption DEF Revisions
<1> USE DEF OneTakesOver, PutsByActive, OldCachesListed, OldCachesGone, TakingOver,
            ActiveWorkers
<1>1. CASE Deploy \/ LoseOrRegainNetwork \/ OpenPage \/ ClosePage
    BY <1>1 DEF Deploy, LoseOrRegainNetwork, OpenPage, ClosePage
<1>2. CASE Install
    <2>1. /\ \A q \in Revisions : worker'[q] = worker[q]
                                     \/ (worker[q] = "none" /\ worker'[q] = "installing")
          /\ open' = open \cup {deployed} /\ UNCHANGED <<puts, sweep>>
        BY <1>2 DEF Install
    <2>2. \A q \in Revisions : worker'[q] \in {"sweeping", "active"} => ~(deployed < q)
        BY <1>0, <2>1 DEF NothingFromTheFuture
    <2>3. OneTakesOver'
        BY <2>1
    <2>4. PutsByActive'
        BY <2>1 DEF Answer
    <2>5. OldCachesListed'
        BY <2>1, <2>2
    <2>6. OldCachesGone'
        BY <1>0, <2>1, <2>2
    <2> QED  BY <2>3, <2>4, <2>5, <2>6
<1>3. ASSUME NEW r \in Revisions, GatherAsset(r) \/ InstallEnds(r) \/ InstallFails(r)
      PROVE  Orderly'
    <2>1. /\ \A q \in Revisions : worker'[q] = worker[q]
                 \/ /\ worker[q] \in {"installing", "installed"}
                    /\ worker'[q] \in {"none", "installed", "redundant"}
          /\ UNCHANGED <<open, puts, sweep>>
        BY <1>3 DEF GatherAsset, InstallEnds, InstallFails
    <2>2. OneTakesOver' /\ OldCachesListed' /\ OldCachesGone'
        BY <2>1
    <2>3. PutsByActive'
        BY <2>1 DEF Answer
    <2> QED  BY <2>2, <2>3
<1>4. ASSUME NEW r \in Revisions, Activate(r)  PROVE Orderly'
    <2>1. /\ worker[r] = "installed" /\ UNCHANGED <<open, puts, sweep>>
          /\ \A q \in Revisions : worker[q] \notin {"activating", "sweeping"}
          /\ worker'[r] = "activating"
          /\ \A q \in Revisions \ {r} : worker'[q] = IF worker[q] = "active" THEN "redundant"
                                                     ELSE worker[q]
        BY <1>4 DEF Activate
    <2>2. puts = {}
        BY <1>4 DEF Activate, EventsFinished, Answer
    <2>3. \A q \in Revisions : worker'[q] \notin {"sweeping", "active"}
        BY <2>1
    <2>4. OneTakesOver'
        BY <2>1, <2>3
    <2> QED  BY <2>1, <2>2, <2>3, <2>4
<1>5. ASSUME NEW r \in Revisions, ListCaches(r)  PROVE Orderly'
    <2>1. /\ worker[r] = "activating" /\ worker' = [worker EXCEPT ![r] = "sweeping"]
          /\ sweep' = [sweep EXCEPT ![r] = open \ {r}] /\ UNCHANGED <<open, puts>>
        BY <1>5 DEF ListCaches, OtherCaches
    <2>2. PutsByActive'
        BY <2>1 DEF Answer
    <2>3. OneTakesOver' /\ OldCachesGone'
        BY <2>1
    <2>4. OldCachesListed'
        BY <1>0, <2>1
    <2> QED  BY <2>2, <2>3, <2>4
<1>6. ASSUME NEW r \in Revisions, DeleteCache(r)  PROVE Orderly'
    <2>1. PICK c \in sweep[r] : DeleteCache(r)!(c)
        BY <1>6 DEF DeleteCache
    <2>2. \A q \in Revisions : sweep[q] \ {c} \subseteq sweep'[q]
        BY <2>1
    <2> QED  BY <2>1, <2>2
<1>7. ASSUME NEW r \in Revisions, ClaimClients(r)  PROVE Orderly'
    <2>1. /\ worker[r] = "sweeping" /\ worker' = [worker EXCEPT ![r] = "active"]
          /\ sweep[r] = {} /\ UNCHANGED <<open, puts, sweep>>
        BY <1>7 DEF ClaimClients, SweepDone
    <2>2. \A c \in open : c >= r
        BY <1>0, <2>1
    <2>3. PutsByActive'
        BY <2>1 DEF Answer
    <2> QED  BY <2>1, <2>2, <2>3
<1>8. ASSUME NEW r \in Revisions, Fetch(r)  PROVE Orderly'
    <2>1. /\ worker[r] = "active" /\ UNCHANGED <<worker, open, sweep>>
          /\ \A p \in puts' : p \in puts \/ p.by = r
        BY <1>8 DEF Fetch
    <2> QED  BY <2>1
<1>9. ASSUME NEW r \in Revisions, PutAnswer(r)  PROVE Orderly'
    <2>1. /\ worker[r] = "active" /\ UNCHANGED <<worker, sweep>>
          /\ puts' \subseteq puts /\ open' = open \cup {r}
        BY <1>9 DEF PutAnswer
    <2>2. \A q \in Revisions : worker[q] \in {"sweeping", "active"} => q = r
        BY <2>1
    <2> QED  BY <1>0, <2>1, <2>2
<1> QED
    BY <1>1, <1>2, <1>3, <1>4, <1>5, <1>6, <1>7, <1>8, <1>9 DEF CacheNext

-----------------------------------------------------------------------------
(* The theorems *)

LEMMA InvKept == CacheInv /\ [CacheNext]_vars => CacheInv'
<1>1. ASSUME CacheInv, CacheNext  PROVE CacheInv'
    BY <1>1, TypesKept, RecentKept, ShellKept, TakeOverKept DEF CacheInv
<1>2. ASSUME CacheInv, UNCHANGED vars  PROVE CacheInv'
    <2> USE DEF vars
    <2>1. (CacheTypeOK /\ NothingFromTheFuture /\ CachedAreRecent /\ PutsAreRecent
            /\ GatheredAreRecent)'
        BY <1>2 DEF CacheInv, CacheTypeOK, NothingFromTheFuture, CachedAreRecent,
                    PutsAreRecent, GatheredAreRecent
    <2>2. (DetachedAreRobbed /\ InstalledShellComplete)'
        BY <1>2 DEF CacheInv, DetachedAreRobbed, InstalledShellComplete
    <2>3. (OneTakesOver /\ PutsByActive /\ OldCachesListed /\ OldCachesGone)'
        BY <1>2 DEF CacheInv, OneTakesOver, TakingOver, PutsByActive, OldCachesListed,
                    OldCachesGone, ActiveWorkers
    <2> QED  BY <2>1, <2>2, <2>3 DEF CacheInv
<1> QED
    BY <1>1, <1>2

\* Throughout deployments, installations, activations and answers still being
\* stored, everything in a cache is as recent as its address and as the worker
\* it belongs to, and only the active worker has anything left to store
\* (sw.js:38-117).
THEOREM CacheInvariant == CacheSpec => []CacheInv
<1>1. CacheInit => CacheInv
    BY InitCorrect
<1>2. CacheInv /\ [CacheNext]_vars => CacheInv'
    BY InvKept
<1> QED
    BY <1>1, <1>2, PTL DEF CacheSpec

\* However many revisions are deployed while a page is open, and whichever
\* cache answers it when the server cannot be reached (sw.js:92): under the ?v=
\* of its revision a page gets nothing older than itself, and without ?v=
\* nothing older than the worker that answers.
THEOREM NeverStale == CacheSpec => []NothingStaleServed
<1>1. CacheInv => NothingStaleServed
    <2> SUFFICES ASSUME CacheInv, NEW r \in ActiveWorkers, NEW p \in pages,
                        NEW url \in PageUrls(p), NEW content \in Matches(url)
                 PROVE  content >= IF url[2] = Unversioned THEN r ELSE p
        BY DEF NothingStaleServed
    <2>1. p \in Revisions /\ r \in Revisions /\ open \subseteq Revisions
        BY DEF CacheInv, CacheTypeOK, ActiveWorkers
    <2>2. PICK c \in open : content = cached[c][url] /\ content # Missing
        BY DEF Matches
    <2>3. url \in Urls /\ (url[2] = p \/ url[2] = Unversioned)
        BY <2>1, AddressesOfPage
    <2>4. content >= url[2] /\ content >= c
        BY <2>1, <2>2, <2>3 DEF CacheInv, CachedAreRecent
    <2>5. c >= r
        BY DEF CacheInv, OldCachesGone
    <2>6. content \in Nat /\ c \in Nat /\ r \in Nat
        BY <2>1, <2>2, <2>3, AssetCacheAssumption
        DEF CacheInv, CacheTypeOK, Content, Revisions
    <2> QED  BY <2>3, <2>4, <2>5, <2>6
<1> QED
    BY <1>1, CacheInvariant, PTL

\* A worker that was installed has every asset of its revision cached, whatever
\* was deployed while it gathered them, until another worker's activation
\* deletes its cache (addAll, sw.js:44).
THEOREM ShellIsComplete == CacheSpec => []InstalledShellComplete
<1>1. CacheInv => InstalledShellComplete
    BY DEF CacheInv
<1> QED
    BY <1>1, CacheInvariant, PTL

\* An active worker has outlived the caches of all older revisions, and none is
\* opened again: only the active worker, or one of a newer revision, opens a
\* cache (the deletions of activate, sw.js:111; waitUntil around put, :83).
THEOREM OldCachesAreGone == CacheSpec => []OldCachesGone
<1>1. CacheInv => OldCachesGone
    BY DEF CacheInv
<1> QED
    BY <1>1, CacheInvariant, PTL
=============================================================================
