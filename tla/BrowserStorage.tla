---------------------------- MODULE BrowserStorage ----------------------------
(***************************************************************************)
(* The browser-local store of the web page: storage-adapter.js over        *)
(* indexeddb-storage.js and window.localStorage.  One page at a time runs  *)
(* it.  The page keeps a cache of the managed keys, writes it to IndexedDB *)
(* in two transactions (snapshot, then meta) that it verifies by reading   *)
(* back, and falls back to localStorage for the session when IndexedDB     *)
(* fails.  Any IndexedDB request may fail and the page may be closed       *)
(* between any two steps; localStorage is assumed to accept every write.   *)
(***************************************************************************)
EXTENDS Naturals

CONSTANTS
    Keys,          \* the managed keys
    TabsKey,       \* the key whose value must parse as JSON
    ThemeKey,      \* themeMirrorKey: mirrored to localStorage in every mode
    Values,        \* strings the application stores
    NoValue,       \* the key is absent
    Unparsable,    \* a string that JSON.parse rejects, left by something else
    NoRecord,      \* IndexedDB holds no primary snapshot
    InitialDisks,  \* what earlier releases may have left in the browser
    MaxWrites      \* bound: writes of one page

Value == Values \cup {NoValue}
Contents == [Keys -> Value]
Nothing == [k \in Keys |-> NoValue]

\* localStorage and the IndexedDB record may also hold a broken tabs value.
Stored == Contents \cup {[c EXCEPT ![TabsKey] = Unparsable] : c \in Contents}
Disk == [snapshot : Stored \cup {NoRecord}, marker : BOOLEAN,
         local : Stored, dirty : BOOLEAN]

ASSUME BrowserStorageAssumption ==
    /\ {TabsKey, ThemeKey} \subseteq Keys /\ TabsKey # ThemeKey
    /\ NoValue \notin Values /\ Unparsable \notin Value
    /\ NoRecord \notin Stored
    /\ InitialDisks \subseteq Disk
    /\ MaxWrites \in Nat

VARIABLES
    snapshot,   \* IndexedDB: data of the primary snapshot record
    marker,     \* IndexedDB: the meta record has a migrationState
    local,      \* localStorage: the managed keys
    dirty,      \* localStorage: the emergency fallback marker
    page,       \* "closed", "booting" or "ready"
    mode,       \* "primary" (IndexedDB) or "fallback" (localStorage)
    cache,      \* state.cache
    pending,    \* state.pendingWriteGeneration
    flushed,    \* state.flushedWriteGeneration
    timer,      \* state.flushTimer is set
    requested,  \* state.flushRequestedWhileBusy
    job,        \* the sequence of IndexedDB writes in flight
    since       \* history: per key, the values since the last durable copy

diskVars == <<snapshot, marker, local, dirty>>
pageVars == <<page, mode, cache, pending, flushed, timer, requested, job>>
vars == <<snapshot, marker, local, dirty, page, mode, cache, pending, flushed,
          timer, requested, job, since>>

Idle == [kind |-> "none", step |-> "snapshot", target |-> Nothing, generation |-> 0]
Job == [kind : {"none", "flush", "repair"}, step : {"snapshot", "meta", "verify"},
        target : Contents, generation : 0 .. MaxWrites]

-----------------------------------------------------------------------------
(***************************************************************************)
(* What a bootstrap makes of the disk.                                     *)
(***************************************************************************)

\* readRecognizedLocalSnapshot
LocalValid == local \in Contents
LocalData == IF LocalValid THEN local ELSE Nothing
LocalHasData == LocalData # Nothing

\* validateSnapshot: a missing record is a valid empty one
SnapshotValid == snapshot \in Contents \cup {NoRecord}
SnapshotData == IF snapshot \in Contents THEN snapshot ELSE Nothing

\* The emergency copy that a dirty marker asks to bring back.
EmergencyCopy == dirty /\ LocalHasData

\* The branches of bootstrap, after IndexedDB was read, that copy localStorage
\* into IndexedDB.
RepairWanted ==
    \/ SnapshotValid /\ marker /\ EmergencyCopy
    \/ SnapshotValid /\ ~ marker /\ LocalHasData
    \/ ~ SnapshotValid /\ LocalValid

\* The contents of a page whose bootstrap meets no error.
Recovered == IF RepairWanted THEN LocalData ELSE SnapshotData

\* setThemeMirrorFromSnapshot
Mirrored(l, contents) == [l EXCEPT ![ThemeKey] = contents[ThemeKey]]

-----------------------------------------------------------------------------
Init ==
    /\ \E d \in InitialDisks :
          /\ snapshot = d.snapshot /\ marker = d.marker
          /\ local = d.local /\ dirty = d.dirty
    /\ page = "closed" /\ mode = "fallback" /\ cache = Nothing
    /\ pending = 0 /\ flushed = 0
    /\ timer = FALSE /\ requested = FALSE /\ job = Idle
    /\ since = [k \in Keys |-> {Recovered[k]}]

(***************************************************************************)
(* Bootstrap.  IndexedDB does not change between the reads of one          *)
(* bootstrap, so opening it, reading it and deciding is one step.          *)
(***************************************************************************)

Open ==
    /\ page = "closed"
    /\ page' = "booting"
    /\ UNCHANGED <<diskVars, mode, cache, pending, flushed, timer, requested, job, since>>

\* The page takes contents as its cache; they count as seen by the user.
Ready(m, contents) ==
    /\ page' = "ready" /\ mode' = m /\ cache' = contents
    /\ pending' = 0 /\ flushed' = 0
    /\ UNCHANGED <<timer, requested>>

Loaded(contents) == since' = [k \in Keys |-> since[k] \cup {contents[k]}]

StartEmptyFallback ==
    /\ Ready("fallback", LocalData)
    /\ Loaded(LocalData)
    /\ local' = IF LocalValid THEN Mirrored(local, LocalData) ELSE local
    /\ job' = Idle
    /\ UNCHANGED <<snapshot, marker, dirty>>

StartRepair ==
    /\ job' = [kind |-> "repair", step |-> "snapshot",
               target |-> LocalData, generation |-> 0]
    /\ UNCHANGED <<diskVars, page, mode, cache, pending, flushed, timer, requested, since>>

Booting == page = "booting" /\ job = Idle

\* openDatabase rejects.
BootOpenFails == Booting /\ StartEmptyFallback

\* A read rejects: bring back the emergency copy, or run without IndexedDB.
BootReadFails ==
    /\ Booting
    /\ IF EmergencyCopy THEN StartRepair ELSE StartEmptyFallback

BootRepairs == Booting /\ RepairWanted /\ StartRepair

\* A valid snapshot is loaded; an invalid one, with no usable localStorage
\* either, starts an empty page.  Both drop the emergency marker.
BootLoads ==
    /\ Booting /\ ~ RepairWanted
    /\ Ready("primary", SnapshotData)
    /\ Loaded(SnapshotData)
    /\ dirty' = FALSE
    /\ local' = Mirrored(local, SnapshotData)
    /\ UNCHANGED <<snapshot, marker, job>>

-----------------------------------------------------------------------------
(***************************************************************************)
(* The application's calls.                                                *)
(***************************************************************************)

Running == page = "ready" /\ pending < MaxWrites

\* setItem (a new value) and removeItem (NoValue).
Write(k, v) ==
    /\ Running /\ cache[k] # v
    /\ cache' = [cache EXCEPT ![k] = v]
    /\ pending' = pending + 1
    /\ \/ /\ mode = "fallback"
          /\ local' = [local EXCEPT ![k] = v]
          /\ dirty' = TRUE
          /\ flushed' = pending'
          /\ since' = [since EXCEPT ![k] = {v}]
          /\ UNCHANGED timer
       \/ /\ mode = "primary"
          /\ local' = IF k = ThemeKey THEN [local EXCEPT ![k] = v] ELSE local
          /\ timer' = TRUE
          /\ since' = [since EXCEPT ![k] = @ \cup {v}]
          /\ UNCHANGED <<dirty, flushed>>
    /\ UNCHANGED <<snapshot, marker, page, mode, requested, job>>

\* Broken variant of Clear: fallback mode removes only the mirrored theme.
ClearMirrorOnly ==
    /\ Running /\ cache # Nothing
    /\ cache' = Nothing
    /\ pending' = pending + 1
    /\ local' = Mirrored(local, Nothing)
    /\ since' = [k \in Keys |-> since[k] \cup {NoValue}]
    /\ IF mode = "fallback" THEN dirty' = TRUE /\ flushed' = pending' /\ UNCHANGED timer
                            ELSE timer' = TRUE /\ UNCHANGED <<dirty, flushed>>
    /\ UNCHANGED <<snapshot, marker, page, mode, requested, job>>

Clear ==
    /\ Running /\ cache # Nothing
    /\ cache' = Nothing
    /\ pending' = pending + 1
    /\ \/ /\ mode = "fallback"
          /\ local' = Nothing
          /\ dirty' = TRUE
          /\ flushed' = pending'
          /\ since' = [k \in Keys |-> {NoValue}]
          /\ UNCHANGED timer
       \/ /\ mode = "primary"
          /\ local' = Mirrored(local, Nothing)
          /\ timer' = TRUE
          /\ since' = [k \in Keys |-> since[k] \cup {NoValue}]
          /\ UNCHANGED <<dirty, flushed>>
    /\ UNCHANGED <<snapshot, marker, page, mode, requested, job>>

\* The writes of a flush that starts now.
Flush(generation) ==
    [kind |-> "flush", step |-> "snapshot", target |-> cache, generation |-> generation]

\* flushPendingWrites.  In fallback mode nothing is ever pending (see
\* FallbackIsComplete), so only the theme is mirrored.
FlushPendingWrites ==
    /\ page = "ready"
    /\ timer' = FALSE
    /\ \/ /\ pending = flushed
          /\ local' = Mirrored(local, cache)
          /\ UNCHANGED <<job, requested>>
       \/ /\ mode = "primary" /\ pending # flushed /\ job = Idle
          /\ job' = Flush(pending)
          /\ UNCHANGED <<local, requested>>
       \/ /\ mode = "primary" /\ pending # flushed /\ job # Idle
          /\ requested' = TRUE
          /\ UNCHANGED <<local, job>>
    /\ UNCHANGED <<snapshot, marker, dirty, page, mode, cache, pending, flushed, since>>

TimerFires == timer /\ FlushPendingWrites

-----------------------------------------------------------------------------
(***************************************************************************)
(* writeSnapshotAndMeta, for a flush or a repair.                          *)
(***************************************************************************)

WriteSnapshot ==
    /\ job.kind # "none" /\ job.step = "snapshot"
    /\ snapshot' = job.target
    /\ job' = [job EXCEPT !.step = "meta"]
    /\ UNCHANGED <<marker, local, dirty, page, mode, cache, pending, flushed,
                   timer, requested, since>>

WriteMeta ==
    /\ job.kind # "none" /\ job.step = "meta"
    /\ marker' = TRUE
    /\ job' = [job EXCEPT !.step = "verify"]
    /\ UNCHANGED <<snapshot, local, dirty, page, mode, cache, pending, flushed,
                   timer, requested, since>>

Verified == job.step = "verify" /\ snapshot = job.target

\* repairIndexedDBFromSnapshot succeeds and the page is ready.
RepairDone ==
    /\ job.kind = "repair" /\ Verified
    /\ Ready("primary", job.target)
    /\ dirty' = FALSE
    /\ local' = Mirrored(local, job.target)
    /\ since' = [k \in Keys |-> {job.target[k]}]
    /\ job' = Idle
    /\ UNCHANGED <<snapshot, marker>>

\* Broken variant of FlushAgain: writes that arrived while the flush was busy
\* are left to a timer that may have fired already.
FlushLater(done) ==
    /\ requested' = FALSE
    /\ job' = Idle
    /\ UNCHANGED timer

\* The finally block of flushPendingWrites: flush again when writes arrived.
FlushAgain(done) ==
    /\ requested' = FALSE
    /\ timer' = IF requested \/ pending # done THEN FALSE ELSE timer
    /\ job' = IF pending # done THEN Flush(pending) ELSE Idle

\* Broken variant of FlushDone: the generation is read after the writes.
FlushDoneLateGeneration ==
    /\ job.kind = "flush" /\ Verified
    /\ flushed' = pending
    /\ dirty' = FALSE
    /\ local' = Mirrored(local, cache)
    /\ since' = [k \in Keys |-> {job.target[k], cache[k]}]
    /\ FlushAgain(pending)
    /\ UNCHANGED <<snapshot, marker, page, mode, cache, pending>>

FlushDone ==
    /\ job.kind = "flush" /\ Verified
    /\ flushed' = job.generation
    /\ dirty' = FALSE
    /\ local' = Mirrored(local, cache)
    /\ since' = [k \in Keys |-> {job.target[k], cache[k]}]
    /\ FlushAgain(job.generation)
    /\ UNCHANGED <<snapshot, marker, page, mode, cache, pending>>

\* A request of the repair rejects: bootstrap's outer catch.
RepairFails == job.kind = "repair" /\ StartEmptyFallback

\* Broken variant of FlushFails: the emergency marker is not set.
FlushFailsUnmarked ==
    /\ job.kind = "flush"
    /\ local' = cache
    /\ mode' = "fallback"
    /\ flushed' = pending
    /\ since' = [k \in Keys |-> {cache[k]}]
    /\ FlushAgain(pending)
    /\ UNCHANGED <<snapshot, marker, dirty, page, cache, pending>>

\* A request of the flush rejects: activateFallbackMode.
FlushFails ==
    /\ job.kind = "flush"
    /\ local' = cache
    /\ dirty' = TRUE
    /\ mode' = "fallback"
    /\ flushed' = pending
    /\ since' = [k \in Keys |-> {cache[k]}]
    /\ FlushAgain(pending)
    /\ UNCHANGED <<snapshot, marker, page, cache, pending>>

\* The page goes away, with whatever had not reached a disk.
Close ==
    /\ page # "closed"
    /\ page' = "closed" /\ mode' = "fallback" /\ cache' = Nothing
    /\ pending' = 0 /\ flushed' = 0
    /\ timer' = FALSE /\ requested' = FALSE /\ job' = Idle
    /\ UNCHANGED <<diskVars, since>>

-----------------------------------------------------------------------------
Boot == BootOpenFails \/ BootReadFails \/ BootRepairs \/ BootLoads

Request == WriteSnapshot \/ WriteMeta \/ RepairDone \/ FlushDone
              \/ RepairFails \/ FlushFails

Application ==
    \/ \E k \in Keys, v \in Value : Write(k, v)
    \/ Clear
    \/ FlushPendingWrites

Next == Open \/ Boot \/ Application \/ TimerFires \/ Request \/ Close

Spec == Init /\ [][Next]_vars

\* The browser runs a due timer and settles every IndexedDB request, one way
\* or the other; nothing makes a page open, write or close.
Fairness == WF_vars(Boot) /\ WF_vars(TimerFires) /\ WF_vars(Request)
FairSpec == Spec /\ Fairness

-----------------------------------------------------------------------------
(***************************************************************************)
(* Properties.  The invariants are stated for disks on which localStorage  *)
(* is not malformed and no earlier page stopped in fallback mode or between*)
(* the two transactions of a flush: DisksAreSound.                         *)
(***************************************************************************)

DisksAreSound ==
    \A d \in InitialDisks :
        /\ d.local \in Contents /\ ~ d.dirty
        /\ d.snapshot # NoRecord => d.marker

\* Disks, page and writes in flight keep their types; the generation counters
\* stay ordered and only a ready page writes to IndexedDB outside a repair.
TypeOK ==
    /\ snapshot \in Stored \cup {NoRecord} /\ marker \in BOOLEAN
    /\ local \in Stored /\ dirty \in BOOLEAN
    /\ page \in {"closed", "booting", "ready"} /\ mode \in {"primary", "fallback"}
    /\ cache \in Contents
    /\ pending \in 0 .. MaxWrites /\ flushed \in 0 .. pending
    /\ timer \in BOOLEAN /\ requested \in BOOLEAN
    /\ job \in Job
    /\ job.kind = "flush" => page = "ready" /\ mode = "primary"
    /\ job.kind = "repair" => page = "booting"
    /\ since \in [Keys -> SUBSET Value]

\* Wherever the page is closed, each key comes back with a value it has had
\* since the last copy of the whole cache that reached a disk, or with one that
\* a bootstrap showed to the user since then.  (Left out: an emergency marker
\* whose emergency copy is empty, see FallbackWritesRecovered.)
RecoversRecentValues ==
    (dirty => LocalHasData) => \A k \in Keys : Recovered[k] \in since[k]

\* A page with nothing left to flush comes back as it is: its whole cache is
\* what an undisturbed bootstrap would load, in IndexedDB mode once the meta
\* record is written (see BackupUntilFallbackWrites for the time before), and
\* in fallback mode once a fallback write set the emergency marker.
SavedPageReloads ==
    /\ page = "ready" /\ pending = flushed
    /\ IF mode = "primary" THEN marker ELSE EmergencyCopy
    => Recovered = cache

\* A page in fallback mode has nothing left to write, and its localStorage is a
\* complete copy of its cache.
FallbackIsComplete ==
    page = "ready" /\ mode = "fallback" => pending = flushed /\ local = cache

\* Every write reaches IndexedDB or localStorage unless the page goes away,
\* also the writes that arrive while a flush is busy.
WritesBecomeDurable ==
    \A g \in 1 .. MaxWrites :
        (page = "ready" /\ pending >= g) ~> (page # "ready" \/ flushed >= g)

\* Said of the marker that fallback writes leave: localStorage may now be newer
\* than IndexedDB, and a fallback-mode clear changes the emergency snapshot.
\* So a dirty localStorage decides what the next bootstrap loads.
FallbackWritesRecovered ==
    dirty => \A k \in Keys : Recovered[k] \in since[k]

\* Said of preserved legacy localStorage, which a bootstrap does not tell from a
\* theme that was mirrored since: it is only a backup until fallback writes
\* occur.  So without the marker a bootstrap does not start to replace a valid
\* and different snapshot by what localStorage holds.
BackupUntilFallbackWrites ==
    [][page = "booting" /\ job = Idle /\ job'.kind = "repair" /\ ~ dirty
          => ~ SnapshotValid \/ SnapshotData \in {Nothing, LocalData}]_vars
=============================================================================
