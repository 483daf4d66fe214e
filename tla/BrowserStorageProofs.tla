------------------------- MODULE BrowserStorageProofs -------------------------
(***************************************************************************)
(* What a reload brings back, for every set of keys and values and every   *)
(* number of writes, from the disks that earlier releases can have left:   *)
(* readable tabs in localStorage, no emergency marker, and no snapshot     *)
(* without its meta record (DisksAreSound).                                *)
(***************************************************************************)
EXTENDS BrowserStorage, TLAPS

(***************************************************************************)
(* The inductive invariant.  A flush or repair writes values that count as *)
(* recent; a page in IndexedDB mode has a usable snapshot and no emergency *)
(* marker; and whichever copy the next bootstrap takes holds recent values.*)
(***************************************************************************)
JobOK ==
    /\ job.kind = "none" => job = Idle
    /\ page = "closed" => job = Idle
    /\ job.kind = "repair" => job.target = local
    /\ job.kind = "flush" =>
          /\ flushed < job.generation /\ job.generation <= pending
          /\ pending = job.generation => cache = job.target
    /\ job.kind # "none" =>
          /\ \A k \in Keys : job.target[k] \in since[k]
          /\ job.step # "snapshot" => snapshot = job.target
          /\ job.step = "verify" => marker

ReadyOK ==
    page = "ready" =>
        /\ \A k \in Keys : cache[k] \in since[k]
        /\ mode = "primary" =>
              /\ ~ dirty /\ SnapshotValid
              /\ pending = flushed => cache = SnapshotData

LocalIsRecent ==
    ~ marker \/ ~ SnapshotValid \/ dirty => \A k \in Keys : local[k] \in since[k]

SnapshotIsRecent ==
    /\ SnapshotValid /\ ~ dirty
    /\ marker \/ local = Nothing \/ (page = "ready" /\ mode = "primary")
    => \A k \in Keys : SnapshotData[k] \in since[k]

Inv ==
    /\ TypeOK /\ local \in Contents /\ FallbackIsComplete
    /\ JobOK /\ ReadyOK /\ LocalIsRecent /\ SnapshotIsRecent

-----------------------------------------------------------------------------
\* Contents, and what mirroring the theme does to them.
LEMMA ContentsFacts ==
    /\ Nothing \in Contents
    /\ Contents \subseteq Stored
    /\ NoRecord \notin Contents
    /\ \A l, c \in Contents :
          /\ Mirrored(l, c) \in Contents
          /\ \A k \in Keys : Mirrored(l, c)[k] = IF k = ThemeKey THEN c[k] ELSE l[k]
          /\ Mirrored(l, l) = l
<1>1. NoValue \in Value /\ ThemeKey \in Keys
    BY BrowserStorageAssumption DEF Value
<1> QED  BY <1>1, BrowserStorageAssumption DEF Nothing, Contents, Stored, Mirrored

\* With readable tabs in localStorage a bootstrap reads them as they are.
LEMMA LocalFacts ==
    ASSUME local \in Contents
    PROVE  /\ LocalValid /\ LocalData = local /\ (LocalHasData <=> local # Nothing)
           /\ RepairWanted <=> \/ ~ SnapshotValid
                               \/ SnapshotValid /\ marker /\ dirty /\ local # Nothing
                               \/ SnapshotValid /\ ~ marker /\ local # Nothing
BY DEF LocalValid, LocalData, LocalHasData, RepairWanted, EmergencyCopy

LEMMA IdleFacts == Idle \in Job /\ Idle.kind = "none"
BY ContentsFacts, BrowserStorageAssumption DEF Idle, Job

\* The snapshot data are contents.
LEMMA SnapshotFacts == SnapshotData \in Contents
BY ContentsFacts DEF SnapshotData

\* The values of contents are values.
LEMMA ValueFacts == \A c \in Contents : \A k \in Keys : c[k] \in Value
BY DEF Contents

LEMMA InvInit ==
    ASSUME DisksAreSound, Init
    PROVE  Inv
<1>1. PICK d \in InitialDisks : /\ snapshot = d.snapshot /\ marker = d.marker
                                /\ local = d.local /\ dirty = d.dirty
    BY DEF Init
<1>2. /\ snapshot \in Stored \cup {NoRecord} /\ marker \in BOOLEAN
      /\ local \in Contents /\ dirty = FALSE /\ (snapshot # NoRecord => marker)
    BY <1>1, BrowserStorageAssumption DEF DisksAreSound, Disk
<1>3. since = [k \in Keys |-> {Recovered[k]}]
    BY DEF Init
<1>4. Recovered \in Contents
    BY <1>2, LocalFacts, SnapshotFacts DEF Recovered
<1>5. TypeOK
    <2>1. since \in [Keys -> SUBSET Value]
        BY <1>3, <1>4, ValueFacts
    <2>2. local \in Stored /\ dirty \in BOOLEAN /\ cache \in Contents
        BY <1>2, ContentsFacts DEF Init
    <2>3. pending \in 0 .. MaxWrites /\ flushed \in 0 .. pending
        BY BrowserStorageAssumption DEF Init
    <2>4. job \in Job /\ job.kind = "none"
        BY IdleFacts DEF Init
    <2> QED  BY <1>2, <2>1, <2>2, <2>3, <2>4 DEF Init, TypeOK
<1>6. FallbackIsComplete /\ JobOK /\ ReadyOK
    BY IdleFacts DEF Init, FallbackIsComplete, JobOK, ReadyOK
<1>7. LocalIsRecent
    <2> SUFFICES ASSUME ~ marker \/ ~ SnapshotValid  PROVE Recovered = local
        BY <1>2, <1>3 DEF LocalIsRecent
    <2>1. CASE ~ SnapshotValid
        BY <1>2, <2>1, LocalFacts DEF Recovered
    <2>2. CASE SnapshotValid /\ ~ marker
        BY <1>2, <2>2, LocalFacts, ContentsFacts DEF Recovered, SnapshotData
    <2> QED  BY <2>1, <2>2
<1>8. SnapshotIsRecent
    <2> SUFFICES ASSUME SnapshotValid, marker \/ local = Nothing  PROVE Recovered = SnapshotData
        BY <1>3 DEF SnapshotIsRecent, Init
    <2> QED  BY <1>2, LocalFacts DEF Recovered
<1> QED  BY <1>2, <1>5, <1>6, <1>7, <1>8 DEF Inv

-----------------------------------------------------------------------------
\* The operators that depend on the disk only through the snapshot.
LEMMA SameSnapshot ==
    ASSUME snapshot' = snapshot
    PROVE  SnapshotValid' = SnapshotValid /\ SnapshotData' = SnapshotData
BY DEF SnapshotValid, SnapshotData

\* Nothing the invariant speaks of changes.
LEMMA InvStutter ==
    ASSUME Inv, UNCHANGED vars
    PROVE  Inv'
<1>1. SnapshotValid' = SnapshotValid /\ SnapshotData' = SnapshotData
    BY SameSnapshot DEF vars
<1> QED  BY <1>1 DEF vars, Inv, TypeOK, FallbackIsComplete, JobOK, ReadyOK,
                     LocalIsRecent, SnapshotIsRecent

\* A page opens or closes.
LEMMA InvOpenClose ==
    ASSUME Inv, Open \/ Close
    PROVE  Inv'
<1>1. SnapshotValid' = SnapshotValid /\ SnapshotData' = SnapshotData
    BY SameSnapshot DEF Open, Close, diskVars
<1>2. TypeOK'
    <2>1. cache' \in Contents /\ page' \in {"closed", "booting", "ready"}
        BY ContentsFacts DEF Inv, TypeOK, Open, Close
    <2>2. pending' \in 0 .. MaxWrites /\ flushed' \in 0 .. pending'
        BY BrowserStorageAssumption DEF Inv, TypeOK, Open, Close
    <2>3. job' \in Job /\ job'.kind = "none"
        BY IdleFacts DEF Inv, TypeOK, JobOK, Open, Close
    <2> QED  BY <2>1, <2>2, <2>3 DEF Inv, TypeOK, Open, Close, diskVars
<1>3. FallbackIsComplete' /\ ReadyOK'
    BY DEF Open, Close, FallbackIsComplete, ReadyOK
<1>4. JobOK'
    BY IdleFacts DEF Inv, JobOK, Open, Close
<1>5. LocalIsRecent' /\ SnapshotIsRecent' /\ local' \in Contents
    BY <1>1 DEF Inv, LocalIsRecent, SnapshotIsRecent, Open, Close, diskVars
<1> QED  BY <1>2, <1>3, <1>4, <1>5 DEF Inv

-----------------------------------------------------------------------------
\* A page that starts from localStorage shows it; nothing on disk changes.
LEMMA InvEmptyFallback ==
    ASSUME Inv, StartEmptyFallback
    PROVE  Inv'
<1>1. /\ local \in Contents /\ LocalValid /\ LocalData = local
      /\ Mirrored(local, local) = local
    BY LocalFacts, ContentsFacts DEF Inv
<1>2. /\ page' = "ready" /\ mode' = "fallback" /\ cache' = local /\ local' = local
      /\ pending' = 0 /\ flushed' = 0 /\ job' = Idle
      /\ UNCHANGED <<timer, requested, snapshot, marker, dirty>>
      /\ since' = [k \in Keys |-> since[k] \cup {local[k]}]
    BY <1>1 DEF StartEmptyFallback, Ready, Loaded
<1>3. SnapshotValid' = SnapshotValid /\ SnapshotData' = SnapshotData
    BY <1>2, SameSnapshot
<1>4. TypeOK'
    <2>1. since' \in [Keys -> SUBSET Value]
        BY <1>1, <1>2, ValueFacts DEF Inv, TypeOK
    <2> QED  BY <1>1, <1>2, <2>1, IdleFacts, BrowserStorageAssumption DEF Inv, TypeOK
<1>5. FallbackIsComplete' /\ JobOK' /\ ReadyOK'
    BY <1>2, IdleFacts DEF FallbackIsComplete, JobOK, ReadyOK
<1>6. LocalIsRecent' /\ SnapshotIsRecent'
    BY <1>2, <1>3 DEF Inv, LocalIsRecent, SnapshotIsRecent
<1> QED  BY <1>1, <1>2, <1>4, <1>5, <1>6 DEF Inv

\* A bootstrap that copies localStorage into IndexedDB has recent values to copy.
LEMMA InvStartRepair ==
    ASSUME Inv, Booting, EmergencyCopy \/ RepairWanted, StartRepair
    PROVE  Inv'
<1>1. local \in Contents /\ LocalData = local
    BY LocalFacts DEF Inv
<1>2. \A k \in Keys : local[k] \in since[k]
    BY LocalFacts DEF Inv, LocalIsRecent, EmergencyCopy
<1>3. /\ page = "booting"
      /\ job'.kind = "repair" /\ job'.step = "snapshot" /\ job'.target = local
      /\ job' \in Job
      /\ UNCHANGED <<snapshot, marker, local, dirty, page, mode, cache, pending, flushed,
                     timer, requested, since>>
    BY <1>1, BrowserStorageAssumption DEF Booting, StartRepair, Job, diskVars
<1>4. SnapshotValid' = SnapshotValid /\ SnapshotData' = SnapshotData
    BY <1>3, SameSnapshot
<1>5. TypeOK'
    BY <1>3 DEF Inv, TypeOK
<1>6. FallbackIsComplete' /\ JobOK' /\ ReadyOK'
    BY <1>2, <1>3 DEF FallbackIsComplete, JobOK, ReadyOK
<1>7. LocalIsRecent' /\ SnapshotIsRecent'
    BY <1>3, <1>4 DEF Inv, LocalIsRecent, SnapshotIsRecent
<1> QED  BY <1>1, <1>3, <1>5, <1>6, <1>7 DEF Inv

\* A bootstrap that loads the snapshot drops the emergency marker; localStorage
\* only receives its theme.
LEMMA InvBootLoads ==
    ASSUME Inv, BootLoads
    PROVE  Inv'
<1>1. local \in Contents /\ SnapshotData \in Contents
    BY SnapshotFacts DEF Inv
<1>2. SnapshotValid /\ (~ marker => local = Nothing)
    BY LocalFacts DEF Inv, BootLoads
<1>3. /\ page' = "ready" /\ mode' = "primary" /\ cache' = SnapshotData
      /\ pending' = 0 /\ flushed' = 0 /\ job' = job /\ job = Idle
      /\ dirty' = FALSE /\ local' = Mirrored(local, SnapshotData)
      /\ UNCHANGED <<timer, requested, snapshot, marker>>
      /\ since' = [k \in Keys |-> since[k] \cup {SnapshotData[k]}]
    BY DEF BootLoads, Booting, Ready, Loaded
<1>4. SnapshotValid' = SnapshotValid /\ SnapshotData' = SnapshotData
    BY <1>3, SameSnapshot
<1>5. /\ local' \in Contents
      /\ \A k \in Keys : local'[k] = IF k = ThemeKey THEN SnapshotData[k] ELSE local[k]
    BY <1>1, <1>3, ContentsFacts
<1>6. TypeOK'
    <2>1. since' \in [Keys -> SUBSET Value]
        BY <1>1, <1>3, ValueFacts DEF Inv, TypeOK
    <2>2. local' \in Stored /\ cache' \in Contents
        BY <1>1, <1>3, <1>5, ContentsFacts
    <2>3. pending' \in 0 .. MaxWrites /\ flushed' \in 0 .. pending'
        BY <1>3, BrowserStorageAssumption
    <2>4. job' \in Job /\ job'.kind = "none"
        BY <1>3, IdleFacts
    <2> QED  BY <1>3, <2>1, <2>2, <2>3, <2>4 DEF Inv, TypeOK
<1>7. FallbackIsComplete' /\ JobOK'
    BY <1>3, IdleFacts DEF FallbackIsComplete, JobOK
<1>8. ReadyOK' /\ SnapshotIsRecent'
    BY <1>2, <1>3, <1>4 DEF ReadyOK, SnapshotIsRecent
<1>9. LocalIsRecent'
    BY <1>2, <1>3, <1>4, <1>5 DEF Inv, LocalIsRecent
<1> QED  BY <1>5, <1>6, <1>7, <1>8, <1>9 DEF Inv

LEMMA InvBoot ==
    ASSUME Inv, Boot
    PROVE  Inv'
BY InvEmptyFallback, InvStartRepair, InvBootLoads
DEF Boot, BootOpenFails, BootReadFails, BootRepairs
-----------------------------------------------------------------------------
\* A page in fallback mode, and every page that has nothing to flush, has no
\* IndexedDB write in flight.
LEMMA NoFlush ==
    ASSUME TypeOK, JobOK, page = "ready", mode = "fallback" \/ pending = flushed
    PROVE  job = Idle
<1>1. job.kind \in {"none", "flush", "repair"} /\ job.generation \in Nat
    BY BrowserStorageAssumption DEF TypeOK, Job
<1>2. pending \in Nat /\ flushed \in Nat
    BY BrowserStorageAssumption DEF TypeOK
<1> QED  BY <1>1, <1>2 DEF TypeOK, JobOK

\* A write of a page in fallback mode goes to localStorage at once.
LEMMA InvFallbackWrite ==
    ASSUME Inv, page = "ready", mode = "fallback", pending < MaxWrites,
           cache' \in Contents, local' = cache', dirty' = TRUE,
           pending' = pending + 1, flushed' = pending',
           since' \in [Keys -> SUBSET Value], \A k \in Keys : cache'[k] \in since'[k],
           UNCHANGED <<snapshot, marker, page, mode, timer, requested, job>>
    PROVE  Inv'
<1>1. job = Idle /\ job.kind = "none"
    BY NoFlush, IdleFacts DEF Inv
<1>2. local' \in Stored /\ local' \in Contents
    BY ContentsFacts
<1>3. pending' \in 0 .. MaxWrites /\ flushed' \in 0 .. pending'
    BY BrowserStorageAssumption DEF Inv, TypeOK
<1>4. TypeOK'
    BY <1>1, <1>2, <1>3 DEF Inv, TypeOK
<1>5. FallbackIsComplete' /\ JobOK' /\ ReadyOK'
    BY <1>1 DEF FallbackIsComplete, JobOK, ReadyOK
<1>6. LocalIsRecent' /\ SnapshotIsRecent'
    BY DEF LocalIsRecent, SnapshotIsRecent
<1> QED  BY <1>2, <1>4, <1>5, <1>6 DEF Inv

\* A write of a page in IndexedDB mode waits for a flush; localStorage receives
\* the theme only.
LEMMA InvPrimaryWrite ==
    ASSUME Inv, page = "ready", mode = "primary", pending < MaxWrites,
           cache' \in Contents, local' \in Contents,
           \A k \in Keys : local'[k] = local[k] \/ local'[k] \in since'[k],
           pending' = pending + 1, timer' = TRUE,
           since' \in [Keys -> SUBSET Value],
           \A k \in Keys : since[k] \subseteq since'[k] /\ cache'[k] \in since'[k],
           UNCHANGED <<snapshot, marker, dirty, page, mode, flushed, requested, job>>
    PROVE  Inv'
<1>1. SnapshotValid' = SnapshotValid /\ SnapshotData' = SnapshotData
    BY SameSnapshot
<1>2. pending \in Nat /\ flushed \in Nat /\ flushed <= pending /\ job.generation \in Nat
    BY BrowserStorageAssumption DEF Inv, TypeOK, Job
<1>3. local' \in Stored
    BY ContentsFacts
<1>4. pending' \in 0 .. MaxWrites /\ flushed' \in 0 .. pending'
    BY BrowserStorageAssumption DEF Inv, TypeOK
<1>5. TypeOK'
    BY <1>3, <1>4 DEF Inv, TypeOK
<1>6. JobOK'
    BY <1>2 DEF Inv, TypeOK, JobOK
<1>7. FallbackIsComplete' /\ ReadyOK'
    BY <1>1, <1>2 DEF Inv, FallbackIsComplete, ReadyOK
<1>8. LocalIsRecent' /\ SnapshotIsRecent'
    BY <1>1 DEF Inv, LocalIsRecent, SnapshotIsRecent
<1> QED  BY <1>5, <1>6, <1>7, <1>8 DEF Inv

LEMMA InvWrite ==
    ASSUME Inv, NEW k \in Keys, NEW v \in Value, Write(k, v)
    PROVE  Inv'
<1>1. /\ page = "ready" /\ pending < MaxWrites /\ pending' = pending + 1
      /\ cache' = [cache EXCEPT ![k] = v]
      /\ UNCHANGED <<snapshot, marker, page, mode, requested, job>>
    BY DEF Write, Running
<1>2. cache' \in Contents /\ [local EXCEPT ![k] = v] \in Contents
    BY <1>1 DEF Inv, TypeOK, Contents
<1>3. \A j \in Keys : cache[j] \in since[j]
    BY <1>1 DEF Inv, ReadyOK
<1>4. CASE mode = "fallback"
    <2>1. /\ local' = [local EXCEPT ![k] = v] /\ dirty' = TRUE /\ flushed' = pending'
          /\ since' = [since EXCEPT ![k] = {v}] /\ UNCHANGED timer
        BY <1>4 DEF Write
    <2>2. local' = cache'
        BY <1>1, <1>4, <2>1 DEF Inv, FallbackIsComplete
    <2>3. since' \in [Keys -> SUBSET Value] /\ \A j \in Keys : cache'[j] \in since'[j]
        BY <1>1, <1>3, <2>1 DEF Inv, TypeOK, Contents
    <2> QED  BY <1>1, <1>2, <1>4, <2>1, <2>2, <2>3, InvFallbackWrite
<1>5. CASE mode = "primary"
    <2>1. /\ local' = IF k = ThemeKey THEN [local EXCEPT ![k] = v] ELSE local
          /\ since' = [since EXCEPT ![k] = @ \cup {v}]
          /\ timer' = TRUE /\ UNCHANGED <<dirty, flushed>>
        BY <1>5 DEF Write
    <2>2. local' \in Contents
        BY <1>2, <2>1 DEF Inv
    <2>3. since' \in [Keys -> SUBSET Value]
        BY <2>1 DEF Inv, TypeOK
    <2>4. \A j \in Keys : since[j] \subseteq since'[j] /\ cache'[j] \in since'[j]
        BY <1>1, <1>3, <2>1 DEF Inv, TypeOK, Contents
    <2>5. \A j \in Keys : local'[j] = local[j] \/ local'[j] \in since'[j]
        BY <2>1 DEF Inv, TypeOK, Contents
    <2> QED  BY <1>1, <1>2, <1>5, <2>1, <2>2, <2>3, <2>4, <2>5, InvPrimaryWrite
<1> QED  BY <1>4, <1>5 DEF Inv, TypeOK

LEMMA InvClear ==
    ASSUME Inv, Clear
    PROVE  Inv'
<1>1. /\ page = "ready" /\ pending < MaxWrites /\ pending' = pending + 1
      /\ cache' = Nothing
      /\ UNCHANGED <<snapshot, marker, page, mode, requested, job>>
    BY DEF Clear, Running
<1>2. Nothing \in Contents /\ Mirrored(local, Nothing) \in Contents
    BY ContentsFacts DEF Inv
<1>3. \A k \in Keys : Nothing[k] = NoValue /\ NoValue \in Value
    BY DEF Nothing, Value
<1>4. CASE mode = "fallback"
    <2>1. /\ local' = Nothing /\ dirty' = TRUE /\ flushed' = pending'
          /\ since' = [k \in Keys |-> {NoValue}] /\ UNCHANGED timer
        BY <1>4 DEF Clear
    <2>2. since' \in [Keys -> SUBSET Value] /\ \A k \in Keys : cache'[k] \in since'[k]
        BY <1>1, <1>3, <2>1
    <2> QED  BY <1>1, <1>2, <1>4, <2>1, <2>2, InvFallbackWrite
<1>5. CASE mode = "primary"
    <2>1. /\ local' = Mirrored(local, Nothing) /\ timer' = TRUE
          /\ since' = [k \in Keys |-> since[k] \cup {NoValue}]
          /\ UNCHANGED <<dirty, flushed>>
        BY <1>5 DEF Clear
    <2>2. since' \in [Keys -> SUBSET Value]
        BY <1>3, <2>1 DEF Inv, TypeOK
    <2>3. \A k \in Keys : since[k] \subseteq since'[k] /\ cache'[k] \in since'[k]
        BY <1>1, <1>3, <2>1
    <2>4. \A k \in Keys : local'[k] = local[k] \/ local'[k] \in since'[k]
        BY <1>2, <1>3, <2>1, ContentsFacts DEF Inv
    <2> QED  BY <1>1, <1>2, <1>5, <2>1, <2>2, <2>3, <2>4, InvPrimaryWrite
<1> QED  BY <1>4, <1>5 DEF Inv, TypeOK

-----------------------------------------------------------------------------
\* The writes of a flush that starts now.
LEMMA FlushFacts ==
    ASSUME TypeOK
    PROVE  /\ Flush(pending) \in Job
           /\ Flush(pending).kind = "flush" /\ Flush(pending).step = "snapshot"
           /\ Flush(pending).target = cache /\ Flush(pending).generation = pending
BY DEF Flush, Job, TypeOK

\* A flush mirrors the theme, starts, or leaves a request for the flush that
\* is running.
LEMMA InvFlushPendingWrites ==
    ASSUME Inv, FlushPendingWrites
    PROVE  Inv'
<1>1. /\ page = "ready" /\ timer' = FALSE
      /\ UNCHANGED <<snapshot, marker, dirty, page, mode, cache, pending, flushed, since>>
    BY DEF FlushPendingWrites
<1>2. SnapshotValid' = SnapshotValid /\ SnapshotData' = SnapshotData
    BY <1>1, SameSnapshot
<1>3. \A k \in Keys : cache[k] \in since[k]
    BY <1>1 DEF Inv, ReadyOK
<1>4. ReadyOK'
    BY <1>1, <1>2 DEF Inv, ReadyOK
<1>5. CASE pending = flushed /\ local' = Mirrored(local, cache) /\ UNCHANGED <<job, requested>>
    <2>1. /\ local' \in Contents /\ local' \in Stored
          /\ \A k \in Keys : local'[k] = IF k = ThemeKey THEN cache[k] ELSE local[k]
          /\ local = cache => local' = local
        BY <1>5, ContentsFacts DEF Inv, TypeOK
    <2>2. job = Idle /\ job.kind = "none"
        BY <1>1, <1>5, NoFlush, IdleFacts DEF Inv
    <2>3. TypeOK'
        BY <1>1, <1>5, <2>1, <2>2 DEF Inv, TypeOK
    <2>4. JobOK' /\ FallbackIsComplete'
        BY <1>1, <1>5, <2>1, <2>2 DEF Inv, JobOK, FallbackIsComplete
    <2>5. LocalIsRecent'
        BY <1>1, <1>2, <1>3, <2>1 DEF Inv, LocalIsRecent
    <2>6. mode = "fallback" => local' = local
        BY <1>1, <2>1 DEF Inv, FallbackIsComplete
    <2>7. SnapshotIsRecent'
        BY <1>1, <1>2, <2>6 DEF Inv, TypeOK, SnapshotIsRecent
    <2> QED  BY <1>4, <2>1, <2>3, <2>4, <2>5, <2>7 DEF Inv
<1>6. CASE UNCHANGED local
    <2>1. FallbackIsComplete' /\ LocalIsRecent' /\ SnapshotIsRecent' /\ local' \in Contents
        BY <1>1, <1>2, <1>6 DEF Inv, FallbackIsComplete, LocalIsRecent, SnapshotIsRecent
    <2>2. CASE mode = "primary" /\ pending # flushed /\ job' = Flush(pending) /\ UNCHANGED requested
        <3>1. TypeOK'
            BY <1>1, <1>6, <2>2, FlushFacts DEF Inv, TypeOK
        <3>2. flushed < pending
            BY <2>2, BrowserStorageAssumption DEF Inv, TypeOK
        <3>3. JobOK'
            BY <1>1, <1>3, <2>2, <3>2, FlushFacts DEF Inv, TypeOK, JobOK
        <3> QED  BY <1>4, <2>1, <3>1, <3>3 DEF Inv
    <2>3. CASE requested' = TRUE /\ UNCHANGED job
        <3>1. TypeOK' /\ JobOK'
            BY <1>1, <1>6, <2>3 DEF Inv, TypeOK, JobOK
        <3> QED  BY <1>4, <2>1, <3>1 DEF Inv
    <2>4. CASE pending = flushed /\ local' = Mirrored(local, cache) /\ UNCHANGED <<job, requested>>
        BY <1>5, <2>4
    <2> QED  BY <1>6, <2>2, <2>3, <2>4 DEF FlushPendingWrites
<1> QED  BY <1>5, <1>6 DEF FlushPendingWrites

-----------------------------------------------------------------------------
\* A job in flight writes contents, on an open page with something to flush or
\* a bootstrap to finish.
LEMMA JobFacts ==
    ASSUME Inv, job.kind # "none"
    PROVE  /\ job.target \in Contents /\ job.target # NoRecord
           /\ page # "closed"
           /\ job.kind = "flush" => page = "ready" /\ mode = "primary" /\ pending # flushed
           /\ job.kind = "repair" => page = "booting" /\ job.target = local
           /\ job.kind = "flush" \/ job.kind = "repair"
           /\ \A k \in Keys : job.target[k] \in since[k]
<1>1. job.target \in Contents /\ job.kind \in {"none", "flush", "repair"}
      /\ job.generation \in Nat
    BY BrowserStorageAssumption DEF Inv, TypeOK, Job
<1>2. page # "closed"
    BY IdleFacts DEF Inv, JobOK
<1>3. job.kind = "flush" => pending # flushed
    BY <1>1, BrowserStorageAssumption DEF Inv, TypeOK, JobOK
<1> QED  BY <1>1, <1>2, <1>3, ContentsFacts DEF Inv, TypeOK, JobOK

\* Advancing a job changes its step only.
LEMMA StepFacts ==
    ASSUME job \in Job, NEW s \in {"snapshot", "meta", "verify"},
           job' = [job EXCEPT !.step = s]
    PROVE  /\ job' \in Job /\ job'.kind = job.kind /\ job'.step = s
           /\ job'.target = job.target /\ job'.generation = job.generation
BY DEF Job

LEMMA InvWriteSnapshot ==
    ASSUME Inv, WriteSnapshot
    PROVE  Inv'
<1>1. /\ job.kind # "none" /\ snapshot' = job.target
      /\ UNCHANGED <<marker, local, dirty, page, mode, cache, pending, flushed,
                     timer, requested, since>>
    BY DEF WriteSnapshot
<1>2. /\ job' \in Job /\ job'.kind = job.kind /\ job'.step = "meta"
      /\ job'.target = job.target /\ job'.generation = job.generation
    BY StepFacts DEF WriteSnapshot, Inv, TypeOK
<1>3. SnapshotValid' /\ SnapshotData' = job.target
    BY <1>1, JobFacts DEF SnapshotValid, SnapshotData
<1>4. TypeOK'
    BY <1>1, <1>2, JobFacts, ContentsFacts DEF Inv, TypeOK
<1>5. JobOK'
    BY <1>1, <1>2, JobFacts DEF Inv, JobOK
<1>6. FallbackIsComplete' /\ ReadyOK'
    BY <1>1, <1>3, JobFacts DEF Inv, FallbackIsComplete, ReadyOK
<1>7. LocalIsRecent' /\ SnapshotIsRecent'
    BY <1>1, <1>3, JobFacts DEF Inv, LocalIsRecent, SnapshotIsRecent
<1> QED  BY <1>1, <1>4, <1>5, <1>6, <1>7 DEF Inv

LEMMA InvWriteMeta ==
    ASSUME Inv, WriteMeta
    PROVE  Inv'
<1>1. /\ job.kind # "none" /\ job.step = "meta" /\ marker' = TRUE
      /\ UNCHANGED <<snapshot, local, dirty, page, mode, cache, pending, flushed,
                     timer, requested, since>>
    BY DEF WriteMeta
<1>2. /\ job' \in Job /\ job'.kind = job.kind /\ job'.step = "verify"
      /\ job'.target = job.target /\ job'.generation = job.generation
    BY StepFacts DEF WriteMeta, Inv, TypeOK
<1>3. snapshot = job.target
    BY <1>1 DEF Inv, JobOK
<1>4. SnapshotValid' = SnapshotValid /\ SnapshotData' = SnapshotData /\ SnapshotData = job.target
    BY <1>1, <1>3, JobFacts, SameSnapshot DEF SnapshotData
<1>5. TypeOK'
    BY <1>1, <1>2 DEF Inv, TypeOK
<1>6. JobOK'
    BY <1>1, <1>2, <1>3, JobFacts DEF Inv, JobOK
<1>7. FallbackIsComplete' /\ ReadyOK'
    BY <1>1, <1>4 DEF Inv, FallbackIsComplete, ReadyOK
<1>8. LocalIsRecent' /\ SnapshotIsRecent'
    BY <1>1, <1>4, JobFacts DEF Inv, LocalIsRecent, SnapshotIsRecent
<1> QED  BY <1>1, <1>5, <1>6, <1>7, <1>8 DEF Inv

\* A finished repair leaves both stores and the page with the same contents.
LEMMA InvRepairDone ==
    ASSUME Inv, RepairDone
    PROVE  Inv'
<1>1. /\ job.target = local /\ job.target \in Contents /\ marker
      /\ snapshot = job.target
    BY JobFacts DEF Inv, JobOK, RepairDone, Verified
<1>2. /\ page' = "ready" /\ mode' = "primary" /\ cache' = local
      /\ pending' = 0 /\ flushed' = 0 /\ job' = Idle /\ dirty' = FALSE
      /\ local' = local
      /\ UNCHANGED <<timer, requested, snapshot, marker>>
      /\ since' = [k \in Keys |-> {local[k]}]
    BY <1>1, ContentsFacts DEF RepairDone, Ready
<1>3. SnapshotValid' /\ SnapshotData' = local
    BY <1>1, <1>2 DEF SnapshotValid, SnapshotData
<1>4. TypeOK'
    <2>1. since' \in [Keys -> SUBSET Value]
        BY <1>1, <1>2, ValueFacts
    <2>2. pending' \in 0 .. MaxWrites /\ flushed' \in 0 .. pending'
        BY <1>2, BrowserStorageAssumption
    <2>3. job' \in Job /\ job'.kind = "none"
        BY <1>2, IdleFacts
    <2> QED  BY <1>1, <1>2, <2>1, <2>2, <2>3 DEF Inv, TypeOK
<1>5. FallbackIsComplete' /\ JobOK' /\ ReadyOK'
    BY <1>2, <1>3, IdleFacts DEF FallbackIsComplete, JobOK, ReadyOK
<1>6. LocalIsRecent' /\ SnapshotIsRecent' /\ local' \in Contents
    BY <1>1, <1>2, <1>3 DEF LocalIsRecent, SnapshotIsRecent
<1> QED  BY <1>4, <1>5, <1>6 DEF Inv

\* A finished flush drops the emergency marker: the snapshot is the cache of
\* the time the flush started, and later writes are flushed next.
LEMMA InvFlushDone ==
    ASSUME Inv, FlushDone
    PROVE  Inv'
<1>1. /\ job.kind = "flush" /\ page = "ready" /\ mode = "primary"
      /\ job.target \in Contents /\ marker /\ snapshot = job.target
      /\ pending = job.generation => cache = job.target
      /\ job.generation \in 0 .. pending
    BY JobFacts, BrowserStorageAssumption DEF Inv, TypeOK, Job, JobOK, FlushDone, Verified
<1>2. /\ flushed' = job.generation /\ dirty' = FALSE /\ local' = Mirrored(local, cache)
      /\ since' = [k \in Keys |-> {job.target[k], cache[k]}]
      /\ UNCHANGED <<snapshot, marker, page, mode, cache, pending>>
      /\ requested' = FALSE
      /\ timer' = IF requested \/ pending # job.generation THEN FALSE ELSE timer
      /\ job' = IF pending # job.generation THEN Flush(pending) ELSE Idle
    BY DEF FlushDone, FlushAgain
<1>3. SnapshotValid' /\ SnapshotData' = job.target
    BY <1>1, <1>2 DEF SnapshotValid, SnapshotData
<1>4. local' \in Contents /\ local' \in Stored
    BY <1>2, ContentsFacts DEF Inv, TypeOK
<1>5. TypeOK'
    <2>1. since' \in [Keys -> SUBSET Value]
        BY <1>1, <1>2, ValueFacts DEF Inv, TypeOK
    <2>2. job' \in Job /\ job'.kind \in {"none", "flush"}
        BY <1>2, IdleFacts, FlushFacts DEF Inv
    <2>3. timer' \in BOOLEAN
        BY <1>2 DEF Inv, TypeOK
    <2> QED  BY <1>1, <1>2, <1>4, <2>1, <2>2, <2>3 DEF Inv, TypeOK
<1>6. JobOK'
    <2>1. CASE pending = job.generation
        BY <1>1, <1>2, <2>1, IdleFacts DEF JobOK
    <2>2. CASE pending # job.generation
        <3>1. job.generation < pending /\ pending <= pending
            BY <1>1, <2>2, BrowserStorageAssumption DEF Inv, TypeOK
        <3> QED  BY <1>1, <1>2, <2>2, <3>1, FlushFacts DEF Inv, JobOK
    <2> QED  BY <2>1, <2>2
<1>7. FallbackIsComplete' /\ ReadyOK'
    BY <1>1, <1>2, <1>3 DEF FallbackIsComplete, ReadyOK
<1>8. LocalIsRecent' /\ SnapshotIsRecent'
    BY <1>1, <1>2, <1>3 DEF LocalIsRecent, SnapshotIsRecent
<1> QED  BY <1>4, <1>5, <1>6, <1>7, <1>8 DEF Inv

\* A failed flush copies the cache to localStorage and marks it.
LEMMA InvFlushFails ==
    ASSUME Inv, FlushFails
    PROVE  Inv'
<1>1. /\ page = "ready" /\ cache \in Contents /\ cache \in Stored
    BY JobFacts, ContentsFacts DEF Inv, TypeOK, FlushFails
<1>2. /\ local' = cache /\ dirty' = TRUE /\ mode' = "fallback" /\ flushed' = pending
      /\ since' = [k \in Keys |-> {cache[k]}]
      /\ UNCHANGED <<snapshot, marker, page, cache, pending>>
      /\ requested' = FALSE /\ job' = Idle
      /\ timer' = IF requested THEN FALSE ELSE timer
    BY DEF FlushFails, FlushAgain
<1>3. TypeOK'
    <2>1. since' \in [Keys -> SUBSET Value]
        BY <1>1, <1>2, ValueFacts
    <2>2. job' \in Job /\ job'.kind = "none"
        BY <1>2, IdleFacts
    <2>3. timer' \in BOOLEAN
        BY <1>2 DEF Inv, TypeOK
    <2>4. pending' \in 0 .. MaxWrites /\ flushed' \in 0 .. pending'
        BY <1>2, BrowserStorageAssumption DEF Inv, TypeOK
    <2> QED  BY <1>1, <1>2, <2>1, <2>2, <2>3, <2>4 DEF Inv, TypeOK
<1>4. FallbackIsComplete' /\ JobOK' /\ ReadyOK'
    BY <1>1, <1>2, IdleFacts DEF FallbackIsComplete, JobOK, ReadyOK
<1>5. LocalIsRecent' /\ SnapshotIsRecent'
    BY <1>2 DEF LocalIsRecent, SnapshotIsRecent
<1> QED  BY <1>1, <1>2, <1>3, <1>4, <1>5 DEF Inv

LEMMA InvNext ==
    ASSUME Inv, [Next]_vars
    PROVE  Inv'
<1>1. CASE Open \/ Close
    BY <1>1, InvOpenClose
<1>2. CASE Boot
    BY <1>2, InvBoot
<1>3. CASE Application
    BY <1>3, InvWrite, InvClear, InvFlushPendingWrites DEF Application
<1>4. CASE TimerFires
    BY <1>4, InvFlushPendingWrites DEF TimerFires
<1>5. CASE Request
    BY <1>5, InvWriteSnapshot, InvWriteMeta, InvRepairDone, InvFlushDone,
       InvEmptyFallback, InvFlushFails DEF Request, RepairFails
<1>6. CASE UNCHANGED vars
    BY <1>6, InvStutter
<1> QED  BY <1>1, <1>2, <1>3, <1>4, <1>5, <1>6 DEF Next

LEMMA Invariance ==
    ASSUME DisksAreSound
    PROVE  Spec => []Inv
<1>1. Init => Inv
    BY InvInit
<1>2. Inv /\ [Next]_vars => Inv'
    BY InvNext
<1> QED  BY <1>1, <1>2, PTL DEF Spec

-----------------------------------------------------------------------------
\* The two stores, the cache, the generation counters and the writes in flight
\* of storage-adapter.js keep their types.
THEOREM StorageTypeCorrect ==
    ASSUME DisksAreSound
    PROVE  Spec => []TypeOK
<1>1. Inv => TypeOK
    BY DEF Inv
<1> QED  BY <1>1, Invariance, PTL

\* activateFallbackMode and the writes after it leave localStorage a complete
\* copy of the cache, with nothing to flush.
THEOREM FallbackComplete ==
    ASSUME DisksAreSound
    PROVE  Spec => []FallbackIsComplete
<1>1. Inv => FallbackIsComplete
    BY DEF Inv
<1> QED  BY <1>1, Invariance, PTL

\* Wherever a page is closed, and whichever requests failed, bootstrap brings
\* back for each key a value at least as recent as the last durable copy.
THEOREM RecoveryIsRecent ==
    ASSUME DisksAreSound
    PROVE  Spec => []RecoversRecentValues
<1>1. Inv => RecoversRecentValues
    <2> SUFFICES ASSUME Inv, dirty => LocalHasData
                 PROVE  \A k \in Keys : Recovered[k] \in since[k]
        BY DEF RecoversRecentValues
    <2>1. CASE RepairWanted
        <3>1. Recovered = local
            BY <2>1, LocalFacts DEF Inv, Recovered
        <3>2. ~ marker \/ ~ SnapshotValid \/ dirty
            BY <2>1, LocalFacts DEF Inv
        <3> QED  BY <3>1, <3>2 DEF Inv, LocalIsRecent
    <2>2. CASE ~ RepairWanted
        <3>1. Recovered = SnapshotData
            BY <2>2 DEF Recovered
        <3>2. SnapshotValid /\ ~ dirty /\ (marker \/ local = Nothing)
            BY <2>2, LocalFacts DEF Inv
        <3> QED  BY <3>1, <3>2 DEF Inv, SnapshotIsRecent
    <2> QED  BY <2>1, <2>2
<1> QED  BY <1>1, Invariance, PTL

\* What flushPendingWrites or a fallback write saved is what the next
\* bootstrap shows.
THEOREM SavedPagesReload ==
    ASSUME DisksAreSound
    PROVE  Spec => []SavedPageReloads
<1>1. Inv => SavedPageReloads
    <2> SUFFICES ASSUME Inv, page = "ready", pending = flushed,
                        IF mode = "primary" THEN marker ELSE EmergencyCopy
                 PROVE  Recovered = cache
        BY DEF SavedPageReloads
    <2>1. CASE mode = "primary"
        <3>1. ~ dirty /\ SnapshotValid /\ marker /\ cache = SnapshotData
            BY <2>1 DEF Inv, ReadyOK
        <3> QED  BY <3>1, LocalFacts DEF Inv, Recovered
    <2>2. CASE mode = "fallback"
        <3>1. dirty /\ local # Nothing /\ local = cache
            BY <2>2, LocalFacts DEF Inv, EmergencyCopy, FallbackIsComplete
        <3> QED  BY <3>1, LocalFacts DEF Inv, TypeOK, Recovered
    <2> QED  BY <2>1, <2>2 DEF Inv, TypeOK
<1> QED  BY <1>1, Invariance, PTL
=============================================================================
