----------------------------- MODULE ReplayStore -----------------------------
(***************************************************************************)
(* The replay tables of the SQLite store for one (owner_key, app_id) pair: *)
(*   receipts      sync_mutation_receipts: mutations the API acknowledged; *)
(*   observations  sync_mutation_replay_dry_run_observations: what a dry   *)
(*                 run saw, and what it would have produced;               *)
(*   applications  sync_mutation_replay_applications: the outcome of every *)
(*                 receipt an authoritative replay consumed;               *)
(* together with the canonical document they are replayed onto.  Each      *)
(* operator below is one transaction of store.go.  SHA-256 of a body is    *)
(* modelled by the body itself.                                            *)
(***************************************************************************)
EXTENDS DocumentStore, FiniteSets

CONSTANTS
    NumMutations,           \* client mutation ids are 1..NumMutations, compared like strings
    Ops,                    \* operation and payload of a mutation
    MaxTime,                \* bound: the clock (whole seconds) stops here
    MaxObservations,        \* bound: observation ids issued by AUTOINCREMENT
    WriteDelay,             \* seconds a write may wait for the database (busy_timeout)
    Decodable,              \* the bodies decodeReplaySnapshot and decodeReplayTabs accept
    DuplicateIds,           \* the bodies holding a duplicate item or edge id
    DryRun(_, _),           \* preview body of the lenient dry run of all receipts on a body
    Authoritative(_, _),    \* [abort, body, status] of the policy-checked replay
    NoReceipt, NoObservation, NoApplication,
    ObservationRetention,       \* seconds an observation is kept at least
    ReceiptRetention,           \* seconds a receipt is kept at least
    RetainedObservationCount,   \* newest observations kept whatever their age
    RetainedReceiptCount        \* newest receipts kept whatever their age

VARIABLES now, receipts, observations, lastObservation, applications

MutationId == 1 .. NumMutations
NoMutation == 0
Time == 0 .. MaxTime
ObservationId == 1 .. MaxObservations

Receipt == [op : Ops, acceptedAt : Time]
Receipts == [MutationId -> Receipt \cup {NoReceipt}]

\* ordered_receipt_high_watermark: accepted_at | created_at | mutation_id of the last receipt
Watermark == [at : Time, id : MutationId \cup {NoMutation}]
NoWatermark == [at |-> 0, id |-> NoMutation]

Observation ==
    [version : Version, hash : Bodies, count : Nat,
     first : MutationId \cup {NoMutation}, last : MutationId \cup {NoMutation},
     watermark : Watermark, previewHash : Bodies, createdAt : Time]

ApplicationStatus == {"applied", "skipped"}

Application ==
    [status : ApplicationStatus,
     versionBefore : Version, hashBefore : Bodies,
     versionAfter : Version, hashAfter : Bodies,
     observation : ObservationId]

\* The mutations with an accepted receipt.
Accepted(r) == {m \in MutationId : r[m] # NoReceipt}

ASSUME ReplayStoreAssumption ==
    /\ {NumMutations, MaxTime, MaxObservations, WriteDelay} \subseteq Nat
    /\ {ObservationRetention, ReceiptRetention,
        RetainedObservationCount, RetainedReceiptCount} \subseteq Nat \ {0}
    /\ Decodable \subseteq Bodies /\ DuplicateIds \subseteq Decodable
    /\ NoReceipt \notin Receipt
    /\ NoObservation \notin Observation
    /\ NoApplication \notin Application

\* Replaying a decodable snapshot yields a snapshot, and a replay that does not
\* abort accounts for every receipt.
ASSUME ReplayAssumption ==
    \A b \in Decodable, r \in Receipts :
        /\ DryRun(b, r) \in Bodies
        /\ Authoritative(b, r).abort \in BOOLEAN
        /\ ~ Authoritative(b, r).abort =>
              /\ Authoritative(b, r).body \in Bodies
              /\ Authoritative(b, r).status \in [Accepted(r) -> ApplicationStatus]

storeVars == <<doc, now, receipts, observations, lastObservation, applications>>

StoreTypeOK ==
    /\ DocumentTypeOK
    /\ now \in Time
    /\ receipts \in Receipts
    /\ observations \in [ObservationId -> Observation \cup {NoObservation}]
    /\ lastObservation \in 0 .. MaxObservations
    /\ applications \in [MutationId -> Application \cup {NoApplication}]

StoreInit ==
    /\ DocumentInit
    /\ now = 0
    /\ receipts = [m \in MutationId |-> NoReceipt]
    /\ observations = [o \in ObservationId |-> NoObservation]
    /\ lastObservation = 0
    /\ applications = [m \in MutationId |-> NoApplication]

-----------------------------------------------------------------------------
(***************************************************************************)
(* ORDER BY accepted_at, created_at, mutation_id.  created_at is always    *)
(* the accepted_at of the same INSERT, and both have one-second precision, *)
(* so receipts of one second are ordered by mutation id, not by arrival.   *)
(***************************************************************************)
Precedes(r, k, m) ==
    \/ r[k].acceptedAt < r[m].acceptedAt
    \/ r[k].acceptedAt = r[m].acceptedAt /\ k < m

Position(r, m) == Cardinality({k \in Accepted(r) : Precedes(r, k, m)}) + 1

Ordered(r) ==
    [n \in 1 .. Cardinality(Accepted(r)) |->
        CHOOSE m \in Accepted(r) : Position(r, m) = n]

FirstReceipt(r) ==
    IF Accepted(r) = {} THEN NoMutation
    ELSE CHOOSE m \in Accepted(r) : \A k \in Accepted(r) : k = m \/ Precedes(r, m, k)

LastReceipt(r) ==
    IF Accepted(r) = {} THEN NoMutation
    ELSE CHOOSE m \in Accepted(r) : \A k \in Accepted(r) : k = m \/ Precedes(r, k, m)

HighWatermark(r) ==
    IF Accepted(r) = {} THEN NoWatermark
    ELSE [at |-> r[LastReceipt(r)].acceptedAt, id |-> LastReceipt(r)]

\* The fields an observation and the precondition check both derive from the receipts.
Summary(r) ==
    [count |-> Cardinality(Accepted(r)), first |-> FirstReceipt(r), last |-> LastReceipt(r),
     watermark |-> HighWatermark(r)]

-----------------------------------------------------------------------------
Tick ==
    /\ now < MaxTime
    /\ now' = now + 1
    /\ UNCHANGED <<doc, receipts, observations, lastObservation, applications>>

\* PutDocument leaves the replay tables alone.
Put(body, expected) ==
    /\ PutDocument(body, expected)
    /\ UNCHANGED <<now, receipts, observations, lastObservation, applications>>

(***************************************************************************)
(* AcceptSyncMutationReceipts: INSERT OR IGNORE of every envelope of the   *)
(* batch in one transaction; the first payload of a mutation id wins.      *)
(* batch maps the mutation ids of the request to their payloads.  The      *)
(* accepted_at stamp is read before the INSERT waits for the write lock,   *)
(* so rows may appear with a time that other transactions have passed.     *)
(* A batch that straddles a second leaves the rows that two batches would. *)
(***************************************************************************)
Stamps == {t \in Time : t \leq now /\ now \leq t + WriteDelay}

\* Broken variant: INSERT OR REPLACE.
AcceptReplacing(batch, at) ==
    /\ receipts' = [m \in MutationId |->
            IF m \in DOMAIN batch THEN [op |-> batch[m], acceptedAt |-> at] ELSE receipts[m]]
    /\ UNCHANGED <<doc, now, observations, lastObservation, applications>>

AcceptReceipts(batch, at) ==
    /\ receipts' = [m \in MutationId |->
            IF m \in DOMAIN batch /\ receipts[m] = NoReceipt
            THEN [op |-> batch[m], acceptedAt |-> at]
            ELSE receipts[m]]
    /\ UNCHANGED <<doc, now, observations, lastObservation, applications>>

\* The row a dry run over document d and receipts r records.
ObservationOf(d, r, at) ==
    LET s == Summary(r) IN
    [version |-> d.version, hash |-> d.body, count |-> s.count,
     first |-> s.first, last |-> s.last, watermark |-> s.watermark,
     previewHash |-> DryRun(d.body, r), createdAt |-> at]

InsertObservation(row) ==
    /\ lastObservation < MaxObservations
    /\ lastObservation' = lastObservation + 1
    /\ observations' = [observations EXCEPT ![lastObservation + 1] = row]
    /\ UNCHANGED <<doc, now, receipts, applications>>
-----------------------------------------------------------------------------
(***************************************************************************)
(* Classification of an apply request, as functions of the rows they read. *)
(***************************************************************************)
MatchingRows(r, a) == {m \in MutationId : r[m] # NoReceipt /\ a[m] # NoApplication}

\* Broken variant: only the number of receipts is compared.
SameReceiptCount(obs, r) == Summary(r).count = obs.count

SameReceiptSet(obs, r) ==
    Summary(r) = [count |-> obs.count, first |-> obs.first,
                  last |-> obs.last, watermark |-> obs.watermark]

CompareStatus(obs, d, r, a) ==
    IF MatchingRows(r, a) # {} THEN "already_applied"
    ELSE IF d.body \in DuplicateIds THEN "blocked_snapshot"
    ELSE IF d.version # obs.version \/ d.body # obs.hash
         THEN "stale_canonical_document"
    ELSE IF ~ SameReceiptSet(obs, r) \/ DryRun(d.body, r) # obs.previewHash
         THEN "stale_receipt_set"
    ELSE "allowed"

\* Rows whose canonical_document_*_after is not the current document.
MismatchedRows(d, r, a) ==
    {m \in MatchingRows(r, a) : a[m].versionAfter # d.version \/ a[m].hashAfter # d.body}

RecoveryStatus(obs, d, r, a) ==
    LET compare == CompareStatus(obs, d, r, a) IN
    IF /\ MatchingRows(r, a) = {} /\ Accepted(r) # {}
       /\ d.body = obs.previewHash /\ d.body # obs.hash
    THEN "canonical_state_without_application_rows"
    ELSE IF compare = "allowed" THEN "safe_to_attempt_transaction"
    ELSE IF compare = "blocked_snapshot" THEN "blocked_snapshot_requires_cleanup"
    ELSE IF compare # "already_applied" THEN "stale_observation_requires_redryrun"
    ELSE IF Cardinality(MatchingRows(r, a)) < Cardinality(Accepted(r))
         THEN "partial_application_rows"
    ELSE IF MismatchedRows(d, r, a) # {}
         THEN "application_rows_without_matching_canonical_state"
    ELSE "already_applied_requires_idempotent_exit"

\* Broken variant: skipped receipts get no row.
StagedApplied(r, outcome) == {m \in Accepted(r) : outcome.status[m] = "applied"}

\* The receipts an unaborted replay writes application rows for: all of them.
Staged(r, outcome) == Accepted(r)

\* Status of ApplySyncMutationReplayAuthoritativeInternal for an existing observation.
ApplyStatus(obs, d, r, a) ==
    LET recovery == RecoveryStatus(obs, d, r, a) IN
    IF recovery = "already_applied_requires_idempotent_exit" THEN "idempotent_exit_already_applied"
    ELSE IF recovery = "stale_observation_requires_redryrun" THEN "aborted_preconditions"
    ELSE IF recovery # "safe_to_attempt_transaction" THEN "aborted_recovery"
    ELSE IF Authoritative(d.body, r).abort THEN "aborted_policy"
    ELSE IF Staged(r, Authoritative(d.body, r)) = {} THEN "idempotent_exit_already_applied"
    ELSE "applied"

(***************************************************************************)
(* The committing run of the apply transaction: the document moves to the  *)
(* replayed body and every receipt gets its application row.  Every other  *)
(* status, a failure between two statements and a crash before the commit  *)
(* roll back and change nothing.                                           *)
(***************************************************************************)
WriteReplay(o, outcome, staged) ==
    LET row(m) == [status |-> outcome.status[m],
                   versionBefore |-> doc.version, hashBefore |-> doc.body,
                   versionAfter |-> doc.version + 1, hashAfter |-> outcome.body,
                   observation |-> o]
    IN  /\ doc.version < MaxVersion
        /\ \A m \in staged : applications[m] = NoApplication  \* UNIQUE, else the INSERT fails
        /\ doc' = Written(doc, outcome.body)
        /\ applications' = [m \in MutationId |->
                IF m \in staged THEN row(m) ELSE applications[m]]
        /\ UNCHANGED <<now, receipts, observations, lastObservation>>

Replayable(o) ==
    observations[o] # NoObservation /\ doc # NoDocument /\ doc.body \in Decodable

\* Broken variant: the rows of an earlier apply are not loaded, and its
\* mutations are passed over by INSERT OR IGNORE.
ApplyForgettingRows(o) ==
    LET outcome == Authoritative(doc.body, receipts)
        forgotten == [m \in MutationId |-> NoApplication]
    IN  /\ Replayable(o)
        /\ ApplyStatus(observations[o], doc, receipts, forgotten) = "applied"
        /\ WriteReplay(o, outcome,
               {m \in Staged(receipts, outcome) : applications[m] = NoApplication})

Apply(o) ==
    LET outcome == Authoritative(doc.body, receipts) IN
    /\ Replayable(o)
    /\ ApplyStatus(observations[o], doc, receipts, applications) = "applied"
    /\ WriteReplay(o, outcome, Staged(receipts, outcome))
-----------------------------------------------------------------------------
(***************************************************************************)
(* CompactSyncMutationReplayArtifacts with Execute: what one transaction   *)
(* keeps and deletes.  The cutoffs come from time.Now() with its fraction  *)
(* of a second while the stored times are truncated, so a row exactly as   *)
(* old as its retention is past the cutoff unless the fraction is zero:    *)
(* fraction is 1 when the clock is inside the second, 0 at its start.      *)
(***************************************************************************)
Recorded == {o \in ObservationId : observations[o] # NoObservation}

\* ORDER BY created_at DESC, id DESC
NewerObservations(o) ==
    {p \in Recorded : \/ observations[p].createdAt > observations[o].createdAt
                      \/ observations[p].createdAt = observations[o].createdAt /\ p > o}

Referenced ==
    {applications[m].observation :
        m \in {k \in MutationId : applications[k] # NoApplication}}

\* Broken variant: the application rows are not consulted.
RetainedByAgeOnly(fraction) ==
    {o \in Recorded :
        \/ Cardinality(NewerObservations(o)) < RetainedObservationCount
        \/ observations[o].createdAt >= now + fraction - ObservationRetention}

RetainedObservations(fraction) ==
    {o \in Recorded :
        \/ Cardinality(NewerObservations(o)) < RetainedObservationCount
        \/ observations[o].createdAt >= now + fraction - ObservationRetention
        \/ o \in Referenced}

\* latestSyncMutationReceiptIDs
LatestReceipts ==
    {m \in Accepted(receipts) :
        Position(receipts, m) > Cardinality(Accepted(receipts)) - RetainedReceiptCount}

\* Broken variant: off by one.
CoversMoreThanCount(obs) == Position(receipts, obs.watermark.id) > obs.count

\* Enough receipts lie up to the watermark receipt.
CoversCount(obs) == Position(receipts, obs.watermark.id) >= obs.count

\* syncMutationReceiptIDsProtectedByObservations, for one observation: the first
\* count receipts, provided the watermark receipt is there and the ends match.
ProtectedBy(obs) ==
    {m \in Accepted(receipts) :
        /\ obs.count > 0
        /\ obs.watermark.id \in Accepted(receipts)
        /\ receipts[obs.watermark.id].acceptedAt = obs.watermark.at
        /\ CoversCount(obs)
        /\ FirstReceipt(receipts) = obs.first
        /\ obs.watermark.id = obs.last
        /\ Position(receipts, m) <= obs.count}

DeletedReceipts(fraction, retained) ==
    LET protected == UNION {ProtectedBy(observations[o]) : o \in retained} IN
    {m \in Accepted(receipts) \ (LatestReceipts \cup protected) :
        /\ receipts[m].acceptedAt < now + fraction - ReceiptRetention
        /\ applications[m] = NoApplication}

Compact(fraction) ==
    LET retained == RetainedObservations(fraction)
        deleted == DeletedReceipts(fraction, retained)
    IN  /\ observations' = [o \in ObservationId |->
                IF o \in retained THEN observations[o] ELSE NoObservation]
        /\ receipts' = [m \in MutationId |->
                IF m \in deleted THEN NoReceipt ELSE receipts[m]]
        /\ UNCHANGED <<doc, now, lastObservation, applications>>
=============================================================================
