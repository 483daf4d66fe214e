---------------------------- MODULE ReplaySystem ----------------------------
(***************************************************************************)
(* The store under its callers.  The HTTP server writes the document and   *)
(* accepts receipts; the operator's CLI, a second process on the same      *)
(* database file, records observations, applies and compacts.  PutDocument,*)
(* AcceptReceipts, Apply and Compact are single transactions.  Recording   *)
(* an observation is not: it reads the document, reads the receipts and    *)
(* inserts its row in three separate statements, and anything may run      *)
(* between them.                                                           *)
(***************************************************************************)
EXTENDS ReplayStore

CONSTANT Operators   \* concurrent runs of "postbaby-sync-replay-admin observe"

VARIABLE observers

vars == <<doc, now, receipts, observations, lastObservation, applications, observers>>

NoReceipts == [m \in MutationId |-> NoReceipt]

IdleObserver == [pc |-> "idle", doc |-> NoDocument, receipts |-> NoReceipts, readAt |-> 0]

Observer ==
    [pc : {"idle", "gotDocument", "gotReceipts"}, doc : Document \cup {NoDocument},
     receipts : Receipts, readAt : Time]

Init ==
    /\ StoreInit
    /\ observers = [p \in Operators |-> IdleObserver]

-----------------------------------------------------------------------------
\* loadSyncMutationReplayDryRunInputs, first statement: GetDocument.  Without a
\* document the command reports ErrDocumentNotFound and ends.
ObserveReadDocument(p) ==
    /\ observers[p].pc = "idle"
    /\ doc # NoDocument
    /\ observers' = [observers EXCEPT ![p].pc = "gotDocument", ![p].doc = doc]
    /\ UNCHANGED storeVars

\* Second statement: listAcceptedSyncMutationReceipts, then the dry run in memory,
\* which fails on a body it cannot decode.
ObserveReadReceipts(p) ==
    /\ observers[p].pc = "gotDocument"
    /\ IF observers[p].doc.body \in Decodable
       THEN observers' = [observers EXCEPT ![p].pc = "gotReceipts",
                                           ![p].receipts = receipts, ![p].readAt = now]
       ELSE observers' = [observers EXCEPT ![p] = IdleObserver]
    /\ UNCHANGED storeVars

\* Third statement: the INSERT, with a created_at taken since the read.
ObserveInsert(p) ==
    /\ observers[p].pc = "gotReceipts"
    /\ \E at \in observers[p].readAt .. now :
          InsertObservation(ObservationOf(observers[p].doc, observers[p].receipts, at))
    /\ observers' = [observers EXCEPT ![p] = IdleObserver]

\* The command is killed, or a statement fails: nothing was written yet.
ObserveAbandon(p) ==
    /\ observers[p].pc # "idle"
    /\ observers' = [observers EXCEPT ![p] = IdleObserver]
    /\ UNCHANGED storeVars

Observe(p) ==
    \/ ObserveReadDocument(p)
    \/ ObserveReadReceipts(p)
    \/ ObserveInsert(p)
    \/ ObserveAbandon(p)

Server ==
    \/ \E body \in Bodies, expected \in ExpectedVersion : Put(body, expected)
    \/ \E ids \in SUBSET MutationId : \E batch \in [ids -> Ops], at \in Stamps :
          AcceptReceipts(batch, at)

Admin ==
    \/ \E o \in ObservationId : Apply(o)
    \/ \E fraction \in {0, 1} : Compact(fraction)

Next ==
    \/ \E p \in Operators : Observe(p)
    \/ (Server \/ Admin \/ Tick) /\ UNCHANGED observers

Spec == Init /\ [][Next]_vars

-----------------------------------------------------------------------------
\* Every table holds rows of its type, and an observer only what it has read.
TypeOK ==
    /\ StoreTypeOK
    /\ observers \in [Operators -> Observer]
    /\ \A p \in Operators :
          /\ observers[p].pc # "idle" => observers[p].doc # NoDocument
          /\ observers[p].pc = "gotReceipts" => observers[p].doc.body \in Decodable

Applied == {m \in MutationId : applications[m] # NoApplication}

(***************************************************************************)
(* Compaction never removes a row an application row needs: its receipt,   *)
(* without which the next apply would not see that the mutation was        *)
(* already applied, and its observation.                                   *)
(***************************************************************************)
RowsKeepTheirReferences ==
    \A m \in Applied :
        /\ receipts[m] # NoReceipt
        /\ observations[applications[m].observation] # NoObservation

(***************************************************************************)
(* All application rows come from one transaction: whatever operators,     *)
(* clients and compactions do, receipts are replayed onto the document at  *)
(* most once.                                                              *)
(***************************************************************************)
SameTransaction(a, b) ==
    /\ a.versionBefore = b.versionBefore /\ a.hashBefore = b.hashBefore
    /\ a.versionAfter = b.versionAfter /\ a.hashAfter = b.hashAfter
    /\ a.observation = b.observation

OneApply ==
    \A m, n \in Applied : SameTransaction(applications[m], applications[n])

(***************************************************************************)
(* A version number names one body for ever: whoever remembers a version   *)
(* and a hash (an observation, an observer between its reads, the row left *)
(* by an apply) and finds the version unchanged also finds the body        *)
(* unchanged, although PutDocument and the replay both write it.           *)
(***************************************************************************)
Names(version, body) ==
    /\ doc # NoDocument
    /\ version \leq doc.version
    /\ version = doc.version => body = doc.body

VersionNamesBody ==
    /\ \A o \in Recorded : Names(observations[o].version, observations[o].hash)
    /\ \A p \in Operators : observers[p].pc # "idle" =>
          Names(observers[p].doc.version, observers[p].doc.body)
    /\ \A m \in Applied :
          /\ Names(applications[m].versionBefore, applications[m].hashBefore)
          /\ Names(applications[m].versionAfter, applications[m].hashAfter)

(***************************************************************************)
(* What an apply consumed is what its observation saw, and the record      *)
(* stays true: the rows' receipts have the observation's count, ends and   *)
(* watermark, and the document they were replayed onto is the observed     *)
(* one, although the observation was taken without a transaction and later *)
(* receipts, writes and compactions followed.                              *)
(***************************************************************************)
AppliedReceipts == [m \in MutationId |-> IF m \in Applied THEN receipts[m] ELSE NoReceipt]

ApplicationsMatchObservation ==
    \A m \in Applied :
        LET row == applications[m]  obs == observations[row.observation] IN
        /\ Summary(AppliedReceipts) = [count |-> obs.count, first |-> obs.first,
                                       last |-> obs.last, watermark |-> obs.watermark]
        /\ row.versionBefore = obs.version /\ row.hashBefore = obs.hash

(***************************************************************************)
(* Once receipts arrive after an apply, every later apply request is       *)
(* refused as partial, whatever observation it names: the store replays    *)
(* whole receipt sets and has no second batch.                             *)
(***************************************************************************)
SecondBatchRefused ==
    Applied # {} /\ ~ Accepted(receipts) \subseteq Applied =>
        \A o \in Recorded :
            RecoveryStatus(observations[o], doc, receipts, applications)
                = "partial_application_rows"

(***************************************************************************)
(* Compaction never spoils an apply the operator has prepared: an          *)
(* observation that could be applied and that compaction keeps can still   *)
(* be applied after it.  Only compaction removes a receipt.                *)
(***************************************************************************)
Applicable(o) ==
    /\ Replayable(o)
    /\ ApplyStatus(observations[o], doc, receipts, applications) = "applied"

CompactKeepsApplicable ==
    [][~ Accepted(receipts) \subseteq Accepted(receipts') =>
        \A o \in ObservationId :
            Applicable(o) /\ observations'[o] # NoObservation => Applicable(o)']_vars

(***************************************************************************)
(* An acknowledged receipt keeps its payload, and disappears only by       *)
(* compaction after its retention, never while it has an application row.  *)
(***************************************************************************)
AcknowledgedReceiptsKept ==
    [][\A m \in Accepted(receipts) :
        receipts'[m] # receipts[m] =>
            /\ receipts'[m] = NoReceipt
            /\ m \notin Applied
            /\ receipts[m].acceptedAt + ReceiptRetention \leq now]_vars

(***************************************************************************)
(* Clients see a MutationLog: however observations, applies, compactions,  *)
(* saves and retries interleave, what they acknowledged is replayed whole, *)
(* at most once, and onto the document of that moment.                     *)
(***************************************************************************)
Log == INSTANCE MutationLog WITH
    Mutation <- MutationId, Payload <- Ops, Content <- Bodies, NoContent <- NoDocument,
    version <- IF doc = NoDocument THEN 0 ELSE doc.version,
    content <- IF doc = NoDocument THEN NoDocument ELSE doc.body,
    payload <- [m \in Accepted(receipts) |-> receipts[m].op],
    replayed <- Applied

ImplementsMutationLog == Log!Spec
=============================================================================
