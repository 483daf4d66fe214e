------------------------------- MODULE SyncApi -------------------------------
(***************************************************************************)
(* The document handlers of api.go, statement by statement, for some       *)
(* clients; every other caller of the store is ReplaySystem's Next.  A     *)
(* client keeps the document it last loaded or saved, sends its version    *)
(* with a PUT, and polls GET /api/sync/delta with that version and the     *)
(* last application watermark it was told.  The handlers run store         *)
(* transactions, but a PUT without a version looks the document up before  *)
(* its transaction, and a delta is two reads without one.  A response may  *)
(* be lost.                                                                *)
(***************************************************************************)
EXTENDS ReplaySystem

CONSTANTS
    Clients,    \* clients whose requests are followed
    MaxLimit    \* syncDeltaMetadataMaxLimit

ASSUME SyncApiAssumption == MaxLimit \in Nat \ {0} /\ Bodies # {}

VARIABLES
    base,       \* per client: the document it last loaded or saved
    watermark,  \* per client: the last application watermark, 0 for none
    request,    \* per client: the request in flight
    answer      \* per client: the delta answer it received last

apiVars == <<base, watermark, request, answer>>
allVars == <<doc, now, receipts, observations, lastObservation, applications,
             observers, base, watermark, request, answer>>

\* "check": PUT without a version, before GetDocumentMeta; "save": before
\* PutDocument; "delta": between the two reads of GetSyncDeltaMetadata.
Request ==
    [pc : {"none", "check", "save", "delta"}, expected : ExpectedVersion,
     body : Bodies, read : Document \cup {NoDocument}]

NoRequest == [pc |-> "none", expected |-> NoVersion,
              body |-> CHOOSE b \in Bodies : TRUE, read |-> NoDocument]

Reasons == {"up_to_date", "document_version_changed", "applications_available",
            "client_version_ahead", "too_many_applications"}

\* A delta as its client reads it: for the version since, past the watermark from.
Answer ==
    [reason : Reasons \cup {"none"}, since : 0 .. MaxVersion, from : 0 .. NumMutations,
     applications : SUBSET MutationId, current : Document \cup {NoDocument},
     included : BOOLEAN]

NoAnswer == [reason |-> "none", since |-> 0, from |-> 0, applications |-> {},
             current |-> NoDocument, included |-> FALSE]

BaseVersion(c) == IF base[c] = NoDocument THEN 0 ELSE base[c].version

ApiInit ==
    /\ Init
    /\ base = [c \in Clients |-> NoDocument]
    /\ watermark = [c \in Clients |-> 0]
    /\ request = [c \in Clients |-> NoRequest]
    /\ answer = [c \in Clients |-> NoAnswer]

\* Ends the client's request.
Ended(c) == request' = [request EXCEPT ![c] = NoRequest]

Starts(c) ==
    /\ request[c].pc = "none"
    /\ answer' = [answer EXCEPT ![c] = NoAnswer]

-----------------------------------------------------------------------------
\* handleGetDocument, its response received.
GetDocument(c) ==
    /\ Starts(c)
    /\ doc # NoDocument
    /\ base' = [base EXCEPT ![c] = doc]
    /\ UNCHANGED <<storeVars, observers, watermark, request>>

\* handlePutDocument up to its first statement: the request is well formed and
\* its version, if any, is the one the client knows.
PutRequest(c, body, expected) ==
    /\ Starts(c)
    /\ request' = [request EXCEPT ![c] =
           [pc |-> IF expected = NoVersion THEN "check" ELSE "save",
            expected |-> expected, body |-> body, read |-> NoDocument]]
    /\ UNCHANGED <<storeVars, observers, base, watermark>>

\* GetDocumentMeta, only for a PUT without a version: 400 for an existing document.
PutCheck(c) ==
    /\ request[c].pc = "check"
    /\ IF doc # NoDocument THEN Ended(c)
                           ELSE request' = [request EXCEPT ![c].pc = "save"]
    /\ UNCHANGED <<storeVars, observers, base, watermark, answer>>

\* PutDocument commits; the response tells the client its new version or is lost.
PutSave(c) ==
    /\ request[c].pc = "save"
    /\ Put(request[c].body, request[c].expected)
    /\ Ended(c)
    /\ base' \in {base, [base EXCEPT ![c] = doc']}
    /\ UNCHANGED <<observers, watermark, answer>>

\* 409 with the current version; the client keeps what it has.
PutRefused(c) ==
    /\ request[c].pc = "save"
    /\ PutDocumentConflict(request[c].expected)
    /\ Ended(c)
    /\ UNCHANGED <<storeVars, observers, base, watermark, answer>>

\* A statement fails or times out before it changes anything, or the client goes.
RequestFails(c) ==
    /\ request[c].pc # "none"
    /\ Ended(c)
    /\ UNCHANGED <<storeVars, observers, base, watermark, answer>>

-----------------------------------------------------------------------------
\* GetSyncDeltaMetadata, first read; 404 without a document.
DeltaReadDocument(c) ==
    /\ Starts(c)
    /\ doc # NoDocument
    /\ request' = [request EXCEPT ![c] = [NoRequest EXCEPT !.pc = "delta", !.read = doc]]
    /\ UNCHANGED <<storeVars, observers, base, watermark>>

\* AUTOINCREMENT ids of the application rows: one transaction wrote them all
\* (OneApply), in receipt order.
RowId(m) == Cardinality({k \in Applied : k = m \/ Precedes(receipts, k, m)})

\* Broken variant: skipped mutations are not reported.
RowsAppliedAfter(since, from) ==
    {m \in Applied : /\ applications[m].status = "applied"
                     /\ IF from = 0 THEN applications[m].versionAfter > since
                                    ELSE RowId(m) > from}

\* filterSyncDeltaApplicationsForOptions
RowsAfter(since, from) ==
    {m \in Applied : IF from = 0 THEN applications[m].versionAfter > since
                                 ELSE RowId(m) > from}

\* The answer for the document read before and the rows read now.
DeltaAnswer(read, since, from, included, limit) ==
    LET rows == RowsAfter(since, from)
        reason == IF since > read.version THEN "client_version_ahead"
                  ELSE IF included /\ Cardinality(rows) > limit THEN "too_many_applications"
                  ELSE IF included /\ rows # {} THEN "applications_available"
                  ELSE IF read.version # since THEN "document_version_changed"
                  ELSE "up_to_date"
    IN  [reason |-> reason, since |-> since, from |-> from, current |-> read,
         included |-> included,
         applications |-> IF reason = "applications_available" THEN rows ELSE {}]

\* NextApplicationWatermark is the id of the last row there is.
DeltaReadApplications(c, useWatermark, included, limit) ==
    /\ request[c].pc = "delta"
    /\ answer' = [answer EXCEPT ![c] =
           DeltaAnswer(request[c].read, BaseVersion(c),
                       IF useWatermark THEN watermark[c] ELSE 0, included, limit)]
    /\ watermark' = [watermark EXCEPT ![c] = Cardinality(Applied)]
    /\ Ended(c)
    /\ UNCHANGED <<storeVars, observers, base>>

-----------------------------------------------------------------------------
Client(c) ==
    \/ GetDocument(c)
    \/ \E body \in Bodies, expected \in {NoVersion, BaseVersion(c)} :
          PutRequest(c, body, expected)
    \/ PutCheck(c)
    \/ PutSave(c)
    \/ PutRefused(c)
    \/ RequestFails(c)
    \/ DeltaReadDocument(c)
    \/ \E useWatermark, included \in BOOLEAN, limit \in 1 .. MaxLimit :
          DeltaReadApplications(c, useWatermark, included, limit)

ApiNext ==
    \/ \E c \in Clients : Client(c)
    \/ Next /\ UNCHANGED apiVars

ApiSpec == ApiInit /\ [][ApiNext]_allVars

-----------------------------------------------------------------------------
\* Requests, answers and what clients remember keep their types.
ApiTypeOK ==
    /\ TypeOK
    /\ base \in [Clients -> Document \cup {NoDocument}]
    /\ watermark \in [Clients -> 0 .. NumMutations]
    /\ request \in [Clients -> Request]
    /\ answer \in [Clients -> Answer]
    /\ \A c \in Clients :
          /\ request[c].pc = "delta" => request[c].read # NoDocument
          /\ request[c].pc # "none" => answer[c] = NoAnswer

(***************************************************************************)
(* A PUT that carries a version overwrites exactly the document its client *)
(* had: the same body too, although other clients, PUTs without a version  *)
(* and replays wrote in between, and although responses were lost.         *)
(***************************************************************************)
Saves(c) == request[c].pc = "save" /\ request'[c].pc = "none" /\ doc' # doc

SavesReplaceTheirBase ==
    [][\A c \in Clients :
        Saves(c) /\ request[c].expected # NoVersion => doc = base[c]]_allVars

(***************************************************************************)
(* A delta that reports the client up to date means it: the document read  *)
(* is the client's, body and version.  A client with a version it got from *)
(* the server is never told that it is ahead.                              *)
(***************************************************************************)
UpToDateIsTrue ==
    \A c \in Clients :
        /\ answer[c].reason # "client_version_ahead"
        /\ answer[c].reason = "up_to_date" => answer[c].current.body = base[c].body

(***************************************************************************)
(* A delta asked for applications that lists none leaves none out: every   *)
(* replayed mutation in the document version it reports is one the client  *)
(* has, by its version or by its watermark.                                *)
(***************************************************************************)
DeltaHidesNoApplication ==
    \A c \in Clients :
        answer[c].included /\ answer[c].reason \in {"up_to_date", "document_version_changed"} =>
            \A m \in Applied :
                applications[m].versionAfter \leq answer[c].current.version =>
                    IF answer[c].from = 0
                    THEN applications[m].versionAfter \leq answer[c].since
                    ELSE RowId(m) \leq answer[c].from

\* The handlers change the store only the way ReplaySystem lets the server do,
\* so what holds of its behaviours holds under these clients.
ImplementsReplaySystem == Spec

\* Said by the handler: a version is required when replacing an existing document.
VersionRequiredToReplace ==
    [][\A c \in Clients :
        Saves(c) /\ request[c].expected = NoVersion => doc = NoDocument]_allVars
=============================================================================
