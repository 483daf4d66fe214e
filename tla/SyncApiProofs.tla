---------------------------- MODULE SyncApiProofs ----------------------------
(***************************************************************************)
(* The theorems about the server, for every set of operators, bodies and   *)
(* mutations, every retention and any number of clients.  First the        *)
(* stores, as ReplaySystem lets the server use them: every row has its     *)
(* type and keeps what it refers to; a document is applied to once,        *)
(* versions name bodies, observations stay true of the rows they produced, *)
(* compaction is harmless, and the store implements MutationLog.  Then the *)
(* handlers of api.go: they use the stores in that way, so the theorems    *)
(* hold for them; and what they tell a client is true.                     *)
(***************************************************************************)
EXTENDS SyncApi, FiniteSetTheorems, WellFoundedInduction, TLAPS

-----------------------------------------------------------------------------
(***************************************************************************)
(* The order of receipts: every nonempty set of receipts has a first and a *)
(* last one, and what an observation summarises of them has its type.      *)
(***************************************************************************)

\* Every nonempty set of naturals has a least element.
LEMMA LeastNatural ==
    ASSUME NEW T, T \subseteq Nat, T # {}
    PROVE  \E x \in T : \A y \in T : x <= y
<1> DEFINE R == {ss \in Nat \X Nat : ss[1] < ss[2]}
<1>1. IsWellFoundedOn(R, Nat)
    BY NatLessThanWellFounded, Zenon DEF OpToRel
<1>2. PICK x \in T : \A y \in T : ~ (<<y, x>> \in R)
    <2> HIDE DEF R
    <2> QED  BY <1>1, WFMin
<1>3. ASSUME NEW y \in T  PROVE  x <= y
    <2>1. x \in Nat /\ y \in Nat
        OBVIOUS
    <2>2. ~ (<<y, x>> \in R)
        BY <1>2
    <2>3. ~ (y < x)
        BY <2>1, <2>2
    <2> QED  BY <2>1, <2>3
<1> QED  BY <1>3

\* A nonempty set of naturals below a bound has a greatest element.
LEMMA GreatestNatural ==
    ASSUME NEW n \in Nat, NEW T, T \subseteq 0 .. n, T # {}
    PROVE  \E x \in T : \A y \in T : y <= x
<1> DEFINE U == {n - x : x \in T}
<1>1. U \subseteq Nat /\ U # {}
    <2>1. \A x \in T : n - x \in Nat
        OBVIOUS
    <2> QED  BY <2>1
<1>2. PICK u \in U : \A v \in U : u <= v
    <2> HIDE DEF U
    <2> QED  BY <1>1, LeastNatural
<1>3. PICK x \in T : u = n - x
    OBVIOUS
<1>4. ASSUME NEW y \in T  PROVE  y <= x
    <2>1. n - x <= n - y
        BY <1>2, <1>3
    <2>2. x \in Nat /\ y \in Nat
        OBVIOUS
    <2> QED  BY <2>1, <2>2
<1> QED  BY <1>4

-----------------------------------------------------------------------------
\* The accepted mutations form a finite set.
LEMMA AcceptedFinite ==
    ASSUME NEW r
    PROVE  /\ IsFiniteSet(Accepted(r))
           /\ Cardinality(Accepted(r)) \in Nat
<1>1. NumMutations \in Nat
    BY ReplayStoreAssumption
<1>2. IsFiniteSet(MutationId)
    BY <1>1, FS_Interval DEF MutationId
<1>3. Accepted(r) \in SUBSET MutationId
    BY DEF Accepted
<1> QED  BY <1>2, <1>3, FS_Subset, FS_CardinalityType

\* A row of an accepted mutation has a time and a mutation id of its own.
LEMMA AcceptedRow ==
    ASSUME NEW r \in Receipts, NEW m \in Accepted(r)
    PROVE  /\ m \in MutationId
           /\ m \in Nat
           /\ r[m] \in Receipt
           /\ r[m].acceptedAt \in Time
           /\ r[m].acceptedAt \in Nat
BY ReplayStoreAssumption DEF Accepted, Receipts, Receipt, MutationId, Time

\* A nonempty receipt set has a first receipt in the replay order.
LEMMA FirstReceiptIsFirst ==
    ASSUME NEW r \in Receipts, Accepted(r) # {}
    PROVE  /\ FirstReceipt(r) \in Accepted(r)
           /\ \A k \in Accepted(r) : k = FirstReceipt(r) \/ Precedes(r, FirstReceipt(r), k)
<1> DEFINE times == {r[m].acceptedAt : m \in Accepted(r)}
<1>1. times \subseteq Nat /\ times # {}
    BY AcceptedRow
<1>2. PICK t \in times : \A u \in times : t <= u
    <2> HIDE DEF times
    <2> QED  BY <1>1, LeastNatural
<1> DEFINE ids == {m \in Accepted(r) : r[m].acceptedAt = t}
<1>3. ids \subseteq Nat /\ ids # {}
    BY AcceptedRow
<1>4. PICK m \in ids : \A k \in ids : m <= k
    <2> HIDE DEF ids
    <2> QED  BY <1>3, LeastNatural
<1>5. ASSUME NEW k \in Accepted(r)  PROVE  k = m \/ Precedes(r, m, k)
    <2>1. /\ m \in Nat /\ k \in Nat
          /\ r[m].acceptedAt = t /\ t \in Nat
          /\ r[k].acceptedAt \in Nat /\ t <= r[k].acceptedAt
        BY <1>1, <1>2, AcceptedRow
    <2>2. r[k].acceptedAt = t => m <= k
        BY <1>4
    <2> QED  BY <2>1, <2>2 DEF Precedes
<1>6. \E x \in Accepted(r) : \A k \in Accepted(r) : k = x \/ Precedes(r, x, k)
    BY <1>5
<1> QED  BY <1>6 DEF FirstReceipt

\* A nonempty receipt set has a last receipt in the replay order.
LEMMA LastReceiptIsLast ==
    ASSUME NEW r \in Receipts, Accepted(r) # {}
    PROVE  /\ LastReceipt(r) \in Accepted(r)
           /\ \A k \in Accepted(r) : k = LastReceipt(r) \/ Precedes(r, k, LastReceipt(r))
<1> DEFINE times == {r[m].acceptedAt : m \in Accepted(r)}
<1>1. times \subseteq 0 .. MaxTime /\ times # {}
    BY AcceptedRow DEF Time
<1>2. PICK t \in times : \A u \in times : u <= t
    <2> HIDE DEF times
    <2> QED  BY <1>1, GreatestNatural, ReplayStoreAssumption
<1> DEFINE ids == {m \in Accepted(r) : r[m].acceptedAt = t}
<1>3. ids \subseteq 0 .. NumMutations /\ ids # {}
    BY AcceptedRow, ReplayStoreAssumption DEF MutationId
<1>4. PICK m \in ids : \A k \in ids : k <= m
    <2> HIDE DEF ids
    <2> QED  BY <1>3, GreatestNatural, ReplayStoreAssumption
<1>5. ASSUME NEW k \in Accepted(r)  PROVE  k = m \/ Precedes(r, k, m)
    <2>1. /\ m \in Nat /\ k \in Nat
          /\ r[m].acceptedAt = t /\ t \in Nat
          /\ r[k].acceptedAt \in Nat /\ r[k].acceptedAt <= t
        BY <1>1, <1>2, AcceptedRow
    <2>2. r[k].acceptedAt = t => k <= m
        BY <1>4
    <2> QED  BY <2>1, <2>2 DEF Precedes
<1>6. \E x \in Accepted(r) : \A k \in Accepted(r) : k = x \/ Precedes(r, k, x)
    BY <1>5
<1> QED  BY <1>6 DEF LastReceipt

\* The replay order is strict: no receipt precedes itself, nor two each other.
LEMMA PrecedesIsStrict ==
    ASSUME NEW r \in Receipts, NEW k \in Accepted(r), NEW m \in Accepted(r)
    PROVE  ~ (Precedes(r, k, m) /\ Precedes(r, m, k))
BY AcceptedRow DEF Precedes

\* The summary of a receipt set has the type of an observation's fields.
LEMMA SummaryType ==
    ASSUME NEW r \in Receipts
    PROVE  Summary(r) \in [count : Nat, first : MutationId \cup {NoMutation},
                           last : MutationId \cup {NoMutation}, watermark : Watermark]
<1>1. Cardinality(Accepted(r)) \in Nat
    BY AcceptedFinite
<1>2. CASE Accepted(r) = {}
    <2>1. FirstReceipt(r) = NoMutation /\ LastReceipt(r) = NoMutation
        BY <1>2 DEF FirstReceipt, LastReceipt
    <2>2. HighWatermark(r) \in Watermark
        BY <1>2, ReplayStoreAssumption DEF HighWatermark, NoWatermark, Watermark, Time
    <2> QED  BY <1>1, <2>1, <2>2 DEF Summary
<1>3. CASE Accepted(r) # {}
    <2>1. FirstReceipt(r) \in MutationId /\ LastReceipt(r) \in MutationId
        BY <1>3, FirstReceiptIsFirst, LastReceiptIsLast, AcceptedRow
    <2>2. r[LastReceipt(r)].acceptedAt \in Time
        BY <1>3, LastReceiptIsLast, AcceptedRow
    <2>3. HighWatermark(r) \in Watermark
        BY <1>3, <2>1, <2>2 DEF HighWatermark, Watermark
    <2> QED  BY <1>1, <2>1, <2>3 DEF Summary
<1> QED  BY <1>2, <1>3

-----------------------------------------------------------------------------
\* No receipt is placed beyond the number of receipts.
LEMMA PositionBound ==
    ASSUME NEW r \in Receipts, NEW m \in Accepted(r)
    PROVE  Position(r, m) \in Nat /\ Position(r, m) <= Cardinality(Accepted(r))
<1> DEFINE before == {k \in Accepted(r) : Precedes(r, k, m)}
<1>1. before \in SUBSET (Accepted(r) \ {m})
    BY PrecedesIsStrict
<1>2. /\ IsFiniteSet(Accepted(r) \ {m})
      /\ Cardinality(Accepted(r) \ {m}) = Cardinality(Accepted(r)) - 1
    BY AcceptedFinite, FS_RemoveElement
<1>3. /\ IsFiniteSet(before)
      /\ Cardinality(before) <= Cardinality(Accepted(r) \ {m})
    <2> HIDE DEF before
    <2> QED  BY <1>1, <1>2, FS_Subset
<1>4. Cardinality(before) \in Nat /\ Cardinality(Accepted(r)) \in Nat
    BY <1>3, AcceptedFinite, FS_CardinalityType
<1>5. Position(r, m) = Cardinality(before) + 1
    BY DEF Position
<1> QED  BY <1>2, <1>3, <1>4, <1>5

\* The last receipt is placed at the number of receipts.
LEMMA PositionOfLast ==
    ASSUME NEW r \in Receipts, Accepted(r) # {}
    PROVE  Position(r, LastReceipt(r)) = Cardinality(Accepted(r))
<1> DEFINE last == LastReceipt(r)
           before == {k \in Accepted(r) : Precedes(r, k, last)}
<1>1. before = Accepted(r) \ {last}
    BY LastReceiptIsLast, PrecedesIsStrict
<1>2. Cardinality(Accepted(r) \ {last}) = Cardinality(Accepted(r)) - 1
    BY LastReceiptIsLast, AcceptedFinite, FS_RemoveElement
<1>3. Position(r, last) = Cardinality(before) + 1
    BY DEF Position
<1> QED  BY <1>1, <1>2, <1>3, AcceptedFinite

-----------------------------------------------------------------------------
(***************************************************************************)
(* Types, and the references between rows.                                 *)
(***************************************************************************)

\* A replay moves the document to its next version.
LEMMA WrittenType ==
    ASSUME NEW body \in Bodies, DocumentTypeOK, doc # NoDocument => doc.version < MaxVersion
    PROVE  Written(doc, body) \in Document
<1>1. MaxVersion \in Nat \ {0}
    BY DocumentStoreAssumption
<1>2. CASE doc = NoDocument
    BY <1>1, <1>2 DEF Written, Document, Version
<1>3. CASE doc # NoDocument
    BY <1>1, <1>3 DEF Written, Document, Version, DocumentTypeOK
<1> QED  BY <1>2, <1>3

\* A document is not the sentinel for a missing one.
LEMMA DocumentIsNotMissing ==
    ASSUME NEW d \in Document
    PROVE  d # NoDocument
BY DocumentStoreAssumption DEF Document, Version

\* The observation of a decodable document has the type of its row.
LEMMA ObservationType ==
    ASSUME NEW d \in Document, d.body \in Decodable, NEW r \in Receipts, NEW at \in Time
    PROVE  ObservationOf(d, r, at) \in Observation
<1>1. DryRun(d.body, r) \in Bodies
    BY ReplayAssumption
<1> QED  BY <1>1, SummaryType DEF ObservationOf, Observation, Document

\* The document and the table rows a committing apply writes are of their types.
LEMMA ApplyTypes ==
    ASSUME TypeOK, NEW o \in ObservationId, Apply(o)
    PROVE  /\ doc' \in Document
           /\ applications' \in [MutationId -> Application \cup {NoApplication}]
<1> DEFINE outcome == Authoritative(doc.body, receipts)
<1>1. doc \in Document /\ doc.body \in Decodable /\ doc.version < MaxVersion
    BY DEF TypeOK, StoreTypeOK, DocumentTypeOK, Apply, Replayable, WriteReplay
<1>2. receipts \in Receipts
    BY DEF TypeOK, StoreTypeOK
<1>3. ~ outcome.abort
    BY DEF Apply, Replayable, WriteReplay, ApplyStatus
<1>4. /\ outcome.body \in Bodies
      /\ outcome.status \in [Accepted(receipts) -> ApplicationStatus]
    BY <1>1, <1>2, <1>3, ReplayAssumption
<1>5. doc' = Written(doc, outcome.body)
    BY DEF Apply, Replayable, WriteReplay
<1>6. doc' \in Document
    BY <1>1, <1>4, <1>5, WrittenType DEF TypeOK, StoreTypeOK
<1>7. doc.version + 1 \in Version /\ doc.version \in Version /\ doc.body \in Bodies
    BY <1>1, DocumentStoreAssumption DEF Document, Version
<1>8. ASSUME NEW m \in Accepted(receipts)
      PROVE  [status |-> outcome.status[m],
              versionBefore |-> doc.version, hashBefore |-> doc.body,
              versionAfter |-> doc.version + 1, hashAfter |-> outcome.body,
              observation |-> o] \in Application
    BY <1>4, <1>7 DEF Application
<1>9. applications \in [MutationId -> Application \cup {NoApplication}]
    BY DEF TypeOK, StoreTypeOK
<1>10. applications' \in [MutationId -> Application \cup {NoApplication}]
    BY <1>8, <1>9 DEF Apply, Replayable, WriteReplay, Staged
<1> QED  BY <1>6, <1>10

-----------------------------------------------------------------------------
\* What the type invariant says of the observers.
ObserversTypeOK ==
    /\ observers \in [Operators -> Observer]
    /\ \A p \in Operators :
          /\ observers[p].pc # "idle" => observers[p].doc # NoDocument
          /\ observers[p].pc = "gotReceipts" => observers[p].doc.body \in Decodable

\* An observer that gave up or has not started is of its type.
LEMMA IdleObserverType == IdleObserver \in Observer
BY ReplayStoreAssumption DEF IdleObserver, Observer, NoReceipts, Receipts, Time

\* The initial state has its types.
LEMMA TypeInit == Init => TypeOK
<1> SUFFICES ASSUME Init  PROVE TypeOK
    OBVIOUS
<1>1. StoreTypeOK
    BY ReplayStoreAssumption
    DEF Init, StoreInit, DocumentInit, StoreTypeOK, DocumentTypeOK, Receipts, Time
<1>2. ObserversTypeOK
    BY IdleObserverType DEF Init, ObserversTypeOK, IdleObserver
<1> QED  BY <1>1, <1>2 DEF TypeOK, ObserversTypeOK

\* The steps of an operator's observe command keep the types.
LEMMA TypeObserve ==
    ASSUME TypeOK, NEW p \in Operators, Observe(p)
    PROVE  TypeOK'
<1>1. ObserversTypeOK /\ StoreTypeOK
    BY DEF TypeOK, ObserversTypeOK
<1>2. CASE ObserveReadDocument(p)
    <2>1. doc \in Document
        BY <1>1, <1>2 DEF StoreTypeOK, DocumentTypeOK, ObserveReadDocument
    <2>2. ObserversTypeOK'
        <3> DEFINE read == [observers[p] EXCEPT !.pc = "gotDocument", !.doc = doc]
        <3>1. observers' = [observers EXCEPT ![p] = read]
            BY <1>2 DEF ObserveReadDocument
        <3>2. observers[p] \in Observer
            BY <1>1 DEF ObserversTypeOK
        <3>3. read \in Observer /\ read.pc = "gotDocument" /\ read.doc = doc
            BY <2>1, <3>2 DEF Observer
        <3>4. read.doc # NoDocument
            BY <1>2, <3>3 DEF ObserveReadDocument
        <3> HIDE DEF read
        <3> QED  BY <1>1, <2>1, <3>1, <3>3, <3>4 DEF ObserversTypeOK
    <2>3. StoreTypeOK'
        BY <1>1, <1>2 DEF ObserveReadDocument, storeVars, StoreTypeOK, DocumentTypeOK
    <2> QED  BY <2>2, <2>3 DEF TypeOK, ObserversTypeOK
<1>3. CASE ObserveReadReceipts(p)
    <2>1. ObserversTypeOK'
        <3>1. CASE observers[p].doc.body \in Decodable
            BY <1>1, <1>3, <3>1
            DEF ObserveReadReceipts, ObserversTypeOK, Observer, StoreTypeOK
        <3>2. CASE observers[p].doc.body \notin Decodable
            <4>1. observers' = [observers EXCEPT ![p] = IdleObserver]
                BY <1>3, <3>2 DEF ObserveReadReceipts
            <4>2. IdleObserver.pc = "idle"
                BY DEF IdleObserver
            <4> QED  BY <1>1, <4>1, <4>2, IdleObserverType DEF ObserversTypeOK
        <3> QED  BY <3>1, <3>2
    <2>2. StoreTypeOK'
        BY <1>1, <1>3 DEF ObserveReadReceipts, storeVars, StoreTypeOK, DocumentTypeOK
    <2> QED  BY <2>1, <2>2 DEF TypeOK, ObserversTypeOK
<1>4. CASE ObserveInsert(p)
    <2>1. PICK at \in observers[p].readAt .. now :
              InsertObservation(ObservationOf(observers[p].doc, observers[p].receipts, at))
        BY <1>4 DEF ObserveInsert
    <2>2. at \in Time
        BY <1>1, <2>1, ReplayStoreAssumption
        DEF Time, StoreTypeOK, ObserversTypeOK, Observer
    <2>3. /\ observers[p].doc \in Document
          /\ observers[p].doc.body \in Decodable
          /\ observers[p].receipts \in Receipts
        BY <1>1, <1>4 DEF ObserveInsert, ObserversTypeOK, Observer
    <2>4. ObservationOf(observers[p].doc, observers[p].receipts, at) \in Observation
        BY <2>2, <2>3, ObservationType
    <2>5. StoreTypeOK'
        BY <1>1, <2>1, <2>4, ReplayStoreAssumption
        DEF InsertObservation, StoreTypeOK, DocumentTypeOK, ObservationId
    <2>6. /\ observers' = [observers EXCEPT ![p] = IdleObserver]
          /\ IdleObserver.pc = "idle"
        BY <1>4 DEF ObserveInsert, IdleObserver
    <2>7. ObserversTypeOK'
        BY <1>1, <2>6, IdleObserverType DEF ObserversTypeOK
    <2> QED  BY <2>5, <2>7 DEF TypeOK, ObserversTypeOK
<1>5. CASE ObserveAbandon(p)
    <2>1. /\ observers' = [observers EXCEPT ![p] = IdleObserver]
          /\ IdleObserver.pc = "idle"
        BY <1>5 DEF ObserveAbandon, IdleObserver
    <2>2. ObserversTypeOK'
        BY <1>1, <2>1, IdleObserverType DEF ObserversTypeOK
    <2>3. StoreTypeOK'
        BY <1>1, <1>5 DEF ObserveAbandon, storeVars, StoreTypeOK, DocumentTypeOK
    <2> QED  BY <2>2, <2>3 DEF TypeOK, ObserversTypeOK
<1> QED  BY <1>2, <1>3, <1>4, <1>5 DEF Observe

\* Accepting a batch keeps the receipt table's type.
LEMMA AcceptType ==
    ASSUME receipts \in Receipts, NEW ids \in SUBSET MutationId, NEW batch \in [ids -> Ops],
           NEW at \in Time, AcceptReceipts(batch, at)
    PROVE  receipts' \in Receipts
<1>1. ASSUME NEW m \in MutationId, m \in DOMAIN batch
      PROVE  [op |-> batch[m], acceptedAt |-> at] \in Receipt
    BY <1>1 DEF Receipt
<1> QED  BY <1>1 DEF AcceptReceipts, Receipts

\* The steps of the server, the operator's transactions and the clock keep the types.
LEMMA TypeStore ==
    ASSUME TypeOK, Server \/ Admin \/ Tick, UNCHANGED observers
    PROVE  TypeOK'
<1> SUFFICES StoreTypeOK'
    BY DEF TypeOK
<1>1. StoreTypeOK
    BY DEF TypeOK
<1>2. ASSUME NEW body \in Bodies, NEW expected \in ExpectedVersion, Put(body, expected)
      PROVE  StoreTypeOK'
    <2>1. doc' \in Document
        BY <1>1, <1>2, WrittenType DEF Put, PutDocument, StoreTypeOK
    <2> QED  BY <1>1, <1>2, <2>1 DEF Put, StoreTypeOK, DocumentTypeOK
<1>3. ASSUME NEW ids \in SUBSET MutationId, NEW batch \in [ids -> Ops],
             NEW at \in Stamps, AcceptReceipts(batch, at)
      PROVE  StoreTypeOK'
    <2>1. receipts' \in Receipts
        BY <1>1, <1>3, AcceptType DEF StoreTypeOK, Stamps
    <2> QED  BY <1>1, <1>3, <2>1 DEF AcceptReceipts, StoreTypeOK, DocumentTypeOK
<1>4. ASSUME NEW o \in ObservationId, Apply(o)
      PROVE  StoreTypeOK'
    <2>1. /\ doc' \in Document
          /\ applications' \in [MutationId -> Application \cup {NoApplication}]
        BY <1>4, ApplyTypes
    <2> QED  BY <1>1, <1>4, <2>1 DEF Apply, Replayable, WriteReplay, StoreTypeOK, DocumentTypeOK
<1>5. ASSUME NEW fraction \in {0, 1}, Compact(fraction)
      PROVE  StoreTypeOK'
    BY <1>1, <1>5 DEF Compact, StoreTypeOK, DocumentTypeOK, Receipts
<1>6. CASE Tick
    BY <1>1, <1>6, ReplayStoreAssumption DEF Tick, StoreTypeOK, DocumentTypeOK, Time
<1> QED  BY <1>2, <1>3, <1>4, <1>5, <1>6 DEF Server, Admin

\* A stuttering step keeps the types.
LEMMA TypeStutter == TypeOK /\ UNCHANGED vars => TypeOK'
BY DEF TypeOK, StoreTypeOK, DocumentTypeOK, vars

\* Every table and every observer is of its type in every reachable state, for
\* all bodies, mutations, retentions and bounds (store.go's rows and the replay
\* inputs the CLI holds in memory).
THEOREM TypeCorrect == Spec => []TypeOK
<1>1. Init => TypeOK
    BY TypeInit
<1>2. TypeOK /\ [Next]_vars => TypeOK'
    BY TypeObserve, TypeStore, TypeStutter DEF Next
<1> QED  BY <1>1, <1>2, PTL DEF Spec

-----------------------------------------------------------------------------
\* An observer inserts a row of the observation type.
LEMMA InsertedRow ==
    ASSUME TypeOK, NEW p \in Operators, ObserveInsert(p)
    PROVE  \E row \in Observation : InsertObservation(row)
<1>1. PICK at \in observers[p].readAt .. now :
          InsertObservation(ObservationOf(observers[p].doc, observers[p].receipts, at))
    BY DEF ObserveInsert
<1>2. at \in Time
    BY <1>1, ReplayStoreAssumption DEF Time, TypeOK, StoreTypeOK, Observer
<1>3. /\ observers[p].doc \in Document
      /\ observers[p].doc.body \in Decodable
      /\ observers[p].receipts \in Receipts
    BY DEF ObserveInsert, TypeOK, Observer
<1> QED  BY <1>1, <1>2, <1>3, ObservationType

\* The steps as seen from the store: an observer inserts a row at most, and every
\* other change is one transaction of the server or the operator, or the clock.
LEMMA StoreSteps ==
    ASSUME TypeOK, [Next]_vars
    PROVE  \/ UNCHANGED storeVars
           \/ \E row \in Observation : InsertObservation(row)
           \/ \E body \in Bodies, expected \in ExpectedVersion : Put(body, expected)
           \/ \E ids \in SUBSET MutationId : \E batch \in [ids -> Ops], at \in Stamps :
                 AcceptReceipts(batch, at)
           \/ \E o \in ObservationId : Apply(o)
           \/ \E fraction \in {0, 1} : Compact(fraction)
           \/ Tick
<1>1. ASSUME NEW p \in Operators, Observe(p)
      PROVE  UNCHANGED storeVars \/ \E row \in Observation : InsertObservation(row)
    BY <1>1, InsertedRow DEF Observe, ObserveReadDocument, ObserveReadReceipts, ObserveAbandon
<1>2. UNCHANGED vars => UNCHANGED storeVars
    BY DEF vars, storeVars
<1> QED  BY <1>1, <1>2 DEF Next, Server, Admin

-----------------------------------------------------------------------------
\* Observation ids above the last one issued are unused.
IdsAreFresh == \A o \in Recorded : o <= lastObservation

\* An insert overwrites no recorded observation.
LEMMA InsertIsFresh ==
    ASSUME TypeOK, IdsAreFresh, NEW row \in Observation, InsertObservation(row)
    PROVE  /\ \A o \in Recorded : observations'[o] = observations[o]
           /\ Recorded' = Recorded \cup {lastObservation + 1}
           /\ lastObservation' = lastObservation + 1
<1>1. lastObservation \in Nat /\ lastObservation + 1 \in ObservationId
    BY ReplayStoreAssumption DEF InsertObservation, TypeOK, StoreTypeOK, ObservationId
<1>2. row # NoObservation
    BY ReplayStoreAssumption
<1>3. observations \in [ObservationId -> Observation \cup {NoObservation}]
    BY DEF TypeOK, StoreTypeOK
<1>4. ASSUME NEW o \in Recorded  PROVE  o # lastObservation + 1 /\ observations'[o] = observations[o]
    <2>1. o \in ObservationId /\ o <= lastObservation
        BY DEF IdsAreFresh, Recorded
    <2>2. o # lastObservation + 1
        BY <1>1, <2>1, ReplayStoreAssumption DEF ObservationId
    <2> QED  BY <1>3, <2>1, <2>2 DEF InsertObservation
<1>5. Recorded' = Recorded \cup {lastObservation + 1}
    BY <1>1, <1>2, <1>3 DEF InsertObservation, Recorded
<1> QED  BY <1>4, <1>5 DEF InsertObservation

\* A committing apply finds no application row: none matches a receipt, and a row
\* whose receipt is gone cannot exist.
LEMMA ApplyFindsNoRows ==
    ASSUME RowsKeepTheirReferences, NEW o \in ObservationId, Apply(o)
    PROVE  Applied = {}
<1>1. MatchingRows(receipts, applications) = {}
    BY DEF Apply, Replayable, WriteReplay, ApplyStatus, RecoveryStatus, CompareStatus
<1> QED  BY <1>1 DEF MatchingRows, RowsKeepTheirReferences, Applied

\* After it every receipt has a row of the same transaction, and no other row exists.
LEMMA AppliedRows ==
    ASSUME TypeOK, RowsKeepTheirReferences, NEW o \in ObservationId, Apply(o)
    PROVE  /\ Applied' = Accepted(receipts)
           /\ \A m \in Applied' :
                /\ applications'[m].versionBefore = doc.version
                /\ applications'[m].hashBefore = doc.body
                /\ applications'[m].versionAfter = doc'.version
                /\ applications'[m].hashAfter = doc'.body
                /\ applications'[m].observation = o
<1> DEFINE outcome == Authoritative(doc.body, receipts)
           row(m) == [status |-> outcome.status[m],
                      versionBefore |-> doc.version, hashBefore |-> doc.body,
                      versionAfter |-> doc.version + 1, hashAfter |-> outcome.body,
                      observation |-> o]
<1>1. applications' = [m \in MutationId |->
          IF m \in Accepted(receipts) THEN row(m) ELSE applications[m]]
    BY DEF Apply, Replayable, WriteReplay, Staged
<1>2. Applied = {}
    BY ApplyFindsNoRows
<1>3. ASSUME NEW m \in MutationId, m \notin Accepted(receipts)
      PROVE  applications'[m] = NoApplication
    BY <1>1, <1>2, <1>3 DEF Applied
<1>4. ASSUME NEW m \in Accepted(receipts)
      PROVE  /\ applications'[m] = row(m)
             /\ applications'[m] # NoApplication
    <2>1. m \in MutationId
        BY DEF Accepted
    <2>2. applications'[m] = row(m)
        BY <1>1, <2>1
    <2>3. doc \in Document /\ doc.version < MaxVersion /\ doc.body \in Decodable
        BY DEF Apply, Replayable, WriteReplay, TypeOK, StoreTypeOK, DocumentTypeOK
    <2>4. ~ outcome.abort
        BY DEF Apply, Replayable, WriteReplay, ApplyStatus
    <2>5. /\ outcome.body \in Bodies
          /\ outcome.status \in [Accepted(receipts) -> ApplicationStatus]
        BY <2>3, <2>4, ReplayAssumption DEF TypeOK, StoreTypeOK
    <2>6. row(m) \in Application
        BY <2>3, <2>5, DocumentStoreAssumption DEF Application, Document, Version
    <2> QED  BY <2>2, <2>6, ReplayStoreAssumption
<1>5. doc'.version = doc.version + 1 /\ doc'.body = outcome.body
    BY DEF Apply, Replayable, WriteReplay, Written
<1>6. Accepted(receipts) \subseteq MutationId
    BY DEF Accepted
<1>7. Applied' = Accepted(receipts)
    BY <1>3, <1>4, <1>6 DEF Applied
<1>8. ASSUME NEW m \in Accepted(receipts)
      PROVE  /\ row(m).versionBefore = doc.version /\ row(m).hashBefore = doc.body
             /\ row(m).versionAfter = doc'.version /\ row(m).hashAfter = doc'.body
             /\ row(m).observation = o
    BY <1>5
<1> HIDE DEF row
<1> QED  BY <1>4, <1>7, <1>8

-----------------------------------------------------------------------------
\* The inductive invariant of the replay tables: ids are fresh and no row that an
\* application row needs has been removed.
References == IdsAreFresh /\ RowsKeepTheirReferences

LEMMA ReferencesInit == Init => References
BY DEF Init, StoreInit, References, IdsAreFresh, RowsKeepTheirReferences, Recorded, Applied

\* An apply keeps the references of the rows it writes.
LEMMA ReferencesApply ==
    ASSUME TypeOK, References, NEW o \in ObservationId, Apply(o)
    PROVE  References'
<1>1. Applied' = Accepted(receipts) /\ \A m \in Applied' : applications'[m].observation = o
    BY AppliedRows DEF References
<1>2. observations[o] # NoObservation
    BY DEF Apply, Replayable, WriteReplay
<1>3. receipts' = receipts /\ observations' = observations /\ lastObservation' = lastObservation
    BY DEF Apply, Replayable, WriteReplay
<1>4. IdsAreFresh'
    BY <1>3 DEF References, IdsAreFresh, Recorded
<1>5. RowsKeepTheirReferences'
    BY <1>1, <1>2, <1>3 DEF RowsKeepTheirReferences, Accepted
<1> QED  BY <1>4, <1>5 DEF References

\* Compaction keeps every receipt with a row and every observation a row names.
LEMMA ReferencesCompact ==
    ASSUME TypeOK, References, NEW fraction \in {0, 1}, Compact(fraction)
    PROVE  References'
<1>1. applications' = applications /\ lastObservation' = lastObservation /\ Applied' = Applied
    BY DEF Compact, Applied
<1>2. Recorded' \subseteq Recorded
    BY DEF Compact, Recorded, RetainedObservations
<1>3. IdsAreFresh'
    BY <1>1, <1>2 DEF References, IdsAreFresh
<1>4. ASSUME NEW m \in Applied
      PROVE  /\ receipts'[m] = receipts[m]
             /\ observations'[applications[m].observation]
                    = observations[applications[m].observation]
    <2>1. m \in MutationId /\ applications[m] # NoApplication
        BY DEF Applied
    <2>2. m \notin DeletedReceipts(fraction, RetainedObservations(fraction))
        BY <2>1 DEF DeletedReceipts
    <2>3. applications[m].observation \in ObservationId
        BY <2>1 DEF TypeOK, StoreTypeOK, Application
    <2>4. applications[m].observation \in Recorded
        BY <2>3 DEF References, RowsKeepTheirReferences, Recorded
    <2>5. applications[m].observation \in Referenced
        BY <2>1 DEF Referenced
    <2>6. applications[m].observation \in RetainedObservations(fraction)
        BY <2>4, <2>5 DEF RetainedObservations
    <2> QED  BY <2>1, <2>2, <2>3, <2>6 DEF Compact
<1>5. RowsKeepTheirReferences'
    BY <1>1, <1>4 DEF References, RowsKeepTheirReferences
<1> QED  BY <1>3, <1>5 DEF References

LEMMA ReferencesNext ==
    ASSUME TypeOK, References, [Next]_vars
    PROVE  References'
<1>1. CASE UNCHANGED storeVars
    BY <1>1 DEF storeVars, References, IdsAreFresh, RowsKeepTheirReferences, Recorded, Applied
<1>2. ASSUME NEW row \in Observation, InsertObservation(row)
      PROVE  References'
    <2>1. /\ \A o \in Recorded : observations'[o] = observations[o]
          /\ Recorded' = Recorded \cup {lastObservation + 1}
          /\ lastObservation' = lastObservation + 1
        BY <1>2, InsertIsFresh DEF References
    <2>2. Recorded \subseteq Int /\ lastObservation \in Int
        BY DEF Recorded, ObservationId, TypeOK, StoreTypeOK
    <2>3. IdsAreFresh'
        <3>1. ASSUME NEW o \in Recorded'  PROVE o <= lastObservation'
            <4>1. CASE o \in Recorded
                BY <2>1, <2>2, <4>1 DEF References, IdsAreFresh
            <4>2. CASE o = lastObservation + 1
                BY <2>1, <2>2, <4>2
            <4> QED  BY <2>1, <4>1, <4>2
        <3> QED  BY <3>1 DEF IdsAreFresh
    <2>4. receipts' = receipts /\ applications' = applications
        BY <1>2 DEF InsertObservation
    <2>5. \A m \in Applied : applications[m].observation \in ObservationId
        BY DEF Applied, TypeOK, StoreTypeOK, Application
    <2>6. RowsKeepTheirReferences'
        BY <2>1, <2>4, <2>5 DEF References, RowsKeepTheirReferences, Recorded, Applied
    <2> QED  BY <2>3, <2>6 DEF References
<1>3. ASSUME NEW body \in Bodies, NEW expected \in ExpectedVersion, Put(body, expected)
      PROVE  References'
    BY <1>3 DEF Put, References, IdsAreFresh, RowsKeepTheirReferences, Recorded, Applied
<1>4. ASSUME NEW ids \in SUBSET MutationId, NEW batch \in [ids -> Ops],
             NEW at \in Stamps, AcceptReceipts(batch, at)
      PROVE  References'
    <2>1. \A m \in MutationId : receipts[m] # NoReceipt => receipts'[m] # NoReceipt
        BY <1>4 DEF AcceptReceipts
    <2> QED  BY <1>4, <2>1 DEF AcceptReceipts, References, IdsAreFresh,
                               RowsKeepTheirReferences, Recorded, Applied
<1>5. CASE Tick
    BY <1>5 DEF Tick, References, IdsAreFresh, RowsKeepTheirReferences, Recorded, Applied
<1> QED  BY <1>1, <1>2, <1>3, <1>4, <1>5, ReferencesApply, ReferencesCompact, StoreSteps

LEMMA ReferencesCorrect == Spec => []References
<1>1. TypeOK /\ TypeOK' /\ References /\ [Next]_vars => References'
    BY ReferencesNext
<1> QED  BY <1>1, ReferencesInit, TypeCorrect, PTL DEF Spec

\* Compaction never removes a receipt or an observation that an application row
\* needs (CompactSyncMutationReplayArtifacts), whatever the retentions are.
THEOREM ReferencesKept == Spec => []RowsKeepTheirReferences
<1>1. References => RowsKeepTheirReferences
    BY DEF References
<1> QED  BY <1>1, ReferencesCorrect, PTL

-----------------------------------------------------------------------------
(***************************************************************************)
(* What the references give.                                               *)
(***************************************************************************)

\* Only an apply writes application rows.
LEMMA RowsOnlyByApply ==
    ASSUME TypeOK, [Next]_vars
    PROVE  \/ applications' = applications
           \/ \E o \in ObservationId : Apply(o)
BY StoreSteps DEF storeVars, InsertObservation, Put, AcceptReceipts, Compact, Tick

LEMMA OneApplyNext ==
    ASSUME TypeOK, References, OneApply, [Next]_vars
    PROVE  OneApply'
<1>1. CASE applications' = applications
    BY <1>1 DEF OneApply, Applied, SameTransaction
<1>2. ASSUME NEW o \in ObservationId, Apply(o)
      PROVE  OneApply'
    <2>1. \A m \in Applied' :
              /\ applications'[m].versionBefore = doc.version
              /\ applications'[m].hashBefore = doc.body
              /\ applications'[m].versionAfter = doc'.version
              /\ applications'[m].hashAfter = doc'.body
              /\ applications'[m].observation = o
        BY <1>2, AppliedRows DEF References
    <2> QED  BY <2>1 DEF OneApply, SameTransaction
<1> QED  BY <1>1, <1>2, RowsOnlyByApply

\* All application rows of a document come from one transaction
\* (ApplySyncMutationReplayAuthoritativeInternal), with any number of operators,
\* retries, compactions and client writes around it.
THEOREM AppliedOnce == Spec => []OneApply
<1>1. Init => OneApply
    BY DEF Init, StoreInit, OneApply, Applied
<1>2. TypeOK /\ References /\ OneApply /\ [Next]_vars => OneApply'
    BY OneApplyNext
<1> QED  BY <1>1, <1>2, TypeCorrect, ReferencesCorrect, PTL DEF Spec

-----------------------------------------------------------------------------
\* Receipts that arrive after an apply make every recovery evaluation partial, so
\* no later apply request is ever carried out.
LEMMA PartialAfterApply ==
    ASSUME TypeOK, RowsKeepTheirReferences
    PROVE  SecondBatchRefused
<1> SUFFICES ASSUME Applied # {}, ~ (Accepted(receipts) \subseteq Applied),
                    NEW o \in Recorded
             PROVE  RecoveryStatus(observations[o], doc, receipts, applications)
                        = "partial_application_rows"
    BY DEF SecondBatchRefused
<1> DEFINE rows == MatchingRows(receipts, applications)
<1>1. rows = Applied
    BY DEF RowsKeepTheirReferences, MatchingRows, Applied
<1>2. CompareStatus(observations[o], doc, receipts, applications) = "already_applied"
    BY <1>1 DEF CompareStatus
<1>3. rows \in SUBSET Accepted(receipts) /\ rows # Accepted(receipts)
    BY <1>1 DEF MatchingRows, Accepted
<1>4. Cardinality(rows) < Cardinality(Accepted(receipts))
    <2> HIDE DEF rows
    <2>1. IsFiniteSet(Accepted(receipts)) /\ Cardinality(Accepted(receipts)) \in Nat
        BY AcceptedFinite
    <2>2. IsFiniteSet(rows) /\ Cardinality(rows) <= Cardinality(Accepted(receipts))
          /\ (Cardinality(Accepted(receipts)) = Cardinality(rows) => rows = Accepted(receipts))
        BY <1>3, <2>1, FS_Subset
    <2>3. Cardinality(rows) \in Nat
        BY <2>2, FS_CardinalityType
    <2> QED  BY <1>3, <2>1, <2>2, <2>3
<1>5. rows # {}
    BY <1>1
<1> QED  BY <1>2, <1>4, <1>5 DEF RecoveryStatus

\* Once receipts follow an apply, the store refuses every later one as partial.
THEOREM NoSecondBatch == Spec => []SecondBatchRefused
BY TypeCorrect, ReferencesKept, PartialAfterApply, PTL

-----------------------------------------------------------------------------
\* What is known of a version stays known when the document moves forward.
LEMMA NamesStays ==
    ASSUME NEW version \in Nat, NEW body, Names(version, body), doc \in Document,
           \/ doc' = doc
           \/ doc' \in Document /\ doc'.version > doc.version
    PROVE  Names(version, body)'
<1>1. doc.version \in Nat
    BY DocumentStoreAssumption DEF Document, Version
<1>2. CASE doc' = doc
    BY <1>2 DEF Names
<1>3. CASE doc' \in Document /\ doc'.version > doc.version
    <2>1. doc'.version \in Nat /\ doc' # NoDocument
        BY <1>3, DocumentIsNotMissing, DocumentStoreAssumption DEF Document, Version
    <2> QED  BY <1>1, <1>3, <2>1 DEF Names
<1> QED  BY <1>2, <1>3

\* A step leaves the document alone or moves it to its next version.
LEMMA DocumentMovesForward ==
    ASSUME TypeOK, [Next]_vars
    PROVE  \/ doc' = doc
           \/ /\ doc' \in Document
              /\ doc # NoDocument => doc'.version > doc.version
<1>1. ASSUME NEW body \in Bodies, NEW expected \in ExpectedVersion, Put(body, expected)
      PROVE  doc' \in Document /\ (doc # NoDocument => doc'.version > doc.version)
    <2>1. doc' \in Document
        BY <1>1, WrittenType DEF Put, PutDocument, TypeOK, StoreTypeOK
    <2>2. doc # NoDocument => doc.version \in Nat /\ doc'.version = doc.version + 1
        BY <1>1, DocumentStoreAssumption
        DEF Put, PutDocument, Written, TypeOK, StoreTypeOK, DocumentTypeOK, Document, Version
    <2> QED  BY <2>1, <2>2
<1>2. ASSUME NEW o \in ObservationId, Apply(o)
      PROVE  doc' \in Document /\ (doc # NoDocument => doc'.version > doc.version)
    <2>1. doc' \in Document
        BY <1>2, ApplyTypes
    <2>2. doc.version \in Nat /\ doc'.version = doc.version + 1
        BY <1>2, DocumentStoreAssumption
        DEF Apply, Replayable, WriteReplay, Written, TypeOK, StoreTypeOK, DocumentTypeOK, Document, Version
    <2> QED  BY <2>1, <2>2
<1> QED  BY <1>1, <1>2, StoreSteps
         DEF storeVars, InsertObservation, AcceptReceipts, Compact, Tick

\* The invariant of the remembered versions survives a step of an observer.
LEMMA NamesObserve ==
    ASSUME TypeOK, References, VersionNamesBody, NEW p \in Operators, Observe(p)
    PROVE  VersionNamesBody'
<1>1. doc' = doc /\ applications' = applications /\ Applied' = Applied
    BY DEF Observe, ObserveReadDocument, ObserveReadReceipts, ObserveInsert, ObserveAbandon,
           InsertObservation, storeVars, Applied
<1>2. \A m \in Applied' :
          /\ Names(applications[m].versionBefore, applications[m].hashBefore)'
          /\ Names(applications[m].versionAfter, applications[m].hashAfter)'
    BY <1>1 DEF VersionNamesBody, Names
<1>3. observers \in [Operators -> Observer]
    BY DEF TypeOK
<1>4. \A q \in Operators : observers'[q].pc # "idle" =>
          Names(observers[q].doc.version, observers[q].doc.body)'
    <2>1. CASE ObserveReadDocument(p)
        <3>1. doc # NoDocument /\ doc.version \in Int
            BY <2>1 DEF ObserveReadDocument, TypeOK, StoreTypeOK, DocumentTypeOK, Document, Version
        <3>2. observers'[p].doc = doc
            BY <1>3, <2>1 DEF ObserveReadDocument, Observer
        <3>3. Names(observers[p].doc.version, observers[p].doc.body)'
            BY <1>1, <3>1, <3>2 DEF Names
        <3>4. \A q \in Operators \ {p} : observers'[q] = observers[q]
            BY <1>3, <2>1 DEF ObserveReadDocument
        <3> QED  BY <1>1, <3>3, <3>4 DEF VersionNamesBody, Names
    <2>2. CASE ObserveReadReceipts(p)
        <3>1. \A q \in Operators : observers'[q].pc # "idle" =>
                  observers[q].pc # "idle" /\ observers'[q].doc = observers[q].doc
            BY <1>3, <2>2 DEF ObserveReadReceipts, Observer, IdleObserver
        <3> QED  BY <1>1, <3>1 DEF VersionNamesBody, Names
    <2>3. CASE ObserveInsert(p) \/ ObserveAbandon(p)
        <3>1. observers' = [observers EXCEPT ![p] = IdleObserver]
            BY <2>3 DEF ObserveInsert, ObserveAbandon
        <3>2. \A q \in Operators : observers'[q].pc # "idle" =>
                  observers[q].pc # "idle" /\ observers'[q].doc = observers[q].doc
            BY <1>3, <3>1 DEF IdleObserver
        <3> QED  BY <1>1, <3>2 DEF VersionNamesBody, Names
    <2> QED  BY <2>1, <2>2, <2>3 DEF Observe
<1>5. \A o \in Recorded' : Names(observations[o].version, observations[o].hash)'
    <2>1. CASE observations' = observations
        BY <1>1, <2>1 DEF VersionNamesBody, Names, Recorded
    <2>2. CASE ObserveInsert(p)
        <3>1. PICK at \in observers[p].readAt .. now :
                  InsertObservation(ObservationOf(observers[p].doc, observers[p].receipts, at))
            BY <2>2 DEF ObserveInsert
        <3> DEFINE row == ObservationOf(observers[p].doc, observers[p].receipts, at)
        <3>2. Names(row.version, row.hash)
            BY <2>2 DEF ObserveInsert, VersionNamesBody, ObservationOf
        <3> HIDE DEF row
        <3>3. \A o \in ObservationId \ {lastObservation + 1} : observations'[o] = observations[o]
            BY <3>1 DEF InsertObservation, TypeOK, StoreTypeOK
        <3>4. lastObservation + 1 \in ObservationId => observations'[lastObservation + 1] = row
            BY <3>1 DEF InsertObservation, TypeOK, StoreTypeOK, row
        <3> QED  BY <1>1, <3>2, <3>3, <3>4 DEF VersionNamesBody, Names, Recorded
    <2> QED  BY <2>1, <2>2 DEF Observe, ObserveReadDocument, ObserveReadReceipts,
                               ObserveAbandon, storeVars
<1> QED  BY <1>2, <1>4, <1>5 DEF VersionNamesBody

\* The remembered versions are natural numbers.
LEMMA RememberedVersions ==
    ASSUME TypeOK
    PROVE  /\ \A o \in Recorded : observations[o].version \in Nat
           /\ \A p \in Operators : observers[p].pc # "idle" => observers[p].doc.version \in Nat
           /\ \A m \in Applied : /\ applications[m].versionBefore \in Nat
                                 /\ applications[m].versionAfter \in Nat
<1>1. Version \subseteq Nat
    BY DocumentStoreAssumption DEF Version
<1>2. \A o \in Recorded : observations[o] \in Observation
    BY DEF TypeOK, StoreTypeOK, Recorded
<1>3. \A p \in Operators : observers[p].pc # "idle" => observers[p].doc \in Document
    BY DEF TypeOK, Observer
<1>4. \A m \in Applied : applications[m] \in Application
    BY DEF TypeOK, StoreTypeOK, Applied
<1> QED  BY <1>1, <1>2, <1>3, <1>4 DEF Observation, Document, Application

\* Names in the next state, of a version and a body known in this one.
NamesNext(version, body) ==
    /\ doc' # NoDocument
    /\ version <= doc'.version
    /\ version = doc'.version => body = doc'.body

\* What was known before a step stays known after it.
LEMMA NamesKept ==
    ASSUME TypeOK, [Next]_vars, VersionNamesBody
    PROVE  /\ \A o \in Recorded : NamesNext(observations[o].version, observations[o].hash)
           /\ \A p \in Operators : observers[p].pc # "idle" =>
                  NamesNext(observers[p].doc.version, observers[p].doc.body)
           /\ \A m \in Applied :
                  /\ NamesNext(applications[m].versionBefore, applications[m].hashBefore)
                  /\ NamesNext(applications[m].versionAfter, applications[m].hashAfter)
<1>1. ASSUME NEW version \in Nat, NEW body, Names(version, body)
      PROVE  NamesNext(version, body)
    <2>1. doc \in Document
        BY <1>1 DEF Names, TypeOK, StoreTypeOK, DocumentTypeOK
    <2>2. doc' = doc \/ (doc' \in Document /\ doc'.version > doc.version)
        BY <2>1, DocumentMovesForward, DocumentIsNotMissing
    <2>3. Names(version, body)'
        BY <1>1, <2>1, <2>2, NamesStays
    <2> QED  BY <2>3 DEF Names, NamesNext
<1> QED  BY <1>1, RememberedVersions DEF VersionNamesBody

LEMMA NamesStore ==
    ASSUME TypeOK, References, VersionNamesBody, Server \/ Admin \/ Tick, UNCHANGED observers
    PROVE  VersionNamesBody'
<1>1. [Next]_vars
    BY DEF Next
<1>2. \A p \in Operators : observers'[p].pc # "idle" =>
          Names(observers[p].doc.version, observers[p].doc.body)'
    BY <1>1, NamesKept DEF NamesNext, Names
<1>3. \A o \in Recorded' : o \in Recorded /\ observations'[o] = observations[o]
    BY DEF Server, Admin, Tick, Put, AcceptReceipts, Apply, Replayable, WriteReplay, Compact, Recorded,
           RetainedObservations
<1>4. \A o \in Recorded' : Names(observations[o].version, observations[o].hash)'
    BY <1>1, <1>3, NamesKept DEF NamesNext, Names
<1>5. CASE applications' = applications
    <2>1. Applied' = Applied
        BY <1>5 DEF Applied
    <2>2. \A m \in Applied' :
              /\ Names(applications[m].versionBefore, applications[m].hashBefore)'
              /\ Names(applications[m].versionAfter, applications[m].hashAfter)'
        BY <1>1, <1>5, <2>1, NamesKept DEF NamesNext, Names
    <2> QED  BY <1>2, <1>4, <2>2 DEF VersionNamesBody
<1>6. ASSUME NEW o \in ObservationId, Apply(o)
      PROVE  VersionNamesBody'
    <2>1. \A m \in Applied' :
              /\ applications'[m].versionBefore = doc.version
              /\ applications'[m].hashBefore = doc.body
              /\ applications'[m].versionAfter = doc'.version
              /\ applications'[m].hashAfter = doc'.body
        BY <1>6, AppliedRows DEF References
    <2>2. doc \in Document /\ doc' \in Document /\ doc'.version = doc.version + 1
        BY <1>6, ApplyTypes DEF Apply, Replayable, WriteReplay, TypeOK, StoreTypeOK, DocumentTypeOK, Written
    <2>3. doc.version \in Nat /\ doc'.version \in Nat /\ doc' # NoDocument
        BY <2>2, DocumentIsNotMissing, DocumentStoreAssumption DEF Document, Version
    <2>4. \A m \in Applied' :
              /\ Names(applications[m].versionBefore, applications[m].hashBefore)'
              /\ Names(applications[m].versionAfter, applications[m].hashAfter)'
        BY <2>1, <2>2, <2>3 DEF Names
    <2> QED  BY <1>2, <1>4, <2>4 DEF VersionNamesBody
<1> QED  BY <1>1, <1>5, <1>6, RowsOnlyByApply

\* A version names one body for ever: an observation or an application row that
\* carries the document's current version also carries its current body, so
\* comparing versions and hashes (evaluateSyncMutationReplayCompareAndApply) is
\* never satisfied by another document.
THEOREM VersionsNameBodies == Spec => []VersionNamesBody
<1>1. Init => VersionNamesBody
    BY DEF Init, StoreInit, VersionNamesBody, Recorded, Applied, IdleObserver
<1>2. TypeOK /\ References /\ VersionNamesBody /\ [Next]_vars => VersionNamesBody'
    <2>1. UNCHANGED vars /\ VersionNamesBody => VersionNamesBody'
        BY DEF vars, VersionNamesBody, Names, Recorded, Applied
    <2> QED  BY <2>1, NamesObserve, NamesStore DEF Next
<1> QED  BY <1>1, <1>2, TypeCorrect, ReferencesCorrect, PTL DEF Spec

-----------------------------------------------------------------------------
\* A receipt with an application row and the observation of the row never change.
LEMMA AppliedRowsAreFinal ==
    ASSUME TypeOK, References, [Next]_vars, NEW m \in Applied
    PROVE  /\ receipts'[m] = receipts[m]
           /\ observations'[applications[m].observation]
                  = observations[applications[m].observation]
<1> DEFINE o == applications[m].observation
<1>1. /\ m \in MutationId /\ applications[m] # NoApplication
      /\ receipts[m] # NoReceipt /\ o \in Recorded
    <2>1. m \in MutationId /\ applications[m] # NoApplication
        BY DEF Applied
    <2>2. o \in ObservationId
        BY <2>1 DEF TypeOK, StoreTypeOK, Application
    <2> QED  BY <2>1, <2>2 DEF References, RowsKeepTheirReferences, Recorded
<1>2. ASSUME NEW row \in Observation, InsertObservation(row)
      PROVE  receipts'[m] = receipts[m] /\ observations'[o] = observations[o]
    BY <1>1, <1>2, InsertIsFresh DEF InsertObservation, References
<1>3. ASSUME NEW ids \in SUBSET MutationId, NEW batch \in [ids -> Ops],
             NEW at \in Stamps, AcceptReceipts(batch, at)
      PROVE  receipts'[m] = receipts[m] /\ observations'[o] = observations[o]
    BY <1>1, <1>3 DEF AcceptReceipts
<1>4. ASSUME NEW fraction \in {0, 1}, Compact(fraction)
      PROVE  receipts'[m] = receipts[m] /\ observations'[o] = observations[o]
    <2>1. m \notin DeletedReceipts(fraction, RetainedObservations(fraction))
        BY <1>1 DEF DeletedReceipts
    <2>2. o \in RetainedObservations(fraction)
        BY <1>1 DEF RetainedObservations, Referenced
    <2>3. o \in ObservationId
        BY <1>1 DEF Recorded
    <2> QED  BY <1>1, <1>4, <2>1, <2>2, <2>3 DEF Compact
<1> QED  BY <1>2, <1>3, <1>4, StoreSteps DEF storeVars, Put, Apply, Replayable, WriteReplay, Tick

LEMMA MatchNext ==
    ASSUME TypeOK, References, ApplicationsMatchObservation, [Next]_vars
    PROVE  ApplicationsMatchObservation'
<1>1. CASE applications' = applications
    <2>1. Applied' = Applied
        BY <1>1 DEF Applied
    <2>2. AppliedReceipts' = AppliedReceipts
        BY <2>1, AppliedRowsAreFinal DEF AppliedReceipts
    <2>3. Summary(AppliedReceipts)' = Summary(AppliedReceipts)
        BY <2>2 DEF Summary, Accepted, FirstReceipt, LastReceipt, HighWatermark, Precedes
    <2> QED  BY <1>1, <2>1, <2>3, AppliedRowsAreFinal DEF ApplicationsMatchObservation
<1>2. ASSUME NEW o \in ObservationId, Apply(o)
      PROVE  ApplicationsMatchObservation'
    <2>1. /\ Applied' = Accepted(receipts)
          /\ \A m \in Applied' : /\ applications'[m].versionBefore = doc.version
                                 /\ applications'[m].hashBefore = doc.body
                                 /\ applications'[m].observation = o
        BY <1>2, AppliedRows DEF References
    <2>2. receipts' = receipts /\ observations' = observations
        BY <1>2 DEF Apply, Replayable, WriteReplay
    <2>3. AppliedReceipts' = receipts
        <3>1. receipts = [m \in MutationId |-> receipts[m]]
            BY DEF TypeOK, StoreTypeOK, Receipts
        <3> QED  BY <2>1, <2>2, <3>1 DEF AppliedReceipts, Accepted
    <2>4. CompareStatus(observations[o], doc, receipts, applications) = "allowed"
        BY <1>2 DEF Apply, Replayable, WriteReplay, ApplyStatus, RecoveryStatus
    <2>5. /\ SameReceiptSet(observations[o], receipts)
          /\ doc.version = observations[o].version /\ doc.body = observations[o].hash
        BY <2>4 DEF CompareStatus
    <2>6. Summary(AppliedReceipts)' = Summary(receipts)
        BY <2>3 DEF Summary, Accepted, FirstReceipt, LastReceipt, HighWatermark, Precedes
    <2> QED  BY <2>1, <2>2, <2>5, <2>6 DEF ApplicationsMatchObservation, SameReceiptSet
<1> QED  BY <1>1, <1>2, RowsOnlyByApply

\* The record an apply leaves stays true: its rows' receipts are the ones its
\* observation summarised and its document is the observed one, whatever is
\* written, accepted, observed or compacted afterwards.
THEOREM RowsMatchObservation == Spec => []ApplicationsMatchObservation
<1>1. Init => ApplicationsMatchObservation
    BY DEF Init, StoreInit, ApplicationsMatchObservation, Applied
<1>2. TypeOK /\ References /\ ApplicationsMatchObservation /\ [Next]_vars
          => ApplicationsMatchObservation'
    BY MatchNext
<1> QED  BY <1>1, <1>2, TypeCorrect, ReferencesCorrect, PTL DEF Spec

-----------------------------------------------------------------------------
\* Only compaction takes a receipt away, and no step rewrites one.
LEMMA OnlyCompactionDeletes ==
    ASSUME TypeOK, [Next]_vars, NEW m \in Accepted(receipts), receipts'[m] # receipts[m]
    PROVE  \E fraction \in {0, 1} :
               /\ Compact(fraction)
               /\ m \in DeletedReceipts(fraction, RetainedObservations(fraction))
               /\ receipts'[m] = NoReceipt
<1>1. m \in MutationId /\ receipts[m] # NoReceipt
    BY DEF Accepted
<1>2. ASSUME NEW ids \in SUBSET MutationId, NEW batch \in [ids -> Ops],
             NEW at \in Stamps, AcceptReceipts(batch, at)
      PROVE  FALSE
    BY <1>1, <1>2 DEF AcceptReceipts
<1>3. PICK fraction \in {0, 1} : Compact(fraction)
    BY <1>2, StoreSteps DEF storeVars, InsertObservation, Put, Apply, Replayable, WriteReplay, Tick
<1>4. receipts'[m] = IF m \in DeletedReceipts(fraction, RetainedObservations(fraction))
                     THEN NoReceipt ELSE receipts[m]
    BY <1>1, <1>3 DEF Compact
<1> QED  BY <1>3, <1>4

\* An acknowledged receipt keeps its payload and disappears only by compaction,
\* after ReceiptRetention and only while no application row names it.
THEOREM AcknowledgementHolds == Spec => AcknowledgedReceiptsKept
<1>1. ASSUME TypeOK, [Next]_vars
      PROVE  [\A m \in Accepted(receipts) :
                 receipts'[m] # receipts[m] =>
                     /\ receipts'[m] = NoReceipt
                     /\ m \notin Applied
                     /\ receipts[m].acceptedAt + ReceiptRetention \leq now]_vars
    <2> SUFFICES ASSUME NEW m \in Accepted(receipts), receipts'[m] # receipts[m]
                 PROVE  /\ receipts'[m] = NoReceipt
                        /\ m \notin Applied
                        /\ receipts[m].acceptedAt + ReceiptRetention \leq now
        OBVIOUS
    <2>1. PICK fraction \in {0, 1} :
              /\ m \in DeletedReceipts(fraction, RetainedObservations(fraction))
              /\ receipts'[m] = NoReceipt
        BY <1>1, OnlyCompactionDeletes
    <2>2. /\ applications[m] = NoApplication
          /\ receipts[m].acceptedAt < now + fraction - ReceiptRetention
        BY <2>1 DEF DeletedReceipts
    <2>3. receipts[m].acceptedAt \in Int /\ now \in Int /\ ReceiptRetention \in Int
        BY <1>1, AcceptedRow, ReplayStoreAssumption DEF TypeOK, StoreTypeOK, Time
    <2>4. receipts[m].acceptedAt + ReceiptRetention \leq now
        BY <2>2, <2>3
    <2> QED  BY <2>1, <2>2, <2>4 DEF Applied
<1> QED  BY <1>1, TypeCorrect, PTL DEF Spec, AcknowledgedReceiptsKept

-----------------------------------------------------------------------------
\* An observation of exactly the present receipts protects all of them.
LEMMA CurrentObservationProtectsAll ==
    ASSUME receipts \in Receipts, NEW obs, SameReceiptSet(obs, receipts),
           NEW m \in Accepted(receipts)
    PROVE  m \in ProtectedBy(obs)
<1> DEFINE last == LastReceipt(receipts)
           n == Cardinality(Accepted(receipts))
<1>1. /\ obs.count = n
      /\ obs.first = FirstReceipt(receipts)
      /\ obs.last = last
      /\ obs.watermark = HighWatermark(receipts)
    BY DEF SameReceiptSet, Summary
<1>2. obs.watermark.id = last /\ obs.watermark.at = receipts[last].acceptedAt
    BY <1>1 DEF HighWatermark
<1>3. last \in Accepted(receipts)
    BY LastReceiptIsLast
<1>4. Position(receipts, last) = n
    BY PositionOfLast
<1>5. /\ Position(receipts, m) \in Nat /\ Position(receipts, m) <= n
      /\ n \in Nat
    BY PositionBound, AcceptedFinite
<1>6. n > 0
    BY <1>5, AcceptedFinite, FS_EmptySet
<1>7. CoversCount(obs)
    BY <1>1, <1>2, <1>4, <1>5 DEF CoversCount
<1> QED  BY <1>1, <1>2, <1>3, <1>5, <1>6, <1>7 DEF ProtectedBy

\* While compaction keeps an observation of the present receipts it deletes none.
LEMMA NothingDeleted ==
    ASSUME receipts \in Receipts, NEW fraction, NEW o,
           o \in RetainedObservations(fraction), SameReceiptSet(observations[o], receipts)
    PROVE  DeletedReceipts(fraction, RetainedObservations(fraction)) = {}
<1>1. \A m \in Accepted(receipts) : m \in ProtectedBy(observations[o])
    BY CurrentObservationProtectsAll
<1> QED  BY <1>1 DEF DeletedReceipts

\* Compaction never takes away a receipt that an observation it keeps needs to be
\* applied: whoever holds an applicable observation id can still apply it.
THEOREM CompactionIsHarmless == Spec => CompactKeepsApplicable
<1>1. ASSUME TypeOK, [Next]_vars
      PROVE  [~ Accepted(receipts) \subseteq Accepted(receipts') =>
                 \A o \in ObservationId :
                     Applicable(o) /\ observations'[o] # NoObservation => Applicable(o)']_vars
    <2> SUFFICES ASSUME ~ Accepted(receipts) \subseteq Accepted(receipts'),
                        NEW o \in ObservationId,
                        Applicable(o), observations'[o] # NoObservation
                 PROVE  FALSE
        OBVIOUS
    <2>1. PICK m \in Accepted(receipts) : receipts'[m] = NoReceipt
        BY DEF Accepted
    <2>2. PICK fraction \in {0, 1} :
              /\ Compact(fraction)
              /\ m \in DeletedReceipts(fraction, RetainedObservations(fraction))
        BY <1>1, <2>1, OnlyCompactionDeletes DEF Accepted
    <2>3. o \in RetainedObservations(fraction)
        BY <2>2 DEF Compact
    <2>4. CompareStatus(observations[o], doc, receipts, applications) = "allowed"
        BY DEF Applicable, ApplyStatus, RecoveryStatus
    <2>5. SameReceiptSet(observations[o], receipts)
        BY <2>4 DEF CompareStatus
    <2> QED  BY <1>1, <2>2, <2>3, <2>5, NothingDeleted DEF TypeOK, StoreTypeOK
<1> QED  BY <1>1, TypeCorrect, PTL DEF Spec, CompactKeepsApplicable

-----------------------------------------------------------------------------
(***************************************************************************)
(* The refinement: what the clients see of the store is a MutationLog.     *)
(***************************************************************************)
\* A receipt with an application row was acknowledged.
LEMMA ReplayedAreAcknowledged ==
    ASSUME RowsKeepTheirReferences
    PROVE  Applied \subseteq Accepted(receipts)
BY DEF RowsKeepTheirReferences, Applied, Accepted

LEMMA LogInit == Init => Log!Init
<1> SUFFICES ASSUME Init  PROVE Log!Init
    OBVIOUS
<1>1. Accepted(receipts) = {} /\ Applied = {} /\ doc = NoDocument
    BY DEF Init, StoreInit, DocumentInit, Accepted, Applied
<1> QED  BY <1>1 DEF Log!Init

\* The two ways to write the document move it to its next version.
LEMMA LogOverwrite ==
    ASSUME TypeOK, NEW body \in Bodies, doc' = Written(doc, body), doc' \in Document
    PROVE  Log!Overwrite
<1>1. doc' # NoDocument
    BY DocumentIsNotMissing
<1>2. doc'.body = body /\ doc'.version = IF doc = NoDocument THEN 1 ELSE doc.version + 1
    BY DEF Written
<1> QED  BY <1>1, <1>2 DEF Log!Overwrite

LEMMA LogSave ==
    ASSUME TypeOK, NEW body \in Bodies, NEW expected \in ExpectedVersion, Put(body, expected)
    PROVE  Log!Save
<1>1. doc' = Written(doc, body) /\ doc' \in Document
    BY WrittenType DEF Put, PutDocument, TypeOK, StoreTypeOK
<1>2. receipts' = receipts /\ applications' = applications
    BY DEF Put
<1>3. Accepted(receipts)' = Accepted(receipts) /\ Applied' = Applied
    BY <1>2 DEF Accepted, Applied
<1> QED  BY <1>1, <1>2, <1>3, LogOverwrite DEF Log!Save

\* The receipts a batch adds are acknowledged, the others keep their payload.
LEMMA LogAcknowledge ==
    ASSUME TypeOK, NEW ids \in SUBSET MutationId, NEW batch \in [ids -> Ops],
           NEW at \in Stamps, AcceptReceipts(batch, at)
    PROVE  Log!Acknowledge
<1> DEFINE new == ids \ Accepted(receipts)
           ops == [m \in new |-> batch[m]]
<1>1. /\ UNCHANGED <<doc, applications>> /\ Applied' = Applied
    BY DEF AcceptReceipts, Applied
<1>2. \A m \in MutationId : receipts'[m] = IF m \in new THEN [op |-> batch[m], acceptedAt |-> at]
                                          ELSE receipts[m]
    BY DEF AcceptReceipts, Accepted
<1>3. \A m \in new : [op |-> batch[m], acceptedAt |-> at] # NoReceipt
    BY ReplayStoreAssumption DEF Receipt, Stamps
<1>4. Accepted(receipts)' = Accepted(receipts) \cup new
    BY <1>2, <1>3 DEF Accepted
<1>5. new \in SUBSET (MutationId \ Accepted(receipts)) /\ ops \in [new -> Ops]
    OBVIOUS
<1>6. [m \in Accepted(receipts) |-> receipts[m].op]'
        = [m \in Accepted(receipts) \cup new |->
              IF m \in new THEN ops[m] ELSE [k \in Accepted(receipts) |-> receipts[k].op][m]]
    <2>1. \A m \in Accepted(receipts) \cup new : receipts'[m].op =
              IF m \in new THEN ops[m] ELSE [k \in Accepted(receipts) |-> receipts[k].op][m]
        <3>1. \A m \in new : receipts'[m].op = ops[m]
            <4>1. \A m \in new : receipts'[m] = [op |-> batch[m], acceptedAt |-> at]
                BY <1>2
            <4>2. \A m \in new : ops[m] = batch[m]
                OBVIOUS
            <4>3. \A m \in new : [op |-> batch[m], acceptedAt |-> at].op = batch[m]
                OBVIOUS
            <4> HIDE DEF new, ops
            <4> QED  BY <4>1, <4>2, <4>3
        <3>2. \A m \in Accepted(receipts) : m \notin new /\ receipts'[m] = receipts[m]
            BY <1>2 DEF Accepted
        <3> HIDE DEF new, ops
        <3> QED  BY <3>1, <3>2
    <2> HIDE DEF new, ops
    <2>2. [m \in Accepted(receipts)' |-> receipts'[m].op]
              = [m \in Accepted(receipts) \cup new |-> receipts'[m].op]
        BY <1>4
    <2>3. [m \in Accepted(receipts) \cup new |-> receipts'[m].op]
              = [m \in Accepted(receipts) \cup new |->
                    IF m \in new THEN ops[m] ELSE [k \in Accepted(receipts) |-> receipts[k].op][m]]
        BY <2>1
    <2> QED  BY <2>2, <2>3
<1> QED  BY <1>1, <1>5, <1>6 DEF Log!Acknowledge, Log!Acknowledged

\* An apply finds no rows and leaves one for every receipt: the one replay.
LEMMA LogReplay ==
    ASSUME TypeOK, RowsKeepTheirReferences, NEW o \in ObservationId, Apply(o)
    PROVE  Log!Replay
<1> DEFINE outcome == Authoritative(doc.body, receipts)
<1>1. Applied = {} /\ Applied' = Accepted(receipts)
    BY ApplyFindsNoRows, AppliedRows
<1>2. receipts' = receipts /\ Accepted(receipts)' = Accepted(receipts)
    BY DEF Apply, Replayable, WriteReplay, Accepted
<1>3. ApplyStatus(observations[o], doc, receipts, applications) = "applied"
      /\ doc' = Written(doc, outcome.body)
    BY DEF Apply, WriteReplay
<1>4. ~ outcome.abort /\ Accepted(receipts) # {}
    BY <1>3 DEF ApplyStatus, Staged
<1>5. doc \in Document /\ doc.body \in Decodable /\ doc # NoDocument
    BY DEF Apply, Replayable, TypeOK, StoreTypeOK, DocumentTypeOK
<1>6. outcome.body \in Bodies /\ doc' \in Document
    BY <1>4, <1>5, ReplayAssumption, ApplyTypes DEF TypeOK, StoreTypeOK
<1>7. doc.version > 0
    BY <1>5, DocumentStoreAssumption DEF Document, Version
<1>8. Log!Overwrite
    BY <1>3, <1>6, LogOverwrite
<1> QED  BY <1>1, <1>2, <1>4, <1>5, <1>7, <1>8 DEF Log!Replay, Log!Acknowledged

\* Compaction forgets receipts, never one with an application row.
LEMMA LogForget ==
    ASSUME TypeOK, RowsKeepTheirReferences, NEW fraction \in {0, 1}, Compact(fraction)
    PROVE  Log!Forget
<1> DEFINE kept == Accepted(receipts) \ DeletedReceipts(fraction, RetainedObservations(fraction))
<1>1. UNCHANGED <<doc, applications>> /\ Applied' = Applied
    BY DEF Compact, Applied
<1>2. \A m \in MutationId : receipts'[m] =
          IF m \in DeletedReceipts(fraction, RetainedObservations(fraction))
          THEN NoReceipt ELSE receipts[m]
    BY DEF Compact
<1>3. Accepted(receipts)' = kept /\ \A m \in kept : receipts'[m] = receipts[m]
    BY <1>2 DEF Accepted
<1>4. Applied \subseteq kept
    BY ReplayedAreAcknowledged DEF DeletedReceipts, Applied
<1>5. [m \in Accepted(receipts) |-> receipts[m].op]'
        = [m \in kept |-> [k \in Accepted(receipts) |-> receipts[k].op][m]]
    BY <1>3
<1>6. kept \in SUBSET Accepted(receipts)
    OBVIOUS
<1> QED  BY <1>1, <1>4, <1>5, <1>6 DEF Log!Forget, Log!Acknowledged

\* The clock, the observers and their rows are invisible to clients.
LEMMA LogStutter ==
    ASSUME UNCHANGED <<doc, receipts, applications>>
    PROVE  UNCHANGED Log!logVars
BY DEF Log!logVars, Accepted, Applied

LEMMA LogNext ==
    ASSUME TypeOK, RowsKeepTheirReferences, [Next]_vars
    PROVE  [Log!Next]_Log!logVars
<1>1. ASSUME NEW row \in Observation, InsertObservation(row)
      PROVE  UNCHANGED Log!logVars
    BY <1>1, LogStutter DEF InsertObservation
<1>2. CASE UNCHANGED storeVars \/ Tick
    BY <1>2, LogStutter DEF storeVars, Tick
<1>3. ASSUME NEW body \in Bodies, NEW expected \in ExpectedVersion, Put(body, expected)
      PROVE  Log!Save
    BY <1>3, LogSave
<1>4. ASSUME NEW ids \in SUBSET MutationId, NEW batch \in [ids -> Ops],
             NEW at \in Stamps, AcceptReceipts(batch, at)
      PROVE  Log!Acknowledge
    BY <1>4, LogAcknowledge
<1>5. ASSUME NEW o \in ObservationId, Apply(o)
      PROVE  Log!Replay
    BY <1>5, LogReplay
<1>6. ASSUME NEW fraction \in {0, 1}, Compact(fraction)
      PROVE  Log!Forget
    BY <1>6, LogForget
<1> QED  BY <1>1, <1>2, <1>3, <1>4, <1>5, <1>6, StoreSteps DEF Log!Next

\* However observations, applies, compactions, saves and retries interleave,
\* clients see a MutationLog: mutations they were acknowledged are replayed
\* whole, at most once, and onto the document of that moment.
THEOREM StoreImplementsLog == Spec => ImplementsMutationLog
<1>1. Init => Log!Init
    BY LogInit
<1>2. TypeOK /\ RowsKeepTheirReferences /\ [Next]_vars => [Log!Next]_Log!logVars
    BY LogNext
<1> QED  BY <1>1, <1>2, TypeCorrect, ReferencesKept, PTL DEF Spec, ImplementsMutationLog, Log!Spec

-----------------------------------------------------------------------------
(***************************************************************************)
(* The handlers                                                            *)
(***************************************************************************)
\* No version is a version; what a client sends is of its type.
LEMMA SentinelsAreTyped ==
    /\ NoVersion \notin Int
    /\ NoRequest \in Request
    /\ NoAnswer \in Answer
    /\ NoRequest.pc = "none" /\ NoAnswer.reason = "none"
    /\ NoAnswer.current = NoDocument
<1>1. (CHOOSE b \in Bodies : TRUE) \in Bodies
    BY SyncApiAssumption
<1>2. 0 \in 0 .. MaxVersion /\ 0 \in 0 .. NumMutations
    BY DocumentStoreAssumption, ReplayStoreAssumption
<1> QED  BY <1>1, <1>2, DocumentStoreAssumption
         DEF NoRequest, Request, ExpectedVersion, NoAnswer, Answer

\* The application rows are at most as many as the mutations.
LEMMA AppliedCount == Cardinality(Applied) \in 0 .. NumMutations
<1>1. IsFiniteSet(MutationId) /\ Cardinality(MutationId) = NumMutations
    <2>1. NumMutations \in Nat
        BY ReplayStoreAssumption
    <2> QED  BY <2>1, FS_Interval DEF MutationId
<1>2. Applied \subseteq MutationId
    BY DEF Applied
<1>3. IsFiniteSet(Applied) /\ Cardinality(Applied) <= NumMutations
    BY <1>1, <1>2, FS_Subset
<1>4. Cardinality(Applied) \in Nat
    BY <1>3, FS_CardinalityType
<1> QED  BY <1>3, <1>4, ReplayStoreAssumption

-----------------------------------------------------------------------------
\* What a request or a client's memory may be, apart from the store.
ClientsTypeOK ==
    /\ base \in [Clients -> Document \cup {NoDocument}]
    /\ watermark \in [Clients -> 0 .. NumMutations]
    /\ request \in [Clients -> Request]
    /\ answer \in [Clients -> Answer]
    /\ \A c \in Clients :
          /\ request[c].pc = "delta" => request[c].read # NoDocument
          /\ request[c].pc # "none" => answer[c] = NoAnswer

LEMMA ApiTypeParts == ApiTypeOK <=> TypeOK /\ ClientsTypeOK
BY DEF ApiTypeOK, ClientsTypeOK

\* The steps as seen from the store: a save of some client is a PutDocument of
\* the server, every other step of a client leaves the store alone.
LEMMA ClientSteps ==
    ASSUME ApiTypeOK, NEW c \in Clients, Client(c)
    PROVE  /\ UNCHANGED observers
           /\ \/ UNCHANGED vars
              \/ \E body \in Bodies, expected \in ExpectedVersion : Put(body, expected)
<1>1. request[c] \in Request
    BY DEF ApiTypeOK
<1>2. CASE PutSave(c)
    BY <1>1, <1>2 DEF PutSave, Request
<1>3. CASE ~ PutSave(c)
    BY <1>3 DEF Client, GetDocument, PutRequest, PutCheck, PutRefused, RequestFails,
                DeltaReadDocument, DeltaReadApplications, storeVars, vars
<1> QED  BY <1>2, <1>3

\* Every step of the system with its clients is a step of ReplaySystem or a stutter.
LEMMA ApiSteps ==
    ASSUME ApiTypeOK, [ApiNext]_allVars
    PROVE  [Next]_vars
<1>1. ASSUME NEW c \in Clients, Client(c)
      PROVE  [Next]_vars
    BY <1>1, ClientSteps DEF Next, Server
<1>2. UNCHANGED allVars => UNCHANGED vars
    BY DEF allVars, vars
<1> QED  BY <1>1, <1>2 DEF ApiNext

\* ReplaySystem's types survive every step.
LEMMA TypeNext == TypeOK /\ [Next]_vars => TypeOK'
BY TypeObserve, TypeStore, TypeStutter DEF Next

\* The version a client knows is one a request may carry.
LEMMA BaseVersionType ==
    ASSUME ClientsTypeOK, NEW c \in Clients
    PROVE  BaseVersion(c) \in 0 .. MaxVersion
<1>1. MaxVersion \in Nat \ {0}
    BY DocumentStoreAssumption
<1> QED  BY <1>1 DEF ClientsTypeOK, BaseVersion, Document, Version

\* A delta is of the type its client keeps.
LEMMA DeltaAnswerType ==
    ASSUME NEW read \in Document, NEW since \in 0 .. MaxVersion,
           NEW from \in 0 .. NumMutations, NEW included \in BOOLEAN, NEW limit
    PROVE  DeltaAnswer(read, since, from, included, limit) \in Answer
<1>1. RowsAfter(since, from) \subseteq MutationId
    BY DEF RowsAfter, Applied
<1> HIDE DEF RowsAfter
<1> QED  BY <1>1 DEF DeltaAnswer, Answer, Reasons

\* A client's step keeps the types of requests, answers and memories.
LEMMA ClientsTypeStep ==
    ASSUME ApiTypeOK, TypeOK', NEW c \in Clients, Client(c)
    PROVE  ClientsTypeOK'
<1>1. ClientsTypeOK /\ DocumentTypeOK
    BY ApiTypeParts DEF TypeOK, StoreTypeOK
<1>2. DocumentTypeOK'
    BY DEF TypeOK, StoreTypeOK
<1>3. CASE GetDocument(c)
    <2>1. doc \in Document
        BY <1>1, <1>3 DEF GetDocument, DocumentTypeOK
    <2> QED  BY <1>1, <1>3, <2>1, SentinelsAreTyped DEF GetDocument, Starts, ClientsTypeOK
<1>4. ASSUME NEW body \in Bodies, NEW expected \in {NoVersion, BaseVersion(c)},
             PutRequest(c, body, expected)
      PROVE  ClientsTypeOK'
    <2>1. expected \in ExpectedVersion
        BY <1>1, BaseVersionType DEF ExpectedVersion
    <2> DEFINE r == [pc |-> IF expected = NoVersion THEN "check" ELSE "save",
                     expected |-> expected, body |-> body, read |-> NoDocument]
    <2>2. r \in Request /\ r.pc # "delta"
        BY <2>1 DEF Request
    <2> HIDE DEF r
    <2>3. request' = [request EXCEPT ![c] = r]
        BY <1>4 DEF PutRequest, r
    <2> QED  BY <1>1, <1>4, <2>2, <2>3, SentinelsAreTyped DEF PutRequest, Starts, ClientsTypeOK
<1>5. CASE PutCheck(c)
    <2>1. request'[c] \in Request /\ request'[c].pc # "delta"
        BY <1>1, <1>5, SentinelsAreTyped DEF PutCheck, Ended, ClientsTypeOK, Request
    <2>2. \A d \in Clients \ {c} : request'[d] = request[d]
        BY <1>1, <1>5 DEF PutCheck, Ended, ClientsTypeOK
    <2>3. request' \in [Clients -> Request]
        BY <1>1, <1>5, <2>1, <2>2 DEF PutCheck, Ended, ClientsTypeOK
    <2>4. answer[c] = NoAnswer
        BY <1>1, <1>5 DEF PutCheck, ClientsTypeOK
    <2> QED  BY <1>1, <1>5, <2>1, <2>2, <2>3, <2>4 DEF PutCheck, ClientsTypeOK
<1>6. CASE PutSave(c)
    <2>1. doc' \in Document
        BY <1>1, <1>6, WrittenType, ClientSteps DEF PutSave, Put, PutDocument, ClientsTypeOK, Request
    <2>2. base' \in [Clients -> Document \cup {NoDocument}]
        BY <1>1, <1>6, <2>1 DEF PutSave, ClientsTypeOK
    <2> QED  BY <1>1, <1>6, <2>2, SentinelsAreTyped DEF PutSave, Ended, ClientsTypeOK
<1>7. CASE PutRefused(c) \/ RequestFails(c)
    BY <1>1, <1>7, SentinelsAreTyped DEF PutRefused, RequestFails, Ended, ClientsTypeOK
<1>8. CASE DeltaReadDocument(c)
    <2>1. doc \in Document /\ doc # NoDocument
        BY <1>1, <1>8 DEF DeltaReadDocument, DocumentTypeOK
    <2> DEFINE r == [NoRequest EXCEPT !.pc = "delta", !.read = doc]
    <2>2. r \in Request /\ r.read # NoDocument
        BY <2>1, SentinelsAreTyped DEF Request
    <2> HIDE DEF r
    <2>3. request' = [request EXCEPT ![c] = r]
        BY <1>8 DEF DeltaReadDocument, r
    <2> QED  BY <1>1, <1>8, <2>2, <2>3, SentinelsAreTyped
             DEF DeltaReadDocument, Starts, ClientsTypeOK
<1>9. ASSUME NEW useWatermark \in BOOLEAN, NEW included \in BOOLEAN, NEW limit,
             DeltaReadApplications(c, useWatermark, included, limit)
      PROVE  ClientsTypeOK'
    <2> DEFINE from == IF useWatermark THEN watermark[c] ELSE 0
               a == DeltaAnswer(request[c].read, BaseVersion(c), from, included, limit)
    <2>1. request[c].read \in Document
        BY <1>1, <1>9 DEF DeltaReadApplications, ClientsTypeOK, Request
    <2>2. from \in 0 .. NumMutations
        BY <1>1, ReplayStoreAssumption DEF ClientsTypeOK
    <2> HIDE DEF from
    <2>3. a \in Answer
        BY <1>1, <2>1, <2>2, BaseVersionType, DeltaAnswerType
    <2> HIDE DEF a
    <2>4. answer' = [answer EXCEPT ![c] = a]
        BY <1>9 DEF DeltaReadApplications, a, from
    <2> QED  BY <1>1, <1>9, <2>3, <2>4, AppliedCount, SentinelsAreTyped
             DEF DeltaReadApplications, Ended, ClientsTypeOK
<1> QED  BY <1>3, <1>4, <1>5, <1>6, <1>7, <1>8, <1>9 DEF Client

\* A step of anyone keeps all types.
LEMMA ApiTypeNext ==
    ASSUME ApiTypeOK, [ApiNext]_allVars
    PROVE  ApiTypeOK'
<1>1. ClientsTypeOK /\ TypeOK'
    BY ApiSteps, TypeNext, ApiTypeParts
<1>2. UNCHANGED apiVars => ClientsTypeOK'
    BY <1>1 DEF apiVars, ClientsTypeOK
<1>3. ASSUME NEW c \in Clients, Client(c)
      PROVE  ClientsTypeOK'
    BY <1>1, <1>3, ClientsTypeStep
<1>4. UNCHANGED allVars => UNCHANGED apiVars
    BY DEF allVars, apiVars
<1>5. ClientsTypeOK'
    BY <1>2, <1>3, <1>4 DEF ApiNext
<1> QED  BY <1>1, <1>5 DEF ApiTypeOK, ClientsTypeOK

LEMMA ApiTypeInit == ApiInit => ApiTypeOK
<1> SUFFICES ASSUME ApiInit  PROVE ApiTypeOK
    OBVIOUS
<1>1. TypeOK
    BY TypeInit DEF ApiInit
<1>2. 0 \in 0 .. NumMutations
    BY ReplayStoreAssumption
<1>3. ClientsTypeOK
    BY <1>2, SentinelsAreTyped DEF ApiInit, ClientsTypeOK
<1> QED  BY <1>1, <1>3, ApiTypeParts

\* Requests, answers and what clients remember keep their types.
THEOREM ApiTypeCorrect == ApiSpec => []ApiTypeOK
BY ApiTypeInit, ApiTypeNext, PTL DEF ApiSpec

\* The handlers of api.go change the store only as ReplaySystem lets the server,
\* so every theorem about ReplaySystem holds under them: receipts are replayed at
\* most once, versions name bodies, compaction is harmless.
THEOREM ApiImplements == ApiSpec => ImplementsReplaySystem
<1>1. ApiInit => Init
    BY DEF ApiInit
<1>2. ApiTypeOK /\ [ApiNext]_allVars => [Next]_vars
    BY ApiSteps
<1> QED  BY <1>1, <1>2, ApiTypeCorrect, PTL DEF ApiSpec, Spec, ImplementsReplaySystem

-----------------------------------------------------------------------------
(***************************************************************************)
(* What a client knows of the document, and what a request knows of the    *)
(* client.                                                                 *)
(***************************************************************************)
KnownBase(c) == base[c] # NoDocument => Names(base[c].version, base[c].body)

\* A PUT with a version carries the one of the client's base.
SaveOfBase(c) ==
    request[c].pc \in {"check", "save"} /\ request[c].expected # NoVersion
        => request[c].expected = BaseVersion(c)

\* A delta has read a document that is no older than the client's base.
DeltaAfterBase(c) ==
    request[c].pc = "delta" =>
        /\ Names(request[c].read.version, request[c].read.body)
        /\ base[c] # NoDocument =>
              /\ base[c].version <= request[c].read.version
              /\ base[c].version = request[c].read.version
                    => base[c].body = request[c].read.body

ClientsKnow == \A c \in Clients : KnownBase(c) /\ SaveOfBase(c) /\ DeltaAfterBase(c)

\* A document that was read stays known, whoever moves the store on.
LEMMA KnownStays ==
    ASSUME TypeOK, [Next]_vars, NEW d \in Document, Names(d.version, d.body)
    PROVE  Names(d.version, d.body)'
<1>1. d.version \in Nat
    BY DocumentStoreAssumption DEF Document, Version
<1>2. doc \in Document
    BY DEF Names, TypeOK, StoreTypeOK, DocumentTypeOK
<1>3. doc' = doc \/ (doc' \in Document /\ doc'.version > doc.version)
    BY <1>2, DocumentMovesForward, DocumentIsNotMissing
<1>4. ASSUME NEW v \in Nat, NEW b, Names(v, b)  PROVE Names(v, b)'
    BY <1>2, <1>3, <1>4, NamesStays
<1> QED  BY <1>1, <1>4 DEF Names

\* The document itself is known.
LEMMA DocumentIsKnown ==
    ASSUME doc \in Document
    PROVE  Names(doc.version, doc.body)
<1>1. doc.version \in Nat /\ doc # NoDocument
    BY DocumentIsNotMissing, DocumentStoreAssumption DEF Document, Version
<1> QED  BY <1>1 DEF Names

\* A request and a base that a step leaves alone stay right.
LEMMA KnowledgeStays ==
    ASSUME ApiTypeOK, [Next]_vars, NEW c \in Clients, KnownBase(c), SaveOfBase(c),
           DeltaAfterBase(c), base'[c] = base[c], request'[c] = request[c]
    PROVE  KnownBase(c)' /\ SaveOfBase(c)' /\ DeltaAfterBase(c)'
<1>1. ClientsTypeOK /\ TypeOK
    BY ApiTypeParts
<1>2. KnownBase(c)'
    <2>1. CASE base[c] # NoDocument
        <3>1. base[c] \in Document /\ Names(base[c].version, base[c].body)
            BY <1>1, <2>1 DEF ClientsTypeOK, KnownBase
        <3>2. Names(base[c].version, base[c].body)'
            BY <1>1, <3>1, KnownStays DEF Names
        <3> QED  BY <3>2 DEF KnownBase
    <2> QED  BY <2>1 DEF KnownBase
<1>3. SaveOfBase(c)'
    BY DEF SaveOfBase, BaseVersion
<1>4. DeltaAfterBase(c)'
    <2>1. CASE request[c].pc = "delta"
        <3>1. request[c].read \in Document
            BY <1>1, <2>1 DEF ClientsTypeOK, Request
        <3>2. Names(request[c].read.version, request[c].read.body)'
            BY <1>1, <2>1, <3>1, KnownStays DEF DeltaAfterBase, Names
        <3> QED  BY <2>1, <3>2 DEF DeltaAfterBase
    <2> QED  BY <2>1 DEF DeltaAfterBase
<1> QED  BY <1>2, <1>3, <1>4

\* A client's step leaves what other clients have alone.
LEMMA OthersUntouched ==
    ASSUME ApiTypeOK, NEW c \in Clients, Client(c), NEW d \in Clients, d # c
    PROVE  base'[d] = base[d] /\ request'[d] = request[d] /\ answer'[d] = answer[d]
<1>1. ClientsTypeOK
    BY ApiTypeParts
<1>2. CASE PutSave(c)
    BY <1>1, <1>2 DEF PutSave, Ended, ClientsTypeOK
<1>3. CASE ~ PutSave(c)
    BY <1>1, <1>3 DEF Client, GetDocument, PutRequest, PutCheck, PutRefused, RequestFails,
                      DeltaReadDocument, DeltaReadApplications, Starts, Ended, ClientsTypeOK
<1> QED  BY <1>2, <1>3

\* A base that a step leaves alone stays known.
LEMMA BaseStaysKnown ==
    ASSUME ClientsTypeOK, TypeOK, [Next]_vars, NEW c \in Clients, KnownBase(c), base'[c] = base[c]
    PROVE  KnownBase(c)'
<1>1. CASE base[c] # NoDocument
    <2>1. base[c] \in Document /\ Names(base[c].version, base[c].body)
        BY <1>1 DEF ClientsTypeOK, KnownBase
    <2>2. Names(base[c].version, base[c].body)'
        BY <2>1, KnownStays DEF Names
    <2> QED  BY <2>2 DEF KnownBase
<1> QED  BY <1>1 DEF KnownBase

\* What a client and its request know is right after the client's own step.
LEMMA ClientLearns ==
    ASSUME ApiTypeOK, ApiTypeOK', NEW c \in Clients, Client(c),
           KnownBase(c), SaveOfBase(c), DeltaAfterBase(c)
    PROVE  KnownBase(c)' /\ SaveOfBase(c)' /\ DeltaAfterBase(c)'
<1>1. ClientsTypeOK /\ TypeOK /\ [Next]_vars
    BY ApiTypeParts, ApiSteps DEF ApiNext
<1>2. base'[c] = base[c] => KnownBase(c)'
    BY <1>1, BaseStaysKnown
<1>3. request'[c].pc = "none" => SaveOfBase(c)' /\ DeltaAfterBase(c)'
    BY DEF SaveOfBase, DeltaAfterBase
<1>4. doc' \in Document => Names(doc.version, doc.body)'
    <2>1. ASSUME doc' \in Document  PROVE doc'.version \in Nat /\ doc' # NoDocument
        BY <2>1, DocumentIsNotMissing, DocumentStoreAssumption DEF Document, Version
    <2> QED  BY <2>1 DEF Names
<1>5. CASE GetDocument(c)
    <2>1. doc' \in Document /\ base'[c] = doc'
        BY <1>1, <1>5 DEF GetDocument, storeVars, ClientsTypeOK, TypeOK, StoreTypeOK, DocumentTypeOK
    <2>2. request'[c].pc = "none"
        BY <1>5 DEF GetDocument, Starts
    <2> QED  BY <1>3, <1>4, <2>1, <2>2 DEF KnownBase, Names
<1>6. ASSUME NEW body \in Bodies, NEW expected \in {NoVersion, BaseVersion(c)},
             PutRequest(c, body, expected)
      PROVE  KnownBase(c)' /\ SaveOfBase(c)' /\ DeltaAfterBase(c)'
    <2>1. /\ base' = base
          /\ request'[c].expected = expected /\ request'[c].pc \in {"check", "save"}
        BY <1>1, <1>6 DEF PutRequest, ClientsTypeOK
    <2> QED  BY <1>2, <2>1 DEF SaveOfBase, BaseVersion, DeltaAfterBase
<1>7. CASE PutCheck(c)
    <2>1. base' = base
        BY <1>7 DEF PutCheck
    <2>2. CASE doc # NoDocument
        BY <1>1, <1>2, <1>3, <1>7, <2>1, <2>2, SentinelsAreTyped DEF PutCheck, Ended, ClientsTypeOK
    <2>3. CASE doc = NoDocument
        <3>1. /\ request'[c].expected = request[c].expected
              /\ request[c].pc = "check" /\ request'[c].pc = "save"
            BY <1>1, <1>7, <2>3 DEF PutCheck, ClientsTypeOK, Request
        <3> QED  BY <1>2, <2>1, <3>1 DEF SaveOfBase, BaseVersion, DeltaAfterBase
    <2> QED  BY <2>2, <2>3
<1>8. CASE PutSave(c)
    <2>1. doc' \in Document
        BY <1>1, <1>8, WrittenType
        DEF PutSave, Put, PutDocument, ClientsTypeOK, Request, TypeOK, StoreTypeOK
    <2>2. base'[c] = base[c] \/ base'[c] = doc'
        BY <1>1, <1>8 DEF PutSave, ClientsTypeOK
    <2>3. request'[c].pc = "none"
        BY <1>1, <1>8, SentinelsAreTyped DEF PutSave, Ended, ClientsTypeOK
    <2> QED  BY <1>2, <1>3, <1>4, <2>1, <2>2, <2>3 DEF KnownBase, Names
<1>9. CASE PutRefused(c) \/ RequestFails(c)
           \/ \E useWatermark, included \in BOOLEAN, limit \in 1 .. MaxLimit :
                  DeltaReadApplications(c, useWatermark, included, limit)
    <2>1. base' = base /\ request' = [request EXCEPT ![c] = NoRequest]
        BY <1>9 DEF PutRefused, RequestFails, DeltaReadApplications, Ended
    <2> QED  BY <1>1, <1>2, <1>3, <2>1, SentinelsAreTyped DEF ClientsTypeOK
<1>10. CASE DeltaReadDocument(c)
    <2>1. doc \in Document /\ doc' = doc /\ base' = base
        BY <1>1, <1>10 DEF DeltaReadDocument, storeVars, TypeOK, StoreTypeOK, DocumentTypeOK
    <2>2. request'[c].pc = "delta" /\ request'[c].read = doc
        BY <1>1, <1>10, SentinelsAreTyped DEF DeltaReadDocument, ClientsTypeOK, Request
    <2>3. base[c] # NoDocument => /\ base[c].version <= doc.version
                                  /\ base[c].version = doc.version => base[c].body = doc.body
        BY DEF KnownBase, Names
    <2>4. DeltaAfterBase(c)'
        BY <1>4, <2>1, <2>2, <2>3 DEF DeltaAfterBase, Names
    <2> QED  BY <1>2, <2>1, <2>2, <2>4 DEF SaveOfBase
<1> QED  BY <1>5, <1>6, <1>7, <1>8, <1>9, <1>10 DEF Client

LEMMA ClientsKnowNext ==
    ASSUME ApiTypeOK, ApiTypeOK', ClientsKnow, [ApiNext]_allVars
    PROVE  ClientsKnow'
<1>1. [Next]_vars
    BY ApiSteps
<1>2. ASSUME NEW d \in Clients, base'[d] = base[d], request'[d] = request[d]
      PROVE  KnownBase(d)' /\ SaveOfBase(d)' /\ DeltaAfterBase(d)'
    BY <1>1, <1>2, KnowledgeStays DEF ClientsKnow
<1>3. CASE UNCHANGED apiVars
    BY <1>2, <1>3 DEF apiVars, ClientsKnow
<1>4. ASSUME NEW c \in Clients, Client(c)
      PROVE  ClientsKnow'
    <2>1. KnownBase(c)' /\ SaveOfBase(c)' /\ DeltaAfterBase(c)'
        BY <1>4, ClientLearns DEF ClientsKnow
    <2>2. \A d \in Clients \ {c} : KnownBase(d)' /\ SaveOfBase(d)' /\ DeltaAfterBase(d)'
        BY <1>2, <1>4, OthersUntouched
    <2> QED  BY <2>1, <2>2 DEF ClientsKnow
<1>5. UNCHANGED allVars => UNCHANGED apiVars
    BY DEF allVars, apiVars
<1> QED  BY <1>3, <1>4, <1>5 DEF ApiNext

LEMMA ClientsKnowCorrect == ApiSpec => []ClientsKnow
<1>1. ApiInit => ClientsKnow
    BY SentinelsAreTyped
    DEF ApiInit, ClientsKnow, KnownBase, SaveOfBase, DeltaAfterBase
<1> QED  BY <1>1, ClientsKnowNext, ApiTypeCorrect, PTL DEF ApiSpec

-----------------------------------------------------------------------------
\* A save that changes the document is the step of its own client.
LEMMA SaveIsPut ==
    ASSUME ApiTypeOK, [ApiNext]_allVars, NEW c \in Clients, Saves(c)
    PROVE  PutSave(c)
<1>1. ClientsTypeOK
    BY ApiTypeParts
<1>2. request'[c] # request[c] /\ doc' # doc /\ request[c].pc = "save"
    BY DEF Saves
<1>3. ASSUME NEW d \in Clients, Client(d)
      PROVE  d = c
    BY <1>2, <1>3, OthersUntouched
<1>4. Client(c)
    BY <1>2, <1>3 DEF ApiNext, apiVars, allVars
<1> QED  BY <1>2, <1>4 DEF Client, GetDocument, PutRequest, PutCheck, PutRefused, RequestFails,
                           DeltaReadDocument, DeltaReadApplications, storeVars

\* PutDocument with the client's version finds the client's document.
LEMMA ConditionalSave ==
    ASSUME ApiTypeOK, ClientsKnow, NEW c \in Clients, PutSave(c), request[c].expected # NoVersion
    PROVE  doc = base[c]
<1>1. ClientsTypeOK /\ TypeOK
    BY ApiTypeParts
<1>2. /\ Accepts(doc, BaseVersion(c))
      /\ BaseVersion(c) # NoVersion
    BY DEF PutSave, Put, PutDocument, ClientsKnow, SaveOfBase
<1>3. \A d \in Document : d.version \in Nat \ {0}
    BY DocumentStoreAssumption DEF Document, Version
<1>4. base[c] \in Document \cup {NoDocument} /\ doc \in Document \cup {NoDocument}
    BY <1>1 DEF ClientsTypeOK, TypeOK, StoreTypeOK, DocumentTypeOK
<1>5. CASE doc = NoDocument
    <2>1. BaseVersion(c) = 0
        BY <1>2, <1>5 DEF Accepts
    <2> QED  BY <1>3, <1>4, <1>5, <2>1 DEF BaseVersion
<1>6. CASE doc # NoDocument
    <2>1. BaseVersion(c) = doc.version
        BY <1>2, <1>6 DEF Accepts
    <2>2. base[c] \in Document /\ base[c].version = doc.version
        BY <1>3, <1>4, <1>6, <2>1 DEF BaseVersion
    <2>3. base[c].body = doc.body
        BY <2>2, DocumentIsNotMissing DEF ClientsKnow, KnownBase, Names
    <2>4. doc \in Document
        BY <1>4, <1>6
    <2> QED  BY <2>2, <2>3, <2>4 DEF Document
<1> QED  BY <1>5, <1>6

\* A PUT that carries a version overwrites exactly the document its client had
\* (handlePutDocument, PutDocument), whoever else writes or replays.
THEOREM SavesAreExact == ApiSpec => SavesReplaceTheirBase
<1>1. ASSUME ApiTypeOK, ClientsKnow, [ApiNext]_allVars
      PROVE  [\A c \in Clients : Saves(c) /\ request[c].expected # NoVersion
                                    => doc = base[c]]_allVars
    BY <1>1, SaveIsPut, ConditionalSave
<1> QED  BY <1>1, ApiTypeCorrect, ClientsKnowCorrect, PTL DEF ApiSpec, SavesReplaceTheirBase

-----------------------------------------------------------------------------
\* An answer stays with its client, and with its base, until the next request.
LEMMA AnswerSteps ==
    ASSUME ApiTypeOK, ApiTypeOK', [ApiNext]_allVars, NEW c \in Clients
    PROVE  \/ answer'[c] = NoAnswer
           \/ answer'[c] = answer[c] /\ base'[c] = base[c]
           \/ \E useWatermark, included \in BOOLEAN, limit \in 1 .. MaxLimit :
                 DeltaReadApplications(c, useWatermark, included, limit)
<1>1. ClientsTypeOK /\ ClientsTypeOK'
    BY ApiTypeParts, ApiTypeNext DEF ApiTypeOK, ClientsTypeOK
<1>2. ASSUME NEW d \in Clients, d # c, Client(d)
      PROVE  answer'[c] = answer[c] /\ base'[c] = base[c]
    BY <1>2, OthersUntouched
<1>3. CASE Client(c)
    <2>1. CASE GetDocument(c) \/ DeltaReadDocument(c)
               \/ \E body \in Bodies, expected \in {NoVersion, BaseVersion(c)} :
                      PutRequest(c, body, expected)
        BY <1>1, <2>1 DEF GetDocument, DeltaReadDocument, PutRequest, Starts, ClientsTypeOK
    <2>2. CASE PutCheck(c) \/ PutSave(c) \/ PutRefused(c) \/ RequestFails(c)
        <3>1. request[c].pc # "none" /\ answer' = answer
            BY <2>2 DEF PutCheck, PutSave, PutRefused, RequestFails
        <3> QED  BY <1>1, <3>1 DEF ClientsTypeOK
    <2> QED  BY <1>3, <2>1, <2>2 DEF Client
<1>4. UNCHANGED apiVars => answer'[c] = answer[c] /\ base'[c] = base[c]
    BY DEF apiVars
<1>5. UNCHANGED allVars => UNCHANGED apiVars
    BY DEF allVars, apiVars
<1> QED  BY <1>2, <1>3, <1>4, <1>5 DEF ApiNext

\* The answer a delta gives now.
LEMMA DeltaGives ==
    ASSUME ApiTypeOK, ClientsKnow, NEW c \in Clients, NEW useWatermark \in BOOLEAN,
           NEW included \in BOOLEAN, NEW limit \in 1 .. MaxLimit,
           DeltaReadApplications(c, useWatermark, included, limit)
    PROVE  \E from \in 0 .. NumMutations :
              /\ answer'[c] = DeltaAnswer(request[c].read, BaseVersion(c), from, included, limit)
              /\ base'[c] = base[c] /\ request[c].read \in Document
              /\ UNCHANGED storeVars
<1>1. ClientsTypeOK
    BY ApiTypeParts
<1>2. (IF useWatermark THEN watermark[c] ELSE 0) \in 0 .. NumMutations
    BY <1>1, ReplayStoreAssumption DEF ClientsTypeOK
<1> QED  BY <1>1, <1>2 DEF DeltaReadApplications, ClientsTypeOK, Request

\* A delta just given tells the truth about versions.
LEMMA DeltaIsTrue ==
    ASSUME ApiTypeOK, ClientsKnow, NEW c \in Clients, request[c].pc = "delta",
           request[c].read \in Document, NEW from, NEW included, NEW limit
    PROVE  LET a == DeltaAnswer(request[c].read, BaseVersion(c), from, included, limit) IN
           /\ a.reason # "client_version_ahead"
           /\ a.reason = "up_to_date" => a.current.body = base[c].body
<1> DEFINE read == request[c].read
           a == DeltaAnswer(read, BaseVersion(c), from, included, limit)
<1>1. read.version \in Nat \ {0}
    BY DocumentStoreAssumption DEF Document, Version
<1>2. BaseVersion(c) \in Nat /\ BaseVersion(c) <= read.version
    BY <1>1, ApiTypeParts, BaseVersionType, DocumentStoreAssumption
    DEF ClientsKnow, DeltaAfterBase, BaseVersion
<1>3. BaseVersion(c) = read.version => base[c].body = read.body
    BY <1>1 DEF ClientsKnow, DeltaAfterBase, BaseVersion
<1>4. a.current = read
    BY DEF DeltaAnswer
<1>5. a.reason # "client_version_ahead"
    BY <1>1, <1>2 DEF DeltaAnswer
<1>6. a.reason = "up_to_date" => read.version = BaseVersion(c)
    BY DEF DeltaAnswer
<1> QED  BY <1>3, <1>4, <1>5, <1>6

\* "up to date" is true and a client of the server is never ahead of it
\* (GetSyncDeltaMetadata), whatever commits between its two reads.
THEOREM UpToDateHolds == ApiSpec => []UpToDateIsTrue
<1>1. ApiInit => UpToDateIsTrue
    BY SentinelsAreTyped DEF ApiInit, UpToDateIsTrue
<1>2. ASSUME ApiTypeOK, ApiTypeOK', ClientsKnow, UpToDateIsTrue, [ApiNext]_allVars
      PROVE  UpToDateIsTrue'
    <2> SUFFICES ASSUME NEW c \in Clients
                 PROVE  /\ answer'[c].reason # "client_version_ahead"
                        /\ answer'[c].reason = "up_to_date"
                              => answer'[c].current.body = base'[c].body
        BY DEF UpToDateIsTrue
    <2>1. CASE answer'[c] = NoAnswer
        BY <2>1, SentinelsAreTyped
    <2>2. CASE answer'[c] = answer[c] /\ base'[c] = base[c]
        BY <1>2, <2>2 DEF UpToDateIsTrue
    <2>3. ASSUME NEW useWatermark \in BOOLEAN, NEW included \in BOOLEAN,
                 NEW limit \in 1 .. MaxLimit,
                 DeltaReadApplications(c, useWatermark, included, limit)
          PROVE  /\ answer'[c].reason # "client_version_ahead"
                 /\ answer'[c].reason = "up_to_date"
                       => answer'[c].current.body = base'[c].body
        <3>1. PICK from \in 0 .. NumMutations :
                 /\ answer'[c] = DeltaAnswer(request[c].read, BaseVersion(c), from, included, limit)
                 /\ base'[c] = base[c] /\ request[c].read \in Document
            BY <1>2, <2>3, DeltaGives
        <3>2. request[c].pc = "delta"
            BY <2>3 DEF DeltaReadApplications
        <3> QED  BY <1>2, <3>1, <3>2, DeltaIsTrue
    <2> QED  BY <1>2, <2>1, <2>2, <2>3, AnswerSteps
<1> QED  BY <1>1, <1>2, ApiTypeCorrect, ClientsKnowCorrect, PTL DEF ApiSpec

-----------------------------------------------------------------------------
\* What DeltaHidesNoApplication says of one row and one answer.
Reported(m, a) ==
    applications[m].versionAfter <= a.current.version =>
        IF a.from = 0 THEN applications[m].versionAfter <= a.since ELSE RowId(m) <= a.from

HidesNothing(a) ==
    a.included /\ a.reason \in {"up_to_date", "document_version_changed"} =>
        \A m \in Applied : Reported(m, a)

\* An answer tells of a document the store has reached.
AnswerIsPast(a) ==
    a.reason # "none" =>
        doc \in Document /\ a.current \in Document /\ a.current.version <= doc.version

AnswersHideNothing == \A c \in Clients : HidesNothing(answer[c]) /\ AnswerIsPast(answer[c])

LEMMA RowIdType ==
    ASSUME NEW m
    PROVE  RowId(m) \in Nat
<1>1. IsFiniteSet(MutationId)
    BY ReplayStoreAssumption, FS_Interval DEF MutationId
<1>2. IsFiniteSet({k \in Applied : k = m \/ Precedes(receipts, k, m)})
    <2>1. {k \in Applied : k = m \/ Precedes(receipts, k, m)} \subseteq MutationId
        BY DEF Applied
    <2> QED  BY <1>1, <2>1, FS_Subset
<1> QED  BY <1>2, FS_CardinalityType DEF RowId

\* A delta just given lists every row its client lacks.
LEMMA DeltaHidesNothing ==
    ASSUME TypeOK, NEW read \in Document, NEW since \in 0 .. MaxVersion,
           NEW from \in 0 .. NumMutations, NEW included, NEW limit
    PROVE  HidesNothing(DeltaAnswer(read, since, from, included, limit))
<1> DEFINE a == DeltaAnswer(read, since, from, included, limit)
<1> SUFFICES ASSUME a.included, a.reason \in {"up_to_date", "document_version_changed"},
                    NEW m \in Applied
             PROVE  Reported(m, a)
    BY DEF HidesNothing
<1>1. a.included = included /\ a.from = from /\ a.since = since
    BY DEF DeltaAnswer
<1>2. RowsAfter(since, from) = {}
    BY <1>1 DEF DeltaAnswer
<1>3. ~ (IF from = 0 THEN applications[m].versionAfter > since ELSE RowId(m) > from)
    BY <1>2 DEF RowsAfter
<1>4. applications[m].versionAfter \in Nat /\ RowId(m) \in Nat
    BY RowIdType, RememberedVersions
<1>5. since \in Int /\ from \in Int
    OBVIOUS
<1> HIDE DEF a
<1> QED  BY <1>1, <1>3, <1>4, <1>5 DEF Reported

\* Rows keep their ids.
LEMMA RowIdsStay ==
    ASSUME TypeOK, References, [Next]_vars, applications' = applications, NEW m \in Applied
    PROVE  RowId(m)' = RowId(m)
<1>1. Applied' = Applied
    BY DEF Applied
<1>2. \A k \in Applied : receipts'[k] = receipts[k]
    BY AppliedRowsAreFinal
<1>3. \A k \in Applied : Precedes(receipts', k, m) <=> Precedes(receipts, k, m)
    BY <1>2 DEF Precedes
<1>4. {k \in Applied' : k = m \/ Precedes(receipts', k, m)}
          = {k \in Applied : k = m \/ Precedes(receipts, k, m)}
    BY <1>1, <1>3
<1> QED  BY <1>4 DEF RowId

\* An answer stays complete: rows that are written later belong to versions it
\* does not speak of.
LEMMA AnswerStays ==
    ASSUME TypeOK, References, [Next]_vars, NEW a, HidesNothing(a), AnswerIsPast(a)
    PROVE  HidesNothing(a)' /\ AnswerIsPast(a)'
<1>1. AnswerIsPast(a)'
    <2> SUFFICES ASSUME a.reason # "none"
                 PROVE  doc' \in Document /\ a.current.version <= doc'.version
        BY DEF AnswerIsPast
    <2>1. /\ doc \in Document /\ a.current \in Document
          /\ a.current.version <= doc.version
        BY DEF AnswerIsPast
    <2>2. doc' = doc \/ (doc' \in Document /\ doc'.version > doc.version)
        BY <2>1, DocumentMovesForward, DocumentIsNotMissing
    <2>3. \A d \in Document : d.version \in Nat
        BY DocumentStoreAssumption DEF Document, Version
    <2> QED  BY <2>1, <2>2, <2>3
<1>2. CASE applications' = applications
    <2>1. Applied' = Applied
        BY <1>2 DEF Applied
    <2>2. \A m \in Applied : Reported(m, a) => Reported(m, a)'
        BY <1>2, RowIdsStay DEF Reported
    <2> QED  BY <1>1, <2>1, <2>2 DEF HidesNothing
<1>3. ASSUME NEW o \in ObservationId, Apply(o)
      PROVE  HidesNothing(a)'
    <2> SUFFICES ASSUME a.reason # "none", NEW m \in Applied'
                 PROVE  ~ (applications'[m].versionAfter <= a.current.version)
        BY DEF HidesNothing, Reported
    <2>1. applications'[m].versionAfter = doc'.version
        BY <1>3, AppliedRows DEF References
    <2>2. /\ doc \in Document /\ a.current \in Document
          /\ a.current.version <= doc.version
        BY DEF AnswerIsPast
    <2>3. doc'.version = doc.version + 1
        BY <1>3 DEF Apply, Replayable, WriteReplay, Written
    <2>4. doc.version \in Nat /\ a.current.version \in Nat
        BY <2>2, DocumentStoreAssumption DEF Document, Version
    <2> QED  BY <2>1, <2>2, <2>3, <2>4
<1> QED  BY <1>1, <1>2, <1>3, RowsOnlyByApply

\* A delta that was asked for applications and lists none leaves out no replayed
\* mutation of the version it reports (GetSyncDeltaMetadata and its filters).
THEOREM DeltaIsComplete == ApiSpec => []DeltaHidesNoApplication
<1>1. HidesNothing(NoAnswer) /\ AnswerIsPast(NoAnswer)
    BY SentinelsAreTyped DEF HidesNothing, AnswerIsPast
<1>2. (HidesNothing(NoAnswer) /\ AnswerIsPast(NoAnswer))'
    BY SentinelsAreTyped DEF HidesNothing, AnswerIsPast
<1>3. ApiInit => AnswersHideNothing
    BY <1>1 DEF ApiInit, AnswersHideNothing
<1>4. ASSUME ApiTypeOK, ApiTypeOK', ClientsKnow, References, AnswersHideNothing,
             [ApiNext]_allVars
      PROVE  AnswersHideNothing'
    <2>1. TypeOK /\ TypeOK' /\ [Next]_vars
        BY <1>4, ApiSteps, TypeNext, ApiTypeParts
    <2> SUFFICES ASSUME NEW c \in Clients
                 PROVE  HidesNothing(answer[c])' /\ AnswerIsPast(answer[c])'
        BY DEF AnswersHideNothing
    <2>2. CASE answer'[c] = NoAnswer
        BY <1>2, <2>2 DEF HidesNothing, AnswerIsPast, Reported
    <2>3. CASE answer'[c] = answer[c]
        <3>1. ASSUME NEW a, a = answer[c]  PROVE HidesNothing(a)' /\ AnswerIsPast(a)'
            BY <1>4, <2>1, <3>1, AnswerStays DEF AnswersHideNothing
        <3> QED  BY <2>3, <3>1 DEF HidesNothing, AnswerIsPast, Reported
    <2>4. ASSUME NEW useWatermark \in BOOLEAN, NEW included \in BOOLEAN,
                 NEW limit \in 1 .. MaxLimit,
                 DeltaReadApplications(c, useWatermark, included, limit)
          PROVE  HidesNothing(answer[c])' /\ AnswerIsPast(answer[c])'
        <3>1. PICK from \in 0 .. NumMutations :
                 /\ answer'[c] = DeltaAnswer(request[c].read, BaseVersion(c), from, included, limit)
                 /\ base'[c] = base[c] /\ request[c].read \in Document
                 /\ UNCHANGED storeVars
            BY <1>4, <2>4, DeltaGives
        <3> DEFINE a == DeltaAnswer(request[c].read, BaseVersion(c), from, included, limit)
        <3>2. HidesNothing(a)
            BY <1>4, <2>1, <3>1, DeltaHidesNothing, BaseVersionType, ApiTypeParts
        <3>3. a.current = request[c].read
            BY DEF DeltaAnswer
        <3>4. Names(request[c].read.version, request[c].read.body)
            BY <1>4, <2>4 DEF DeltaReadApplications, ClientsKnow, DeltaAfterBase
        <3>5. AnswerIsPast(a)
            BY <2>1, <3>1, <3>3, <3>4
            DEF AnswerIsPast, Names, TypeOK, StoreTypeOK, DocumentTypeOK
        <3> HIDE DEF a
        <3>6. answer'[c] = a
            BY <3>1 DEF a
        <3>7. /\ doc' = doc /\ applications' = applications /\ receipts' = receipts
              /\ Applied' = Applied
            BY <3>1 DEF storeVars, Applied
        <3>8. \A m \in Applied : RowId(m)' = RowId(m)
            BY <1>4, <2>1, <3>7, RowIdsStay
        <3> QED  BY <3>2, <3>5, <3>6, <3>7, <3>8 DEF HidesNothing, AnswerIsPast, Reported
    <2> QED  BY <1>4, <2>2, <2>3, <2>4, AnswerSteps
<1>5. AnswersHideNothing => DeltaHidesNoApplication
    BY DEF AnswersHideNothing, HidesNothing, Reported, DeltaHidesNoApplication
<1>6. ApiSpec => []References
    BY ApiImplements, ReferencesCorrect, PTL DEF ImplementsReplaySystem
<1> QED  BY <1>3, <1>4, <1>5, <1>6, ApiTypeCorrect, ClientsKnowCorrect, PTL DEF ApiSpec
=============================================================================
