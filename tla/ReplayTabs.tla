----------------------------- MODULE ReplayTabs -----------------------------
(***************************************************************************)
(* The two replays of one sequence of receipts onto one snapshot           *)
(* (store.go): the lenient dry run, whose result an observation records,   *)
(* and the authoritative one, which asks the policy before each receipt    *)
(* and gives up as a whole at the first that must not be skipped.          *)
(***************************************************************************)
EXTENDS ReplayOperations

CONSTANTS
    Snapshots,      \* tabs of stored documents
    Mutations,      \* what receipts may ask for
    MaxReceipts     \* bound: receipts replayed

\* What decodes: lists of tabs, which have lists of items and edges
\* (decodeReplaySnapshot); ids may occur twice.
IsArray(list) == Len(list) \in Nat /\ list = [i \in 1 .. Len(list) |-> list[i]]
IsTab(tab) ==
    /\ DOMAIN tab = {"id", "name", "items", "edges"}
    /\ IsArray(tab.items) /\ IsArray(tab.edges)
    /\ \A i \in DOMAIN tab.items : DOMAIN tab.items[i] = {"id", "name", "position", "width"}
    /\ \A i \in DOMAIN tab.edges : DOMAIN tab.edges[i] = {"id", "from", "to"}
IsTabs(list) == IsArray(list) /\ \A k \in DOMAIN list : IsTab(list[k])

\* What the API accepts of a mutation, and the types its payload decodes to.
IsMutation(m) ==
    /\ m.op \in {"CreateNode", "UpdateNode", "MoveNode", "DeleteNode", "CreateEdge", "DeleteEdge",
                "CreateTab", "UpdateTab", "DeleteTab", "ReorderTabs", "ClearTabNodes"}
    /\ m.op = "CreateTab" /\ m.payload # Malformed => m.payload.index \in Int \cup {Absent, Malformed}
    /\ m.op = "ReorderTabs" /\ m.payload # Malformed => IsArray(m.payload.order)

ASSUME ReplayTabsAssumption ==
    /\ \A list \in Snapshots : IsTabs(list)
    /\ \A m \in Mutations : IsMutation(m)
    /\ MaxReceipts \in Nat

VARIABLES
    source,         \* the tabs of the document
    dryTabs,        \* the tabs of the dry run
    tabs,           \* the tabs of the authoritative replay
    count,          \* receipts replayed
    verdict,        \* what the policy said of the last receipt
    abortedAt,      \* PolicyAbortMutationID: the receipt that ended it
    cleared,        \* history: tabs the authoritative replay has cleared
    divergent       \* history: a receipt the two treat differently on purpose

replayVars == <<source, dryTabs, tabs, count, verdict, abortedAt, cleared, divergent>>

NoMutation == [op |-> "none", entity |-> Absent, payload |-> Malformed]

ReplayInit ==
    /\ source \in Snapshots
    /\ dryTabs = source /\ tabs = source
    /\ count = 0 /\ verdict = Allowed /\ abortedAt = NoMutation
    /\ cleared = {} /\ divergent = FALSE

\* buildSyncMutationDryRunResult: a receipt that cannot be replayed is skipped.
DryRunStep(m) ==
    dryTabs' \in IF Replayed(dryTabs, m) = {} THEN {dryTabs} ELSE Replayed(dryTabs, m)

Failed == [status |-> "fatal", reason |-> "apply_after_allowed_failed"]

\* Limits and checks only the policy has, and text that is changed twice.
Stricter(v, m) ==
    \/ v.reason \in {"item_limit_exceeded", "edge_limit_exceeded", "text_limit_exceeded",
                     "invalid_dimensions", "unknown_update_field"}
    \/ m.op = "UpdateNode" /\ Cardinality(Replayed(tabs, m)) > 1

\* The progressive preview: allowed receipts are replayed, others skipped, and
\* any other verdict ends it.
AuthoritativeStep(m) ==
    \E v \in Verdicts(tabs, m) :
        /\ tabs' \in IF v = Allowed /\ Replayed(tabs, m) # {} THEN Replayed(tabs, m) ELSE {tabs}
        /\ verdict' = IF v = Allowed /\ Replayed(tabs, m) = {} THEN Failed ELSE v
        /\ divergent' = (divergent \/ Stricter(v, m))
        /\ cleared' = IF tabs' = tabs THEN cleared
                      ELSE IF m.op = "ClearTabNodes" THEN cleared \cup {m.entity} ELSE cleared

Stopped == verdict.status \notin {"allowed", "skip"}

\* Both replays follow the same receipts; what the dry run makes of those after
\* the authoritative one has stopped is compared with nothing.
ReplayReceipt(m) ==
    /\ count < MaxReceipts /\ ~Stopped
    /\ DryRunStep(m) /\ AuthoritativeStep(m)
    /\ count' = count + 1
    /\ abortedAt' = IF Stopped' THEN m ELSE NoMutation
    /\ UNCHANGED source

ReplayNext == \E m \in Mutations : ReplayReceipt(m)

ReplaySpec == ReplayInit /\ [][ReplayNext]_replayVars

-----------------------------------------------------------------------------
(***************************************************************************)
(* Properties                                                              *)
(***************************************************************************)
\* What the policy does not look at: an update of a node without changes, which
\* it skips for a tab, and fields that only the operation decodes.
PolicyBlindSpot(m) ==
    \/ m.op = "UpdateNode" /\ DOMAIN m.payload.changes = {}
    \/ m.op = "CreateNode" /\ m.payload.color = Malformed
    \/ m.op = "CreateEdge" /\ m.payload.kind = Malformed
    \/ m.op = "CreateTab" /\ m.payload.index = Malformed

\* A batch over a document without duplicate ids ends early only at a conflict
\* or at a receipt with an unusable payload: a replay never makes an id occur
\* twice (the policy would block everything after it, store.go:2652), and what
\* the policy allows the operation can do (:2316), but for its blind spots.
StopsAreExplained ==
    /\ verdict.status = "blocked" => DuplicatedIds(source)
    /\ verdict = Failed => PolicyBlindSpot(abortedAt)

Dangling(tab) ==
    {e \in ToSet(tab.edges) : ~({e.from, e.to} \subseteq {item.id : item \in ToSet(tab.items)})}

\* An edge without its items was stored that way or lost them when its tab was
\* cleared, which keeps edges on purpose ("preserve_existing_edges",
\* store_test.go:542); no other sequence of operations leaves one
\* (store.go:3227).
EdgesDangleOnlyAfterClear ==
    \A tab \in ToSet(tabs) :
       tab.id \notin cleared =>
          Dangling(tab) \subseteq UNION {Dangling(stored) : stored \in {s \in ToSet(source) : s.id = tab.id}}

\* The dry run an operator looks at is what the apply will do, unless the batch
\* stops, meets a limit that only the policy has, or changes a text twice in
\* one receipt (authoritative_preview_hash_matches_dry_run, store.go:1760).
DryRunPredictsApply ==
    ~Stopped /\ ~divergent => dryTabs = tabs
=============================================================================
