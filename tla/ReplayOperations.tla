-------------------------- MODULE ReplayOperations --------------------------
(***************************************************************************)
(* What replaying one mutation does to the tabs of a snapshot (store.go).  *)
(* Every operation exists twice: replayX performs it or returns false, and *)
(* the policy decides whether an authoritative replay lets it.  Here       *)
(* replayX is the set of possible results, empty when it returns false.    *)
(*                                                                         *)
(* A mutation is [op, entity, payload], its entity id not empty (the API   *)
(* refuses others).  Identifiers have no blanks around them.  Of an item's *)
(* fields there are its text, one coordinate and one size; texts are       *)
(* "short" or "long", beyond replayItemTextCharsMax.  Of the fields that   *)
(* only the operations decode there are a node's color, an edge's kind and *)
(* a new tab's index.                                                      *)
(***************************************************************************)
EXTENDS Integers, SequencesExt

CONSTANTS
    Malformed,      \* JSON of the wrong type, or a position that is none
    Absent,         \* a field the payload does not have
    ItemsPerTabMax, \* replayItemsPerTabMax
    EdgesPerTabMax  \* replayEdgesPerTabMax

-----------------------------------------------------------------------------
(* Looking up: the first match, 0 without one *)

TabIndex(tabs, t) == SelectInSeq(tabs, LAMBDA tab : tab.id = t)
HasTab(tabs, t) == TabIndex(tabs, t) # 0

\* The items and edges of the tab with this id.
ItemsOf(tabs, t) == IF HasTab(tabs, t) THEN tabs[TabIndex(tabs, t)].items ELSE <<>>
EdgesOf(tabs, t) == IF HasTab(tabs, t) THEN tabs[TabIndex(tabs, t)].edges ELSE <<>>

IndexOfId(list, id) == SelectInSeq(list, LAMBDA entry : entry.id = id)
HasItem(tabs, t, id) == IndexOfId(ItemsOf(tabs, t), id) # 0
HasEdge(tabs, t, id) == IndexOfId(EdgesOf(tabs, t), id) # 0

ItemAcrossTabs(tabs, id) == \E k \in DOMAIN tabs : IndexOfId(tabs[k].items, id) # 0

EdgeAcrossTabs(tabs, id) == \E k \in DOMAIN tabs : IndexOfId(tabs[k].edges, id) # 0

Joins(edge, a, b) == {edge.from, edge.to} = {a, b}
EdgeByEndpoints(tabs, t, a, b) == \E e \in ToSet(EdgesOf(tabs, t)) : Joins(e, a, b)

\* An operation on a tab may name it in the payload as well, but not another one.
NamesOtherTab(m) ==
    /\ m.op \in {"UpdateTab", "DeleteTab", "ClearTabNodes"}
    /\ m.payload.tab \notin {Absent, m.entity}

\* What the policy reads of the payload decodes and is about the entity.
Decodes(m) == m.payload # Malformed /\ ~NamesOtherTab(m)

TooLong(text) == text = "long"

Within(low, high, v) == IF v < low THEN low ELSE IF v > high THEN high ELSE v
normalizePosition(p) == Within(-100000, 100000, p)
normalizeDimension(v) == Within(120, 600, v)

DimensionOutOfBounds(v) == v # Absent /\ normalizeDimension(v) # v

\* The order a payload asks for, if it is one of all tabs.
IsTabOrder(tabs, order) ==
    /\ Len(order) = Len(tabs)
    /\ ToSet(order) \subseteq {tabs[k].id : k \in DOMAIN tabs}
    /\ IsInjective(order)

AlreadyOrdered(tabs, order) == order = [k \in DOMAIN tabs |-> tabs[k].id]

-----------------------------------------------------------------------------
(* The operations, on a payload that decodes *)

If(condition, result) == IF condition THEN {result} ELSE {}

replayCreateNode(tabs, id, p) ==
    If(/\ p.color # Malformed
       /\ HasTab(tabs, p.tab) /\ ~ItemAcrossTabs(tabs, id) /\ p.position # Malformed,
       [tabs EXCEPT ![TabIndex(tabs, p.tab)].items =
           Append(@, [id |-> id, name |-> p.name, position |-> normalizePosition(p.position),
                      width |-> IF p.width = Absent THEN Absent ELSE normalizeDimension(p.width)])])

\* One entry of the changes; name and text are the same field, color and shape
\* are like them, height is like width.
Usable(field, value) == field \in {"name", "text", "width"} /\ value # Malformed

\* The usable changes are made in the order of a Go map: of name and text
\* either may be the last.
replayUpdateNode(tabs, id, p) ==
    LET usable == {f \in DOMAIN p.changes : Usable(f, p.changes[f])}
        t == TabIndex(tabs, p.tab)
        i == IndexOfId(ItemsOf(tabs, p.tab), id)
        item == tabs[t].items[i]
        names == IF usable \cap {"name", "text"} = {} THEN {item.name}
                 ELSE {p.changes[f] : f \in usable \cap {"name", "text"}}
        width == IF "width" \in usable THEN normalizeDimension(p.changes["width"]) ELSE item.width
    IN  IF ~HasItem(tabs, p.tab, id) \/ usable = {} THEN {}
        ELSE {[tabs EXCEPT ![t].items[i].name = name, ![t].items[i].width = width] : name \in names}

\* The entries that pass, in order.
Kept(list, Passes(_)) ==
    LET passing == {i \in DOMAIN list : Passes(list[i])}
        place(k) == CHOOSE i \in passing : Cardinality({j \in passing : j < i}) = k - 1
    IN  [k \in 1 .. Cardinality(passing) |-> list[place(k)]]

replayMoveNode(tabs, id, p) ==
    If(HasItem(tabs, p.tab, id) /\ p.position # Malformed,
       [tabs EXCEPT ![TabIndex(tabs, p.tab)].items[IndexOfId(ItemsOf(tabs, p.tab), id)].position =
           normalizePosition(p.position)])

\* Broken variant: only the edges that leave the node are removed
replayDeleteNodeHalf(tabs, id, p) ==
    LET t == TabIndex(tabs, p.tab)
        tab == tabs[t]
    IN  If(HasItem(tabs, p.tab, id),
           [tabs EXCEPT ![t] =
               [tab EXCEPT !.items = RemoveAt(tab.items, IndexOfId(tab.items, id)),
                           !.edges = Kept(tab.edges, LAMBDA e : e.from # id)]])

replayDeleteNode(tabs, id, p) ==
    LET t == TabIndex(tabs, p.tab)
        tab == tabs[t]
    IN  If(HasItem(tabs, p.tab, id),
           [tabs EXCEPT ![t] =
               [tab EXCEPT !.items = RemoveAt(tab.items, IndexOfId(tab.items, id)),
                           !.edges = Kept(tab.edges, LAMBDA e : id \notin {e.from, e.to})]])

replayCreateEdge(tabs, id, p) ==
    If(/\ p.kind # Malformed
       /\ HasTab(tabs, p.tab) /\ ~EdgeAcrossTabs(tabs, id)
       /\ p.from # p.to
       /\ HasItem(tabs, p.tab, p.from) /\ HasItem(tabs, p.tab, p.to)
       /\ ~EdgeByEndpoints(tabs, p.tab, p.from, p.to),
       [tabs EXCEPT ![TabIndex(tabs, p.tab)].edges =
           Append(@, [id |-> id, from |-> p.from, to |-> p.to])])

replayDeleteEdge(tabs, id, p) ==
    If(HasEdge(tabs, p.tab, id),
       [tabs EXCEPT ![TabIndex(tabs, p.tab)].edges = RemoveAt(@, IndexOfId(@, id))])

replayCreateTab(tabs, id, p) ==
    LET index == IF p.index = Absent THEN Len(tabs) ELSE Within(0, Len(tabs), p.index) IN
    If(p.index # Malformed /\ ~HasTab(tabs, id),
       InsertAt(tabs, index + 1, [id |-> id, name |-> p.name, items |-> <<>>, edges |-> <<>>]))

replayUpdateTab(tabs, id, p) ==
    If(HasTab(tabs, id) /\ "name" \in DOMAIN p.changes /\ p.changes["name"] # Malformed,
       [tabs EXCEPT ![TabIndex(tabs, id)].name = p.changes["name"]])

replayDeleteTab(tabs, id, p) ==
    If(HasTab(tabs, id) /\ Len(tabs) > 1, RemoveAt(tabs, TabIndex(tabs, id)))

replayReorderTabs(tabs, id, p) ==
    If(IsTabOrder(tabs, p.order) /\ ~AlreadyOrdered(tabs, p.order),
       [k \in DOMAIN tabs |-> tabs[TabIndex(tabs, p.order[k])]])

replayClearTabNodes(tabs, id, p) ==
    If(ItemsOf(tabs, id) # <<>>, [tabs EXCEPT ![TabIndex(tabs, id)].items = <<>>])

\* The switch of both replays over the operation types.
Replayed(tabs, m) ==
    IF ~Decodes(m) THEN {} ELSE
    CASE m.op = "CreateNode"    -> replayCreateNode(tabs, m.entity, m.payload)
      [] m.op = "UpdateNode"    -> replayUpdateNode(tabs, m.entity, m.payload)
      [] m.op = "MoveNode"      -> replayMoveNode(tabs, m.entity, m.payload)
      [] m.op = "DeleteNode"    -> replayDeleteNode(tabs, m.entity, m.payload)
      [] m.op = "CreateEdge"    -> replayCreateEdge(tabs, m.entity, m.payload)
      [] m.op = "DeleteEdge"    -> replayDeleteEdge(tabs, m.entity, m.payload)
      [] m.op = "CreateTab"     -> replayCreateTab(tabs, m.entity, m.payload)
      [] m.op = "UpdateTab"     -> replayUpdateTab(tabs, m.entity, m.payload)
      [] m.op = "DeleteTab"     -> replayDeleteTab(tabs, m.entity, m.payload)
      [] m.op = "ReorderTabs"   -> replayReorderTabs(tabs, m.entity, m.payload)
      [] m.op = "ClearTabNodes" -> replayClearTabNodes(tabs, m.entity, m.payload)

-----------------------------------------------------------------------------
(* The policy: each operation's objections, in the order they are looked at *)

Allowed == [status |-> "allowed", reason |-> "none"]

\* The first objection <<holds, status, reason>> that holds.
FirstOf(objections) ==
    LET k == SelectInSeq(objections, LAMBDA o : o[1]) IN
    IF k = 0 THEN Allowed ELSE [status |-> objections[k][2], reason |-> objections[k][3]]

createNodePolicy(tabs, id, p) == FirstOf(<<
    <<~HasTab(tabs, p.tab), "conflict", "missing_tab">>,
    <<ItemAcrossTabs(tabs, id), "skip", "duplicate_item_id_existing">>,
    <<Len(ItemsOf(tabs, p.tab)) >= ItemsPerTabMax, "skip", "item_limit_exceeded">>,
    <<TooLong(p.name), "skip", "text_limit_exceeded">>,
    <<p.position = Malformed, "skip", "invalid_position">>,
    <<DimensionOutOfBounds(p.width), "skip", "invalid_dimensions">> >>)

TextObjection(value) == FirstOf(<<
    <<value = Malformed, "fatal", "invalid_payload">>,
    <<TooLong(value), "skip", "text_limit_exceeded">> >>)

SizeObjection(value) == FirstOf(<<
    <<value = Malformed \/ DimensionOutOfBounds(value), "skip", "invalid_dimensions">> >>)

UnknownField == [status |-> "skip", reason |-> "unknown_update_field"]

\* The changes are looked at in the order of a Go map: any objection may be first.
AnyOf(objections) == IF objections \subseteq {Allowed} THEN {Allowed} ELSE objections \ {Allowed}

NodeObjection(field, value) ==
    CASE field \in {"name", "text"} -> TextObjection(value)
      [] field = "width"            -> SizeObjection(value)
      [] OTHER                      -> UnknownField

TabObjection(field, value) == IF field = "name" THEN TextObjection(value) ELSE UnknownField

NodeObjections(changes) == AnyOf({NodeObjection(f, changes[f]) : f \in DOMAIN changes})
TabObjections(changes) == AnyOf({TabObjection(f, changes[f]) : f \in DOMAIN changes})

\* Broken variant: the node is looked for in every tab
updateNodePolicyAnywhere(tabs, id, p) ==
    LET first == FirstOf(<<
            <<~HasTab(tabs, p.tab), "conflict", "missing_tab">>,
            <<~ItemAcrossTabs(tabs, id), "conflict", "missing_node">> >>)
    IN  IF first # Allowed THEN {first} ELSE NodeObjections(p.changes)

updateNodePolicy(tabs, id, p) ==
    LET first == FirstOf(<<
            <<~HasTab(tabs, p.tab), "conflict", "missing_tab">>,
            <<~HasItem(tabs, p.tab, id), "conflict", "missing_node">> >>)
    IN  IF first # Allowed THEN {first} ELSE NodeObjections(p.changes)

moveNodePolicy(tabs, id, p) == FirstOf(<<
    <<~HasTab(tabs, p.tab), "conflict", "missing_tab">>,
    <<~HasItem(tabs, p.tab, id), "conflict", "missing_node">>,
    <<p.position = Malformed, "skip", "invalid_position">> >>)

deleteNodePolicy(tabs, id, p) == FirstOf(<<
    <<~HasTab(tabs, p.tab), "conflict", "missing_tab">>,
    <<~HasItem(tabs, p.tab, id), "skip", "missing_node">> >>)

createEdgePolicy(tabs, id, p) == FirstOf(<<
    <<~HasTab(tabs, p.tab), "conflict", "missing_tab">>,
    <<EdgeAcrossTabs(tabs, id), "skip", "duplicate_edge_id_existing">>,
    <<Absent \in {p.from, p.to}, "conflict", "missing_endpoint">>,
    <<p.from = p.to, "skip", "self_edge">>,
    <<EdgeByEndpoints(tabs, p.tab, p.from, p.to), "skip", "duplicate_endpoint_edge">>,
    <<~HasItem(tabs, p.tab, p.from) \/ ~HasItem(tabs, p.tab, p.to), "conflict", "missing_endpoint">>,
    <<Len(EdgesOf(tabs, p.tab)) >= EdgesPerTabMax, "skip", "edge_limit_exceeded">> >>)

deleteEdgePolicy(tabs, id, p) == FirstOf(<<
    <<~HasTab(tabs, p.tab), "conflict", "missing_tab">>,
    <<~HasEdge(tabs, p.tab, id), "skip", "missing_edge">> >>)

createTabPolicy(tabs, id, p) == FirstOf(<<
    <<HasTab(tabs, id), "skip", "duplicate_tab_id_existing">>,
    <<TooLong(p.name), "skip", "text_limit_exceeded">> >>)

updateTabPolicy(tabs, id, p) ==
    LET first == FirstOf(<<
            <<~HasTab(tabs, id), "conflict", "missing_tab">>,
            <<DOMAIN p.changes = {}, "skip", "empty_changes">> >>)
    IN  IF first # Allowed THEN {first} ELSE TabObjections(p.changes)

deleteTabPolicy(tabs, id, p) == FirstOf(<<
    <<~HasTab(tabs, id), "skip", "missing_tab">>,
    <<Len(tabs) <= 1, "skip", "last_tab">> >>)

reorderTabsPolicy(tabs, id, p) == FirstOf(<<
    <<~IsTabOrder(tabs, p.order), "skip", "invalid_tab_order">>,
    <<AlreadyOrdered(tabs, p.order), "skip", "already_ordered">> >>)

\* Broken variant: a tab without edges counts as empty
clearTabNodesPolicyByEdges(tabs, id, p) == FirstOf(<<
    <<~HasTab(tabs, id), "conflict", "missing_tab">>,
    <<EdgesOf(tabs, id) = <<>>, "skip", "missing_node">> >>)

clearTabNodesPolicy(tabs, id, p) == FirstOf(<<
    <<~HasTab(tabs, id), "conflict", "missing_tab">>,
    <<ItemsOf(tabs, id) = <<>>, "skip", "missing_node">> >>)

\* An id that occurs twice, in one list or in two.
HasDuplicates(lists) ==
    \E k, l \in DOMAIN lists : \E i \in DOMAIN lists[k], j \in DOMAIN lists[l] :
        <<k, i>> # <<l, j>> /\ lists[k][i].id = lists[l][j].id

AllItems(tabs) == [k \in DOMAIN tabs |-> tabs[k].items]
AllEdges(tabs) == [k \in DOMAIN tabs |-> tabs[k].edges]
DuplicatedIds(tabs) == HasDuplicates(AllItems(tabs)) \/ HasDuplicates(AllEdges(tabs))

\* evaluateSyncMutationReplayAuthoritativePolicyAgainstTabs: the possible verdicts.
Verdicts(tabs, m) ==
    IF DuplicatedIds(tabs) THEN {[status |-> "blocked", reason |-> "duplicate_ids"]}
    ELSE IF ~Decodes(m) THEN {[status |-> "fatal", reason |-> "invalid_payload"]}
    ELSE
    CASE m.op = "CreateNode"    -> {createNodePolicy(tabs, m.entity, m.payload)}
      [] m.op = "UpdateNode"    -> updateNodePolicy(tabs, m.entity, m.payload)
      [] m.op = "MoveNode"      -> {moveNodePolicy(tabs, m.entity, m.payload)}
      [] m.op = "DeleteNode"    -> {deleteNodePolicy(tabs, m.entity, m.payload)}
      [] m.op = "CreateEdge"    -> {createEdgePolicy(tabs, m.entity, m.payload)}
      [] m.op = "DeleteEdge"    -> {deleteEdgePolicy(tabs, m.entity, m.payload)}
      [] m.op = "CreateTab"     -> {createTabPolicy(tabs, m.entity, m.payload)}
      [] m.op = "UpdateTab"     -> updateTabPolicy(tabs, m.entity, m.payload)
      [] m.op = "DeleteTab"     -> {deleteTabPolicy(tabs, m.entity, m.payload)}
      [] m.op = "ReorderTabs"   -> {reorderTabsPolicy(tabs, m.entity, m.payload)}
      [] m.op = "ClearTabNodes" -> {clearTabNodesPolicy(tabs, m.entity, m.payload)}
=============================================================================
