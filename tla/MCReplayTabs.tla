---------------------------- MODULE MCReplayTabs ----------------------------
(***************************************************************************)
(* Two tabs, three items of which a tab may hold two, two edges of which   *)
(* it may hold one; snapshots a page stores, and some that an import or an *)
(* older release left: duplicate ids, of items or of tabs, an edge without *)
(* its items, too many items.                                              *)
(***************************************************************************)
EXTENDS ReplayTabs

Item(id) == [id |-> id, name |-> "short", position |-> 0, width |-> Absent]
Edge(id, from, to) == [id |-> id, from |-> from, to |-> to]
Tab(id, items, edges) == [id |-> id, name |-> "short", items |-> items, edges |-> edges]

MCSnapshots ==
    {<<>>,
     <<Tab("t", <<>>, <<>>)>>,
     <<Tab("t", <<Item("a"), Item("b")>>, <<Edge("e", "a", "b")>>), Tab("u", <<>>, <<>>)>>,
     <<Tab("t", <<Item("a")>>, <<>>), Tab("u", <<Item("b"), Item("c")>>, <<Edge("e", "c", "c")>>)>>,
     <<Tab("t", <<Item("a")>>, <<Edge("e", "a", "lost")>>), Tab("u", <<Item("b"), Item("c")>>, <<>>)>>,
     <<Tab("t", <<Item("a"), Item("b"), Item("c")>>, <<>>)>>,
     <<Tab("t", <<Item("a"), Item("a")>>, <<>>), Tab("u", <<Item("b")>>, <<>>)>>,
     <<Tab("t", <<Item("a"), Item("b")>>, <<>>), Tab("t", <<Item("c")>>, <<Edge("e", "a", "c")>>)>>}

Mutation(op, entity, payload) == [op |-> op, entity |-> entity, payload |-> payload]

Node(tab, name, position, width, color) ==
    [tab |-> tab, name |-> name, position |-> position, width |-> width, color |-> color]
New(tab, name, position, width) == Node(tab, name, position, width, "plain")
EdgeFrom(tab, from, to, kind) == [tab |-> tab, from |-> from, to |-> to, kind |-> kind]
Changes == {<<>>, [name |-> "other"], [text |-> "long"], [name |-> Malformed, width |-> 300],
            [name |-> "other", text |-> "short"], [name |-> Malformed, other |-> "short"], [width |-> 9999]}

NodeMutations ==
    {Mutation("CreateNode", i, New(t, "short", 5, Absent)) : i \in {"a", "c"}, t \in {"t", "u"}} \cup
    {Mutation("CreateNode", "c", p) :
        p \in {Malformed, New("t", "long", 5, Absent), 
             New("t", "short", Malformed, 200), New("t", "short", 200000, 10), Node("t", "short", 5, Absent, Malformed)}} \cup
    {Mutation("UpdateNode", "a", [tab |-> "t", changes |-> c]) : c \in Changes} \cup
    {Mutation("UpdateNode", "b", [tab |-> "u", changes |-> [name |-> "other"]])} \cup
    {Mutation("MoveNode", "a", [tab |-> "t", position |-> p]) : p \in {7, Malformed}} \cup
    {Mutation("DeleteNode", i, [tab |-> t]) : i \in {"a", "b"}, t \in {"t", "u"}}

EdgeMutations ==
    {Mutation("CreateEdge", e, EdgeFrom(t, "a", "b", "line")) : e \in {"e", "f"}, t \in {"t", "u"}} \cup
    {Mutation("CreateEdge", e, EdgeFrom("u", f, "c", "line")) : e \in {"e", "f"}, f \in {"b", "c", Absent}} \cup
    {Mutation("CreateEdge", "f", EdgeFrom("u", "b", "c", Malformed))} \cup
    {Mutation("DeleteEdge", "e", [tab |-> t]) : t \in {"t", "u"}}

TabMutations ==
    {Mutation("CreateTab", t, [name |-> n, index |-> i]) : t \in {"t", "u"}, n \in {"short", "long"}, i \in {-1, Absent, Malformed}} \cup
    {Mutation(op, "t", [tab |-> t]) : op \in {"DeleteTab", "ClearTabNodes"}, t \in {Absent, "t", "u"}} \cup
    {Mutation("DeleteTab", "u", [tab |-> Absent])} \cup
    {Mutation("UpdateTab", "t", [tab |-> "t", changes |-> c]) :
        c \in {<<>>, [name |-> "other"], [name |-> Malformed, text |-> "long"]}} \cup
    {Mutation("ReorderTabs", "tabs", [order |-> o]) : o \in {<<"u", "t">>, <<"t", "u">>, <<"t">>}}

MCMutations == NodeMutations \cup EdgeMutations \cup TabMutations
=============================================================================
