--------------------------- MODULE MCMermaidImport ---------------------------
(***************************************************************************)
(* Instances of MermaidImport.  Sources of up to four lines about two      *)
(* nodes and one more, in the forms and labels that can meet in a merge;   *)
(* and graphs handed over directly: GoodRequests are mostly accepted and   *)
(* vary what the layout reads (shapes, sizes, spacings, directions,        *)
(* cycles, explicit positions, an origin near the end of the canvas),      *)
(* BadRequests vary what validation reads, and FourNodeGraphs are all      *)
(* graphs of four nodes.                                                   *)
(***************************************************************************)
EXTENDS MermaidImport, SequencesExt

Ref(id, form, label) == [id |-> id, form |-> form, label |-> label]

RefsToA ==
    {Ref("A", "bare", ""), Ref("A", "circle", ""), Ref("A", "circle", "one"),
     Ref("A", "square", "two"), Ref("A", "rhombus", "two"), Ref("A", "flag", "one")}

Broken == {Ref("", "empty", ""), Ref("", "no pattern", ""), Ref("A", "round", "too long")}

EdgeLine(left, right, arrow) == [kind |-> "edge", left |-> left, right |-> right, arrow |-> arrow]

SomeLines ==
    {[kind |-> k] : k \in {"blank", "semicolons", "ignored"}} \cup
    {[kind |-> "header", direction |-> d] : d \in {"TB", "LR"}} \cup
    {[kind |-> "diagram", name |-> "pie"]} \cup
    {[kind |-> "node", ref |-> r] : r \in RefsToA \cup Broken} \cup
    {EdgeLine(a, Ref("B", "stadium", "one"), "arrow") : a \in RefsToA} \cup
    {EdgeLine(Ref("B", "bare", ""), a, "line") : a \in {Ref("A", "bare", ""), Ref("A", "database", "one")}} \cup
    {EdgeLine(Ref("pie", "flag", "two"), b, "line") : b \in Broken \cup {Ref("A", "subroutine", "")}} \cup
    {EdgeLine(Ref("A", "bare", ""), Ref("A", "circle", "one"), "arrow")}

Calls ==
    {[originX |-> x, originY |-> Absent, spacingX |-> s, spacingY |-> Junk] :
        x \in {0, 99900}, s \in {Absent, -1}}

-----------------------------------------------------------------------------
Node(id, shape) ==
    [id |-> id, label |-> "text", x |-> Absent, y |-> Absent, shape |-> shape,
     width |-> Absent, height |-> Absent]

Edge(from, to) == [from |-> from, to |-> to, kind |-> "arrow"]

NoOptions ==
    [direction |-> Absent, spacingX |-> Absent, spacingY |-> Absent,
     originX |-> Absent, originY |-> Absent]

Graph(ns, es, options) == [nodes |-> ns, edges |-> es, options |-> options]

EdgeLists ==
    {<<>>, <<Edge("A", "B")>>, <<Edge("C", "A"), Edge("A", "B")>>,
     <<Edge("A", "B"), Edge("B", "C"), Edge("C", "A")>>,
     <<Edge("A", "B"), Edge("A", "C"), Edge("B", "C")>>, <<Edge("A", "C"), Edge("B", "C")>>}

Sized ==
    {Node("B", s) : s \in {"default", "oval", "circle", "triangle", "hexagon", "no such shape"}} \cup
    {[Node("B", "default") EXCEPT !.width = 9999, !.height = 1],
     [Node("B", "diamond") EXCEPT !.width = 600],
     [Node("B", "square") EXCEPT !.width = 600, !.height = 80],
     [Node("B", "hexagon") EXCEPT !.width = 187, !.label = ""],
     [Node("B", "default") EXCEPT !.x = 10, !.y = 10]}

GoodRequests ==
    {[graph |-> Graph(<<Node("A", s), b, Node("C", "circle")>>, es,
                      [NoOptions EXCEPT !.direction = d, !.spacingX = sx, !.originY = 7]),
      originX |-> ox, originY |-> Absent] :
        s \in {"default", "oval"}, b \in Sized, es \in EdgeLists,
        d \in {"TD", "LR", Absent}, sx \in {Absent, 1, 700}, ox \in {Absent, 0, 99700}}

BadNodes ==
    {Junk} \cup {[Node("B", "default") EXCEPT !.id = i] : i \in {"", "A", Absent, Junk}} \cup
    {[Node("B", s) EXCEPT !.width = w, !.height = h] :
        s \in {"oval", "circle"}, w \in {Absent, Junk, 10}, h \in {Absent, Junk, 500}} \cup
    {[Node("B", "default") EXCEPT !.x = x, !.y = y] :
        x \in {Absent, Junk, 0, 100000, 100001}, y \in {Absent, Junk, -100000}} \cup
    {[Node("B", "default") EXCEPT !.label = l, !.x = 1, !.y = -100001] :
        l \in {Junk, "too long", Absent}} \cup
    {[Node("B", "circle") EXCEPT !.label = l] : l \in {Junk, "too long", "", Absent}}

BadEdges ==
    {Junk} \cup {[from |-> f, to |-> t, kind |-> k] :
        f \in {"A", "C", ""}, t \in {"B", "A", "no such node", Absent}, k \in {"line", Junk}}

BadRequests ==
    {[graph |-> Graph(<<Node("A", "default"), b, Node("C", "default")>>, <<Edge("A", "C"), e>>, NoOptions),
      originX |-> 5, originY |-> 5] : b \in BadNodes, e \in BadEdges} \cup
    {[graph |-> g, originX |-> 0, originY |-> 0] : g \in
        {Junk, Graph(Junk, <<>>, NoOptions), Graph(<<>>, Junk, NoOptions), Graph(Junk, Junk, NoOptions),
         Graph(<<>>, <<>>, NoOptions),
         Graph([i \in 1 .. 5 |-> Node("ABCDE", "default")], <<>>, NoOptions),
         Graph(<<Node("A", "default"), Node("B", "default"), Node("C", "default"), Node("D", "default"),
                 Node("E", "default")>>, <<>>, NoOptions),
         Graph(<<Node("A", "default"), Node("B", "default")>>,
               <<Edge("A", "B"), Edge("A", "B"), Edge("B", "A"), Edge("A", "A"), Junk, Junk, Junk>>, NoOptions)}}

\* Every legal set of edges between four nodes: at most one between two nodes.
Names == <<"A", "B", "C", "D">>
Pairs == {e \in (1 .. 4) \X (1 .. 4) : e[1] < e[2]}

EdgesOf(way) ==
    LET drawn == SetToSeq({e \in Pairs : way[e] # "none"}) IN
    [k \in DOMAIN drawn |->
        LET e == drawn[k] IN
        IF way[e] = "forth" THEN Edge(Names[e[1]], Names[e[2]]) ELSE Edge(Names[e[2]], Names[e[1]])]

FourNodeGraphs ==
    {[graph |-> Graph([i \in DOMAIN Names |-> Node(Names[i], "hexagon")], EdgesOf(way), NoOptions),
      originX |-> 0, originY |-> 0] : way \in [Pairs -> {"none", "forth", "back"}]}

AllRequests == GoodRequests \cup BadRequests \cup FourNodeGraphs
=============================================================================
