---------------------------- MODULE GraphCreation ----------------------------
(***************************************************************************)
(* From a graph description to items and edges of a tab                    *)
(* (js/graph-creation.js, buildPostbabyGraphFromNormalizedGraph): validate *)
(* everything, lay the nodes out, validate the positions, and only then    *)
(* make items.  Nothing else runs in between, but a failure of either      *)
(* validation must leave nothing behind.                                   *)
(***************************************************************************)
EXTENDS GraphLayout, ItemShapes

CONSTANTS
    Junk,              \* a value of the wrong type: NaN, null, a number for a string
    GRAPH_MAX_NODES,
    GRAPH_MAX_EDGES

ASSUME GraphCreationAssumption ==
    /\ Absent \notin Int /\ Junk \notin Int /\ Absent # Junk
    /\ Absent \notin [width : Int, height : Int]

\* A graph somebody hands over: any part of it may be of a wrong type.
IsArray(list) == Len(list) \in Nat /\ DOMAIN list = 1 .. Len(list)

IsRawNode(node) ==
    node = Junk \/ {node.width, node.height} \subseteq Int \cup {Absent, Junk}

IsRawGraph(graph) ==
    graph = Junk \/
    /\ graph.nodes = Junk \/ (IsArray(graph.nodes)
                              /\ \A i \in DOMAIN graph.nodes : IsRawNode(graph.nodes[i]))
    /\ graph.edges = Junk \/ IsArray(graph.edges)

VARIABLES request, phase, nodes, edges, errors, items, itemEdges

creationVars == <<request, phase, nodes, edges, errors, items, itemEdges>>
graphVars == <<layoutVars, creationVars>>

MIN_CANVAS_COORD == -100000
MAX_CANVAS_COORD == 100000
GRAPH_DEFAULT_SPACING == [x |-> 260, y |-> 180]
GRAPH_DEFAULT_GAP == 40

WithinCanvas(x, y) ==
    /\ x \in MIN_CANVAS_COORD .. MAX_CANVAS_COORD
    /\ y \in MIN_CANVAS_COORD .. MAX_CANVAS_COORD

\* A trimmed string, or "" for anything else.
Text(value) == IF value \in {Absent, Junk} THEN "" ELSE value

Or(value, fallback) == IF value \in Int THEN value ELSE fallback

-----------------------------------------------------------------------------
(* Validation *)

getGraphNodeDefaultDimensions(shape) ==
    CASE shape = "default" -> [width |-> 220, height |-> 120]
      [] shape = "oval"    -> [width |-> 260, height |-> 120]
      [] shape \in {"square", "circle", "diamond"} ->
            [width |-> 180, height |-> getFixedRatioHeightFromWidth(shape, 180)]
      [] OTHER -> [width |-> 170, height |-> getFixedRatioHeightFromWidth(shape, 170)]

DimensionErrors(node, shape) ==
    LET wrong == (IF node.width = Junk THEN {"invalid_node_width"} ELSE {}) \cup
                 (IF node.height = Junk THEN {"invalid_node_height"} ELSE {})
        incomplete == \/ node.width = Absent /\ node.height # Absent
                      \/ shape \in FreeformShapes /\ node.width # Absent /\ node.height = Absent
    IN  IF wrong # {} THEN wrong
        ELSE IF incomplete THEN {"incomplete_node_dimensions"} ELSE {}

Dimensions(node, shape) ==
    LET width == normalizeItemDimension(node.width, MIN_WIDTH, MAX_WIDTH) IN
    IF node.width = Absent THEN getGraphNodeDefaultDimensions(shape)
    ELSE [width |-> width,
          height |-> IF node.height = Absent THEN getFixedRatioHeightFromWidth(shape, width)
                     ELSE normalizeItemDimension(node.height, MIN_HEIGHT, MAX_HEIGHT)]

\* Errors of the i-th raw node.  Its id is taken as soon as it is a new one, whatever
\* else is wrong with the node.
NodeErrors(raw, i) ==
    LET node == raw[i] IN
    IF node = Junk THEN {"invalid_node"}
    ELSE IF Text(node.id) = "" THEN {"missing_node_id"}
    ELSE IF \E j \in 1 .. i - 1 : raw[j] # Junk /\ raw[j].id = node.id THEN {"duplicate_node_id"}
    ELSE IF node.label = Junk THEN {"invalid_node_label"}
    ELSE IF node.label = "too long" THEN {"node_label_too_long"}
    ELSE IF (node.x = Absent) # (node.y = Absent) THEN {"incomplete_node_position"}
    ELSE IF node.x = Junk THEN {"invalid_node_x"}
    ELSE IF node.y = Junk THEN {"invalid_node_y"}
    ELSE IF node.x # Absent /\ ~ WithinCanvas(node.x, node.y) THEN {"node_position_out_of_bounds"}
    ELSE DimensionErrors(node, normalizeItemShape(node.shape))

NormalizedNode(node) ==
    LET shape == normalizeItemShape(node.shape)  size == Dimensions(node, shape) IN
    [id |-> node.id, label |-> IF Text(node.label) = "" THEN node.id ELSE node.label,
     shape |-> shape, width |-> size.width, height |-> size.height,
     x |-> node.x, y |-> node.y]

normalizeEdgeKind(kind) == IF kind = "arrow" THEN "arrow" ELSE "line"

\* The edge ends at two different nodes of the graph.
Connects(edge, ids) ==
    /\ edge # Junk
    /\ Text(edge.from) \in ids /\ Text(edge.to) \in ids
    /\ edge.from # edge.to

\* Broken variant: an edge back is no duplicate.
EdgeErrorsByDirection(raw, i, ids) ==
    LET edge == raw[i] IN
    IF ~ Connects(edge, ids) THEN {"invalid_edge"}
    ELSE IF \E j \in 1 .. i - 1 : Connects(raw[j], ids) /\ <<raw[j].from, raw[j].to>> = <<edge.from, edge.to>>
         THEN {"duplicate_edge_connection"}
    ELSE {}

\* Errors of the i-th raw edge, ids being the ids of the nodes without error.  Two
\* edges between the same nodes are duplicates whatever their directions.
EdgeErrors(raw, i, ids) ==
    LET edge == raw[i] IN
    IF edge = Junk THEN {"invalid_edge"}
    ELSE IF Text(edge.from) = "" THEN {"missing_edge_from"}
    ELSE IF Text(edge.to) = "" THEN {"missing_edge_to"}
    ELSE IF edge.from \notin ids THEN {"missing_edge_from_node"}
    ELSE IF edge.to \notin ids THEN {"missing_edge_to_node"}
    ELSE IF edge.from = edge.to THEN {"self_edge_not_allowed"}
    ELSE IF \E j \in 1 .. i - 1 :
                Connects(raw[j], ids) /\ {raw[j].from, raw[j].to} = {edge.from, edge.to}
         THEN {"duplicate_edge_connection"}
    ELSE {}

\* The elements without error, in order, and what they become.
Kept(raw, Clean(_), Become(_)) ==
    LET clean == {i \in DOMAIN raw : Clean(i)}
        place(k) == CHOOSE i \in clean : Cardinality({j \in clean : j < i}) = k - 1
    IN  [k \in 1 .. Cardinality(clean) |-> Become(raw[place(k)])]

normalizeGraphNodes(raw) ==
    Kept(raw, LAMBDA i : NodeErrors(raw, i) = {}, NormalizedNode)

IdsOf(list) == {list[k].id : k \in DOMAIN list}

normalizeGraphEdges(raw, ids) ==
    Kept(raw, LAMBDA i : EdgeErrors(raw, i, ids) = {},
         LAMBDA e : [from |-> e.from, to |-> e.to, kind |-> normalizeEdgeKind(e.kind)])

\* Not an object, or not two arrays: nothing further is looked at.
MalformedGraph(graph) ==
    IF graph = Junk THEN {"invalid_graph"}
    ELSE (IF graph.nodes = Junk THEN {"invalid_graph_nodes"} ELSE {}) \cup
         (IF graph.edges = Junk THEN {"invalid_graph_edges"} ELSE {})

GraphErrors(graph) ==
    LET ids == IdsOf(normalizeGraphNodes(graph.nodes)) IN
    UNION ({NodeErrors(graph.nodes, i) : i \in DOMAIN graph.nodes} \cup
           {EdgeErrors(graph.edges, i, ids) : i \in DOMAIN graph.edges}) \cup
    (IF Len(graph.nodes) > GRAPH_MAX_NODES THEN {"graph_node_limit_exceeded"} ELSE {}) \cup
    (IF Len(graph.edges) > GRAPH_MAX_EDGES THEN {"graph_edge_limit_exceeded"} ELSE {})

-----------------------------------------------------------------------------
(* Placement *)

Options == request.graph.options

Direction == IF Options.direction = "TD" THEN "TD" ELSE "LR"

\* The origin of the caller's build options comes before that of the graph.
Origin ==
    [x |-> Or(request.originX, Or(Options.originX, 0)),
     y |-> Or(request.originY, Or(Options.originY, 0))]

PositiveOr(value, fallback) == IF value \in Int /\ value > 0 THEN value ELSE fallback

\* Broken variant: large nodes are not made room for.
SpacingAsked ==
    [x |-> PositiveOr(Options.spacingX, GRAPH_DEFAULT_SPACING.x),
     y |-> PositiveOr(Options.spacingY, GRAPH_DEFAULT_SPACING.y)]

\* The spacing asked for, or more when a node would not fit.
SpacingFor(wanted, sizes) ==
    CHOOSE d \in {wanted} \cup {s + GRAPH_DEFAULT_GAP : s \in sizes} :
        d >= wanted /\ \A s \in sizes : d >= s + GRAPH_DEFAULT_GAP

effectiveSpacing ==
    [x |-> SpacingFor(PositiveOr(Options.spacingX, GRAPH_DEFAULT_SPACING.x),
                      {nodes[i].width : i \in DOMAIN nodes}),
     y |-> SpacingFor(PositiveOr(Options.spacingY, GRAPH_DEFAULT_SPACING.y),
                      {nodes[i].height : i \in DOMAIN nodes})]

AutoLaid(i) == nodes[i].x = Absent

\* Place of a node among the nodes without position in its layer.
PlaceInLayer(i) == Cardinality({j \in Nodes : j < i /\ AutoLaid(j) /\ layerOf[j] = layerOf[i]})

RelativePosition(i) ==
    IF ~ AutoLaid(i) THEN [x |-> nodes[i].x, y |-> nodes[i].y]
    ELSE IF Direction = "TD"
         THEN [x |-> PlaceInLayer(i) * effectiveSpacing.x, y |-> layerOf[i] * effectiveSpacing.y]
         ELSE [x |-> layerOf[i] * effectiveSpacing.x, y |-> PlaceInLayer(i) * effectiveSpacing.y]

Position(i) ==
    [x |-> Origin.x + RelativePosition(i).x, y |-> Origin.y + RelativePosition(i).y]

\* Broken variant: only the explicit positions of the input are checked.
NoPositionErrors == {}

FinalPositionErrors ==
    IF \E i \in DOMAIN nodes : ~ WithinCanvas(Position(i).x, Position(i).y)
    THEN {"generated_node_position_out_of_bounds"} ELSE {}

-----------------------------------------------------------------------------
NoLayout ==
    /\ nodeCount = 0 /\ links = {} /\ indegree = <<>> /\ layerOf = <<>> /\ processed = {}
    /\ stage = "idle"

NothingCreated ==
    /\ NoLayout
    /\ phase = "requested"
    /\ nodes = <<>> /\ edges = <<>> /\ errors = {}
    /\ items = <<>> /\ itemEdges = <<>>

IndexIn(list, id) == CHOOSE i \in DOMAIN list : list[i].id = id

DefinitionErrors(graph) ==
    IF MalformedGraph(graph) # {} THEN MalformedGraph(graph) ELSE GraphErrors(graph)

\* normalizeGraphDefinition found errors: the caller gets them and nothing else.
Reject ==
    /\ phase = "requested"
    /\ \E found \in {DefinitionErrors(request.graph)} :
          /\ found # {}
          /\ errors' = found
    /\ phase' = "rejected"
    /\ UNCHANGED <<layoutVars, request, nodes, edges, items, itemEdges>>

\* It found none.  The layers are needed when a node comes without a position.
Normalize ==
    /\ phase = "requested"
    /\ DefinitionErrors(request.graph) = {}
    /\ \E list \in {normalizeGraphNodes(request.graph.nodes)} :
       \E pairs \in {normalizeGraphEdges(request.graph.edges, IdsOf(list))} :
          /\ nodes' = list
          /\ edges' = pairs
          /\ IF \E i \in DOMAIN list : list[i].x = Absent
             THEN \E l \in {{<<IndexIn(list, pairs[k].from), IndexIn(list, pairs[k].to)>> :
                              k \in DOMAIN pairs}} : StartLayering(Len(list), l)
             ELSE UNCHANGED layoutVars
    /\ phase' = "layout"
    /\ UNCHANGED <<request, errors, items, itemEdges>>

Layout ==
    /\ phase = "layout"
    /\ ProcessNextNode \/ LayerTheRest
    /\ UNCHANGED creationVars

LayoutDone == phase = "layout" /\ stage # "layering"

RejectPositions ==
    /\ LayoutDone
    /\ FinalPositionErrors # {}
    /\ errors' = FinalPositionErrors
    /\ phase' = "rejected"
    /\ UNCHANGED <<layoutVars, request, nodes, edges, items, itemEdges>>

\* Items and edges with fresh ids: the calls of idFactory are numbered.
Create ==
    LET itemId(i) == i  edgeId(k) == Len(nodes) + k IN
    /\ LayoutDone
    /\ FinalPositionErrors = {}
    /\ items' = [i \in DOMAIN nodes |->
          [id |-> itemId(i), name |-> nodes[i].label, shape |-> nodes[i].shape,
           width |-> nodes[i].width, height |-> nodes[i].height,
           x |-> Position(i).x, y |-> Position(i).y]]
    /\ itemEdges' = [k \in DOMAIN edges |->
          [id |-> edgeId(k), kind |-> edges[k].kind,
           fromItemId |-> itemId(IndexIn(nodes, edges[k].from)),
           toItemId |-> itemId(IndexIn(nodes, edges[k].to))]]
    /\ phase' = "created"
    /\ UNCHANGED <<layoutVars, request, nodes, edges, errors>>

CreationNext == Reject \/ Normalize \/ Layout \/ RejectPositions \/ Create

-----------------------------------------------------------------------------
\* The box an item is drawn in: for a node given a width and a height that its fixed
\* ratio contradicts it is not the box the layout reserved.
Box(item) == getItemDerivedVisualBox(item)
DrawnAsReserved(i) == Box(items[i]) = [width |-> nodes[i].width, height |-> nodes[i].height]

Apart(a, b) ==
    \/ a.x + Box(a).width + GRAPH_DEFAULT_GAP <= b.x \/ b.x + Box(b).width + GRAPH_DEFAULT_GAP <= a.x
    \/ a.y + Box(a).height + GRAPH_DEFAULT_GAP <= b.y \/ b.y + Box(b).height + GRAPH_DEFAULT_GAP <= a.y

(***************************************************************************)
(* Items the layout placed never touch: their drawn boxes are the default  *)
(* gap apart, for all shapes, sizes, spacings and directions, and for the  *)
(* fallback layers of cycles too.                                          *)
(***************************************************************************)
NoOverlap ==
    phase = "created" =>
        \A i, j \in DOMAIN items :
            i # j /\ AutoLaid(i) /\ AutoLaid(j) /\ DrawnAsReserved(i) /\ DrawnAsReserved(j) =>
                Apart(items[i], items[j])

(***************************************************************************)
(* An accepted graph is imported whole: every node of the input is one     *)
(* item and every edge one edge between the items of the nodes it names;   *)
(* no two edges connect the same items and no item is connected to itself, *)
(* for a tab allows neither.                                               *)
(***************************************************************************)
ImportedWhole ==
    LET graph == request.graph IN
    phase = "created" =>
        /\ Len(items) = Len(graph.nodes)
        /\ Len(itemEdges) = Len(graph.edges)
        /\ \A k \in DOMAIN itemEdges :
              /\ graph.nodes[itemEdges[k].fromItemId].id = graph.edges[k].from
              /\ graph.nodes[itemEdges[k].toItemId].id = graph.edges[k].to
              /\ itemEdges[k].kind = graph.edges[k].kind \/ graph.edges[k].kind \notin {"line", "arrow"}
              /\ itemEdges[k].fromItemId # itemEdges[k].toItemId
              /\ \A l \in DOMAIN itemEdges :
                    {itemEdges[k].fromItemId, itemEdges[k].toItemId} =
                        {itemEdges[l].fromItemId, itemEdges[l].toItemId} => k = l

(***************************************************************************)
(* A created item is one the application can live with, and stays one when *)
(* its shape is changed by a wheel step or its handle is dragged: the      *)
(* normalization of a later load changes nothing in it, its size is drawn, *)
(* its text has room inside the box, and its position is on the canvas.    *)
(***************************************************************************)
PointerMoves == {-700, -33, 0, 20, 700}

\* What a wheel step and a drag of the handle make of an item.
Cycled(item) == {[item EXCEPT !.shape = cycleItemShapeValue(@, way)] : way \in {-1, 1}}

DragSizes(item) ==
    {getItemResizeFootprintFromPointer(item.shape, Box(item), dx, dy) :
        dx \in PointerMoves, dy \in PointerMoves}

Dragged(item) ==
    {[item EXCEPT !.width = size.width, !.height = size.height] : size \in DragSizes(item)}

Edited(item) == {item} \cup Cycled(item) \cup Dragged(item)

TextHasRoom(item) ==
    LET text == getShapeTextBounds(item.shape, Box(item).width, Box(item).height) IN
    /\ text.width > 0 /\ text.left + text.width < Box(item).width
    /\ text.height > 0 /\ text.top + text.height < Box(item).height

ItemsSurviveReload ==
    \A i \in DOMAIN items :
        /\ WithinCanvas(items[i].x, items[i].y)
        /\ items[i].name # ""
        /\ \A item \in Edited(items[i]) :
              /\ normalizeItemForRuntime(item) = item
              /\ Box(item) # Absent
              /\ TextHasRoom(item)
=============================================================================
