------------------------- MODULE MermaidImportProofs -------------------------
(***************************************************************************)
(* Proofs about the import of graphs: the layering loop on any finite      *)
(* graph, the items that come of an accepted one, and what the parser      *)
(* keeps of a source, for any sources, requests and limits.                *)
(***************************************************************************)
EXTENDS MermaidImport, FiniteSetTheorems, WellFoundedInduction, TLAPS

-----------------------------------------------------------------------------
(***************************************************************************)
(* The layering loop.  The invariant that carries its theorems: pending    *)
(* counts count the sources not processed yet, so a node is taken only     *)
(* after all its sources, and no cycle ever gets a node among the          *)
(* processed ones.                                                         *)
(***************************************************************************)

LayoutTypeOK ==
    /\ stage \in {"layering", "layered"}
    /\ nodeCount \in Nat
    /\ links \subseteq Nodes \X Nodes
    /\ processed \subseteq Nodes
    /\ indegree \in [Nodes -> Nat]
    /\ layerOf \in [Nodes -> Nat]

Pending(v) == Sources(v) \ processed

CountsArePendingSources == \A v \in Nodes : indegree[v] = Cardinality(Pending(v))

SourcesFirst == \A v \in processed : Sources(v) \subseteq processed

CyclesAreLeft == \A S \in SUBSET Nodes : FedFromWithin(S) => S \cap processed = {}

\* The part that only the loop has to keep.
LoopInv ==
    /\ LayoutTypeOK
    /\ CountsArePendingSources
    /\ SourcesFirst
    /\ CyclesAreLeft

-----------------------------------------------------------------------------
(* Finite sets of nodes *)

LEMMA NodeSetsFinite ==
    ASSUME nodeCount \in Nat, NEW S \in SUBSET Nodes
    PROVE  IsFiniteSet(S) /\ Cardinality(S) \in Nat
<1>1. IsFiniteSet(Nodes)
    BY FS_Interval DEF Nodes
<1> QED  BY <1>1, FS_Subset, FS_CardinalityType

LEMMA PendingAreNodes == \A v : Pending(v) \in SUBSET Nodes
BY DEF Pending, Sources

\* A ready node has no source left to process.
LEMMA ReadyHasNoPending ==
    ASSUME LoopInv, NEW u \in Ready
    PROVE  u \in Nodes /\ u \notin processed /\ Sources(u) \subseteq processed
<1>1. u \in Nodes /\ u \notin processed /\ Cardinality(Pending(u)) = 0
    BY DEF Ready, LoopInv, CountsArePendingSources
<1>2. IsFiniteSet(Pending(u))
    BY NodeSetsFinite, PendingAreNodes DEF LoopInv, LayoutTypeOK
<1>3. Pending(u) = {}
    BY <1>1, <1>2, FS_EmptySet
<1> QED  BY <1>1, <1>3 DEF Pending

\* The number of nodes of a set below a node grows with the node.
LEMMA RanksGrow ==
    ASSUME nodeCount \in Nat, NEW S \in SUBSET Nodes, NEW u \in S, NEW v \in S, u < v
    PROVE  Cardinality({w \in S : w < u}) < Cardinality({w \in S : w < v})
<1> DEFINE below(x) == {w \in S : w < x}
<1>0. \A w \in S : w \in Int
    BY DEF Nodes
<1>1. below(u) \in SUBSET below(v) /\ u \in below(v) /\ u \notin below(u)
    <2>1. \A w \in S : w < u => w < v
        BY <1>0
    <2>2. ~ (u < u)
        BY <1>0
    <2> QED  BY <2>1, <2>2
<1>2. IsFiniteSet(below(v)) /\ Cardinality(below(v)) \in Nat /\ Cardinality(below(u)) \in Nat
    BY NodeSetsFinite
<1> HIDE DEF below
<1>3. Cardinality(below(u)) <= Cardinality(below(v))
      /\ (Cardinality(below(v)) = Cardinality(below(u)) => below(v) = below(u))
    BY <1>1, <1>2, FS_Subset
<1>4. Cardinality(below(u)) < Cardinality(below(v))
    BY <1>1, <1>2, <1>3
<1> QED  BY <1>4 DEF below

-----------------------------------------------------------------------------
(* The loop *)

LEMMA LoopInit == Init => LoopInv
<1> SUFFICES ASSUME Init  PROVE LoopInv
    OBVIOUS
<1>1. nodeCount \in Nat /\ links \subseteq Nodes \X Nodes /\ processed = {}
      /\ stage = "layering" /\ layerOf \in [Nodes -> Nat]
    BY DEF Init
<1>2. \A v \in Nodes : Pending(v) = {u \in 1 .. nodeCount : <<u, v>> \in links}
    BY <1>1 DEF Pending, Sources, Nodes
<1>3. indegree = [v \in Nodes |-> Cardinality(Pending(v))]
    BY <1>2 DEF Init, Indegrees, Nodes
<1>4. \A v \in Nodes : Cardinality(Pending(v)) \in Nat
    BY <1>1, NodeSetsFinite, PendingAreNodes
<1>5. indegree \in [Nodes -> Nat] /\ CountsArePendingSources
    BY <1>3, <1>4 DEF CountsArePendingSources
<1> QED  BY <1>1, <1>5 DEF LoopInv, LayoutTypeOK, SourcesFirst, CyclesAreLeft

\* What an iteration does, for the node u it takes.
Takes(u) ==
    /\ u \in Ready
    /\ processed' = processed \cup {u}
    /\ indegree' = [v \in Nodes |-> IF <<u, v>> \in links THEN indegree[v] - 1 ELSE indegree[v]]
    /\ layerOf' = [v \in Nodes |-> IF <<u, v>> \in links THEN Below(layerOf[u], layerOf[v])
                                                         ELSE layerOf[v]]
    /\ UNCHANGED <<nodeCount, links, stage>>

LEMMA IterationTakes == ProcessNextNode => \E u \in Nodes : Takes(u)
BY DEF ProcessNextNode, IsLeast, Takes

\* Taking u removes it from the pending sources of its targets, and from no others.
LEMMA PendingAfter ==
    ASSUME LoopInv, NEW u \in Nodes, Takes(u), NEW v \in Nodes
    PROVE  /\ Pending(v)' = Pending(v) \ {u}
           /\ indegree'[v] = Cardinality(Pending(v)')
           /\ indegree'[v] \in Nat
<1>1. Nodes' = Nodes /\ Sources(v)' = Sources(v)
    BY DEF Takes, Nodes, Sources
<1>2. Pending(v)' = Pending(v) \ {u}
    BY <1>1 DEF Takes, Pending
<1>3. u \in Pending(v) <=> <<u, v>> \in links
    BY ReadyHasNoPending DEF Takes, Pending, Sources
<1>4. IsFiniteSet(Pending(v))
    BY NodeSetsFinite, PendingAreNodes DEF LoopInv, LayoutTypeOK
<1>5. Cardinality(Pending(v) \ {u})
          = IF u \in Pending(v) THEN Cardinality(Pending(v)) - 1 ELSE Cardinality(Pending(v))
    BY <1>4, FS_RemoveElement
<1>6. indegree[v] = Cardinality(Pending(v))
    BY DEF LoopInv, CountsArePendingSources
<1>7. indegree'[v] = IF <<u, v>> \in links THEN indegree[v] - 1 ELSE indegree[v]
    BY DEF Takes
<1>8. indegree'[v] = Cardinality(Pending(v) \ {u})
    BY <1>3, <1>5, <1>6, <1>7
<1>9. IsFiniteSet(Pending(v) \ {u})
    BY <1>4, FS_RemoveElement
<1>10. Cardinality(Pending(v) \ {u}) \in Nat
    BY <1>9, FS_CardinalityType
<1> QED  BY <1>2, <1>8, <1>10

LEMMA LoopTakes ==
    ASSUME LoopInv, NEW u \in Nodes, Takes(u)
    PROVE  LoopInv'
<1>1. Nodes' = Nodes /\ \A v : Sources(v)' = Sources(v)
    BY DEF Takes, Nodes, Sources
<1>2. u \notin processed /\ Sources(u) \subseteq processed
    BY ReadyHasNoPending DEF Takes
<1>3. LayoutTypeOK'
    <2>1. \A v \in Nodes : Below(layerOf[u], layerOf[v]) \in Nat
        BY DEF LoopInv, LayoutTypeOK, Below
    <2>2. layerOf' \in [Nodes -> Nat]
        BY <2>1 DEF Takes, LoopInv, LayoutTypeOK
    <2>3. indegree' \in [Nodes -> Nat]
        <3>1. \A v \in Nodes : indegree'[v] \in Nat
            BY PendingAfter
        <3> QED  BY <3>1 DEF Takes
    <2> QED  BY <1>1, <2>2, <2>3 DEF LoopInv, LayoutTypeOK, Takes
<1>4. CountsArePendingSources'
    BY <1>1, PendingAfter DEF CountsArePendingSources
<1>5. SourcesFirst'
    BY <1>1, <1>2 DEF LoopInv, SourcesFirst, Takes
<1>6. CyclesAreLeft'
    <2> SUFFICES ASSUME NEW S \in SUBSET Nodes, FedFromWithin(S)  PROVE S \cap processed' = {}
        BY <1>1 DEF CyclesAreLeft, FedFromWithin
    <2>1. S \cap processed = {}
        BY DEF LoopInv, CyclesAreLeft
    <2>2. u \notin S
        BY <1>2, <2>1 DEF FedFromWithin
    <2> QED  BY <2>1, <2>2 DEF Takes
<1> QED  BY <1>3, <1>4, <1>5, <1>6 DEF LoopInv

\* The nodes left get layers of their own; nothing else changes.
LEMMA LoopRest ==
    ASSUME LoopInv, LayerTheRest
    PROVE  LoopInv'
<1>1. UNCHANGED <<nodeCount, links, indegree, processed>> /\ stage' = "layered"
    BY DEF LayerTheRest
<1>2. PICK k \in 0 .. nodeCount : layerOf' = [v \in Nodes |->
          IF v \in processed THEN layerOf[v]
          ELSE k + Cardinality({u \in Nodes \ processed : u < v})]
    BY DEF LayerTheRest
<1>3. \A v \in Nodes : Cardinality({u \in Nodes \ processed : u < v}) \in Nat
    BY NodeSetsFinite DEF LoopInv, LayoutTypeOK
<1>4. layerOf' \in [Nodes -> Nat]
    BY <1>2, <1>3 DEF LoopInv, LayoutTypeOK
<1>5. Nodes' = Nodes /\ \A v : Sources(v)' = Sources(v)
    BY <1>1 DEF Nodes, Sources
<1>6. LayoutTypeOK'
    BY <1>1, <1>4, <1>5 DEF LoopInv, LayoutTypeOK
<1>7. CountsArePendingSources' /\ SourcesFirst' /\ CyclesAreLeft'
    BY <1>1, <1>5 DEF LoopInv, CountsArePendingSources, SourcesFirst, CyclesAreLeft,
                      Pending, FedFromWithin
<1> QED  BY <1>6, <1>7 DEF LoopInv

LEMMA LoopStutters ==
    ASSUME LoopInv, UNCHANGED layoutVars
    PROVE  LoopInv'
<1>1. Nodes' = Nodes /\ \A v : Sources(v)' = Sources(v)
    BY DEF Nodes, Sources, layoutVars
<1>2. LayoutTypeOK' /\ SourcesFirst' /\ CountsArePendingSources'
    BY <1>1 DEF LoopInv, LayoutTypeOK, SourcesFirst, CountsArePendingSources, Pending, layoutVars
<1>3. CyclesAreLeft'
    BY <1>1 DEF LoopInv, CyclesAreLeft, FedFromWithin, layoutVars
<1> QED  BY <1>2, <1>3 DEF LoopInv

\* The loop's bookkeeping is right for every graph: a node is taken only after
\* all its sources, and no node of a cycle is taken.
THEOREM LoopCorrect == LayoutSpec => []LoopInv
<1>1. LoopInv /\ [Next]_layoutVars => LoopInv'
    BY LoopStutters, IterationTakes, LoopTakes, LoopRest DEF Next
<1> QED  BY <1>1, LoopInit, PTL DEF LayoutSpec

-----------------------------------------------------------------------------
(* Edges lead onward *)

LEMMA EdgesTakes ==
    ASSUME LoopInv, LayersFollowEdges, NEW u \in Nodes, Takes(u)
    PROVE  LayersFollowEdges'
<1> SUFFICES ASSUME NEW e \in links, e[1] \in processed'
             PROVE  layerOf'[e[1]] < layerOf'[e[2]]
    BY DEF LayersFollowEdges, Takes
<1>1. e = <<e[1], e[2]>> /\ e[1] \in Nodes /\ e[2] \in Nodes
    BY DEF LoopInv, LayoutTypeOK
<1>2. u \notin processed /\ Sources(u) \subseteq processed
    BY ReadyHasNoPending DEF Takes
<1>3. \A v \in Nodes : layerOf[v] \in Nat
                       /\ layerOf'[v] = IF <<u, v>> \in links THEN Below(layerOf[u], layerOf[v])
                                                            ELSE layerOf[v]
    BY DEF LoopInv, LayoutTypeOK, Takes
\* The layer of the source is final.
<1>4. layerOf'[e[1]] = layerOf[e[1]]
    <2>1. <<u, e[1]>> \notin links
        BY <1>1, <1>2 DEF LoopInv, SourcesFirst, Sources, Takes
    <2> QED  BY <1>1, <1>3, <2>1
<1>5. CASE e[1] = u
    <2>1. <<u, e[2]>> \in links
        BY <1>1, <1>5
    <2>2. layerOf'[e[2]] = Below(layerOf[u], layerOf[e[2]])
        BY <1>1, <1>3, <2>1
    <2>3. layerOf[u] \in Nat /\ layerOf[e[2]] \in Nat
        BY <1>1, <1>3
    <2>4. layerOf[u] < Below(layerOf[u], layerOf[e[2]])
        BY <2>3 DEF Below
    <2> QED  BY <1>4, <1>5, <2>2, <2>4
<1>6. CASE e[1] # u
    <2>1. layerOf[e[1]] < layerOf[e[2]]
        BY <1>6 DEF Takes, LayersFollowEdges
    <2>2. layerOf[u] \in Nat /\ layerOf[e[1]] \in Nat /\ layerOf[e[2]] \in Nat
        BY <1>1, <1>3
    <2>3. layerOf[e[2]] <= Below(layerOf[u], layerOf[e[2]])
          /\ Below(layerOf[u], layerOf[e[2]]) \in Nat
        BY <2>2 DEF Below
    <2>4. layerOf'[e[2]] = Below(layerOf[u], layerOf[e[2]]) \/ layerOf'[e[2]] = layerOf[e[2]]
        BY <1>1, <1>3
    <2> QED  BY <1>4, <2>1, <2>2, <2>3, <2>4
<1> QED  BY <1>5, <1>6

\* The fallback layers lie behind the layers of the processed nodes, in input order.
LEMMA RestComesLast ==
    ASSUME LoopInv, LayerTheRest
    PROVE  /\ processed' = processed /\ links' = links /\ nodeCount' = nodeCount
           /\ \A u \in processed : layerOf'[u] = layerOf[u]
           /\ \A u \in processed, v \in Nodes \ processed : layerOf'[u] < layerOf'[v]
           /\ \A u, v \in Nodes \ processed : u < v => layerOf'[u] < layerOf'[v]
<1> DEFINE rest == Nodes \ processed
           rank(v) == Cardinality({u \in rest : u < v})
<1>1. processed' = processed /\ links' = links /\ nodeCount' = nodeCount
    BY DEF LayerTheRest
<1>2. PICK k \in 0 .. nodeCount :
          /\ IsFallbackLayer(k)
          /\ layerOf' = [v \in Nodes |-> IF v \in processed THEN layerOf[v] ELSE k + rank(v)]
    BY DEF LayerTheRest
<1>3. \A v \in Nodes : rank(v) \in Nat
    BY NodeSetsFinite DEF LoopInv, LayoutTypeOK
<1>4. \A u, v \in rest : u < v => rank(u) < rank(v)
    BY RanksGrow DEF LoopInv, LayoutTypeOK
<1> HIDE DEF rank
<1>5. \A u \in processed : u \in Nodes /\ layerOf'[u] = layerOf[u] /\ layerOf[u] \in Nat
    BY <1>2 DEF LoopInv, LayoutTypeOK
<1>6. \A v \in rest : layerOf'[v] = k + rank(v)
    BY <1>2
<1>7. \A u \in processed : layerOf[u] < k
    BY <1>2 DEF IsFallbackLayer
<1>8. k \in Nat
    BY DEF LoopInv, LayoutTypeOK
<1>9. \A u \in processed, v \in rest : layerOf'[u] < layerOf'[v]
    BY <1>3, <1>5, <1>6, <1>7, <1>8
<1>10. \A u, v \in rest : u < v => layerOf'[u] < layerOf'[v]
    BY <1>3, <1>4, <1>6, <1>8
<1> QED  BY <1>1, <1>5, <1>9, <1>10

LEMMA EdgesKept ==
    ASSUME LoopInv, LayersFollowEdges, [Next]_layoutVars
    PROVE  LayersFollowEdges'
<1>1. CASE UNCHANGED layoutVars
    BY <1>1 DEF LayersFollowEdges, layoutVars
<1>2. CASE LayerTheRest
    <2> SUFFICES ASSUME NEW e \in links', e[1] \in processed'
                 PROVE  layerOf'[e[1]] < layerOf'[e[2]]
        BY DEF LayersFollowEdges
    <2>1. e \in links /\ e[1] \in processed /\ e[2] \in Nodes
        BY <1>2, RestComesLast DEF LoopInv, LayoutTypeOK
    <2>2. layerOf[e[1]] < layerOf[e[2]]
        BY <2>1 DEF LayersFollowEdges
    <2> QED  BY <1>2, <2>1, <2>2, RestComesLast
<1> QED  BY <1>1, <1>2, IterationTakes, EdgesTakes DEF Next

\* In every graph an edge leads to a later layer, unless it starts in a cycle or
\* behind one (buildLayerAssignments).
THEOREM EdgesLeadOnward == LayoutSpec => []LayersFollowEdges
<1>1. Init => LayersFollowEdges
    BY DEF Init, LayersFollowEdges
<1> QED  BY <1>1, EdgesKept, LoopCorrect, PTL DEF LayoutSpec

-----------------------------------------------------------------------------
(* Only cycles are given up on *)

LEMMA LayeredAfterRest ==
    ASSUME LoopInv, LayerTheRest
    PROVE  CyclesComeLast'
<1> DEFINE rest == Nodes \ processed
<1>1. Nodes' = Nodes /\ \A S : FedFromWithin(S)' <=> FedFromWithin(S)
    BY DEF LayerTheRest, Nodes, Sources, FedFromWithin
<1>2. FedFromWithin(rest)
    <2> SUFFICES ASSUME NEW v \in rest  PROVE Sources(v) \cap rest # {}
        BY DEF FedFromWithin
    <2>1. indegree[v] # 0
        BY DEF LayerTheRest, Ready
    <2>2. Cardinality(Pending(v)) # 0
        BY <2>1 DEF LoopInv, CountsArePendingSources
    <2>3. Pending(v) # {}
        BY <2>2, FS_EmptySet
    <2> QED  BY <2>3 DEF Pending, Sources
<1>3. \A S \in SUBSET Nodes : FedFromWithin(S) => S \subseteq rest
    BY DEF LoopInv, CyclesAreLeft
<1> QED  BY <1>1, <1>2, <1>3, RestComesLast DEF CyclesComeLast

LEMMA CyclesKept ==
    ASSUME LoopInv, CyclesComeLast, [Next]_layoutVars
    PROVE  CyclesComeLast'
<1>1. CASE UNCHANGED layoutVars
    <2>1. Nodes' = Nodes /\ \A S : FedFromWithin(S)' <=> FedFromWithin(S)
        BY <1>1 DEF Nodes, Sources, FedFromWithin, layoutVars
    <2> QED  BY <1>1, <2>1 DEF CyclesComeLast, layoutVars
<1>2. CASE ProcessNextNode
    BY <1>2 DEF ProcessNextNode, CyclesComeLast
<1> QED  BY <1>1, <1>2, LayeredAfterRest DEF Next

\* In every graph exactly the nodes on and behind cycles are left for the last
\* layers, one each, in input order (the fallback of buildLayerAssignments).
THEOREM CyclesAreLast == LayoutSpec => []CyclesComeLast
<1>1. Init => CyclesComeLast
    BY DEF Init, CyclesComeLast
<1> QED  BY <1>1, CyclesKept, LoopCorrect, PTL DEF LayoutSpec

-----------------------------------------------------------------------------
(***************************************************************************)
(* Shapes and sizes.                                                       *)
(***************************************************************************)
Width == MIN_WIDTH .. MAX_WIDTH
Height == MIN_HEIGHT .. MAX_HEIGHT

LEMMA DimensionType ==
    ASSUME NEW v \in Int
    PROVE  /\ normalizeItemDimension(v, MIN_WIDTH, MAX_WIDTH) \in Width
           /\ normalizeItemDimension(v, MIN_HEIGHT, MAX_HEIGHT) \in Height
           /\ v \in Width => normalizeItemDimension(v, MIN_WIDTH, MAX_WIDTH) = v
           /\ v \in Height => normalizeItemDimension(v, MIN_HEIGHT, MAX_HEIGHT) = v
BY DEF normalizeItemDimension, Larger, Smaller, Width, Height, MIN_WIDTH, MAX_WIDTH,
       MIN_HEIGHT, MAX_HEIGHT

LEMMA Shapes ==
    Shape = {"default", "circle", "square", "triangle", "diamond", "upsideDownTriangle",
             "hexagon", "oval"}
BY DEF Shape, ITEM_SHAPES

\* A fixed-ratio shape of a legal width has a legal height.
LEMMA RatioHeight ==
    ASSUME NEW shape \in Shape \ FreeformShapes, NEW w \in Width
    PROVE  getFixedRatioHeightFromWidth(shape, w) \in Height
<1>1. /\ Rounded(w * 1, 1) \in Height
      /\ Rounded(w * 150, 170) \in Height
      /\ Rounded(w * 135, 170) \in Height
    BY DEF Rounded, Width, Height, MIN_WIDTH, MAX_WIDTH, MIN_HEIGHT, MAX_HEIGHT
<1>2. FIXED_RATIO_HEIGHT_BY_WIDTH[shape] \in {<<1, 1>>, <<150, 170>>, <<135, 170>>}
    BY Shapes DEF FIXED_RATIO_HEIGHT_BY_WIDTH, FreeformShapes
<1> QED  BY <1>1, <1>2 DEF getFixedRatioHeightFromWidth

LEMMA SharesOfLength ==
    ASSUME NEW n \in 80 .. 600
    PROVE  /\ Rounded(n * 120, 1000) \in Nat /\ Rounded(n * 126, 1000) \in Nat
           /\ Rounded(n * 193, 1000) \in Nat /\ Rounded(n * 293, 1000) \in Nat
           /\ Rounded(n * 121, 1000) \in Nat /\ Rounded(n * 182, 1000) \in Nat
           /\ Rounded(n * 200, 1000) \in Nat /\ Rounded(n * 214, 1000) \in Nat
           /\ Rounded(n * 243, 1000) \in Nat
BY DEF Rounded

\* Insets of a share of a length, but not less than a minimum, leave room.
LEMMA InsetsOfLength ==
    ASSUME NEW n \in 80 .. 600
    PROVE  /\ 0 < n - 20 - 20
           /\ n >= 120 => 0 < n - 26 - 26
           /\ 0 < n - Larger(24, Rounded(n * 126, 1000)) - Larger(24, Rounded(n * 126, 1000))
           /\ 0 < n - Larger(26, Rounded(n * 193, 1000)) - Larger(26, Rounded(n * 193, 1000))
           /\ 0 < n - Larger(44, Rounded(n * 293, 1000)) - Larger(18, Rounded(n * 120, 1000))
           /\ 0 < n - Larger(18, Rounded(n * 120, 1000)) - Larger(44, Rounded(n * 293, 1000))
           /\ n >= 120 =>
                 /\ 0 < n - Larger(34, Rounded(n * 121, 1000)) - Larger(34, Rounded(n * 121, 1000))
                 /\ 0 < n - Larger(30, Rounded(n * 182, 1000)) - Larger(30, Rounded(n * 182, 1000))
                 /\ 0 < n - Larger(34, Rounded(n * 200, 1000)) - Larger(34, Rounded(n * 200, 1000))
                 /\ 0 < n - Larger(30, Rounded(n * 214, 1000)) - Larger(30, Rounded(n * 214, 1000))
                 /\ 0 < n - Larger(34, Rounded(n * 243, 1000)) - Larger(34, Rounded(n * 243, 1000))
BY DEF Rounded, Larger

\* Insets that leave room put the text inside the box.
LEMMA InsetsInside ==
    ASSUME NEW size \in Nat, NEW before \in Nat \ {0}, NEW after \in Nat \ {0},
           0 < size - before - after
    PROVE  /\ Larger(0, size - before - after) > 0
           /\ before + Larger(0, size - before - after) < size
BY DEF Larger

LeavesRoom(insets, w, h) ==
    /\ insets.left \in Nat \ {0} /\ insets.right \in Nat \ {0}
    /\ insets.top \in Nat \ {0} /\ insets.bottom \in Nat \ {0}
    /\ 0 < w - insets.left - insets.right /\ 0 < h - insets.top - insets.bottom

LEMMA InsetsLeaveRoom ==
    ASSUME NEW w, NEW h, NEW top \in Nat, NEW bottom \in Nat, NEW side \in Nat,
           NEW t \in Nat \ {0}, NEW b \in Nat \ {0}, NEW s \in Nat \ {0},
           0 < w - Larger(s, side) - Larger(s, side), 0 < h - Larger(t, top) - Larger(b, bottom)
    PROVE  LeavesRoom(Insets(Larger(t, top), Larger(s, side), Larger(b, bottom), Larger(s, side)), w, h)
<1>1. Larger(t, top) \in Nat \ {0} /\ Larger(b, bottom) \in Nat \ {0} /\ Larger(s, side) \in Nat \ {0}
    BY DEF Larger
<1> QED  BY <1>1 DEF LeavesRoom, Insets

\* For every shape and size the text insets leave room for the text.
LEMMA InsetsOfShape ==
    ASSUME NEW shape \in Shape, NEW w \in Width, NEW h \in Height,
           shape \notin FreeformShapes => h = getFixedRatioHeightFromWidth(shape, w)
    PROVE  LeavesRoom(getShapeResponsiveTextInsets(shape, w, h), w, h)
<1> DEFINE insets == getShapeResponsiveTextInsets(shape, w, h)
<1>0. w \in 120 .. 600 /\ h \in 80 .. 600 /\ w \in 80 .. 600
    BY DEF Width, Height, MIN_WIDTH, MAX_WIDTH, MIN_HEIGHT, MAX_HEIGHT
<1>a. shape \in {"square", "circle", "diamond"} => h = w
    <2>1. ASSUME shape \in {"square", "circle", "diamond"}  PROVE h = Rounded(w * 1, 1)
        BY <2>1 DEF FreeformShapes, getFixedRatioHeightFromWidth, FIXED_RATIO_HEIGHT_BY_WIDTH
    <2> QED  BY <1>0, <2>1 DEF Rounded
<1>b. /\ 0 < w - 20 - 20 /\ 0 < h - 20 - 20 /\ 0 < w - 26 - 26
    BY <1>0
<1>1. CASE shape = "default"
    <2>1. insets = Insets(20, 20, 20, 20)
        BY <1>1 DEF getShapeResponsiveTextInsets, SHAPE_TEXT_INSETS, TEXT_INSET_SHARES
    <2> QED  BY <1>b, <2>1 DEF LeavesRoom, Insets
<1>2. CASE shape = "square"
    <2>1. insets = Insets(26, 26, 26, 26)
        BY <1>2 DEF getShapeResponsiveTextInsets, SHAPE_TEXT_INSETS, TEXT_INSET_SHARES
    <2> QED  BY <1>a, <1>b, <1>2, <2>1 DEF LeavesRoom, Insets
<1>3. CASE shape = "circle"
    <2> DEFINE top == Rounded(h * 214, 1000)
               side == Rounded(w * 214, 1000)
               bottom == Rounded(h * 214, 1000)
    <2>1. insets = Insets(Larger(30, top), Larger(30, side), Larger(30, bottom), Larger(30, side))
        BY <1>3 DEF getShapeResponsiveTextInsets, SHAPE_TEXT_INSETS, TEXT_INSET_SHARES,
                    ResponsiveMinimum, Insets
    <2>2. top \in Nat /\ side \in Nat /\ bottom \in Nat
        <3>1. top \in Nat
            BY <1>0, SharesOfLength
        <3>2. side \in Nat
            BY <1>0, SharesOfLength
        <3>3. bottom \in Nat
            BY <1>0, SharesOfLength
        <3> QED  BY <3>1, <3>2, <3>3
    <2>3. 0 < w - Larger(30, side) - Larger(30, side) /\ 0 < h - Larger(30, top) - Larger(30, bottom)
        BY <1>0, <1>a, <1>3, InsetsOfLength, SMTT(20)
    <2> HIDE DEF top, side, bottom, insets
    <2> QED  BY <2>1, <2>2, <2>3, InsetsLeaveRoom DEF insets
<1>4. CASE shape = "diamond"
    <2> DEFINE top == Rounded(h * 243, 1000)
               side == Rounded(w * 243, 1000)
               bottom == Rounded(h * 243, 1000)
    <2>1. insets = Insets(Larger(34, top), Larger(34, side), Larger(34, bottom), Larger(34, side))
        BY <1>4 DEF getShapeResponsiveTextInsets, SHAPE_TEXT_INSETS, TEXT_INSET_SHARES,
                    ResponsiveMinimum, Insets
    <2>2. top \in Nat /\ side \in Nat /\ bottom \in Nat
        <3>1. top \in Nat
            BY <1>0, SharesOfLength
        <3>2. side \in Nat
            BY <1>0, SharesOfLength
        <3>3. bottom \in Nat
            BY <1>0, SharesOfLength
        <3> QED  BY <3>1, <3>2, <3>3
    <2>3. 0 < w - Larger(34, side) - Larger(34, side) /\ 0 < h - Larger(34, top) - Larger(34, bottom)
        BY <1>0, <1>a, <1>4, InsetsOfLength, SMTT(20)
    <2> HIDE DEF top, side, bottom, insets
    <2> QED  BY <2>1, <2>2, <2>3, InsetsLeaveRoom DEF insets
<1>5. CASE shape = "triangle"
    <2> DEFINE top == Rounded(h * 293, 1000)
               side == Rounded(w * 182, 1000)
               bottom == Rounded(h * 120, 1000)
    <2>1. insets = Insets(Larger(44, top), Larger(30, side), Larger(18, bottom), Larger(30, side))
        BY <1>5 DEF getShapeResponsiveTextInsets, SHAPE_TEXT_INSETS, TEXT_INSET_SHARES,
                    ResponsiveMinimum, Insets
    <2>2. top \in Nat /\ side \in Nat /\ bottom \in Nat
        <3>1. top \in Nat
            BY <1>0, SharesOfLength
        <3>2. side \in Nat
            BY <1>0, SharesOfLength
        <3>3. bottom \in Nat
            BY <1>0, SharesOfLength
        <3> QED  BY <3>1, <3>2, <3>3
    <2>3. 0 < w - Larger(30, side) - Larger(30, side) /\ 0 < h - Larger(44, top) - Larger(18, bottom)
        BY <1>0, InsetsOfLength, SMTT(20)
    <2> HIDE DEF top, side, bottom, insets
    <2> QED  BY <2>1, <2>2, <2>3, InsetsLeaveRoom DEF insets
<1>6. CASE shape = "upsideDownTriangle"
    <2> DEFINE top == Rounded(h * 120, 1000)
               side == Rounded(w * 182, 1000)
               bottom == Rounded(h * 293, 1000)
    <2>1. insets = Insets(Larger(18, top), Larger(30, side), Larger(44, bottom), Larger(30, side))
        BY <1>6 DEF getShapeResponsiveTextInsets, SHAPE_TEXT_INSETS, TEXT_INSET_SHARES,
                    ResponsiveMinimum, Insets
    <2>2. top \in Nat /\ side \in Nat /\ bottom \in Nat
        <3>1. top \in Nat
            BY <1>0, SharesOfLength
        <3>2. side \in Nat
            BY <1>0, SharesOfLength
        <3>3. bottom \in Nat
            BY <1>0, SharesOfLength
        <3> QED  BY <3>1, <3>2, <3>3
    <2>3. 0 < w - Larger(30, side) - Larger(30, side) /\ 0 < h - Larger(18, top) - Larger(44, bottom)
        BY <1>0, InsetsOfLength, SMTT(20)
    <2> HIDE DEF top, side, bottom, insets
    <2> QED  BY <2>1, <2>2, <2>3, InsetsLeaveRoom DEF insets
<1>7. CASE shape = "hexagon"
    <2> DEFINE top == Rounded(h * 193, 1000)
               side == Rounded(w * 200, 1000)
               bottom == Rounded(h * 193, 1000)
    <2>1. insets = Insets(Larger(26, top), Larger(34, side), Larger(26, bottom), Larger(34, side))
        BY <1>7 DEF getShapeResponsiveTextInsets, SHAPE_TEXT_INSETS, TEXT_INSET_SHARES,
                    ResponsiveMinimum, Insets
    <2>2. top \in Nat /\ side \in Nat /\ bottom \in Nat
        <3>1. top \in Nat
            BY <1>0, SharesOfLength
        <3>2. side \in Nat
            BY <1>0, SharesOfLength
        <3>3. bottom \in Nat
            BY <1>0, SharesOfLength
        <3> QED  BY <3>1, <3>2, <3>3
    <2>3. 0 < w - Larger(34, side) - Larger(34, side) /\ 0 < h - Larger(26, top) - Larger(26, bottom)
        BY <1>0, InsetsOfLength, SMTT(20)
    <2> HIDE DEF top, side, bottom, insets
    <2> QED  BY <2>1, <2>2, <2>3, InsetsLeaveRoom DEF insets
<1>8. CASE shape = "oval"
    <2> DEFINE top == Rounded(h * 126, 1000)
               side == Rounded(w * 121, 1000)
               bottom == Rounded(h * 126, 1000)
    <2>1. insets = Insets(Larger(24, top), Larger(34, side), Larger(24, bottom), Larger(34, side))
        BY <1>8 DEF getShapeResponsiveTextInsets, SHAPE_TEXT_INSETS, TEXT_INSET_SHARES,
                    ResponsiveMinimum, Insets
    <2>2. top \in Nat /\ side \in Nat /\ bottom \in Nat
        <3>1. top \in Nat
            BY <1>0, SharesOfLength
        <3>2. side \in Nat
            BY <1>0, SharesOfLength
        <3>3. bottom \in Nat
            BY <1>0, SharesOfLength
        <3> QED  BY <3>1, <3>2, <3>3
    <2>3. 0 < w - Larger(34, side) - Larger(34, side) /\ 0 < h - Larger(24, top) - Larger(24, bottom)
        BY <1>0, InsetsOfLength, SMTT(20)
    <2> HIDE DEF top, side, bottom, insets
    <2> QED  BY <2>1, <2>2, <2>3, InsetsLeaveRoom DEF insets
<1> QED  BY <1>1, <1>2, <1>3, <1>4, <1>5, <1>6, <1>7, <1>8, Shapes

\* A CHOOSE among finitely many naturals finds what it is there for.
LEMMA LeastNatural ==
    ASSUME NEW T, T \subseteq Nat, T # {}
    PROVE  \E x \in T : \A y \in T : x <= y
<1> DEFINE R == {ss \in Nat \X Nat : ss[1] < ss[2]}
<1>1. IsWellFoundedOn(R, Nat)
    BY NatLessThanWellFounded, Zenon DEF OpToRel
<1>2. PICK x \in T : \A y \in T : ~ (<<y, x>> \in R)
    <2> HIDE DEF R
    <2> QED  BY <1>1, WFMin
<1>3. ASSUME NEW y \in T  PROVE  x <= y
    <2>1. x \in Nat /\ y \in Nat
        OBVIOUS
    <2>2. ~ (<<y, x>> \in R)
        BY <1>2
    <2>3. ~ (y < x)
        BY <2>1, <2>2
    <2> QED  BY <2>1, <2>3
<1> QED  BY <1>3

-----------------------------------------------------------------------------
(***************************************************************************)
(* An item of the right shape and size is drawn, has room for its text and *)
(* is left alone by the normalization of a load, and so is what a gesture  *)
(* makes of it.                                                            *)
(***************************************************************************)
IsItem(item) ==
    /\ item = [id |-> item.id, name |-> item.name, shape |-> item.shape,
               width |-> item.width, height |-> item.height, x |-> item.x, y |-> item.y]
    /\ item.shape \in Shape
    /\ item.width \in Width
    /\ item.height \in Height

LEMMA SizesAreInts ==
    /\ Width \subseteq Int /\ Height \subseteq Int
    /\ \A v : (v \in Width => v \in Int) /\ (v \in Height => v \in Int)
BY DEF Width, Height, MIN_WIDTH, MAX_WIDTH, MIN_HEIGHT, MAX_HEIGHT

LEMMA BoxOfItem ==
    ASSUME NEW item, IsItem(item)
    PROVE  /\ Box(item) \in [width : Width, height : Height]
           /\ Box(item).width = item.width
           /\ item.shape \in FreeformShapes => Box(item).height = item.height
           /\ item.shape \notin FreeformShapes =>
                  Box(item).height = getFixedRatioHeightFromWidth(item.shape, item.width)
<1>1. item.width # Absent /\ item.height # Absent
    BY SizesAreInts, GraphCreationAssumption DEF IsItem
<1>2. CASE item.shape \in FreeformShapes
    <2>1. Box(item) = [width |-> item.width, height |-> item.height]
        BY <1>1, <1>2 DEF Box, getItemDerivedVisualBox
    <2> QED  BY <1>2, <2>1 DEF IsItem
<1>3. CASE item.shape \notin FreeformShapes
    <2>1. Box(item) = [width |-> item.width,
                       height |-> getFixedRatioHeightFromWidth(item.shape, item.width)]
        BY <1>1, <1>3 DEF Box, getItemDerivedVisualBox
    <2>2. getFixedRatioHeightFromWidth(item.shape, item.width) \in Height
        BY <1>3, RatioHeight DEF IsItem
    <2> QED  BY <1>3, <2>1, <2>2 DEF IsItem
<1> QED  BY <1>2, <1>3

LEMMA ItemSurvives ==
    ASSUME NEW item, IsItem(item)
    PROVE  normalizeItemForRuntime(item) = item /\ Box(item) # Absent /\ TextHasRoom(item)
<1>1. normalizeItemForRuntime(item) = item
    <2>1. /\ normalizeItemShape(item.shape) = item.shape
          /\ normalizeItemDimension(item.width, MIN_WIDTH, MAX_WIDTH) = item.width
          /\ normalizeItemDimension(item.height, MIN_HEIGHT, MAX_HEIGHT) = item.height
        BY SizesAreInts, DimensionType DEF IsItem, normalizeItemShape
    <2> QED  BY <2>1 DEF normalizeItemForRuntime, IsItem
<1>2. Box(item) # Absent
    BY BoxOfItem, SizesAreInts, GraphCreationAssumption
<1>3. TextHasRoom(item)
    <2> DEFINE w == Box(item).width
               h == Box(item).height
               insets == getShapeResponsiveTextInsets(item.shape, w, h)
    <2>1. w \in Width /\ h \in Height
        BY BoxOfItem
    <2>2. item.shape \notin FreeformShapes => h = getFixedRatioHeightFromWidth(item.shape, w)
        BY BoxOfItem
    <2>3. item.shape \in Shape
        BY DEF IsItem
    <2>4. w \in Nat /\ h \in Nat
        BY <2>1 DEF Width, Height, MIN_WIDTH, MAX_WIDTH, MIN_HEIGHT, MAX_HEIGHT
    <2> HIDE DEF w, h
    <2>5. LeavesRoom(insets, w, h)
        BY <2>1, <2>2, <2>3, InsetsOfShape
    <2> HIDE DEF insets
    <2>6. /\ Larger(0, w - insets.left - insets.right) > 0
          /\ insets.left + Larger(0, w - insets.left - insets.right) < w
          /\ Larger(0, h - insets.top - insets.bottom) > 0
          /\ insets.top + Larger(0, h - insets.top - insets.bottom) < h
        BY <2>4, <2>5, InsetsInside DEF LeavesRoom
    <2> QED  BY <2>6 DEF TextHasRoom, getShapeTextBounds, insets, w, h
<1> QED  BY <1>1, <1>2, <1>3

\* A wheel step leads to a shape.
LEMMA CycledShape ==
    ASSUME NEW shape, NEW way
    PROVE  cycleItemShapeValue(shape, way) \in Shape
<1> DEFINE at == CHOOSE i \in DOMAIN ITEM_SHAPES : ITEM_SHAPES[i] = normalizeItemShape(shape)
           step == IF way < 0 THEN -1 ELSE 1
           to == ((at - 1 + step + Len(ITEM_SHAPES)) % Len(ITEM_SHAPES)) + 1
<1>1. normalizeItemShape(shape) \in Shape
    BY Shapes DEF normalizeItemShape
<1>2. DOMAIN ITEM_SHAPES = 1 .. 8 /\ Len(ITEM_SHAPES) = 8
    BY DEF ITEM_SHAPES
<1>3. at \in 1 .. 8
    BY <1>1, <1>2 DEF Shape
<1> HIDE DEF at
<1>4. step \in Int
    OBVIOUS
<1> HIDE DEF step
<1>5. to \in DOMAIN ITEM_SHAPES
    BY <1>2, <1>3, <1>4
<1>6. cycleItemShapeValue(shape, way) = ITEM_SHAPES[to]
    BY DEF cycleItemShapeValue, at, step
<1> QED  BY <1>5, <1>6 DEF Shape

\* A drag of the handle leads to a legal size.
LEMMA DraggedSize ==
    ASSUME NEW item, IsItem(item), NEW dx \in Int, NEW dy \in Int
    PROVE  LET size == getItemResizeFootprintFromPointer(item.shape, Box(item), dx, dy) IN
           size.width \in Width /\ size.height \in Height
<1> DEFINE dominant == IF Magnitude(dx) >= Magnitude(dy) THEN dx ELSE dy
           width == normalizeItemDimension(Box(item).width + dominant, MIN_WIDTH, MAX_WIDTH)
<1>1. Box(item).width \in Int /\ Box(item).height \in Int
    BY BoxOfItem, SizesAreInts
<1>2. dominant \in Int
    OBVIOUS
<1> HIDE DEF dominant
<1>3. width \in Width
    BY <1>1, <1>2, DimensionType
<1> HIDE DEF width
<1>4. CASE item.shape \in FreeformShapes
    BY <1>1, <1>4, DimensionType DEF getItemResizeFootprintFromPointer
<1>5. CASE item.shape \notin FreeformShapes
    <2>1. getFixedRatioHeightFromWidth(item.shape, width) \in Height
        BY <1>3, <1>5, RatioHeight DEF IsItem
    <2> QED  BY <1>3, <1>5, <2>1 DEF getItemResizeFootprintFromPointer, width, dominant
<1> QED  BY <1>4, <1>5

LEMMA EditedIsItem ==
    ASSUME NEW item, IsItem(item), NEW edited \in Edited(item)
    PROVE  IsItem(edited)
<1>1. CASE edited = item
    BY <1>1
<1>2. ASSUME NEW way \in {-1, 1},
             edited = [item EXCEPT !.shape = cycleItemShapeValue(@, way)]
      PROVE  IsItem(edited)
    BY <1>2, CycledShape DEF IsItem
<1>3. ASSUME NEW dx \in PointerMoves, NEW dy \in PointerMoves, NEW size,
             size = getItemResizeFootprintFromPointer(item.shape, Box(item), dx, dy),
             edited = [item EXCEPT !.width = size.width, !.height = size.height]
      PROVE  IsItem(edited)
    <2>1. dx \in Int /\ dy \in Int
        BY DEF PointerMoves
    <2>2. size.width \in Width /\ size.height \in Height
        BY <1>3, <2>1, DraggedSize
    <2> QED  BY <1>3, <2>2 DEF IsItem
<1>4. \A size \in DragSizes(item) : \E dx \in PointerMoves, dy \in PointerMoves :
          size = getItemResizeFootprintFromPointer(item.shape, Box(item), dx, dy)
    BY DEF DragSizes
<1>5. ASSUME edited \in Cycled(item)  PROVE IsItem(edited)
    BY <1>2, <1>5, Zenon DEF Cycled
<1>6. ASSUME edited \in Dragged(item)  PROVE IsItem(edited)
    <2>1. PICK size \in DragSizes(item) :
              edited = [item EXCEPT !.width = size.width, !.height = size.height]
        BY <1>6, Zenon DEF Dragged
    <2> QED  BY <1>3, <1>4, <2>1, Zenon
<1> QED  BY <1>1, <1>5, <1>6 DEF Edited

-----------------------------------------------------------------------------
(***************************************************************************)
(* What an accepted graph becomes.  Without an error every node and every  *)
(* edge is kept, so the k-th of the result comes of the k-th of the input. *)
(***************************************************************************)

\* Where nothing is left out, places are indices.
LEMMA PlacesAreIndices ==
    ASSUME NEW n \in Nat
    PROVE  /\ Cardinality(1 .. n) = n
           /\ \A k \in 1 .. n :
                 (CHOOSE i \in 1 .. n : Cardinality({j \in 1 .. n : j < i}) = k - 1) = k
<1>1. Cardinality(1 .. n) = n
    BY FS_Interval
<1>2. ASSUME NEW i \in 1 .. n  PROVE Cardinality({j \in 1 .. n : j < i}) = i - 1
    <2>1. {j \in 1 .. n : j < i} = 1 .. (i - 1)
        OBVIOUS
    <2>2. Cardinality(1 .. (i - 1)) = i - 1
        BY FS_Interval
    <2> QED  BY <2>1, <2>2
<1> DEFINE below(i) == Cardinality({j \in 1 .. n : j < i})
<1>3. \A i \in 1 .. n : below(i) = i - 1
    BY <1>2
<1> HIDE DEF below
<1>4. ASSUME NEW k \in 1 .. n  PROVE (CHOOSE i \in 1 .. n : below(i) = k - 1) = k
    <2>1. \A i \in 1 .. n : below(i) = k - 1 <=> i = k
        BY <1>3
    <2> QED  BY <2>1
<1> QED  BY <1>1, <1>4 DEF below

\* What validation has made sure of for the i-th node.
IsGoodNode(raw, i) ==
    LET node == raw[i] IN
    /\ node # Junk
    /\ Text(node.id) # ""
    /\ \A j \in 1 .. i - 1 : ~ (raw[j] # Junk /\ raw[j].id = node.id)
    /\ node.x # Absent => WithinCanvas(node.x, node.y)
    /\ DimensionErrors(node, normalizeItemShape(node.shape)) = {}

LEMMA NodeWithoutErrors ==
    ASSUME NEW raw, NEW i, NodeErrors(raw, i) = {}
    PROVE  IsGoodNode(raw, i)
<1> DEFINE node == raw[i]
           other == \E j \in 1 .. i - 1 : raw[j] # Junk /\ raw[j].id = node.id
           sizes == DimensionErrors(node, normalizeItemShape(node.shape))
           half == (node.x = Absent) # (node.y = Absent)
           out == node.x # Absent /\ ~ WithinCanvas(node.x, node.y)
<1>1. NodeErrors(raw, i) =
         IF node = Junk THEN {"invalid_node"}
         ELSE IF Text(node.id) = "" THEN {"missing_node_id"}
         ELSE IF other THEN {"duplicate_node_id"}
         ELSE IF node.label = Junk THEN {"invalid_node_label"}
         ELSE IF node.label = "too long" THEN {"node_label_too_long"}
         ELSE IF half THEN {"incomplete_node_position"}
         ELSE IF node.x = Junk THEN {"invalid_node_x"}
         ELSE IF node.y = Junk THEN {"invalid_node_y"}
         ELSE IF out THEN {"node_position_out_of_bounds"}
         ELSE sizes
    BY DEF NodeErrors
<1> HIDE DEF sizes, half, other, out
<1>2. node # Junk /\ Text(node.id) # "" /\ ~ other /\ ~ out /\ sizes = {}
    BY <1>1
<1> QED  BY <1>2 DEF IsGoodNode, sizes, other, out

LEMMA NormalizedShape == \A shape : normalizeItemShape(shape) \in Shape
BY Shapes DEF normalizeItemShape

LEMMA DefaultSize ==
    ASSUME NEW shape \in Shape
    PROVE  getGraphNodeDefaultDimensions(shape) \in [width : Width, height : Height]
<1>1. 220 \in Width /\ 260 \in Width /\ 180 \in Width /\ 170 \in Width /\ 120 \in Height
    BY DEF Width, Height, MIN_WIDTH, MAX_WIDTH, MIN_HEIGHT, MAX_HEIGHT
<1>2. CASE shape \in FreeformShapes
    BY <1>1, <1>2 DEF getGraphNodeDefaultDimensions, FreeformShapes
<1>3. CASE shape \notin FreeformShapes
    <2>1. getFixedRatioHeightFromWidth(shape, 180) \in Height
          /\ getFixedRatioHeightFromWidth(shape, 170) \in Height
        BY <1>1, <1>3, RatioHeight
    <2> QED  BY <1>1, <1>3, <2>1 DEF getGraphNodeDefaultDimensions, FreeformShapes
<1> QED  BY <1>2, <1>3

LEMMA SizeOfNode ==
    ASSUME NEW node, NEW shape \in Shape, IsRawNode(node), node # Junk,
           DimensionErrors(node, shape) = {}
    PROVE  Dimensions(node, shape) \in [width : Width, height : Height]
<1>1. node.width # Junk /\ node.height # Junk
    BY DEF DimensionErrors
<1>2. node.width \in Int \cup {Absent} /\ node.height \in Int \cup {Absent}
    BY <1>1 DEF IsRawNode
<1>3. CASE node.width = Absent
    BY <1>3, DefaultSize DEF Dimensions
<1>4. CASE node.width # Absent
    <2> DEFINE width == normalizeItemDimension(node.width, MIN_WIDTH, MAX_WIDTH)
    <2>1. width \in Width
        BY <1>2, <1>4, DimensionType
    <2>2. CASE node.height = Absent
        <3>1. shape \notin FreeformShapes
            BY <1>1, <1>4, <2>2 DEF DimensionErrors
        <3>2. getFixedRatioHeightFromWidth(shape, width) \in Height
            BY <2>1, <3>1, RatioHeight
        <3> QED  BY <1>4, <2>1, <2>2, <3>2 DEF Dimensions
    <2>3. CASE node.height # Absent
        <3>1. normalizeItemDimension(node.height, MIN_HEIGHT, MAX_HEIGHT) \in Height
            BY <1>2, <2>3, DimensionType
        <3> QED  BY <1>4, <2>1, <2>3, <3>1 DEF Dimensions
    <2> QED  BY <2>2, <2>3
<1> QED  BY <1>3, <1>4

\* A node that passed validation: its size is one an item may have, and it has a name.
IsNode(node) ==
    /\ node = [id |-> node.id, label |-> node.label, shape |-> node.shape,
               width |-> node.width, height |-> node.height, x |-> node.x, y |-> node.y]
    /\ node.shape \in Shape /\ node.width \in Width /\ node.height \in Height
    /\ node.label # ""

LEMMA NormalizedNodeType ==
    ASSUME NEW raw, NEW i, IsGoodNode(raw, i), IsRawNode(raw[i])
    PROVE  /\ IsNode(NormalizedNode(raw[i]))
           /\ NormalizedNode(raw[i]).id = raw[i].id
           /\ NormalizedNode(raw[i]).x = raw[i].x
<1> DEFINE node == raw[i]
           shape == normalizeItemShape(node.shape)
           size == Dimensions(node, shape)
           label == IF Text(node.label) = "" THEN node.id ELSE node.label
<1>1. shape \in Shape
    BY NormalizedShape
<1>2. size \in [width : Width, height : Height]
    BY <1>1, SizeOfNode DEF IsGoodNode
<1>3. label # ""
    BY DEF IsGoodNode, Text
<1>4. NormalizedNode(node) = [id |-> node.id, label |-> label, shape |-> shape,
                              width |-> size.width, height |-> size.height,
                              x |-> node.x, y |-> node.y]
    BY DEF NormalizedNode
<1> DEFINE kept == NormalizedNode(node)
<1> HIDE DEF shape, size, label, kept
<1>5. kept = [id |-> node.id, label |-> label, shape |-> shape,
              width |-> size.width, height |-> size.height, x |-> node.x, y |-> node.y]
    BY <1>4 DEF kept
<1>6. /\ kept.id = node.id /\ kept.label = label /\ kept.shape = shape
      /\ kept.width = size.width /\ kept.height = size.height
      /\ kept.x = node.x /\ kept.y = node.y
    BY <1>5
<1>7. kept = [id |-> kept.id, label |-> kept.label, shape |-> kept.shape,
              width |-> kept.width, height |-> kept.height, x |-> kept.x, y |-> kept.y]
    BY <1>5, <1>6
<1>8. kept.shape \in Shape /\ kept.width \in Width /\ kept.height \in Height /\ kept.label # ""
    BY <1>1, <1>2, <1>3, <1>6
<1>9. IsNode(kept)
    BY <1>7, <1>8, Zenon DEF IsNode
<1> QED  BY <1>6, <1>9 DEF kept

\* What validation has made sure of for the i-th edge, ids being those of the nodes.
IsGoodEdge(raw, i, ids) ==
    LET edge == raw[i] IN
    /\ Connects(edge, ids)
    /\ edge.from \in ids /\ edge.to \in ids /\ edge.from # edge.to
    /\ \A j \in 1 .. i - 1 :
          ~ (Connects(raw[j], ids) /\ {raw[j].from, raw[j].to} = {edge.from, edge.to})

LEMMA EdgeWithoutErrors ==
    ASSUME NEW raw, NEW i, NEW ids, EdgeErrors(raw, i, ids) = {}
    PROVE  IsGoodEdge(raw, i, ids)
<1> DEFINE edge == raw[i]
           other == \E j \in 1 .. i - 1 :
                        Connects(raw[j], ids) /\ {raw[j].from, raw[j].to} = {edge.from, edge.to}
<1>1. EdgeErrors(raw, i, ids) =
         IF edge = Junk THEN {"invalid_edge"}
         ELSE IF Text(edge.from) = "" THEN {"missing_edge_from"}
         ELSE IF Text(edge.to) = "" THEN {"missing_edge_to"}
         ELSE IF edge.from \notin ids THEN {"missing_edge_from_node"}
         ELSE IF edge.to \notin ids THEN {"missing_edge_to_node"}
         ELSE IF edge.from = edge.to THEN {"self_edge_not_allowed"}
         ELSE IF other THEN {"duplicate_edge_connection"}
         ELSE {}
    BY DEF EdgeErrors
<1> HIDE DEF other
<1>2. /\ edge # Junk /\ Text(edge.from) # "" /\ Text(edge.to) # ""
      /\ edge.from \in ids /\ edge.to \in ids /\ edge.from # edge.to /\ ~ other
    BY <1>1
<1>3. Text(edge.from) = edge.from /\ Text(edge.to) = edge.to
    BY <1>2 DEF Text
<1> QED  BY <1>2, <1>3 DEF IsGoodEdge, Connects, other

NormalizedEdge(edge) == [from |-> edge.from, to |-> edge.to, kind |-> normalizeEdgeKind(edge.kind)]

\* The graph passed validation: all of it is kept, in order.
IsAccepted(graph, list, pairs) ==
    /\ IsArray(graph.nodes) /\ IsArray(graph.edges)
    /\ \A i \in 1 .. Len(graph.nodes) : IsGoodNode(graph.nodes, i) /\ IsRawNode(graph.nodes[i])
    /\ list = [k \in 1 .. Len(graph.nodes) |-> NormalizedNode(graph.nodes[k])]
    /\ \A i \in 1 .. Len(graph.edges) : IsGoodEdge(graph.edges, i, IdsOf(list))
    /\ pairs = [k \in 1 .. Len(graph.edges) |-> NormalizedEdge(graph.edges[k])]

LEMMA Acceptance ==
    ASSUME NEW graph, IsRawGraph(graph), DefinitionErrors(graph) = {}
    PROVE  LET list == normalizeGraphNodes(graph.nodes) IN
           IsAccepted(graph, list, normalizeGraphEdges(graph.edges, IdsOf(list)))
<1> DEFINE list == normalizeGraphNodes(graph.nodes)
           ids == IdsOf(list)
           pairs == normalizeGraphEdges(graph.edges, ids)
<1>1. MalformedGraph(graph) = {} /\ GraphErrors(graph) = {}
    BY DEF DefinitionErrors
<1>2. graph # Junk /\ graph.nodes # Junk /\ graph.edges # Junk
    BY <1>1 DEF MalformedGraph
<1>3. /\ IsArray(graph.nodes) /\ IsArray(graph.edges)
      /\ \A i \in DOMAIN graph.nodes : IsRawNode(graph.nodes[i])
    BY <1>2 DEF IsRawGraph
<1>4. /\ \A i \in DOMAIN graph.nodes : NodeErrors(graph.nodes, i) = {}
      /\ \A i \in DOMAIN graph.edges : EdgeErrors(graph.edges, i, ids) = {}
    BY <1>1 DEF GraphErrors
<1>5. list = [k \in 1 .. Len(graph.nodes) |-> NormalizedNode(graph.nodes[k])]
    <2> DEFINE raw == graph.nodes
               n == Len(raw)
               clean == {i \in DOMAIN raw : NodeErrors(raw, i) = {}}
               place(k) == CHOOSE i \in clean : Cardinality({j \in clean : j < i}) = k - 1
    <2>1. n \in Nat /\ clean = 1 .. n
        BY <1>3, <1>4 DEF IsArray
    <2>2. list = [k \in 1 .. Cardinality(clean) |-> NormalizedNode(raw[place(k)])]
        BY DEF normalizeGraphNodes, Kept
    <2> HIDE DEF clean, list
    <2>3. Cardinality(clean) = n /\ \A k \in 1 .. n : place(k) = k
        BY <2>1, PlacesAreIndices
    <2> HIDE DEF n, raw, place
    <2>4. list = [k \in 1 .. n |-> NormalizedNode(raw[k])]
        BY <2>2, <2>3
    <2> QED  BY <2>4 DEF n, raw
<1>6. pairs = [k \in 1 .. Len(graph.edges) |-> NormalizedEdge(graph.edges[k])]
    <2> HIDE DEF ids
    <2> DEFINE raw == graph.edges
               n == Len(raw)
               clean == {i \in DOMAIN raw : EdgeErrors(raw, i, ids) = {}}
               place(k) == CHOOSE i \in clean : Cardinality({j \in clean : j < i}) = k - 1
    <2>1. n \in Nat /\ clean = 1 .. n
        BY <1>3, <1>4 DEF IsArray
    <2>2. pairs = [k \in 1 .. Cardinality(clean) |-> NormalizedEdge(raw[place(k)])]
        BY DEF normalizeGraphEdges, Kept, NormalizedEdge
    <2> HIDE DEF clean, pairs
    <2>3. Cardinality(clean) = n /\ \A k \in 1 .. n : place(k) = k
        BY <2>1, PlacesAreIndices
    <2> HIDE DEF n, raw, place
    <2>4. pairs = [k \in 1 .. n |-> NormalizedEdge(raw[k])]
        BY <2>2, <2>3
    <2> QED  BY <2>4 DEF n, raw
<1>7. /\ \A i \in 1 .. Len(graph.nodes) : IsGoodNode(graph.nodes, i) /\ IsRawNode(graph.nodes[i])
      /\ \A i \in 1 .. Len(graph.edges) : IsGoodEdge(graph.edges, i, ids)
    BY <1>3, <1>4, NodeWithoutErrors, EdgeWithoutErrors DEF IsArray
<1> HIDE DEF list, pairs
<1>8. IsAccepted(graph, list, pairs)
    BY <1>3, <1>5, <1>6, <1>7 DEF IsAccepted, ids
<1> QED  BY <1>8 DEF list, pairs, ids

-----------------------------------------------------------------------------
(***************************************************************************)
(* The steps of an import.  The invariant: a graph handed over is one the  *)
(* lemmas above are about, the loop runs on the accepted nodes when one of *)
(* them lacks a position, and items exist only after the last check.       *)
(***************************************************************************)
IsList(list) == \E S : list \in Seq(S)

ItemOf(i) ==
    [id |-> i, name |-> nodes[i].label, shape |-> nodes[i].shape,
     width |-> nodes[i].width, height |-> nodes[i].height,
     x |-> Position(i).x, y |-> Position(i).y]

ItemEdgeOf(k) ==
    [id |-> Len(nodes) + k, kind |-> edges[k].kind,
     fromItemId |-> IndexIn(nodes, edges[k].from), toItemId |-> IndexIn(nodes, edges[k].to)]

PhaseOK ==
    /\ parse = "submitted" => IsRawGraph(request.graph)
    /\ phase # "requested" => parse = "submitted"
    /\ phase = "requested" => stage = "idle"
    /\ phase # "created" => items = <<>> /\ itemEdges = <<>>

LayoutOK ==
    /\ stage = "idle" => links = {} /\ processed = {}
    /\ stage # "idle" => LoopInv

NodesOK ==
    phase \in {"layout", "created"} =>
        /\ IsAccepted(request.graph, nodes, edges)
        /\ (\E i \in DOMAIN nodes : AutoLaid(i)) => stage # "idle" /\ nodeCount = Len(nodes)

ItemsOK ==
    phase = "created" =>
        /\ stage # "layering"
        /\ FinalPositionErrors = {}
        /\ items = [i \in DOMAIN nodes |-> ItemOf(i)]
        /\ itemEdges = [k \in DOMAIN edges |-> ItemEdgeOf(k)]

ListsOK == IsList(found) /\ IsList(parsedEdges)

CreationInv == PhaseOK /\ LayoutOK /\ NodesOK /\ ItemsOK /\ ListsOK

LEMMA CreationInit == ImportInit => CreationInv
<1> SUFFICES ASSUME ImportInit  PROVE CreationInv
    OBVIOUS
<1>1. PhaseOK /\ LayoutOK /\ NodesOK /\ ItemsOK
    BY RequestsAreRaw DEF ImportInit, NothingCreated, NoLayout, PhaseOK, LayoutOK, NodesOK, ItemsOK
<1>2. IsList(<<>>)
    <2>1. <<>> \in Seq({})
        OBVIOUS
    <2> QED  BY <2>1 DEF IsList
<1> QED  BY <1>1, <1>2 DEF ImportInit, CreationInv, ListsOK

\* While the graph and the creation stand still, so does what is said of them.
LEMMA CreationStutters ==
    ASSUME CreationInv, UNCHANGED graphVars, ListsOK',
           parse' = parse \/ (parse = "reading" /\ parse' = "failed")
    PROVE  CreationInv'
<1> USE DEF graphVars, creationVars
<1>1. PhaseOK'
    BY DEF CreationInv, PhaseOK, layoutVars
<1>2. LayoutOK'
    BY LoopStutters DEF CreationInv, LayoutOK, layoutVars
<1>3. NodesOK'
    BY DEF CreationInv, NodesOK, AutoLaid, layoutVars
<1>4. ItemsOK'
    <2>1. \A i : ItemOf(i)' = ItemOf(i)
        BY DEF ItemOf, Position, Origin, Options, RelativePosition, AutoLaid, Direction,
               PlaceInLayer, effectiveSpacing, Nodes, layoutVars
    <2>2. \A k : ItemEdgeOf(k)' = ItemEdgeOf(k)
        BY DEF ItemEdgeOf
    <2>3. FinalPositionErrors' = FinalPositionErrors
        <3>1. \A i : Position(i)' = Position(i)
            BY DEF Position, Origin, Options, RelativePosition, AutoLaid, Direction,
                   PlaceInLayer, effectiveSpacing, Nodes, layoutVars
        <3> QED  BY <3>1 DEF FinalPositionErrors
    <2> QED  BY <2>1, <2>2, <2>3 DEF CreationInv, ItemsOK, layoutVars
<1> QED  BY <1>1, <1>2, <1>3, <1>4 DEF CreationInv

\* The parser's lists stay lists.
LEMMA Appended ==
    ASSUME NEW list, IsList(list), NEW e
    PROVE  IsList(Append(list, e))
<1>1. PICK S : list \in Seq(S)
    BY DEF IsList
<1>2. Append(list, e) \in Seq(S \cup {e})
    <2>1. list \in Seq(S \cup {e})
        BY <1>1
    <2> QED  BY <2>1
<1> QED  BY <1>2 DEF IsList

LEMMA MergedIsList ==
    ASSUME NEW list, IsList(list), NEW new
    PROVE  IsList(mergeNodeDefinition(list, new))
<1>1. CASE new.id \in IdsOf(list)
    <2> DEFINE entry(i) == IF list[i].id = new.id THEN Merged(list[i], new) ELSE list[i]
               S == {entry(i) : i \in DOMAIN list}
    <2>1. mergeNodeDefinition(list, new) = [i \in DOMAIN list |-> entry(i)]
        BY <1>1 DEF mergeNodeDefinition
    <2>2. PICK n \in Nat : DOMAIN list = 1 .. n
        BY DEF IsList
    <2>a. \A i \in DOMAIN list : entry(i) \in S
        OBVIOUS
    <2> HIDE DEF entry, S
    <2>3. [i \in DOMAIN list |-> entry(i)] \in Seq(S)
        BY <2>2, <2>a
    <2> QED  BY <2>1, <2>3 DEF IsList
<1>2. CASE new.id \notin IdsOf(list)
    BY <1>2, Appended DEF mergeNodeDefinition
<1> QED  BY <1>1, <1>2

\* A line and the end of the source only change what the parser knows.
LEMMA LineRead ==
    ASSUME CreationInv, NEW line, ReadLine(line)
    PROVE  CreationInv'
<1>1. CASE \/ SkipLine(line) \/ ReadHeader(line) \/ IgnoreStatement(line)
           \/ RefuseHeader(line) \/ RefuseStatement(line)
    <2>1. /\ UNCHANGED graphVars /\ UNCHANGED <<found, parsedEdges>>
          /\ parse' = parse \/ (parse = "reading" /\ parse' = "failed")
        BY <1>1 DEF CanRead, IsStatement, SkipLine, ReadHeader, IgnoreStatement, RefuseHeader,
                    RefuseStatement
    <2>2. ListsOK'
        BY <2>1 DEF CreationInv, ListsOK
    <2> QED  BY <2>1, <2>2, CreationStutters
<1>2. CASE ReadStatement(line)
    <2> DEFINE refs == References(line)
               once == mergeNodeDefinition(found, parseNodeReference(refs[1]))
               both == mergeNodeDefinition(once, parseNodeReference(refs[2]))
    <2>1. IsList(once) /\ IsList(both)
        BY MergedIsList DEF CreationInv, ListsOK
    <2> HIDE DEF once, both
    <2>2. found' \in {once, both}
        BY <1>2 DEF ReadStatement, once, both
    <2>3. parsedEdges' = parsedEdges \/ \E e : parsedEdges' = Append(parsedEdges, e)
        BY <1>2 DEF ReadStatement
    <2>4. ListsOK'
        BY <2>1, <2>2, <2>3, Appended DEF CreationInv, ListsOK
    <2>5. UNCHANGED graphVars /\ parse' = parse
        BY <1>2 DEF ReadStatement
    <2> QED  BY <2>4, <2>5, CreationStutters
<1> QED  BY <1>1, <1>2 DEF ReadLine

LEMMA SourceRefused ==
    ASSUME CreationInv, RefuseSource
    PROVE  CreationInv'
<1>1. ListsOK'
    BY DEF RefuseSource, CreationInv, ListsOK
<1> QED  BY <1>1, CreationStutters DEF RefuseSource

\* The parser hands over a graph of the form the creation expects.
LEMMA Submitted ==
    ASSUME CreationInv, NEW call, SubmitGraph(call)
    PROVE  CreationInv'
<1>1. phase = "requested" /\ parse' = "submitted" /\ UNCHANGED <<found, parsedEdges>>
      /\ UNCHANGED <<layoutVars, phase, nodes, edges, errors, items, itemEdges>>
    BY DEF SubmitGraph, CreationInv, PhaseOK
<1>2. ListsOK'
    BY <1>1 DEF CreationInv, ListsOK
<1>3. IsRawGraph(request'.graph)
    <2> DEFINE entry(i) == [id |-> found[i].id, label |-> found[i].label, shape |-> found[i].shape,
                            x |-> Absent, y |-> Absent, width |-> Absent, height |-> Absent]
               list == [i \in DOMAIN found |-> entry(i)]
    <2>1. request'.graph.nodes = list /\ request'.graph.edges = parsedEdges
        BY DEF SubmitGraph
    <2>2. PICK n \in Nat : DOMAIN found = 1 .. n
        BY DEF CreationInv, ListsOK, IsList
    <2>3. \A i \in DOMAIN list : IsRawNode(list[i])
        BY DEF IsRawNode
    <2> HIDE DEF entry
    <2>4. IsArray(list)
        <3>1. list \in Seq({entry(i) : i \in DOMAIN found})
            BY <2>2
        <3> HIDE DEF list
        <3> QED  BY <3>1 DEF IsArray
    <2>5. IsArray(parsedEdges)
        BY DEF CreationInv, ListsOK, IsList, IsArray
    <2> QED  BY <2>1, <2>3, <2>4, <2>5 DEF IsRawGraph
<1>4. LayoutOK'
    BY <1>1, LoopStutters DEF CreationInv, LayoutOK, layoutVars
<1>5. PhaseOK' /\ NodesOK' /\ ItemsOK'
    BY <1>1, <1>3 DEF CreationInv, PhaseOK, NodesOK, ItemsOK, layoutVars
<1> QED  BY <1>2, <1>4, <1>5 DEF CreationInv

\* The nodes and edges of an accepted graph, and where the edges end.
LEMMA AcceptedLists ==
    ASSUME NEW graph, NEW list, NEW pairs, IsAccepted(graph, list, pairs)
    PROVE  /\ Len(graph.nodes) \in Nat /\ Len(list) = Len(graph.nodes)
           /\ DOMAIN list = 1 .. Len(list) /\ DOMAIN graph.nodes = 1 .. Len(list)
           /\ Len(graph.edges) \in Nat /\ Len(pairs) = Len(graph.edges)
           /\ DOMAIN pairs = 1 .. Len(pairs) /\ DOMAIN graph.edges = 1 .. Len(pairs)
           /\ \A i \in DOMAIN list : list[i] = NormalizedNode(graph.nodes[i])
           /\ \A k \in DOMAIN pairs : pairs[k] = NormalizedEdge(graph.edges[k])
<1>1. Len(graph.nodes) \in Nat /\ Len(graph.edges) \in Nat
    BY DEF IsAccepted, IsArray
<1>2. list = [k \in 1 .. Len(graph.nodes) |-> NormalizedNode(graph.nodes[k])]
    BY DEF IsAccepted
<1>3. pairs = [k \in 1 .. Len(graph.edges) |-> NormalizedEdge(graph.edges[k])]
    BY DEF IsAccepted
<1>4. Len(list) = Len(graph.nodes) /\ Len(pairs) = Len(graph.edges)
    BY <1>1, <1>2, <1>3
<1>5. DOMAIN graph.nodes = 1 .. Len(graph.nodes) /\ DOMAIN graph.edges = 1 .. Len(graph.edges)
    BY DEF IsAccepted, IsArray
<1> QED  BY <1>1, <1>2, <1>3, <1>4, <1>5

LEMMA AcceptedNodes ==
    ASSUME NEW graph, NEW list, NEW pairs, IsAccepted(graph, list, pairs)
    PROVE  /\ \A i \in DOMAIN list : IsNode(list[i]) /\ list[i].id = graph.nodes[i].id
           /\ \A i, j \in DOMAIN list : i # j => list[i].id # list[j].id
<1>1. \A i \in DOMAIN list : IsNode(list[i]) /\ list[i].id = graph.nodes[i].id
    <2> SUFFICES ASSUME NEW i \in DOMAIN list
                 PROVE  IsNode(list[i]) /\ list[i].id = graph.nodes[i].id
        OBVIOUS
    <2>1. IsGoodNode(graph.nodes, i) /\ IsRawNode(graph.nodes[i])
        BY AcceptedLists DEF IsAccepted
    <2> QED  BY <2>1, AcceptedLists, NormalizedNodeType
<1>2. ASSUME NEW i \in DOMAIN list, NEW j \in DOMAIN list, j < i
      PROVE  list[i].id # list[j].id
    <2>1. i \in 1 .. Len(graph.nodes) /\ j \in 1 .. i - 1
        BY <1>2, AcceptedLists
    <2>2. IsGoodNode(graph.nodes, i) /\ IsGoodNode(graph.nodes, j)
        BY <2>1, AcceptedLists DEF IsAccepted
    <2> QED  BY <1>1, <2>1, <2>2 DEF IsGoodNode
<1>3. ASSUME NEW i \in DOMAIN list, NEW j \in DOMAIN list, i # j  PROVE j < i \/ i < j
    BY <1>3, AcceptedLists
<1> QED  BY <1>1, <1>2, <1>3

LEMMA AcceptedEdges ==
    ASSUME NEW graph, NEW list, NEW pairs, IsAccepted(graph, list, pairs)
    PROVE  /\ \A k \in DOMAIN pairs :
                 LET from == IndexIn(list, pairs[k].from)  to == IndexIn(list, pairs[k].to) IN
                 /\ from \in DOMAIN list /\ list[from].id = graph.edges[k].from
                 /\ to \in DOMAIN list /\ list[to].id = graph.edges[k].to
                 /\ graph.edges[k].from # graph.edges[k].to
           /\ \A k, l \in DOMAIN pairs :
                 {graph.edges[k].from, graph.edges[k].to} = {graph.edges[l].from, graph.edges[l].to}
                     => k = l
<1>1. \A k \in DOMAIN pairs : IsGoodEdge(graph.edges, k, IdsOf(list))
    BY AcceptedLists DEF IsAccepted
<1>2. \A k \in DOMAIN pairs : pairs[k].from = graph.edges[k].from /\ pairs[k].to = graph.edges[k].to
    BY AcceptedLists DEF NormalizedEdge
<1>3. \A id \in IdsOf(list) : IndexIn(list, id) \in DOMAIN list /\ list[IndexIn(list, id)].id = id
    BY DEF IdsOf, IndexIn
<1>4. ASSUME NEW k \in DOMAIN pairs, NEW l \in DOMAIN pairs, l < k
      PROVE  {graph.edges[k].from, graph.edges[k].to} # {graph.edges[l].from, graph.edges[l].to}
    <2>1. l \in 1 .. k - 1
        BY <1>4, AcceptedLists
    <2>2. Connects(graph.edges[l], IdsOf(list))
        BY <1>1 DEF IsGoodEdge
    <2> QED  BY <1>1, <2>1, <2>2 DEF IsGoodEdge
<1>5. ASSUME NEW k \in DOMAIN pairs, NEW l \in DOMAIN pairs, k # l  PROVE k < l \/ l < k
    BY <1>5, AcceptedLists
<1>6. \A k \in DOMAIN pairs :
          /\ graph.edges[k].from \in IdsOf(list) /\ graph.edges[k].to \in IdsOf(list)
          /\ graph.edges[k].from # graph.edges[k].to
    BY <1>1 DEF IsGoodEdge
<1>7. \A k \in DOMAIN pairs :
          LET from == IndexIn(list, pairs[k].from)  to == IndexIn(list, pairs[k].to) IN
          /\ from \in DOMAIN list /\ list[from].id = graph.edges[k].from
          /\ to \in DOMAIN list /\ list[to].id = graph.edges[k].to
    BY <1>2, <1>3, <1>6
<1>8. ASSUME NEW k \in DOMAIN pairs, NEW l \in DOMAIN pairs,
             {graph.edges[k].from, graph.edges[k].to} = {graph.edges[l].from, graph.edges[l].to}
      PROVE  k = l
    BY <1>4, <1>5, <1>8
<1> QED  BY <1>6, <1>7, <1>8

-----------------------------------------------------------------------------
(* The steps of the creation *)

LEMMA NormalizeKeeps ==
    ASSUME CreationInv, parse = "submitted", Normalize, UNCHANGED parserVars
    PROVE  CreationInv'
<1> DEFINE graph == request.graph
           list == normalizeGraphNodes(graph.nodes)
           pairs == normalizeGraphEdges(graph.edges, IdsOf(list))
           ends == {<<IndexIn(list, pairs[k].from), IndexIn(list, pairs[k].to)>> : k \in DOMAIN pairs}
<1>1. IsAccepted(graph, list, pairs)
    BY Acceptance DEF CreationInv, PhaseOK, Normalize
<1>2. /\ phase = "requested" /\ phase' = "layout"
      /\ nodes' = list /\ edges' = pairs
      /\ IF \E i \in DOMAIN list : list[i].x = Absent THEN StartLayering(Len(list), ends)
                                                     ELSE UNCHANGED layoutVars
      /\ UNCHANGED <<request, items, itemEdges>> /\ UNCHANGED <<found, parsedEdges, parse>>
    BY DEF Normalize, parserVars
<1> HIDE DEF graph, list, pairs, ends
<1>3. IsAccepted(request.graph, nodes, edges)'
    BY <1>1, <1>2 DEF graph
<1>4. Len(list) \in Nat /\ ends \subseteq (1 .. Len(list)) \X (1 .. Len(list))
    BY <1>1, AcceptedLists, AcceptedEdges DEF ends
<1>5. CASE \E i \in DOMAIN list : list[i].x = Absent
    <2>1. StartLayering(Len(list), ends)
        BY <1>2, <1>5
    <2>2. Init'
        BY <1>4, <2>1 DEF StartLayering, Init, Nodes
    <2>3. LoopInv'
        BY <2>2, LoopInit, PTL
    <2>4. stage' = "layering" /\ nodeCount' = Len(nodes')
        BY <1>2, <2>1 DEF StartLayering
    <2> QED  BY <1>2, <1>3, <2>3, <2>4 DEF CreationInv, PhaseOK, LayoutOK, NodesOK, ItemsOK, ListsOK
<1>6. CASE ~ \E i \in DOMAIN list : list[i].x = Absent
    <2>1. UNCHANGED layoutVars
        BY <1>2, <1>6
    <2>2. LayoutOK'
        BY <2>1, LoopStutters DEF CreationInv, LayoutOK, layoutVars
    <2>3. ~ (\E i \in DOMAIN nodes : AutoLaid(i))'
        BY <1>2, <1>6 DEF AutoLaid
    <2> QED  BY <1>2, <1>3, <2>2, <2>3 DEF CreationInv, PhaseOK, NodesOK, ItemsOK, ListsOK
<1> QED  BY <1>5, <1>6

LEMMA LayoutKeeps ==
    ASSUME CreationInv, Layout, UNCHANGED parserVars
    PROVE  CreationInv'
<1>1. phase = "layout" /\ UNCHANGED creationVars /\ UNCHANGED <<found, parsedEdges, parse>>
    BY DEF Layout, parserVars
<1>2. stage = "layering" /\ stage' # "idle" /\ nodeCount' = nodeCount
    BY DEF Layout, ProcessNextNode, LayerTheRest
<1>3. LoopInv'
    BY <1>2, IterationTakes, LoopTakes, LoopRest DEF Layout, CreationInv, LayoutOK
<1>4. NodesOK'
    BY <1>1, <1>2 DEF CreationInv, NodesOK, AutoLaid, creationVars
<1> QED  BY <1>1, <1>2, <1>3, <1>4 DEF CreationInv, PhaseOK, LayoutOK, ItemsOK, ListsOK, creationVars

LEMMA RejectKeeps ==
    ASSUME CreationInv, parse = "submitted", Reject \/ RejectPositions, UNCHANGED parserVars
    PROVE  CreationInv'
<1>1. /\ phase \in {"requested", "layout"} /\ phase' = "rejected"
      /\ UNCHANGED layoutVars /\ UNCHANGED <<request, items, itemEdges>>
      /\ UNCHANGED <<found, parsedEdges, parse>>
    BY DEF Reject, RejectPositions, LayoutDone, parserVars
<1>2. LayoutOK'
    BY <1>1, LoopStutters DEF CreationInv, LayoutOK, layoutVars
<1> QED  BY <1>1, <1>2 DEF CreationInv, PhaseOK, NodesOK, ItemsOK, ListsOK

LEMMA CreateKeeps ==
    ASSUME CreationInv, Create, UNCHANGED parserVars
    PROVE  CreationInv'
<1>1. /\ phase = "layout" /\ stage # "layering" /\ FinalPositionErrors = {} /\ phase' = "created"
      /\ UNCHANGED layoutVars /\ UNCHANGED <<request, nodes, edges>>
      /\ UNCHANGED <<found, parsedEdges, parse>>
      /\ items' = [i \in DOMAIN nodes |-> ItemOf(i)]
      /\ itemEdges' = [k \in DOMAIN edges |-> ItemEdgeOf(k)]
    BY DEF Create, LayoutDone, parserVars, ItemOf, ItemEdgeOf
<1>2. LayoutOK'
    BY <1>1, LoopStutters DEF CreationInv, LayoutOK, layoutVars
<1>3. \A i : Position(i)' = Position(i)
    BY <1>1 DEF Position, Origin, Options, RelativePosition, AutoLaid, Direction,
                PlaceInLayer, effectiveSpacing, Nodes, layoutVars
<1>4. FinalPositionErrors' = FinalPositionErrors
      /\ (\A i : ItemOf(i)' = ItemOf(i)) /\ (\A k : ItemEdgeOf(k)' = ItemEdgeOf(k))
    BY <1>1, <1>3 DEF FinalPositionErrors, ItemOf, ItemEdgeOf
<1>5. ItemsOK'
    BY <1>1, <1>4 DEF ItemsOK, layoutVars
<1>6. PhaseOK' /\ NodesOK' /\ ListsOK'
    BY <1>1 DEF CreationInv, PhaseOK, NodesOK, ListsOK, AutoLaid, layoutVars
<1> QED  BY <1>2, <1>5, <1>6 DEF CreationInv

LEMMA CreationStep ==
    ASSUME CreationInv, [ImportNext]_importVars
    PROVE  CreationInv'
<1>1. CASE \E line \in Lines : ReadLine(line)
    BY <1>1, LineRead
<1>2. CASE RefuseSource
    BY <1>2, SourceRefused
<1>3. CASE \E call \in CallOptions : SubmitGraph(call)
    BY <1>3, Submitted
<1>4. CASE parse = "submitted" /\ CreationNext /\ UNCHANGED parserVars
    BY <1>4, NormalizeKeeps, LayoutKeeps, RejectKeeps, CreateKeeps DEF CreationNext
<1>5. CASE UNCHANGED importVars
    <2>1. ListsOK' /\ parse' = parse /\ UNCHANGED graphVars
        BY <1>5 DEF CreationInv, ListsOK, importVars, parserVars
    <2> QED  BY <2>1, CreationStutters
<1> QED  BY <1>1, <1>2, <1>3, <1>4, <1>5 DEF ImportNext

\* Whatever is imported, by whatever way: only an accepted graph is laid out, the
\* layering of its nodes is right, and items appear after the last check, all at once.
THEOREM CreationInvariant == ImportSpec => []CreationInv
BY CreationStep, CreationInit, PTL DEF ImportSpec

\* To the loop a step of the import is one of its own, a stutter or a new start.
LEMMA LoopSteps ==
    ASSUME CreationInv, [ImportNext]_importVars
    PROVE  \/ LoopInv /\ [Next]_layoutVars
           \/ UNCHANGED layoutVars
           \/ processed' = {} /\ stage' = "layering"
<1>1. CASE UNCHANGED importVars
    BY <1>1 DEF importVars, graphVars
<1>2. CASE (\E line \in Lines : ReadLine(line)) \/ RefuseSource
           \/ \E call \in CallOptions : SubmitGraph(call)
    BY <1>2 DEF ReadLine, SkipLine, ReadHeader, RefuseHeader, IgnoreStatement, RefuseStatement,
                ReadStatement, RefuseSource, SubmitGraph, graphVars
<1>3. CASE Reject \/ RejectPositions \/ Create
    BY <1>3 DEF Reject, RejectPositions, Create
<1>4. CASE Normalize
    BY <1>4 DEF Normalize, StartLayering
<1>5. CASE Layout
    <2>1. stage # "idle" /\ Next
        BY <1>5 DEF Layout, ProcessNextNode, LayerTheRest, Next
    <2> QED  BY <2>1 DEF CreationInv, LayoutOK
<1> QED  BY <1>1, <1>2, <1>3, <1>4, <1>5 DEF ImportNext, CreationNext

\* In every import, not only from a fresh loop: an edge leads to a later layer unless
\* it starts in a cycle or behind one (buildLayerAssignments).
THEOREM ImportedEdgesLeadOnward == ImportSpec => []LayersFollowEdges
<1>1. ImportInit => LayersFollowEdges
    BY DEF ImportInit, NothingCreated, NoLayout, LayersFollowEdges
<1>2. ASSUME CreationInv, LayersFollowEdges, [ImportNext]_importVars
      PROVE  LayersFollowEdges'
    <2>1. CASE LoopInv /\ [Next]_layoutVars
        BY <1>2, <2>1, EdgesKept
    <2>2. CASE UNCHANGED layoutVars
        BY <1>2, <2>2 DEF LayersFollowEdges, layoutVars
    <2>3. CASE processed' = {}
        BY <2>3 DEF LayersFollowEdges
    <2> QED  BY <1>2, <2>1, <2>2, <2>3, LoopSteps
<1> QED  BY <1>1, <1>2, CreationInvariant, PTL DEF ImportSpec

\* In every import exactly the nodes on and behind cycles get the last layers (the
\* fallback of buildLayerAssignments).
THEOREM ImportedCyclesAreLast == ImportSpec => []CyclesComeLast
<1>1. ImportInit => CyclesComeLast
    BY DEF ImportInit, NothingCreated, NoLayout, CyclesComeLast
<1>2. ASSUME CreationInv, CyclesComeLast, [ImportNext]_importVars
      PROVE  CyclesComeLast'
    <2>1. CASE LoopInv /\ [Next]_layoutVars
        BY <1>2, <2>1, CyclesKept
    <2>2. CASE UNCHANGED layoutVars
        <3>1. Nodes' = Nodes /\ \A S : FedFromWithin(S)' <=> FedFromWithin(S)
            BY <2>2 DEF Nodes, Sources, FedFromWithin, layoutVars
        <3> QED  BY <1>2, <2>2, <3>1 DEF CyclesComeLast, layoutVars
    <2>3. CASE stage' = "layering"
        BY <2>3 DEF CyclesComeLast
    <2> QED  BY <1>2, <2>1, <2>2, <2>3, LoopSteps
<1> QED  BY <1>1, <1>2, CreationInvariant, PTL DEF ImportSpec

-----------------------------------------------------------------------------
(***************************************************************************)
(* What is created.                                                        *)
(***************************************************************************)
LEMMA CreatedItems ==
    ASSUME CreationInv, phase = "created"
    PROVE  /\ IsAccepted(request.graph, nodes, edges)
           /\ DOMAIN items = DOMAIN nodes /\ DOMAIN itemEdges = DOMAIN edges
           /\ DOMAIN nodes = 1 .. Len(nodes) /\ Len(nodes) \in Nat
           /\ \A i \in DOMAIN items : items[i] = ItemOf(i) /\ IsNode(nodes[i])
           /\ \A k \in DOMAIN itemEdges : itemEdges[k] = ItemEdgeOf(k)
<1>1. IsAccepted(request.graph, nodes, edges)
    BY DEF CreationInv, NodesOK
<1>2. items = [i \in DOMAIN nodes |-> ItemOf(i)] /\ itemEdges = [k \in DOMAIN edges |-> ItemEdgeOf(k)]
    BY DEF CreationInv, ItemsOK
<1>3. /\ \A i \in DOMAIN nodes : IsNode(nodes[i])
      /\ DOMAIN nodes = 1 .. Len(nodes) /\ Len(nodes) \in Nat
    BY <1>1, AcceptedLists, AcceptedNodes
<1> HIDE DEF CreationInv
<1> QED  BY <1>1, <1>2, <1>3

LEMMA CreatedIsItem ==
    ASSUME CreationInv, phase = "created", NEW i \in DOMAIN items
    PROVE  IsItem(items[i]) /\ items[i].name # ""
<1>1. items[i] = ItemOf(i) /\ IsNode(nodes[i])
    BY CreatedItems
<1>2. items[i] = [id |-> i, name |-> nodes[i].label, shape |-> nodes[i].shape,
                  width |-> nodes[i].width, height |-> nodes[i].height,
                  x |-> Position(i).x, y |-> Position(i).y]
    BY <1>1 DEF ItemOf
<1>3. /\ items[i].id = i /\ items[i].name = nodes[i].label /\ items[i].shape = nodes[i].shape
      /\ items[i].width = nodes[i].width /\ items[i].height = nodes[i].height
      /\ items[i].x = Position(i).x /\ items[i].y = Position(i).y
    BY <1>2
<1>4. items[i] = [id |-> items[i].id, name |-> items[i].name, shape |-> items[i].shape,
                  width |-> items[i].width, height |-> items[i].height,
                  x |-> items[i].x, y |-> items[i].y]
    BY <1>2, <1>3
<1>5. /\ items[i].shape \in Shape /\ items[i].width \in Width /\ items[i].height \in Height
      /\ items[i].name # ""
    BY <1>1, <1>3 DEF IsNode
<1> QED  BY <1>4, <1>5, Zenon DEF IsItem

\* For every graph: a created item, and what a wheel step or a drag makes of it, is
\* left alone by a later load, drawn, with room for its text, and on the canvas
\* (buildPostbabyGraphFromNormalizedGraph, normalizeItemForRuntime).
THEOREM ItemsAreSound == ImportSpec => []ItemsSurviveReload
<1>1. CreationInv => ItemsSurviveReload
    <2> SUFFICES ASSUME CreationInv, NEW i \in DOMAIN items
                 PROVE  /\ WithinCanvas(items[i].x, items[i].y)
                        /\ items[i].name # ""
                        /\ \A item \in Edited(items[i]) :
                              /\ normalizeItemForRuntime(item) = item
                              /\ Box(item) # Absent
                              /\ TextHasRoom(item)
        BY DEF ItemsSurviveReload
    <2>1. phase = "created"
        BY DEF CreationInv, PhaseOK
    <2>2. IsItem(items[i]) /\ items[i].name # ""
        BY <2>1, CreatedIsItem
    <2>3. items[i] = ItemOf(i) /\ i \in DOMAIN nodes
        BY <2>1, CreatedItems
    <2>4. WithinCanvas(Position(i).x, Position(i).y)
        BY <2>1, <2>3 DEF CreationInv, ItemsOK, FinalPositionErrors
    <2>5. items[i].x = Position(i).x /\ items[i].y = Position(i).y
        BY <2>3 DEF ItemOf
    <2> QED  BY <2>2, <2>4, <2>5, EditedIsItem, ItemSurvives
<1> QED  BY <1>1, CreationInvariant, PTL

\* For every graph: an accepted one is imported whole, each node as one item and
\* each edge between the items of the nodes it names, no pair of items twice
\* (normalizeGraphNodes, normalizeGraphEdges).
THEOREM AcceptedIsWhole == ImportSpec => []ImportedWhole
<1>1. CreationInv => ImportedWhole
    <2> SUFFICES ASSUME CreationInv, phase = "created"  PROVE ImportedWhole
        BY DEF ImportedWhole
    <2> DEFINE graph == request.graph
               from(k) == IndexIn(nodes, edges[k].from)
               to(k) == IndexIn(nodes, edges[k].to)
    <2>1. IsAccepted(graph, nodes, edges)
        BY CreatedItems
    <2>2. /\ items = [i \in DOMAIN nodes |-> ItemOf(i)]
          /\ itemEdges = [k \in DOMAIN edges |-> ItemEdgeOf(k)]
        BY DEF CreationInv, ItemsOK
    <2>3. Len(items) = Len(graph.nodes) /\ Len(itemEdges) = Len(graph.edges)
        BY <2>1, <2>2, AcceptedLists
    <2>4. \A k \in DOMAIN itemEdges :
              /\ k \in DOMAIN edges
              /\ itemEdges[k].fromItemId = from(k) /\ itemEdges[k].toItemId = to(k)
              /\ itemEdges[k].kind = edges[k].kind
        BY <2>2 DEF ItemEdgeOf
    <2>5. \A i \in DOMAIN nodes : nodes[i].id = graph.nodes[i].id
        BY <2>1, AcceptedNodes
    <2>6. \A k \in DOMAIN edges :
              /\ from(k) \in DOMAIN nodes /\ nodes[from(k)].id = graph.edges[k].from
              /\ to(k) \in DOMAIN nodes /\ nodes[to(k)].id = graph.edges[k].to
              /\ graph.edges[k].from # graph.edges[k].to
        BY <2>1, AcceptedEdges
    <2>7. \A k, l \in DOMAIN edges :
              {graph.edges[k].from, graph.edges[k].to} = {graph.edges[l].from, graph.edges[l].to}
                  => k = l
        BY <2>1, AcceptedEdges
    <2>8. \A k \in DOMAIN edges : edges[k].kind = normalizeEdgeKind(graph.edges[k].kind)
        BY <2>1, AcceptedLists DEF NormalizedEdge
    <2> HIDE DEF from, to, graph
    <2>9. \A k \in DOMAIN edges :
              edges[k].kind = graph.edges[k].kind \/ graph.edges[k].kind \notin {"line", "arrow"}
        BY <2>8 DEF normalizeEdgeKind
    <2>10. \A k \in DOMAIN itemEdges :
              /\ graph.nodes[itemEdges[k].fromItemId].id = graph.edges[k].from
              /\ graph.nodes[itemEdges[k].toItemId].id = graph.edges[k].to
              /\ itemEdges[k].kind = graph.edges[k].kind \/ graph.edges[k].kind \notin {"line", "arrow"}
              /\ itemEdges[k].fromItemId # itemEdges[k].toItemId
        BY <2>4, <2>5, <2>6, <2>9
    <2>11. \A k, l \in DOMAIN edges : {from(k), to(k)} = {from(l), to(l)} => k = l
        BY <2>6, <2>7
    <2> QED  BY <2>3, <2>4, <2>10, <2>11 DEF ImportedWhole, graph
<1> QED  BY <1>1, CreationInvariant, PTL

-----------------------------------------------------------------------------
(***************************************************************************)
(* Placement: the spacing makes room for every node, so nodes in different *)
(* layers and different places of a layer are apart.                       *)
(***************************************************************************)
LEMMA LongestFound ==
    ASSUME NEW wanted \in Int, NEW sizes, \A s \in sizes : s \in Int /\ s <= 600
    PROVE  /\ SpacingFor(wanted, sizes) \in Int /\ SpacingFor(wanted, sizes) >= wanted
           /\ \A s \in sizes : SpacingFor(wanted, sizes) >= s + GRAPH_DEFAULT_GAP
<1> DEFINE D == {wanted} \cup {s + GRAPH_DEFAULT_GAP : s \in sizes}
           B == IF wanted >= 640 THEN wanted ELSE 640
           T == {B - d : d \in D}
<1>1. B \in Int /\ \A d \in D : d \in Int /\ d <= B
    BY DEF GRAPH_DEFAULT_GAP
<1>2. wanted \in D /\ \A s \in sizes : s + GRAPH_DEFAULT_GAP \in D
    OBVIOUS
<1> HIDE DEF D, B
<1>3. T \subseteq Nat
    BY <1>1
<1>4. B - wanted \in T
    BY <1>2
<1>5. PICK t \in T : \A u \in T : t <= u
    <2> HIDE DEF T
    <2> QED  BY <1>3, <1>4, LeastNatural
<1>6. PICK d \in D : t = B - d
    OBVIOUS
<1>7. \A e \in D : d >= e
    <2> SUFFICES ASSUME NEW e \in D  PROVE d >= e
        OBVIOUS
    <2>1. B - d <= B - e
        BY <1>5, <1>6
    <2> QED  BY <1>1, <2>1
<1>8. \E x \in D : x >= wanted /\ \A s \in sizes : x >= s + GRAPH_DEFAULT_GAP
    BY <1>2, <1>7
<1>9. SpacingFor(wanted, sizes) =
          CHOOSE x \in D : x >= wanted /\ \A s \in sizes : x >= s + GRAPH_DEFAULT_GAP
    BY DEF SpacingFor, D
<1> QED  BY <1>1, <1>8, <1>9

LEMMA SpacingFits ==
    ASSUME \A i \in DOMAIN nodes : nodes[i].width \in Width /\ nodes[i].height \in Height
    PROVE  /\ effectiveSpacing.x \in Nat /\ effectiveSpacing.y \in Nat
           /\ \A i \in DOMAIN nodes :
                 /\ nodes[i].width + GRAPH_DEFAULT_GAP <= effectiveSpacing.x
                 /\ nodes[i].height + GRAPH_DEFAULT_GAP <= effectiveSpacing.y
<1> DEFINE askedX == PositiveOr(Options.spacingX, GRAPH_DEFAULT_SPACING.x)
           askedY == PositiveOr(Options.spacingY, GRAPH_DEFAULT_SPACING.y)
           widths == {nodes[i].width : i \in DOMAIN nodes}
           heights == {nodes[i].height : i \in DOMAIN nodes}
<1>1. askedX \in Nat /\ askedY \in Nat
    BY DEF PositiveOr, GRAPH_DEFAULT_SPACING
<1>2. /\ \A s \in widths : s \in Int /\ s <= 600
      /\ \A s \in heights : s \in Int /\ s <= 600
    <2>1. /\ \A s \in Width : s \in Int /\ s <= 600
          /\ \A s \in Height : s \in Int /\ s <= 600
        BY DEF Width, Height, MIN_WIDTH, MAX_WIDTH, MIN_HEIGHT, MAX_HEIGHT
    <2>2. widths \subseteq Width /\ heights \subseteq Height
        OBVIOUS
    <2> QED  BY <2>1, <2>2, Zenon
<1>3. effectiveSpacing = [x |-> SpacingFor(askedX, widths), y |-> SpacingFor(askedY, heights)]
    BY DEF effectiveSpacing
<1>4. \A i \in DOMAIN nodes : nodes[i].width \in widths /\ nodes[i].height \in heights
    OBVIOUS
<1> HIDE DEF askedX, askedY, widths, heights
<1>5. /\ SpacingFor(askedX, widths) \in Int /\ SpacingFor(askedX, widths) >= askedX
      /\ \A s \in widths : SpacingFor(askedX, widths) >= s + GRAPH_DEFAULT_GAP
    BY <1>1, <1>2, LongestFound
<1>6. /\ SpacingFor(askedY, heights) \in Int /\ SpacingFor(askedY, heights) >= askedY
      /\ \A s \in heights : SpacingFor(askedY, heights) >= s + GRAPH_DEFAULT_GAP
    BY <1>1, <1>2, LongestFound
<1>7. effectiveSpacing.x = SpacingFor(askedX, widths) /\ effectiveSpacing.y = SpacingFor(askedY, heights)
    BY <1>3
<1>8. effectiveSpacing.x \in Nat /\ effectiveSpacing.y \in Nat
    BY <1>1, <1>5, <1>6, <1>7
<1>9. \A i \in DOMAIN nodes : nodes[i].width \in Int /\ nodes[i].height \in Int
    BY SizesAreInts, Zenon
<1>10. GRAPH_DEFAULT_GAP \in Int
    BY DEF GRAPH_DEFAULT_GAP
<1> QED  BY <1>4, <1>5, <1>6, <1>7, <1>8, <1>9, <1>10

LEMMA Multiples ==
    ASSUME NEW a \in Nat, NEW b \in Nat, NEW s \in Nat, NEW n \in Int, a < b, n <= s
    PROVE  a * s \in Int /\ b * s \in Int /\ a * s + n <= b * s
<1>1. (b - a - 1) * s >= 0
    OBVIOUS
<1>2. b * s = a * s + s + (b - a - 1) * s
    OBVIOUS
<1> QED  BY <1>1, <1>2

\* A node in an earlier layer, or earlier in the same one, ends before the other starts.
LEMMA EarlierEndsBefore ==
    ASSUME CreationInv, phase = "created", NEW i \in DOMAIN nodes, NEW j \in DOMAIN nodes,
           AutoLaid(i), AutoLaid(j),
           layerOf[i] < layerOf[j] \/ (layerOf[i] = layerOf[j] /\ i < j)
    PROVE  \/ Position(i).x + nodes[i].width + GRAPH_DEFAULT_GAP <= Position(j).x
           \/ Position(i).y + nodes[i].height + GRAPH_DEFAULT_GAP <= Position(j).y
<1> DEFINE sx == effectiveSpacing.x
           sy == effectiveSpacing.y
           w == nodes[i].width + GRAPH_DEFAULT_GAP
           h == nodes[i].height + GRAPH_DEFAULT_GAP
<1>1. LoopInv /\ nodeCount = Len(nodes)
    BY DEF CreationInv, NodesOK, LayoutOK
<1>2. Nodes = DOMAIN nodes
    BY <1>1, CreatedItems DEF Nodes
<1>3. layerOf[i] \in Nat /\ layerOf[j] \in Nat /\ nodeCount \in Nat
    BY <1>1, <1>2 DEF LoopInv, LayoutTypeOK
<1>4. PlaceInLayer(i) \in Nat /\ PlaceInLayer(j) \in Nat
    BY <1>3, NodeSetsFinite DEF PlaceInLayer
<1>5. layerOf[i] = layerOf[j] /\ i < j => PlaceInLayer(i) < PlaceInLayer(j)
    <2> SUFFICES ASSUME layerOf[i] = layerOf[j], i < j  PROVE PlaceInLayer(i) < PlaceInLayer(j)
        OBVIOUS
    <2> DEFINE S == {u \in Nodes : AutoLaid(u) /\ layerOf[u] = layerOf[i]}
    <2>1. S \in SUBSET Nodes /\ i \in S /\ j \in S
        BY <1>2
    <2>2. {u \in Nodes : u < i /\ AutoLaid(u) /\ layerOf[u] = layerOf[i]} = {u \in S : u < i}
          /\ {u \in Nodes : u < j /\ AutoLaid(u) /\ layerOf[u] = layerOf[j]} = {u \in S : u < j}
        OBVIOUS
    <2> HIDE DEF S
    <2>3. Cardinality({u \in S : u < i}) < Cardinality({u \in S : u < j})
        BY <1>3, <2>1, RanksGrow
    <2> QED  BY <2>2, <2>3 DEF PlaceInLayer
<1>6. /\ sx \in Nat /\ sy \in Nat /\ w \in Int /\ h \in Int /\ w <= sx /\ h <= sy
      /\ nodes[i].width \in Int /\ nodes[i].height \in Int /\ GRAPH_DEFAULT_GAP \in Int
    <2>1. \A k \in DOMAIN nodes : nodes[k].width \in Width /\ nodes[k].height \in Height
        BY CreatedItems DEF IsNode
    <2>2. nodes[i].width \in Int /\ nodes[i].height \in Int
        BY <2>1, SizesAreInts, Zenon
    <2>3. GRAPH_DEFAULT_GAP \in Int
        BY DEF GRAPH_DEFAULT_GAP
    <2> QED  BY <2>1, <2>2, <2>3, SpacingFits
<1>7. Origin.x \in Int /\ Origin.y \in Int
    BY DEF Origin, Or
<1> HIDE DEF sx, sy, w, h
\* The layer, or the place in it, is at least one unit of the spacing further.
<1>8. \/ layerOf[i] * sx + w <= layerOf[j] * sx /\ layerOf[i] * sy + h <= layerOf[j] * sy
      \/ /\ PlaceInLayer(i) * sx + w <= PlaceInLayer(j) * sx
         /\ PlaceInLayer(i) * sy + h <= PlaceInLayer(j) * sy
    <2>1. CASE layerOf[i] < layerOf[j]
        BY <1>3, <1>6, <2>1, Multiples
    <2>2. CASE layerOf[i] = layerOf[j] /\ i < j
        BY <1>4, <1>5, <1>6, <2>2, Multiples
    <2> QED  BY <2>1, <2>2
<1>9. /\ layerOf[i] * sx \in Int /\ layerOf[i] * sy \in Int
      /\ layerOf[j] * sx \in Int /\ layerOf[j] * sy \in Int
      /\ PlaceInLayer(i) * sx \in Int /\ PlaceInLayer(i) * sy \in Int
      /\ PlaceInLayer(j) * sx \in Int /\ PlaceInLayer(j) * sy \in Int
    BY <1>3, <1>4, <1>6
<1>10. CASE Direction = "TD"
    <2>1. /\ Position(i) = [x |-> Origin.x + PlaceInLayer(i) * sx, y |-> Origin.y + layerOf[i] * sy]
          /\ Position(j) = [x |-> Origin.x + PlaceInLayer(j) * sx, y |-> Origin.y + layerOf[j] * sy]
        BY <1>10 DEF Position, RelativePosition, sx, sy
    <2>2. \/ Origin.x + PlaceInLayer(i) * sx + w <= Origin.x + PlaceInLayer(j) * sx
          \/ Origin.y + layerOf[i] * sy + h <= Origin.y + layerOf[j] * sy
        BY <1>6, <1>7, <1>8, <1>9
    <2> QED  BY <1>6, <1>7, <1>9, <2>1, <2>2 DEF w, h
<1>11. CASE Direction # "TD"
    <2>1. /\ Position(i) = [x |-> Origin.x + layerOf[i] * sx, y |-> Origin.y + PlaceInLayer(i) * sy]
          /\ Position(j) = [x |-> Origin.x + layerOf[j] * sx, y |-> Origin.y + PlaceInLayer(j) * sy]
        BY <1>11 DEF Position, RelativePosition, sx, sy
    <2>2. \/ Origin.x + layerOf[i] * sx + w <= Origin.x + layerOf[j] * sx
          \/ Origin.y + PlaceInLayer(i) * sy + h <= Origin.y + PlaceInLayer(j) * sy
        BY <1>6, <1>7, <1>8, <1>9
    <2> QED  BY <1>6, <1>7, <1>9, <2>1, <2>2 DEF w, h
<1> QED  BY <1>10, <1>11

\* For every graph, size, spacing and direction: the boxes of items the layout placed
\* are the default gap apart (applyGraphLayout).
THEOREM LayoutLeavesGaps == ImportSpec => []NoOverlap
<1>1. CreationInv => NoOverlap
    <2> SUFFICES ASSUME CreationInv, phase = "created",
                        NEW i \in DOMAIN items, NEW j \in DOMAIN items, i # j,
                        AutoLaid(i), AutoLaid(j), DrawnAsReserved(i), DrawnAsReserved(j)
                 PROVE  Apart(items[i], items[j])
        BY DEF NoOverlap
    <2>1. /\ i \in DOMAIN nodes /\ j \in DOMAIN nodes
          /\ items[i].x = Position(i).x /\ items[i].y = Position(i).y
          /\ items[j].x = Position(j).x /\ items[j].y = Position(j).y
        BY CreatedItems DEF ItemOf
    <2>2. /\ Box(items[i]).width = nodes[i].width /\ Box(items[i]).height = nodes[i].height
          /\ Box(items[j]).width = nodes[j].width /\ Box(items[j]).height = nodes[j].height
        BY DEF DrawnAsReserved
    <2>3. LoopInv /\ nodeCount = Len(nodes)
        BY <2>1 DEF CreationInv, NodesOK, LayoutOK
    <2>4. layerOf[i] \in Nat /\ layerOf[j] \in Nat /\ i \in Int /\ j \in Int
        BY <2>1, <2>3, CreatedItems DEF LoopInv, LayoutTypeOK, Nodes
    <2>5. \/ layerOf[i] < layerOf[j] \/ (layerOf[i] = layerOf[j] /\ i < j)
          \/ layerOf[j] < layerOf[i] \/ (layerOf[j] = layerOf[i] /\ j < i)
        BY <2>4
    <2>6. \/ items[i].x + Box(items[i]).width + GRAPH_DEFAULT_GAP <= items[j].x
          \/ items[i].y + Box(items[i]).height + GRAPH_DEFAULT_GAP <= items[j].y
          \/ items[j].x + Box(items[j]).width + GRAPH_DEFAULT_GAP <= items[i].x
          \/ items[j].y + Box(items[j]).height + GRAPH_DEFAULT_GAP <= items[i].y
        BY <2>1, <2>2, <2>5, EarlierEndsBefore
    <2> QED  BY <2>6 DEF Apart
<1> QED  BY <1>1, CreationInvariant, PTL

-----------------------------------------------------------------------------
(***************************************************************************)
(* What the parser keeps of a source.  M is a set of mentions, R maps each *)
(* to its reference, and p is a mention after all of M: the lemmas follow  *)
(* one merge, so they serve the left and the right end of an edge alike.   *)
(***************************************************************************)
Of(M, R, id) == {m \in M : R[m].id = id}
Named(S, R) == {m \in S : R[m].label # ""}
Score(R, m) == Patterns[R[m].form].shapeScore
Strongest(S, R) == {m \in S : \A n \in S : Score(R, n) <= Score(R, m)}
IsFirst(m, S) == m \in S /\ \A n \in S : ~ Before(n, m)

\* The entry of a node of which S are the mentions.
EntryTold(node, S, R) ==
    /\ node = [id |-> node.id, label |-> node.label, shape |-> node.shape,
               labelScore |-> node.labelScore, shapeScore |-> node.shapeScore]
    /\ IF Named(S, R) = {} THEN node.label = node.id /\ node.labelScore = 0
       ELSE /\ node.labelScore = 1
            /\ \E m \in S : IsFirst(m, Named(S, R)) /\ node.label = R[m].label
    /\ \E m \in S : /\ IsFirst(m, Strongest(S, R))
                    /\ node.shape = Patterns[R[m].form].shape /\ node.shapeScore = Score(R, m)

Told(list, M, R) ==
    /\ IsList(list)
    /\ \A m \in M : R[m].form \in DOMAIN Patterns /\ R[m].id \in IdsOf(list)
    /\ \A i \in DOMAIN list : EntryTold(list[i], Of(M, R, list[i].id), R)
    /\ \A i, j \in DOMAIN list : list[i].id = list[j].id => i = j

LEMMA Scores ==
    ASSUME NEW form \in DOMAIN Patterns
    PROVE  Patterns[form].shapeScore \in Nat
<1>1. form \in {"bare", "circle", "stadium", "database", "subroutine", "rhombus", "round",
                "square", "flag"}
    BY DEF Patterns
<1>2. Patterns[form] \in {[shape |-> "default", shapeScore |-> 0], [shape |-> "circle", shapeScore |-> 3],
                          [shape |-> "oval", shapeScore |-> 3], [shape |-> "default", shapeScore |-> 2],
                          [shape |-> "diamond", shapeScore |-> 3], [shape |-> "default", shapeScore |-> 1]}
    BY <1>1 DEF Patterns
<1> QED  BY <1>2

LEMMA MentionIsEntry ==
    ASSUME NEW R, NEW p, R[p].form \in DOMAIN Patterns, ~ Before(p, p)
    PROVE  EntryTold(parseNodeReference(R[p]), {p}, R)
<1> DEFINE node == parseNodeReference(R[p])
<1>1. node = [id |-> R[p].id, label |-> IF R[p].label = "" THEN R[p].id ELSE R[p].label,
              shape |-> Patterns[R[p].form].shape,
              labelScore |-> IF R[p].label = "" THEN 0 ELSE 1,
              shapeScore |-> Patterns[R[p].form].shapeScore]
    BY DEF parseNodeReference
<1> HIDE DEF node
<1>2. /\ node.id = R[p].id /\ node.label = (IF R[p].label = "" THEN R[p].id ELSE R[p].label)
      /\ node.shape = Patterns[R[p].form].shape
      /\ node.labelScore = (IF R[p].label = "" THEN 0 ELSE 1)
      /\ node.shapeScore = Patterns[R[p].form].shapeScore
    BY <1>1
<1>3. node = [id |-> node.id, label |-> node.label, shape |-> node.shape,
              labelScore |-> node.labelScore, shapeScore |-> node.shapeScore]
    BY <1>1, <1>2
<1>4. IF Named({p}, R) = {} THEN node.label = node.id /\ node.labelScore = 0
      ELSE /\ node.labelScore = 1
           /\ \E m \in {p} : IsFirst(m, Named({p}, R)) /\ node.label = R[m].label
    BY <1>2 DEF Named, IsFirst
<1>5. Score(R, p) \in Nat
    BY Scores DEF Score
<1>6. Strongest({p}, R) = {p}
    BY <1>5 DEF Strongest
<1>7. IsFirst(p, Strongest({p}, R))
    BY <1>6 DEF IsFirst
<1>8. \E m \in {p} : /\ IsFirst(m, Strongest({p}, R))
                     /\ node.shape = Patterns[R[m].form].shape /\ node.shapeScore = Score(R, m)
    BY <1>2, <1>7 DEF Score
<1>9. EntryTold(node, {p}, R)
    BY <1>3, <1>4, <1>8, Zenon DEF EntryTold
<1> QED  BY <1>9 DEF node

LEMMA MergedKeepsId ==
    ASSUME NEW old, NEW S, NEW R, EntryTold(old, S, R), NEW new
    PROVE  Merged(old, new).id = old.id
<1>1. old = [id |-> old.id, label |-> old.label, shape |-> old.shape,
             labelScore |-> old.labelScore, shapeScore |-> old.shapeScore]
    BY DEF EntryTold
<1> QED  BY <1>1 DEF Merged

\* A later mention adds a first label or a stronger shape and nothing else.
LEMMA MergedEntryTold ==
    ASSUME NEW R, NEW S, NEW p, NEW old, NEW new, new = parseNodeReference(R[p]),
           EntryTold(old, S, R), old.id = R[p].id,
           \A m \in S : R[m].form \in DOMAIN Patterns /\ ~ Before(p, m),
           R[p].form \in DOMAIN Patterns, ~ Before(p, p)
    PROVE  EntryTold(Merged(old, new), S \cup {p}, R)
<1> DEFINE node == Merged(old, new)
           T == S \cup {p}
<1>1. /\ new.label = (IF R[p].label = "" THEN R[p].id ELSE R[p].label)
      /\ new.shape = Patterns[R[p].form].shape
      /\ new.labelScore = (IF R[p].label = "" THEN 0 ELSE 1)
      /\ new.shapeScore = Score(R, p)
    BY DEF parseNodeReference, Score
<1>2. \A m \in T : Score(R, m) \in Nat
    BY Scores DEF Score
<1>3. old = [id |-> old.id, label |-> old.label, shape |-> old.shape,
             labelScore |-> old.labelScore, shapeScore |-> old.shapeScore]
    BY DEF EntryTold
<1> DEFINE label == IF new.labelScore > old.labelScore THEN new.label ELSE old.label
           shape == IF new.shapeScore > old.shapeScore THEN new.shape ELSE old.shape
           labelScore == Larger(old.labelScore, new.labelScore)
           shapeScore == Larger(old.shapeScore, new.shapeScore)
<1>a. node = [old EXCEPT !.label = label, !.labelScore = labelScore, !.shape = shape,
                         !.shapeScore = shapeScore]
    BY DEF Merged
<1> HIDE DEF label, shape, labelScore, shapeScore, node
<1>4. node = [id |-> old.id, label |-> label, shape |-> shape,
              labelScore |-> labelScore, shapeScore |-> shapeScore]
    BY <1>3, <1>a
<1> HIDE DEF node
<1>5. /\ node.id = old.id
      /\ node.label = (IF new.labelScore > old.labelScore THEN new.label ELSE old.label)
      /\ node.shape = (IF new.shapeScore > old.shapeScore THEN new.shape ELSE old.shape)
      /\ node.labelScore = Larger(old.labelScore, new.labelScore)
      /\ node.shapeScore = Larger(old.shapeScore, new.shapeScore)
    BY <1>4 DEF label, shape, labelScore, shapeScore
<1>b. /\ old.labelScore = IF Named(S, R) = {} THEN 0 ELSE 1
      /\ new.labelScore = IF R[p].label = "" THEN 0 ELSE 1
    BY <1>1 DEF EntryTold
<1>6. node = [id |-> node.id, label |-> node.label, shape |-> node.shape,
              labelScore |-> node.labelScore, shapeScore |-> node.shapeScore]
    BY <1>4, <1>5
<1>7. IF Named(T, R) = {} THEN node.label = node.id /\ node.labelScore = 0
      ELSE /\ node.labelScore = 1
           /\ \E m \in T : IsFirst(m, Named(T, R)) /\ node.label = R[m].label
    <2>1. CASE R[p].label = ""
        <3>1. Named(T, R) = Named(S, R)
            BY <2>1 DEF Named
        <3>2. node.label = old.label /\ node.labelScore = old.labelScore
            <4>0. new.labelScore = 0 /\ (old.labelScore = 0 \/ old.labelScore = 1)
                BY <1>b, <2>1
            <4>1. ~ (new.labelScore > old.labelScore)
                BY <4>0
            <4>2. Larger(old.labelScore, new.labelScore) = old.labelScore
                BY <4>0 DEF Larger
            <4> QED  BY <1>5, <4>1, <4>2
        <3> QED  BY <1>5, <3>1, <3>2 DEF EntryTold
    <2>2. CASE R[p].label # "" /\ Named(S, R) = {}
        <3>1. Named(T, R) = {p}
            BY <2>2 DEF Named
        <3>2. node.label = R[p].label /\ node.labelScore = 1
            <4>0. new.labelScore = 1 /\ old.labelScore = 0
                BY <1>b, <2>2
            <4>1. new.labelScore > old.labelScore
                BY <4>0
            <4>2. Larger(old.labelScore, new.labelScore) = 1
                BY <4>0 DEF Larger
            <4>3. new.label = R[p].label
                BY <1>1, <2>2
            <4> QED  BY <1>5, <4>1, <4>2, <4>3
        <3> QED  BY <3>1, <3>2 DEF IsFirst
    <2>3. CASE R[p].label # "" /\ Named(S, R) # {}
        <3>1. Named(T, R) = Named(S, R) \cup {p}
            BY <2>3 DEF Named
        <3>2. node.label = old.label /\ node.labelScore = 1
            <4>0. new.labelScore = 1 /\ old.labelScore = 1
                BY <1>b, <2>3
            <4>1. ~ (new.labelScore > old.labelScore)
                BY <4>0
            <4>2. Larger(old.labelScore, new.labelScore) = 1
                BY <4>0 DEF Larger
            <4> QED  BY <1>5, <4>1, <4>2
        <3>3. PICK m \in S : IsFirst(m, Named(S, R)) /\ old.label = R[m].label
            BY <2>3 DEF EntryTold
        <3>4. IsFirst(m, Named(T, R))
            BY <3>1, <3>3 DEF IsFirst
        <3> QED  BY <2>3, <3>1, <3>2, <3>3, <3>4
    <2> QED  BY <2>1, <2>2, <2>3
<1>8. \E m \in T : /\ IsFirst(m, Strongest(T, R))
                   /\ node.shape = Patterns[R[m].form].shape /\ node.shapeScore = Score(R, m)
    <2>1. PICK m \in S : /\ IsFirst(m, Strongest(S, R)) /\ old.shape = Patterns[R[m].form].shape
                         /\ old.shapeScore = Score(R, m)
        BY DEF EntryTold
    <2>2. m \in T /\ p \in T /\ \A n \in S : Score(R, n) <= Score(R, m) /\ Score(R, n) \in Nat
        BY <1>2, <2>1 DEF IsFirst, Strongest
    <2>3. Score(R, m) \in Nat /\ Score(R, p) \in Nat
        BY <1>2, <2>2
    <2>4. CASE Score(R, p) > Score(R, m)
        <3>1. Strongest(T, R) = {p}
            BY <2>2, <2>3, <2>4 DEF Strongest
        <3>2. node.shape = Patterns[R[p].form].shape /\ node.shapeScore = Score(R, p)
            <4>1. new.shapeScore > old.shapeScore
                BY <1>1, <2>1, <2>4
            <4>2. Larger(old.shapeScore, new.shapeScore) = Score(R, p)
                <5>1. \A a, b \in Nat : a > b => Larger(b, a) = a
                    BY DEF Larger
                <5> QED  BY <1>1, <2>1, <2>3, <2>4, <5>1
            <4> QED  BY <1>1, <1>5, <4>1, <4>2
        <3> QED  BY <2>2, <3>1, <3>2 DEF IsFirst
    <2>5. CASE ~ (Score(R, p) > Score(R, m))
        <3>1. node.shape = Patterns[R[m].form].shape /\ node.shapeScore = Score(R, m)
            <4>1. ~ (new.shapeScore > old.shapeScore)
                BY <1>1, <2>1, <2>5
            <4>2. Larger(old.shapeScore, new.shapeScore) = Score(R, m)
                <5>1. \A a, b \in Nat : ~ (a > b) => Larger(b, a) = b
                    BY DEF Larger
                <5> QED  BY <1>1, <2>1, <2>3, <2>5, <5>1
            <4> QED  BY <1>5, <2>1, <4>1, <4>2
        <3>2. m \in Strongest(T, R)
            BY <2>2, <2>3, <2>5 DEF Strongest
        <3>3. \A n \in Strongest(T, R) : n \in Strongest(S, R) \/ n = p
            BY DEF Strongest
        <3>4. IsFirst(m, Strongest(T, R))
            BY <2>1, <2>2, <3>2, <3>3 DEF IsFirst
        <3> QED  BY <2>2, <3>1, <3>4
    <2> QED  BY <2>4, <2>5
<1>9. EntryTold(node, T, R)
    BY <1>6, <1>7, <1>8, Zenon DEF EntryTold
<1> QED  BY <1>9 DEF node

\* The ids of the nodes after a merge.
LEMMA MergedIds ==
    ASSUME NEW list, IsList(list), NEW new, new.id \notin IdsOf(list)
    PROVE  LET merged == mergeNodeDefinition(list, new) IN
           /\ merged = Append(list, new)
           /\ DOMAIN merged = DOMAIN list \cup {Len(list) + 1}
           /\ Len(list) + 1 \notin DOMAIN list
           /\ merged[Len(list) + 1] = new
           /\ \A i \in DOMAIN list : merged[i] = list[i]
<1>1. mergeNodeDefinition(list, new) = Append(list, new)
    BY DEF mergeNodeDefinition
<1>2. PICK S : list \in Seq(S)
    BY DEF IsList
<1>3. list \in Seq(S \cup {new})
    BY <1>2
<1>4. DOMAIN list = 1 .. Len(list) /\ Len(list) \in Nat
    BY <1>2
<1>5. /\ DOMAIN Append(list, new) = 1 .. Len(list) + 1
      /\ Append(list, new)[Len(list) + 1] = new
      /\ \A i \in 1 .. Len(list) : Append(list, new)[i] = list[i]
    BY <1>3, <1>4
<1>6. 1 .. Len(list) + 1 = (1 .. Len(list)) \cup {Len(list) + 1}
    BY <1>4
<1>7. Len(list) + 1 \notin 1 .. Len(list)
    BY <1>4
<1> QED  BY <1>1, <1>4, <1>5, <1>6, <1>7

LEMMA MergeTold ==
    ASSUME NEW list, NEW M, NEW R, NEW p, Told(list, M, R), R[p].form \in DOMAIN Patterns,
           \A m \in M \cup {p} : ~ Before(p, m)
    PROVE  Told(mergeNodeDefinition(list, parseNodeReference(R[p])), M \cup {p}, R)
<1> DEFINE new == parseNodeReference(R[p])
           merged == mergeNodeDefinition(list, new)
           T == M \cup {p}
<1>1. new.id = R[p].id
    BY DEF parseNodeReference
<1>2. IsList(merged)
    BY MergedIsList DEF Told
<1>3. \A id : Of(T, R, id) = Of(M, R, id) \cup (IF R[p].id = id THEN {p} ELSE {})
    BY DEF Of
<1>4. \A m \in T : R[m].form \in DOMAIN Patterns /\ ~ Before(p, m)
    BY DEF Told
<1>5. \A id : Of(M, R, id) \subseteq M /\ Of(T, R, id) \subseteq T
    BY DEF Of
<1>6. CASE new.id \in IdsOf(list)
    <2>1. merged = [i \in DOMAIN list |-> IF list[i].id = new.id THEN Merged(list[i], new) ELSE list[i]]
        BY <1>6 DEF mergeNodeDefinition
    <2>2. DOMAIN merged = DOMAIN list
        BY <2>1
    <2>3. \A i \in DOMAIN list :
              merged[i] = IF list[i].id = new.id THEN Merged(list[i], new) ELSE list[i]
        BY <2>1
    <2> HIDE DEF merged, T
    <2>4. ASSUME NEW i \in DOMAIN list
          PROVE  merged[i].id = list[i].id /\ EntryTold(merged[i], Of(T, R, list[i].id), R)
        <3>1. EntryTold(list[i], Of(M, R, list[i].id), R)
            BY DEF Told
        <3>2. CASE list[i].id = new.id
            <4>1. Of(T, R, list[i].id) = Of(M, R, list[i].id) \cup {p}
                BY <1>1, <1>3, <3>2
            <4>2. \A m \in Of(M, R, list[i].id) \cup {p} : R[m].form \in DOMAIN Patterns /\ ~ Before(p, m)
                BY <1>4, <1>5 DEF T
            <4>3. /\ EntryTold(Merged(list[i], new), Of(M, R, list[i].id) \cup {p}, R)
                  /\ Merged(list[i], new).id = list[i].id
                <5>1. list[i].id = R[p].id
                    BY <1>1, <3>2
                <5>2. new = parseNodeReference(R[p])
                    OBVIOUS
                <5> DEFINE S == Of(M, R, list[i].id)
                           old == list[i]
                <5>3. EntryTold(old, S, R) /\ old.id = R[p].id
                    BY <3>1, <5>1
                <5>4. /\ \A m \in S : R[m].form \in DOMAIN Patterns /\ ~ Before(p, m)
                      /\ R[p].form \in DOMAIN Patterns /\ ~ Before(p, p)
                    BY <4>2
                <5> HIDE DEF new, S, old
                <5>5. EntryTold(Merged(old, new), S \cup {p}, R)
                    BY <5>2, <5>3, <5>4, MergedEntryTold
                <5>6. Merged(old, new).id = old.id
                    BY <5>3, MergedKeepsId
                <5> QED  BY <5>5, <5>6 DEF S, old
            <4> QED  BY <2>3, <3>2, <4>1, <4>3
        <3>3. CASE list[i].id # new.id
            <4>1. Of(T, R, list[i].id) = Of(M, R, list[i].id)
                BY <1>1, <1>3, <3>3
            <4> QED  BY <2>3, <3>1, <3>3, <4>1
        <3> QED  BY <3>2, <3>3
    <2>5. IdsOf(merged) = IdsOf(list)
        BY <2>2, <2>4 DEF IdsOf
    <2>6. \A m \in T : R[m].id \in IdsOf(merged)
        BY <1>1, <1>6, <2>5 DEF Told, T
    <2>7. \A i, j \in DOMAIN merged : merged[i].id = merged[j].id => i = j
        BY <2>2, <2>4 DEF Told
    <2>8. \A i \in DOMAIN merged : EntryTold(merged[i], Of(T, R, merged[i].id), R)
        BY <2>2, <2>4
    <2>9. Told(merged, T, R)
        BY <1>2, <1>4, <2>6, <2>7, <2>8 DEF Told
    <2> QED  BY <2>9 DEF merged, T
<1>7. CASE new.id \notin IdsOf(list)
    <2> DEFINE n == Len(list) + 1
    <2>1. /\ DOMAIN merged = DOMAIN list \cup {n} /\ n \notin DOMAIN list
          /\ merged[n] = new /\ \A i \in DOMAIN list : merged[i] = list[i]
        BY <1>7, MergedIds DEF Told
    <2> HIDE DEF merged, T, n, new
    <2>2. \A i \in DOMAIN list : list[i].id # new.id
        BY <1>7 DEF IdsOf
    <2>3. Of(M, R, new.id) = {}
        BY <1>7 DEF Told, Of
    <2>4. Of(T, R, new.id) = {p}
        BY <1>1, <1>3, <2>3
    <2>5. EntryTold(merged[n], Of(T, R, merged[n].id), R)
        BY <1>4, <2>1, <2>4, MentionIsEntry DEF new, T
    <2>6. ASSUME NEW i \in DOMAIN list  PROVE EntryTold(merged[i], Of(T, R, merged[i].id), R)
        <3>1. Of(T, R, list[i].id) = Of(M, R, list[i].id)
            BY <1>1, <1>3, <2>2
        <3> QED  BY <2>1, <3>1 DEF Told
    <2>7. IdsOf(merged) = IdsOf(list) \cup {new.id}
        BY <2>1 DEF IdsOf
    <2>8. \A m \in T : R[m].id \in IdsOf(merged)
        BY <1>1, <2>7 DEF Told, T
    <2>9. \A i, j \in DOMAIN merged : merged[i].id = merged[j].id => i = j
        BY <2>1, <2>2 DEF Told
    <2>10. Told(merged, T, R)
        BY <1>2, <1>4, <2>1, <2>5, <2>6, <2>8, <2>9 DEF Told
    <2> QED  BY <2>10 DEF merged, T, new
<1> QED  BY <1>6, <1>7

-----------------------------------------------------------------------------
(* Warnings about labels *)

Clash(line, id) == [code |-> "conflicting_node_label", line |-> line, node |-> id]

\* The labels that differ from the one kept, and the lines that say so.
Dropped(node, S, R) == {m[1] : m \in {k \in S : R[k].label \notin {"", node.label}}}

Reported(list, M, R, warns) ==
    /\ \A w \in warns : w.code = "conflicting_node_label" => w.node \in IdsOf(list)
    /\ \A i \in DOMAIN list : \A line :
          Clash(line, list[i].id) \in warns <=> line \in Dropped(list[i], Of(M, R, list[i].id), R)

LEMMA LabelConflicts ==
    ASSUME NEW list, NEW new, NEW n, NEW line, NEW id
    PROVE  Clash(line, id) \in Conflicts(list, new, n) <=>
              /\ line = n /\ id = new.id
              /\ \E i \in DOMAIN list : /\ list[i].id = id
                                        /\ new.labelScore > 0
                                        /\ new.labelScore <= list[i].labelScore
                                        /\ new.label # list[i].label
BY DEF Clash, Conflicts

LEMMA ConflictsNameIt ==
    ASSUME NEW list, NEW new, NEW n, NEW w \in Conflicts(list, new, n)
    PROVE  w.node = new.id /\ new.id \in IdsOf(list)
BY DEF Conflicts, IdsOf

LEMMA MergedLabel ==
    ASSUME NEW old, NEW S, NEW R, EntryTold(old, S, R), NEW new
    PROVE  Merged(old, new).label = IF new.labelScore > old.labelScore THEN new.label ELSE old.label
<1>1. old = [id |-> old.id, label |-> old.label, shape |-> old.shape,
             labelScore |-> old.labelScore, shapeScore |-> old.shapeScore]
    BY DEF EntryTold
<1> QED  BY <1>1 DEF Merged

\* The entries of the old list after a merge.
LEMMA EntriesAfter ==
    ASSUME NEW list, NEW M, NEW R, Told(list, M, R), NEW new
    PROVE  LET merged == mergeNodeDefinition(list, new) IN
           /\ DOMAIN list \subseteq DOMAIN merged
           /\ IdsOf(list) \subseteq IdsOf(merged)
           /\ \A i \in DOMAIN list :
                 /\ merged[i].id = list[i].id
                 /\ merged[i].label = IF list[i].id = new.id /\ new.labelScore > list[i].labelScore
                                      THEN new.label ELSE list[i].label
           /\ \A i \in DOMAIN merged \ DOMAIN list :
                 new.id \notin IdsOf(list) /\ merged[i] = new
<1> DEFINE merged == mergeNodeDefinition(list, new)
<1>1. CASE new.id \in IdsOf(list)
    <2>1. merged = [i \in DOMAIN list |-> IF list[i].id = new.id THEN Merged(list[i], new) ELSE list[i]]
        BY <1>1 DEF mergeNodeDefinition
    <2>2. /\ DOMAIN merged = DOMAIN list
          /\ \A i \in DOMAIN list :
                merged[i] = IF list[i].id = new.id THEN Merged(list[i], new) ELSE list[i]
        BY <2>1
    <2> HIDE DEF merged
    <2>3. ASSUME NEW i \in DOMAIN list
          PROVE  /\ merged[i].id = list[i].id
                 /\ merged[i].label = IF list[i].id = new.id /\ new.labelScore > list[i].labelScore
                                      THEN new.label ELSE list[i].label
        <3>1. EntryTold(list[i], Of(M, R, list[i].id), R)
            BY DEF Told
        <3>2. Merged(list[i], new).id = list[i].id
            BY <3>1, MergedKeepsId
        <3>3. Merged(list[i], new).label =
                  IF new.labelScore > list[i].labelScore THEN new.label ELSE list[i].label
            BY <3>1, MergedLabel
        <3> QED  BY <2>2, <3>2, <3>3
    <2>4. IdsOf(merged) = IdsOf(list)
        BY <2>2, <2>3 DEF IdsOf
    <2> QED  BY <2>2, <2>3, <2>4 DEF merged
<1>2. CASE new.id \notin IdsOf(list)
    <2> DEFINE n == Len(list) + 1
    <2>1. /\ DOMAIN merged = DOMAIN list \cup {n} /\ n \notin DOMAIN list
          /\ merged[n] = new /\ \A i \in DOMAIN list : merged[i] = list[i]
        BY <1>2, MergedIds DEF Told
    <2> HIDE DEF merged, n
    <2>2. \A i \in DOMAIN list : list[i].id # new.id
        BY <1>2 DEF IdsOf
    <2>3. IdsOf(list) \subseteq IdsOf(merged)
        BY <2>1 DEF IdsOf
    <2>4. \A i \in DOMAIN list :
              /\ merged[i].id = list[i].id
              /\ merged[i].label = IF list[i].id = new.id /\ new.labelScore > list[i].labelScore
                                   THEN new.label ELSE list[i].label
        BY <2>1, <2>2
    <2>5. \A i \in DOMAIN merged \ DOMAIN list : merged[i] = new
        BY <2>1
    <2>6. DOMAIN list \subseteq DOMAIN merged
        BY <2>1
    <2> QED  BY <1>2, <2>3, <2>4, <2>5, <2>6 DEF merged
<1> QED  BY <1>1, <1>2

\* Of a node told of before, the warnings of a merge are the labels it drops.
LEMMA LaterLabel ==
    ASSUME NEW R, NEW S, NEW p, NEW old, NEW new, new = parseNodeReference(R[p]),
           EntryTold(old, S, R), NEW node,
           node.label = IF new.labelScore > old.labelScore THEN new.label ELSE old.label,
           NEW line
    PROVE  line \in Dropped(node, S \cup {p}, R) <=>
              \/ line \in Dropped(old, S, R)
              \/ /\ line = p[1]
                 /\ new.labelScore > 0 /\ new.labelScore <= old.labelScore /\ new.label # old.label
<1>1. /\ new.label = (IF R[p].label = "" THEN R[p].id ELSE R[p].label)
      /\ new.labelScore = (IF R[p].label = "" THEN 0 ELSE 1)
    BY DEF parseNodeReference
<1> DEFINE Says(m, kept) == m[1] = line /\ R[m].label # "" /\ R[m].label # kept.label
<1>2. /\ line \in Dropped(old, S, R) <=> \E m \in S : Says(m, old)
      /\ line \in Dropped(node, S \cup {p}, R) <=> (\E m \in S : Says(m, node)) \/ Says(p, node)
    BY DEF Dropped
<1> DEFINE Clashes == new.labelScore > 0 /\ new.labelScore <= old.labelScore /\ new.label # old.label
<1> SUFFICES line \in Dropped(node, S \cup {p}, R) <=>
                line \in Dropped(old, S, R) \/ (line = p[1] /\ Clashes)
    OBVIOUS
<1>3. CASE R[p].label = ""
    <2>1. new.labelScore = 0 /\ (old.labelScore = 0 \/ old.labelScore = 1)
        BY <1>1, <1>3 DEF EntryTold
    <2>2. node.label = old.label
        BY <2>1
    <2>3. ~ Clashes
        BY <2>1
    <2> HIDE DEF Clashes
    <2> QED  BY <1>2, <1>3, <2>2, <2>3
<1>4. CASE R[p].label # "" /\ Named(S, R) = {}
    <2>1. new.labelScore = 1 /\ new.label = R[p].label /\ old.labelScore = 0
        BY <1>1, <1>4 DEF EntryTold
    <2>2. node.label = R[p].label
        BY <2>1
    <2>3. \A m \in S : R[m].label = ""
        BY <1>4 DEF Named
    <2>4. ~ Clashes
        BY <2>1
    <2> HIDE DEF Clashes
    <2> QED  BY <1>2, <2>2, <2>3, <2>4
<1>5. CASE R[p].label # "" /\ Named(S, R) # {}
    <2>1. new.labelScore = 1 /\ new.label = R[p].label /\ old.labelScore = 1
        BY <1>1, <1>5 DEF EntryTold
    <2>2. node.label = old.label
        BY <2>1
    <2>3. Clashes <=> R[p].label # old.label
        BY <2>1
    <2> HIDE DEF Clashes
    <2> QED  BY <1>2, <1>5, <2>2, <2>3
<1> QED  BY <1>3, <1>4, <1>5

LEMMA MergeReported ==
    ASSUME NEW list, NEW M, NEW R, NEW p, Told(list, M, R),
           NEW warns, Reported(list, M, R, warns),
           NEW other, \A w \in other : w.code # "conflicting_node_label"
    PROVE  Reported(mergeNodeDefinition(list, parseNodeReference(R[p])), M \cup {p}, R,
                    warns \cup other \cup Conflicts(list, parseNodeReference(R[p]), p[1]))
<1> DEFINE new == parseNodeReference(R[p])
           merged == mergeNodeDefinition(list, new)
           T == M \cup {p}
           now == Conflicts(list, new, p[1])
           all == warns \cup other \cup now
<1>1. new.id = R[p].id
    BY DEF parseNodeReference
<1>2. /\ DOMAIN list \subseteq DOMAIN merged
      /\ IdsOf(list) \subseteq IdsOf(merged)
      /\ \A i \in DOMAIN list :
            /\ merged[i].id = list[i].id
            /\ merged[i].label = IF list[i].id = new.id /\ new.labelScore > list[i].labelScore
                                 THEN new.label ELSE list[i].label
      /\ \A i \in DOMAIN merged \ DOMAIN list :
            new.id \notin IdsOf(list) /\ merged[i] = new
    BY EntriesAfter
<1>3. \A line, id : Clash(line, id) \notin other
    BY DEF Clash
<1>4. \A id : Of(T, R, id) = Of(M, R, id) \cup (IF R[p].id = id THEN {p} ELSE {})
    BY DEF Of
<1>5. \A line, id : Clash(line, id) \in now <=>
              /\ line = p[1] /\ id = new.id
              /\ \E i \in DOMAIN list : /\ list[i].id = id
                                        /\ new.labelScore > 0
                                        /\ new.labelScore <= list[i].labelScore
                                        /\ new.label # list[i].label
    BY LabelConflicts
<1>6. \A w \in now : w.node = new.id /\ new.id \in IdsOf(list)
    BY ConflictsNameIt
<1>7. new = parseNodeReference(R[p])
    OBVIOUS
<1> HIDE DEF merged, new, T, now
<1>8. \A w \in all : w.code = "conflicting_node_label" => w.node \in IdsOf(merged)
    BY <1>2, <1>6 DEF Reported
<1>9. ASSUME NEW i \in DOMAIN merged, NEW line
      PROVE  Clash(line, merged[i].id) \in all <=>
                line \in Dropped(merged[i], Of(T, R, merged[i].id), R)
    <2>1. CASE i \in DOMAIN list /\ list[i].id = new.id
        <3> DEFINE old == list[i]
                   S == Of(M, R, old.id)
                   node == merged[i]
        <3>1. EntryTold(old, S, R) /\ node.id = old.id
            BY <1>2, <2>1 DEF Told
        <3>2. node.label = IF new.labelScore > old.labelScore THEN new.label ELSE old.label
            BY <1>2, <2>1
        <3>3. Of(T, R, node.id) = S \cup {p}
            BY <1>1, <1>4, <2>1, <3>1
        <3>4. Clash(line, node.id) \in warns <=> line \in Dropped(old, S, R)
            BY <2>1, <3>1 DEF Reported
        <3>5. \A j \in DOMAIN list : list[j].id = node.id => j = i
            BY <2>1, <3>1 DEF Told
        <3>6. Clash(line, node.id) \in now <=>
                 /\ line = p[1]
                 /\ new.labelScore > 0 /\ new.labelScore <= old.labelScore /\ new.label # old.label
            BY <1>5, <2>1, <3>1, <3>5
        <3> HIDE DEF old, S, node
        <3>7. line \in Dropped(node, S \cup {p}, R) <=>
                 \/ line \in Dropped(old, S, R)
                 \/ /\ line = p[1]
                    /\ new.labelScore > 0 /\ new.labelScore <= old.labelScore /\ new.label # old.label
            BY <1>7, <3>1, <3>2, LaterLabel
        <3>8. Clash(line, node.id) \in all <=> line \in Dropped(node, Of(T, R, node.id), R)
            BY <1>3, <3>3, <3>4, <3>6, <3>7
        <3> QED  BY <3>8 DEF node
    <2>2. CASE i \in DOMAIN list /\ list[i].id # new.id
        <3>1. merged[i].id = list[i].id /\ merged[i].label = list[i].label
            BY <1>2, <2>2
        <3>2. Of(T, R, list[i].id) = Of(M, R, list[i].id)
            BY <1>1, <1>4, <2>2
        <3>3. Clash(line, list[i].id) \notin now
            BY <1>5, <2>2
        <3>4. Dropped(merged[i], Of(M, R, list[i].id), R) = Dropped(list[i], Of(M, R, list[i].id), R)
            BY <3>1 DEF Dropped
        <3> QED  BY <1>3, <2>2, <3>1, <3>2, <3>3, <3>4 DEF Reported
    <2>3. CASE i \notin DOMAIN list
        <3>1. new.id \notin IdsOf(list) /\ merged[i] = new
            BY <1>2, <2>3
        <3>2. Of(M, R, new.id) = {}
            BY <3>1 DEF Told, Of
        <3>3. Of(T, R, new.id) = {p}
            BY <1>1, <1>4, <3>2
        <3>4. R[p].label = "" \/ R[p].label = new.label
            BY <1>7 DEF parseNodeReference
        <3>5. Dropped(new, {p}, R) = {}
            BY <3>4 DEF Dropped
        <3>6. Clash(line, new.id) \notin warns
            BY <3>1 DEF Reported, Clash
        <3>7. Clash(line, new.id) \notin now
            BY <1>6, <3>1 DEF Clash
        <3> QED  BY <1>3, <3>1, <3>3, <3>5, <3>6, <3>7
    <2> QED  BY <2>1, <2>2, <2>3
<1>10. Reported(merged, T, R, all)
    BY <1>8, <1>9 DEF Reported
<1> QED  BY <1>10 DEF merged, new, T, now

-----------------------------------------------------------------------------
(***************************************************************************)
(* The mentions of a whole source.  While it is read the list and the      *)
(* warnings say what the lemmas above say of one merge; a line in error,   *)
(* a blank or an ignored one mentions nothing.                             *)
(***************************************************************************)
AllMentions ==
    {m \in (FirstStatement + 1 .. Len(source)) \X {1, 2} :
        m[2] \in DOMAIN References(source[m[1]]) /\ WellFormed(source[m[1]])}

Telling == [m \in (1 .. Len(source)) \X {1, 2} |-> Mentioned(m)]

Headed(src, h) ==
    h \in DOMAIN src /\ src[h].kind # "blank" /\ \A j \in 1 .. h - 1 : src[j].kind = "blank"

MergeInv ==
    /\ IsList(source)
    /\ parse = "reading" /\ ~ headerSeen =>
          found = <<>> /\ warnings = {} /\ \A k \in DOMAIN source : source[k].kind = "blank"
    /\ headerSeen =>
          /\ \E h \in DOMAIN source : Headed(source, h)
          /\ Told(found, AllMentions, Telling)
          /\ Reported(found, AllMentions, Telling, warnings)

\* Only what the mentions say counts.
LEMMA SameEntry ==
    ASSUME NEW node, NEW S, NEW R, NEW Q, \A m \in S : R[m] = Q[m], EntryTold(node, S, R)
    PROVE  EntryTold(node, S, Q)
<1>1. Named(S, R) = Named(S, Q)
    BY DEF Named
<1>2. \A m \in S : Score(R, m) = Score(Q, m) /\ Patterns[R[m].form] = Patterns[Q[m].form]
    BY DEF Score
<1>3. Strongest(S, R) = Strongest(S, Q)
    BY <1>2 DEF Strongest
<1>4. node = [id |-> node.id, label |-> node.label, shape |-> node.shape,
              labelScore |-> node.labelScore, shapeScore |-> node.shapeScore]
    BY DEF EntryTold
<1>5. IF Named(S, Q) = {} THEN node.label = node.id /\ node.labelScore = 0
      ELSE /\ node.labelScore = 1
           /\ \E m \in S : IsFirst(m, Named(S, Q)) /\ node.label = Q[m].label
    BY <1>1, Zenon DEF EntryTold
<1>6. \E m \in S : /\ IsFirst(m, Strongest(S, Q))
                   /\ node.shape = Patterns[Q[m].form].shape /\ node.shapeScore = Score(Q, m)
    BY <1>2, <1>3, Zenon DEF EntryTold
<1> QED  BY <1>4, <1>5, <1>6, Zenon DEF EntryTold

LEMMA SameOf ==
    ASSUME NEW M, NEW R, NEW Q, \A m \in M : R[m] = Q[m], NEW id
    PROVE  Of(M, R, id) = Of(M, Q, id)
BY DEF Of

LEMMA SameTold ==
    ASSUME NEW list, NEW M, NEW R, NEW Q, \A m \in M : R[m] = Q[m], Told(list, M, R)
    PROVE  Told(list, M, Q)
<1>1. \A m \in M : Q[m].form \in DOMAIN Patterns /\ Q[m].id \in IdsOf(list)
    BY DEF Told
<1>2. ASSUME NEW i \in DOMAIN list  PROVE EntryTold(list[i], Of(M, Q, list[i].id), Q)
    <2>1. Of(M, R, list[i].id) = Of(M, Q, list[i].id) /\ Of(M, R, list[i].id) \subseteq M
        BY SameOf DEF Of
    <2>2. EntryTold(list[i], Of(M, R, list[i].id), R)
        BY DEF Told
    <2> QED  BY <2>1, <2>2, SameEntry
<1> QED  BY <1>1, <1>2 DEF Told

LEMMA SameReported ==
    ASSUME NEW list, NEW M, NEW R, NEW Q, \A m \in M : R[m] = Q[m], NEW warns,
           Reported(list, M, R, warns)
    PROVE  Reported(list, M, Q, warns)
<1>1. ASSUME NEW node  PROVE Dropped(node, Of(M, R, node.id), R) = Dropped(node, Of(M, Q, node.id), Q)
    <2>1. Of(M, R, node.id) = Of(M, Q, node.id) /\ Of(M, R, node.id) \subseteq M
        BY SameOf DEF Of
    <2> QED  BY <2>1 DEF Dropped
<1> QED  BY <1>1 DEF Reported

\* What a line can mention, and that a mention without error has a known form.
LEMMA LineReferences ==
    ASSUME NEW line, References(line) # <<>>
    PROVE  \/ Len(References(line)) = 1 /\ DOMAIN References(line) = {1}
           \/ Len(References(line)) = 2 /\ DOMAIN References(line) = {1, 2}
<1> DEFINE refs == References(line)
<1>1. refs = <<>> \/ refs = <<line.left, line.right>> \/ refs = <<ReferenceOf(line)>>
    BY DEF References
<1>2. CASE refs = <<line.left, line.right>>
    <2>1. Len(refs) = 2
        BY <1>2
    <2>2. DOMAIN refs = {1, 2}
        BY <1>2
    <2> QED  BY <2>1, <2>2
<1>3. CASE refs = <<ReferenceOf(line)>>
    <2>1. Len(refs) = 1
        BY <1>3
    <2>2. DOMAIN refs = {1}
        BY <1>3
    <2> QED  BY <2>1, <2>2
<1> QED  BY <1>1, <1>2, <1>3

LEMMA NoReferences ==
    ASSUME NEW line, line.kind \in {"blank", "semicolons", "ignored"}
    PROVE  References(line) = <<>>
BY DEF References

LEMMA KnownForm ==
    ASSUME NEW ref, ReferenceErrors(ref) = {}
    PROVE  ref.form \in DOMAIN Patterns
BY DEF ReferenceErrors

LEMMA ListDomain ==
    ASSUME NEW list, IsList(list)
    PROVE  DOMAIN list = 1 .. Len(list) /\ Len(list) \in Nat
BY DEF IsList

LEMMA LineAppended ==
    ASSUME NEW list, IsList(list), NEW e
    PROVE  /\ DOMAIN Append(list, e) = 1 .. Len(list) + 1
           /\ Len(Append(list, e)) = Len(list) + 1
           /\ Append(list, e)[Len(list) + 1] = e
           /\ \A k \in 1 .. Len(list) : Append(list, e)[k] = list[k]
<1>1. PICK S : list \in Seq(S)
    BY DEF IsList
<1>2. list \in Seq(S \cup {e})
    BY <1>1
<1> QED  BY <1>2

\* The first statement of a source is the one a longer source has, too.
LEMMA OneFirst ==
    ASSUME NEW src, IsList(src), NEW h, Headed(src, h)
    PROVE  (CHOOSE k \in DOMAIN src :
               src[k].kind # "blank" /\ \A j \in 1 .. k - 1 : src[j].kind = "blank") = h
<1> DEFINE P(k) == src[k].kind # "blank" /\ \A j \in 1 .. k - 1 : src[j].kind = "blank"
           first == CHOOSE k \in DOMAIN src : P(k)
<1>1. DOMAIN src = 1 .. Len(src) /\ Len(src) \in Nat
    BY ListDomain
<1>2. h \in DOMAIN src /\ P(h)
    BY DEF Headed
<1>3. first \in DOMAIN src /\ P(first)
    BY <1>2
<1> HIDE DEF first
<1>4. ~ first < h
    BY <1>1, <1>2, <1>3
<1>5. ~ h < first
    BY <1>1, <1>2, <1>3
<1>6. first = h
    BY <1>1, <1>2, <1>3, <1>4, <1>5
<1> QED  BY <1>6 DEF first

LEMMA FirstIs ==
    ASSUME IsList(source), NEW h, Headed(source, h)
    PROVE  FirstStatement = h
<1>1. \E k \in DOMAIN source : source[k].kind # "blank"
    BY DEF Headed
<1> QED  BY <1>1, OneFirst DEF FirstStatement

LEMMA FirstIsNext ==
    ASSUME IsList(source'), NEW h, Headed(source', h)
    PROVE  FirstStatement' = h
<1>1. \E k \in DOMAIN source' : source'[k].kind # "blank"
    BY DEF Headed
<1>2. (CHOOSE k \in DOMAIN source' :
         source'[k].kind # "blank" /\ \A j \in 1 .. k - 1 : source'[j].kind = "blank") = h
    BY OneFirst
<1> QED  BY <1>1, <1>2 DEF FirstStatement

LEMMA HeaderStays ==
    ASSUME NEW src, IsList(src), NEW h, Headed(src, h), NEW line
    PROVE  Headed(Append(src, line), h)
<1>1. /\ DOMAIN Append(src, line) = 1 .. Len(src) + 1
      /\ \A k \in 1 .. Len(src) : Append(src, line)[k] = src[k]
    BY LineAppended
<1>2. h \in 1 .. Len(src) /\ Len(src) \in Nat
    BY ListDomain DEF Headed
<1> QED  BY <1>1, <1>2 DEF Headed

MentionsIn(line, n) == {m \in {n} \X {1, 2} : m[2] \in DOMAIN References(line) /\ WellFormed(line)}

\* A line adds its own mentions, which come after all the others.
LEMMA MentionsGrow ==
    ASSUME IsList(source), NEW h, Headed(source, h), NEW line, source' = Append(source, line)
    PROVE  /\ AllMentions' = AllMentions \cup MentionsIn(line, LineNumber)
           /\ \A m \in AllMentions : Telling'[m] = Telling[m] /\ m[1] \in Nat /\ m[1] < LineNumber
           /\ \A k \in {1, 2} : Telling'[<<LineNumber, k>>] = References(line)[k]
<1> DEFINE n == Len(source) + 1
<1>1. /\ Len(source) \in Nat /\ h \in 1 .. Len(source)
      /\ Len(source') = n /\ source'[n] = line
      /\ \A k \in 1 .. Len(source) : source'[k] = source[k]
    BY ListDomain, LineAppended DEF Headed
<1>2. FirstStatement = h
    BY FirstIs
<1>3. FirstStatement' = h
    BY Appended, HeaderStays, FirstIsNext
<1>4. LineNumber = n
    BY DEF LineNumber
<1> DEFINE Good(l, k) == k \in DOMAIN References(l) /\ WellFormed(l)
<1>5. AllMentions = {m \in (h + 1 .. Len(source)) \X {1, 2} : Good(source[m[1]], m[2])}
    BY <1>2 DEF AllMentions
<1>6. AllMentions' = {m \in (h + 1 .. n) \X {1, 2} : Good(source'[m[1]], m[2])}
    BY <1>1, <1>3 DEF AllMentions, WellFormed
<1>7. MentionsIn(line, n) = {m \in {n} \X {1, 2} : Good(line, m[2])}
    BY DEF MentionsIn
<1>8. Telling = [m \in (1 .. Len(source)) \X {1, 2} |-> References(source[m[1]])[m[2]]]
    BY DEF Telling, Mentioned
<1>9. Telling' = [m \in (1 .. n) \X {1, 2} |-> References(source'[m[1]])[m[2]]]
    BY <1>1 DEF Telling, Mentioned
<1>10. (h + 1 .. n) \X {1, 2} = ((h + 1 .. Len(source)) \X {1, 2}) \cup ({n} \X {1, 2})
    <2>1. h + 1 .. n = (h + 1 .. Len(source)) \cup {n}
        BY <1>1
    <2> QED  BY <2>1
<1> HIDE DEF Good, n
<1>11. \A m \in (h + 1 .. Len(source)) \X {1, 2} :
          m[1] \in 1 .. Len(source) /\ m[1] < n /\ m \in (1 .. Len(source)) \X {1, 2}
    BY <1>1 DEF n
<1>12. \A m \in {n} \X {1, 2} : m[1] = n
    OBVIOUS
<1>13. AllMentions' = AllMentions \cup MentionsIn(line, n)
    BY <1>1, <1>5, <1>6, <1>7, <1>10, <1>11, <1>12
<1>14. ASSUME NEW m \in AllMentions
       PROVE  Telling'[m] = Telling[m] /\ m[1] \in Nat /\ m[1] < n
    <2>1. /\ m[1] \in 1 .. Len(source) /\ m[1] < n
          /\ m \in (1 .. Len(source)) \X {1, 2}
        BY <1>5, <1>11
    <2>2. m \in (1 .. n) \X {1, 2}
        BY <1>1, <2>1 DEF n
    <2>3. source'[m[1]] = source[m[1]]
        BY <1>1, <2>1
    <2>4. m[1] \in Nat
        BY <1>1, <2>1
    <2> QED  BY <1>8, <1>9, <2>1, <2>2, <2>3, <2>4
<1>15. ASSUME NEW k \in {1, 2}  PROVE Telling'[<<n, k>>] = References(line)[k]
    <2>1. <<n, k>> \in (1 .. n) \X {1, 2}
        BY <1>1 DEF n
    <2> QED  BY <1>1, <1>9, <2>1
<1> QED  BY <1>4, <1>13, <1>14, <1>15

LEMMA NothingTold ==
    ASSUME NEW R
    PROVE  Told(<<>>, {}, R) /\ Reported(<<>>, {}, R, {})
<1>1. IsList(<<>>)
    <2>1. <<>> \in Seq({})
        OBVIOUS
    <2> QED  BY <2>1 DEF IsList
<1> QED  BY <1>1 DEF Told, Reported

LEMMA OtherWarnings ==
    ASSUME NEW list, NEW M, NEW R, NEW warns, Reported(list, M, R, warns),
           NEW other, \A w \in other : w.code # "conflicting_node_label"
    PROVE  Reported(list, M, R, warns \cup other)
<1>1. \A line, id : Clash(line, id) \notin other
    BY DEF Clash
<1> QED  BY <1>1 DEF Reported

LEMMA SyntaxIsOther ==
    ASSUME NEW line, NEW w \in SyntaxWarnings(line)
    PROVE  w.code # "conflicting_node_label"
<1>1. \E k \in DOMAIN References(line) : w \in ReferenceWarnings(References(line)[k], LineNumber)
    BY DEF SyntaxWarnings
<1> QED  BY <1>1 DEF ReferenceWarnings

LEMMA MergeInit == ImportInit => MergeInv
<1>1. IsList(<<>>)
    <2>1. <<>> \in Seq({})
        OBVIOUS
    <2> QED  BY <2>1 DEF IsList
<1> QED  BY <1>1 DEF ImportInit, MergeInv

LEMMA MergeStutters ==
    ASSUME MergeInv, UNCHANGED <<source, headerSeen, found, warnings>>,
           parse' # "reading" \/ parse' = parse
    PROVE  MergeInv'
<1>1. AllMentions' = AllMentions
    BY DEF AllMentions, FirstStatement, WellFormed
<1>2. Telling' = Telling
    BY DEF Telling, Mentioned
<1> QED  BY <1>1, <1>2 DEF MergeInv

\* A line that mentions nothing changes nothing that is told.
LEMMA NothingMentioned ==
    ASSUME MergeInv, headerSeen, headerSeen' = headerSeen, NEW line, source' = Append(source, line),
           ~ WellFormed(line) \/ References(line) = <<>>, found' = found,
           NEW other, \A w \in other : w.code # "conflicting_node_label",
           warnings' = warnings \cup other
    PROVE  MergeInv'
<1>1. PICK h \in DOMAIN source : Headed(source, h)
    BY DEF MergeInv
<1>2. IsList(source)
    BY DEF MergeInv
<1>3. /\ AllMentions' = AllMentions \cup MentionsIn(line, LineNumber)
      /\ \A m \in AllMentions : Telling'[m] = Telling[m]
    BY <1>1, <1>2, MentionsGrow
<1>4. MentionsIn(line, LineNumber) = {}
    BY DEF MentionsIn
<1>5. AllMentions' = AllMentions
    BY <1>3, <1>4
<1>6. Told(found, AllMentions, Telling') /\ Reported(found, AllMentions, Telling', warnings)
    BY <1>3, SameTold, SameReported DEF MergeInv
<1>7. Reported(found, AllMentions, Telling', warnings \cup other)
    BY <1>6, OtherWarnings
<1>8. IsList(source')
    BY <1>2, Appended
<1>9. h \in DOMAIN source' /\ Headed(source', h)
    BY <1>1, <1>2, HeaderStays DEF Headed
<1> QED  BY <1>5, <1>6, <1>7, <1>8, <1>9 DEF MergeInv

\* The header starts from nothing.
LEMMA HeaderMerges ==
    ASSUME MergeInv, NEW line, ReadHeader(line)
    PROVE  MergeInv'
<1>1. /\ source' = Append(source, line) /\ line.kind = "header" /\ headerSeen'
      /\ ~ headerSeen /\ parse = "reading" /\ found' = found /\ warnings' = warnings
    BY DEF ReadHeader, CanRead
<1>2. /\ IsList(source) /\ found = <<>> /\ warnings = {}
      /\ \A k \in DOMAIN source : source[k].kind = "blank"
    BY <1>1 DEF MergeInv
<1> DEFINE h == Len(source) + 1
<1>3. /\ IsList(source') /\ Len(source') = h /\ Len(source) \in Nat
      /\ DOMAIN source = 1 .. Len(source) /\ DOMAIN source' = 1 .. h /\ source'[h] = line
      /\ \A k \in 1 .. Len(source) : source'[k] = source[k]
    BY <1>1, <1>2, Appended, LineAppended, ListDomain
<1>4. Headed(source', h) /\ h \in DOMAIN source'
    BY <1>1, <1>2, <1>3 DEF Headed
<1>5. FirstStatement' = h
    BY <1>3, <1>4, FirstIsNext
<1>6. AllMentions' = {}
    BY <1>3, <1>5 DEF AllMentions
<1>7. Told(found', AllMentions', Telling') /\ Reported(found', AllMentions', Telling', warnings')
    BY <1>1, <1>2, <1>6, NothingTold
<1> QED  BY <1>1, <1>3, <1>4, <1>7 DEF MergeInv

LEMMA StatementMerges ==
    ASSUME MergeInv, NEW line, ReadStatement(line)
    PROVE  MergeInv'
<1> DEFINE refs == References(line)
           R == Telling'
           M == AllMentions
           n == LineNumber
           p == <<n, 1>>
           q == <<n, 2>>
           first == parseNodeReference(refs[1])
           second == parseNodeReference(refs[2])
           once == mergeNodeDefinition(found, first)
           both == mergeNodeDefinition(once, second)
           syntax == SyntaxWarnings(line)
           one == warnings \cup syntax \cup Conflicts(found, first, n)
           two == one \cup {} \cup Conflicts(once, second, n)
<1>1. /\ source' = Append(source, line) /\ headerSeen /\ headerSeen' = headerSeen
      /\ refs # <<>> /\ WellFormed(line)
      /\ found' = (IF Len(refs) = 1 THEN once ELSE both)
      /\ warnings' = warnings \cup syntax \cup Conflicts(found, first, n) \cup
                         (IF Len(refs) = 1 THEN {} ELSE Conflicts(once, second, n))
    BY DEF ReadStatement, IsStatement, CanRead
<1>2. PICK h \in DOMAIN source : Headed(source, h)
    BY <1>1 DEF MergeInv
<1>3. IsList(source)
    BY DEF MergeInv
<1>4. /\ AllMentions' = M \cup MentionsIn(line, n)
      /\ \A m \in M : R[m] = Telling[m] /\ m[1] \in Nat /\ m[1] < n
      /\ \A k \in {1, 2} : R[<<n, k>>] = refs[k]
    BY <1>1, <1>2, <1>3, MentionsGrow
<1>5. Told(found, M, R) /\ Reported(found, M, R, warnings)
    BY <1>1, <1>4, SameTold, SameReported DEF MergeInv
<1>6. IsList(source') /\ h \in DOMAIN source' /\ Headed(source', h)
    BY <1>1, <1>2, <1>3, Appended, HeaderStays DEF Headed
<1>7. n \in Nat
    BY <1>3, ListDomain DEF LineNumber
<1>8. R[p] = refs[1] /\ R[q] = refs[2] /\ p[1] = n /\ q[1] = n /\ p[2] = 1 /\ q[2] = 2
    BY <1>4
<1>9. \A w \in syntax : w.code # "conflicting_node_label"
    BY SyntaxIsOther
<1>10. \/ Len(refs) = 1 /\ DOMAIN refs = {1}
       \/ Len(refs) = 2 /\ DOMAIN refs = {1, 2}
    <2>1. References(line) # <<>>
        BY <1>1
    <2> QED  BY <2>1, LineReferences, Zenon
<1>11. MentionsIn(line, n) = IF Len(refs) = 1 THEN {p} ELSE {p, q}
    <2>1. {n} \X {1, 2} = {p, q}
        OBVIOUS
    <2>2. MentionsIn(line, n) = {m \in {p, q} : m[2] \in DOMAIN refs}
        BY <1>1, <2>1 DEF MentionsIn
    <2> HIDE DEF refs
    <2>3. \A k \in {1, 2} : k \in DOMAIN refs <=> k = 1 \/ Len(refs) # 1
        BY <1>10
    <2> QED  BY <1>8, <2>2, <2>3
<1>12. \A m \in M \cup {p} : ~ Before(p, m)
    BY <1>4, <1>7, <1>8 DEF Before
<1>13. \A m \in (M \cup {p}) \cup {q} : ~ Before(q, m)
    BY <1>4, <1>7, <1>8 DEF Before
<1>14. \A k \in DOMAIN refs : refs[k].form \in DOMAIN Patterns
    BY <1>1, KnownForm DEF WellFormed
<1> HIDE DEF R, M, n, p, q, syntax, refs
<1>15. Told(once, M \cup {p}, R)
    BY <1>5, <1>8, <1>10, <1>12, <1>14, MergeTold
<1>16. Reported(once, M \cup {p}, R, one)
    BY <1>5, <1>8, <1>9, MergeReported
<1>17. CASE Len(refs) = 1
    <2>1. /\ found' = once /\ warnings' = one /\ AllMentions' = M \cup {p}
        BY <1>1, <1>4, <1>11, <1>17
    <2> QED  BY <1>1, <1>6, <1>15, <1>16, <2>1 DEF MergeInv, R
<1>18. CASE Len(refs) = 2
    <2>1. Told(both, (M \cup {p}) \cup {q}, R)
        BY <1>8, <1>10, <1>13, <1>14, <1>15, <1>18, MergeTold
    <2>2. Reported(both, (M \cup {p}) \cup {q}, R, two)
        BY <1>8, <1>15, <1>16, MergeReported
    <2>3. /\ found' = both /\ warnings' = two /\ AllMentions' = (M \cup {p}) \cup {q}
        BY <1>1, <1>4, <1>11, <1>18
    <2> QED  BY <1>1, <1>6, <2>1, <2>2, <2>3 DEF MergeInv, R
<1> QED  BY <1>10, <1>17, <1>18

LEMMA MergeStep == MergeInv /\ [ImportNext]_importVars => MergeInv'
<1> SUFFICES ASSUME MergeInv, [ImportNext]_importVars  PROVE MergeInv'
    OBVIOUS
<1>1. ASSUME NEW line \in Lines, ReadLine(line)  PROVE MergeInv'
    <2>1. CASE SkipLine(line) /\ headerSeen
        <3> DEFINE other == {}
        <3>1. References(line) = <<>>
            BY <2>1, NoReferences DEF SkipLine
        <3>2. /\ headerSeen /\ headerSeen' = headerSeen /\ source' = Append(source, line)
              /\ found' = found /\ warnings' = warnings \cup other
            BY <2>1 DEF SkipLine, CanRead
        <3>3. \A w \in other : w.code # "conflicting_node_label"
            OBVIOUS
        <3> HIDE DEF other
        <3> QED  BY <3>1, <3>2, <3>3, NothingMentioned
    <2>2. CASE SkipLine(line) /\ ~ headerSeen
        <3>1. /\ source' = Append(source, line) /\ line.kind = "blank" /\ ~ headerSeen'
              /\ parse = "reading" /\ found' = found /\ warnings' = warnings
            BY <2>2 DEF SkipLine, CanRead
        <3>2. IsList(source)
            BY DEF MergeInv
        <3>3. /\ DOMAIN source = 1 .. Len(source) /\ Len(source) \in Nat
              /\ DOMAIN source' = 1 .. Len(source) + 1
              /\ source'[Len(source) + 1] = line
              /\ \A k \in 1 .. Len(source) : source'[k] = source[k]
            BY <3>1, <3>2, ListDomain, LineAppended
        <3>4. found = <<>> /\ warnings = {} /\ \A k \in DOMAIN source : source[k].kind = "blank"
            BY <2>2, <3>1 DEF MergeInv
        <3>5. \A k \in DOMAIN source' : k \in 1 .. Len(source) \/ k = Len(source) + 1
            BY <3>3
        <3>6. \A k \in DOMAIN source' : source'[k].kind = "blank"
            BY <3>1, <3>3, <3>4, <3>5
        <3>7. IsList(source')
            BY <3>1, <3>2, Appended
        <3> QED  BY <3>1, <3>4, <3>6, <3>7 DEF MergeInv
    <2>3. CASE ReadHeader(line)
        BY <2>3, HeaderMerges
    <2>4. CASE RefuseHeader(line)
        <3>1. source' = Append(source, line) /\ ~ headerSeen' /\ parse' = "failed"
            BY <2>4 DEF RefuseHeader, CanRead
        <3>2. IsList(source')
            BY <3>1, Appended DEF MergeInv
        <3> QED  BY <3>1, <3>2 DEF MergeInv
    <2>5. CASE IgnoreStatement(line)
        <3> DEFINE other == {[code |-> "ignored_mermaid_statement", line |-> LineNumber, node |-> Absent]}
        <3>1. References(line) = <<>>
            BY <2>5, NoReferences DEF IgnoreStatement
        <3>2. /\ headerSeen /\ headerSeen' = headerSeen /\ source' = Append(source, line)
              /\ found' = found /\ warnings' = warnings \cup other
            BY <2>5 DEF IgnoreStatement, CanRead
        <3>3. \A w \in other : w.code # "conflicting_node_label"
            OBVIOUS
        <3> HIDE DEF other
        <3> QED  BY <3>1, <3>2, <3>3, NothingMentioned
    <2>6. CASE RefuseStatement(line)
        <3>1. /\ headerSeen /\ headerSeen' = headerSeen /\ source' = Append(source, line)
              /\ found' = found /\ warnings' = warnings \cup SyntaxWarnings(line) /\ ~ WellFormed(line)
            BY <2>6 DEF RefuseStatement, IsStatement, CanRead
        <3>2. \A w \in SyntaxWarnings(line) : w.code # "conflicting_node_label"
            BY SyntaxIsOther
        <3> QED  BY <3>1, <3>2, NothingMentioned
    <2>7. CASE ReadStatement(line)
        BY <2>7, StatementMerges
    <2> QED  BY <1>1, <2>1, <2>2, <2>3, <2>4, <2>5, <2>6, <2>7 DEF ReadLine
<1>2. CASE RefuseSource
    BY <1>2, MergeStutters DEF RefuseSource
<1>3. ASSUME NEW call \in CallOptions, SubmitGraph(call)  PROVE MergeInv'
    BY <1>3, MergeStutters DEF SubmitGraph
<1>4. CASE UNCHANGED parserVars
    BY <1>4, MergeStutters DEF parserVars
<1> QED  BY <1>1, <1>2, <1>3, <1>4 DEF ImportNext, importVars

\* What the parser holds is what the lines so far say, whatever their order.
THEOREM MergeInvariant == ImportSpec => []MergeInv
BY MergeInit, MergeStep, PTL DEF ImportSpec

\* The mentions of a node are those of the source that name it.
LEMMA MentionsAre ==
    ASSUME MergeInv, headerSeen, NEW id
    PROVE  /\ Mentions(id) = Of(AllMentions, Telling, id)
           /\ \A m \in Mentions(id) : Telling[m] = Mentioned(m)
<1>1. PICK h \in DOMAIN source : Headed(source, h)
    BY DEF MergeInv
<1>2. FirstStatement = h /\ h \in 1 .. Len(source) /\ Len(source) \in Nat
    BY <1>1, FirstIs, ListDomain DEF MergeInv
<1> DEFINE after == (FirstStatement + 1 .. Len(source)) \X {1, 2}
           Good(m) == m[2] \in DOMAIN References(source[m[1]]) /\ WellFormed(source[m[1]])
<1>3. Mentions(id) = {m \in after : Good(m) /\ Mentioned(m).id = id}
    BY DEF Mentions, Mentioned
<1>4. AllMentions = {m \in after : Good(m)}
    BY DEF AllMentions
<1>5. \A m \in after : m \in (1 .. Len(source)) \X {1, 2}
    BY <1>2
<1>6. \A m \in after : Telling[m] = Mentioned(m)
    BY <1>5 DEF Telling
<1> HIDE DEF after, Good
<1> QED  BY <1>3, <1>4, <1>6 DEF Of

\* What the mentions say of a node, in the words of the property.
LEMMA AsMentioned ==
    ASSUME MergeInv, headerSeen, NEW i \in DOMAIN found
    PROVE  LET node == found[i]
               named == {m \in Mentions(node.id) : Mentioned(m).label # ""}
               strongest == {m \in Mentions(node.id) :
                               \A n \in Mentions(node.id) : Strength(n) <= Strength(m)}
           IN  /\ IF named = {} THEN node.label = node.id
                  ELSE \E m \in named : /\ \A n \in named : ~ Before(n, m)
                                        /\ node.label = Mentioned(m).label
               /\ \E m \in strongest : /\ \A n \in strongest : ~ Before(n, m)
                                       /\ node.shape = Patterns[Mentioned(m).form].shape
<1> DEFINE node == found[i]
           S == Mentions(node.id)
           named == {m \in S : Mentioned(m).label # ""}
           strongest == {m \in S : \A n \in S : Strength(n) <= Strength(m)}
<1>1. S = Of(AllMentions, Telling, node.id) /\ \A m \in S : Telling[m] = Mentioned(m)
    BY MentionsAre
<1>2. EntryTold(node, S, Telling)
    BY <1>1 DEF MergeInv, Told
<1> HIDE DEF S, node
<1>3. Named(S, Telling) = named
    BY <1>1 DEF Named
<1>4. \A m \in S : Score(Telling, m) = Strength(m)
    BY <1>1 DEF Score, Strength
<1>5. Strongest(S, Telling) = strongest
    BY <1>4 DEF Strongest
<1> HIDE DEF named, strongest
<1>6. IF named = {} THEN node.label = node.id
      ELSE \E m \in named : /\ \A n \in named : ~ Before(n, m)
                            /\ node.label = Mentioned(m).label
    BY <1>1, <1>2, <1>3, Zenon DEF EntryTold, IsFirst
<1>7. \E m \in strongest : /\ \A n \in strongest : ~ Before(n, m)
                           /\ node.shape = Patterns[Mentioned(m).form].shape
    BY <1>1, <1>2, <1>5, Zenon DEF EntryTold, IsFirst
<1> QED  BY <1>6, <1>7, Zenon DEF node, S, named, strongest

\* Whatever the order of its mentions, with and without a label, bare and in brackets, a
\* node keeps its first label and the first of its strongest shapes (mergeNodeDefinition).
THEOREM MergesKeepTheFirst == ImportSpec => []FirstLabelStrongestShape
<1>1. MergeInv => FirstLabelStrongestShape
    BY AsMentioned DEF FirstLabelStrongestShape
<1> QED  BY <1>1, MergeInvariant, PTL

\* The source's lines the parser warns of are those that name a node otherwise than it is
\* kept: no label is dropped in silence and none is reported that was kept.
THEOREM NoLabelDroppedSilently == ImportSpec => []DroppedLabelsReported
<1>1. ASSUME MergeInv, headerSeen, NEW i \in DOMAIN found, NEW line \in DOMAIN source
      PROVE  [code |-> "conflicting_node_label", line |-> line, node |-> found[i].id] \in warnings
                <=> \E m \in Mentions(found[i].id) :
                        m[1] = line /\ Mentioned(m).label \notin {"", found[i].label}
    <2> DEFINE S == Mentions(found[i].id)
    <2>1. S = Of(AllMentions, Telling, found[i].id) /\ \A m \in S : Telling[m] = Mentioned(m)
        BY <1>1, MentionsAre
    <2>2. Clash(line, found[i].id) \in warnings <=> line \in Dropped(found[i], S, Telling)
        BY <1>1, <2>1 DEF MergeInv, Reported
    <2> HIDE DEF S
    <2>3. line \in Dropped(found[i], S, Telling) <=>
             \E m \in S : m[1] = line /\ Mentioned(m).label \notin {"", found[i].label}
        BY <2>1 DEF Dropped
    <2> QED  BY <2>2, <2>3 DEF Clash, S
<1>2. MergeInv => DroppedLabelsReported
    BY <1>1, Zenon DEF DroppedLabelsReported
<1> QED  BY <1>2, MergeInvariant, PTL
=============================================================================
