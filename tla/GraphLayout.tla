----------------------------- MODULE GraphLayout -----------------------------
(***************************************************************************)
(* Layers for the nodes of an imported graph: buildLayerAssignments of     *)
(* js/graph-creation.js.  The loop takes, one at a time, the first node in *)
(* input order that no unprocessed node points at, and pushes its targets  *)
(* below it; what is left when none is ready lies on or behind a cycle and *)
(* gets layers of its own after the others.                                *)
(*                                                                         *)
(* A node is its index in the input.  Validation has removed self edges    *)
(* and a second edge between two nodes, so the edges are a set of pairs.   *)
(***************************************************************************)
EXTENDS Integers, FiniteSets

VARIABLES
    nodeCount,   \* nodes.length
    links,       \* <<from, to>> for each edge
    indegree,    \* edges into a node from nodes not processed yet
    layerOf,     \* layerByNodeId
    processed,   \* processedNodeIds
    stage        \* "idle", "layering" (in the while loop) or "layered"

layoutVars == <<nodeCount, links, indegree, layerOf, processed, stage>>

Nodes == 1 .. nodeCount

Sources(v) == {u \in Nodes : <<u, v>> \in links}

Indegrees(n, l) == [v \in 1 .. n |-> Cardinality({u \in 1 .. n : <<u, v>> \in l})]

\* Any graph at all.
Init ==
    /\ nodeCount \in Nat
    /\ links \in SUBSET (Nodes \X Nodes)
    /\ indegree = Indegrees(nodeCount, links)
    /\ layerOf = [v \in Nodes |-> 0]
    /\ processed = {}
    /\ stage = "layering"

\* The maps before the loop, for n nodes and the edges l.
StartLayering(n, l) ==
    /\ nodeCount' = n
    /\ links' = l
    /\ indegree' = Indegrees(n, l)
    /\ layerOf' = [v \in 1 .. n |-> 0]
    /\ processed' = {}
    /\ stage' = "layering"

-----------------------------------------------------------------------------
Ready == {v \in Nodes \ processed : indegree[v] = 0}

IsLeast(v, S) == v \in S /\ \A u \in S : v <= u

\* Broken variant: the last source decides, not the deepest one.
BelowLast(here, there) == here + 1

Below(here, there) == IF there > here THEN there ELSE here + 1

\* One iteration of the while loop.
ProcessNextNode ==
    /\ stage = "layering"
    /\ \E u \in Nodes :
          /\ IsLeast(u, Ready)
          /\ processed' = processed \cup {u}
          /\ indegree' = [v \in Nodes |-> IF <<u, v>> \in links THEN indegree[v] - 1 ELSE indegree[v]]
          /\ layerOf' = [v \in Nodes |-> IF <<u, v>> \in links THEN Below(layerOf[u], layerOf[v])
                                                               ELSE layerOf[v]]
    /\ UNCHANGED <<nodeCount, links, stage>>

\* Broken variant: off by one.
IsLastLayer(k) ==
    /\ \A u \in processed : layerOf[u] <= k
    /\ k = 0 \/ \E u \in processed : layerOf[u] = k

\* The first layer after those of the processed nodes.
IsFallbackLayer(k) ==
    /\ \A u \in processed : layerOf[u] < k
    /\ k = 0 \/ \E u \in processed : layerOf[u] = k - 1

\* Broken variant: the loop has no break for the case that no node is ready.
LayerTheRestWhenDone ==
    /\ stage = "layering"
    /\ processed = Nodes
    /\ stage' = "layered"
    /\ UNCHANGED <<nodeCount, links, indegree, layerOf, processed>>

\* The loop has ended, because all nodes are processed or because none is ready:
\* each node left gets the next layer, in input order.
LayerTheRest ==
    /\ stage = "layering"
    /\ Ready = {}
    /\ \E k \in 0 .. nodeCount :
          /\ IsFallbackLayer(k)
          /\ layerOf' = [v \in Nodes |->
                IF v \in processed THEN layerOf[v]
                ELSE k + Cardinality({u \in Nodes \ processed : u < v})]
    /\ stage' = "layered"
    /\ UNCHANGED <<nodeCount, links, indegree, processed>>

Next == ProcessNextNode \/ LayerTheRest

LayoutSpec == Init /\ [][Next]_layoutVars

-----------------------------------------------------------------------------
(***************************************************************************)
(* An edge leads to a later layer, unless it starts in a cycle: a drawn    *)
(* arrow never points back or sideways for a reason other than a cycle.    *)
(***************************************************************************)
LayersFollowEdges ==
    \A e \in links : e[1] \in processed => layerOf[e[1]] < layerOf[e[2]]

(***************************************************************************)
(* Only cycles are given up on: a node is left for the fallback layers     *)
(* exactly when a path from a cycle leads to it; these nodes have distinct *)
(* layers in input order, all after those of the other nodes.              *)
(***************************************************************************)
\* S is closed backwards: each member has a source in S, so S contains a cycle.
FedFromWithin(S) == \A v \in S : Sources(v) \cap S # {}

CyclesComeLast ==
    stage = "layered" =>
        LET rest == Nodes \ processed IN
        /\ FedFromWithin(rest)
        /\ \A S \in SUBSET Nodes : FedFromWithin(S) => S \subseteq rest
        /\ \A u \in processed, v \in rest : layerOf[u] < layerOf[v]
        /\ \A u, v \in rest : u < v => layerOf[u] < layerOf[v]

(***************************************************************************)
(* The loop ends for every graph, cyclic ones included.                    *)
(***************************************************************************)
LayoutEnds == stage = "layering" ~> stage = "layered"
=============================================================================
