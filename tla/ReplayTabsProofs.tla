-------------------------- MODULE ReplayTabsProofs --------------------------
(***************************************************************************)
(* Proofs about ReplayTabs, for any snapshots, any mutations of the types  *)
(* the API lets through and batches of any length.                         *)
(***************************************************************************)
EXTENDS ReplayTabs, FiniteSetTheorems, SequenceTheorems, FunctionTheorems, WellFoundedInduction, TLAPS

(***************************************************************************)
(* Looking up                                                              *)
(***************************************************************************)
LEMMA LeastNatural ==
    ASSUME NEW T, T \subseteq Nat, T # {}
    PROVE  \E x \in T : \A y \in T : x <= y
<1> DEFINE R == {ss \in Nat \X Nat : ss[1] < ss[2]}
<1>1. IsWellFoundedOn(R, Nat)
    BY NatLessThanWellFounded, Zenon DEF OpToRel
<1>2. PICK x \in T : \A y \in T : ~ (<<y, x>> \in R)
    <2> HIDE DEF R
    <2> QED  BY <1>1, WFMin
<1>3. ASSUME NEW y \in T  PROVE  x <= y
    <2>1. x \in Nat /\ y \in Nat
        OBVIOUS
    <2>2. ~ (<<y, x>> \in R)
        BY <1>2
    <2>3. ~ (y < x)
        BY <2>1, <2>2
    <2> QED  BY <2>1, <2>3
<1> QED  BY <1>3

LEMMA MinIsLeast ==
    ASSUME NEW S, S \subseteq Nat, S # {}
    PROVE  Min(S) \in S /\ \A m \in S : Min(S) <= m
BY LeastNatural DEF Min

\* The first entry with an id, 0 when there is none.
LEMMA IdFound ==
    ASSUME NEW list, IsArray(list), NEW x
    PROVE  /\ IndexOfId(list, x) # 0 => IndexOfId(list, x) \in DOMAIN list /\ list[IndexOfId(list, x)].id = x
           /\ IndexOfId(list, x) = 0 => \A i \in DOMAIN list : list[i].id # x
<1> DEFINE holds == {i \in 1 .. Len(list) : list[i].id = x}
<1>1. IndexOfId(list, x) = IF holds # {} THEN Min(holds) ELSE 0
    BY DEF IndexOfId, SelectInSeq
<1>2. holds \subseteq Nat /\ DOMAIN list = 1 .. Len(list) /\ 0 \notin holds
    BY DEF IsArray
<1>3. holds # {} => Min(holds) \in holds
    BY <1>2, MinIsLeast
<1> QED  BY <1>1, <1>2, <1>3

LEMMA TabFound ==
    ASSUME NEW list, IsArray(list), NEW x
    PROVE  /\ HasTab(list, x) => TabIndex(list, x) \in DOMAIN list /\ list[TabIndex(list, x)].id = x
           /\ ~HasTab(list, x) => \A i \in DOMAIN list : list[i].id # x
<1>1. TabIndex(list, x) = IndexOfId(list, x)
    BY DEF TabIndex, IndexOfId
<1> QED  BY <1>1, IdFound DEF HasTab

LEMMA FirstObjection ==
    ASSUME NEW list, NEW S, list \in Seq(S)
    PROVE  \/ FirstOf(list) = Allowed /\ \A k \in 1 .. Len(list) : ~ list[k][1]
           \/ \E k \in 1 .. Len(list) : /\ list[k][1]
                                        /\ FirstOf(list) = [status |-> list[k][2], reason |-> list[k][3]]
<1> DEFINE holds == {i \in 1 .. Len(list) : list[i][1]}
           first == SelectInSeq(list, LAMBDA o : o[1])
<1>1. first = IF holds # {} THEN Min(holds) ELSE 0
    BY DEF SelectInSeq
<1>2. holds \subseteq Nat /\ 0 \notin holds
    OBVIOUS
<1>3. FirstOf(list) = IF first = 0 THEN Allowed ELSE [status |-> list[first][2], reason |-> list[first][3]]
    BY DEF FirstOf
<1> HIDE DEF first
<1>4. CASE holds = {}
    BY <1>1, <1>3, <1>4
<1>5. CASE holds # {}
    BY <1>1, <1>2, <1>3, <1>5, MinIsLeast
<1> QED  BY <1>4, <1>5

Verdict(status, reason) == [status |-> status, reason |-> reason]

LEMMA OneObjection ==
    ASSUME NEW c1, NEW s1, NEW r1
    PROVE  LET v == FirstOf(<<<<c1, s1, r1>>>>) IN
           \/ v = Allowed /\ ~c1
           \/ c1 /\ v = Verdict(s1, r1)
<1> DEFINE o == <<<<c1, s1, r1>>>>
<1>0. Len(o) = 1 /\ o \in Seq({o[1]}) /\ 1 .. 1 = {1}
    OBVIOUS
<1>1. (o[1][1] <=> c1) /\ o[1][2] = s1 /\ o[1][3] = r1
    OBVIOUS
<1> HIDE DEF o
<1>2. \/ FirstOf(o) = Allowed /\ \A k \in {1} : ~ o[k][1]
      \/ \E k \in {1} : o[k][1] /\ FirstOf(o) = Verdict(o[k][2], o[k][3])
    <2>1. \/ FirstOf(o) = Allowed /\ \A k \in 1 .. Len(o) : ~ o[k][1]
          \/ \E k \in 1 .. Len(o) : o[k][1] /\ FirstOf(o) = Verdict(o[k][2], o[k][3])
        BY <1>0, FirstObjection, Zenon DEF Verdict
    <2> QED  BY <1>0, <2>1
<1>3. \/ FirstOf(o) = Allowed /\ ~c1
      \/ c1 /\ FirstOf(o) = Verdict(s1, r1)
    BY <1>1, <1>2
<1> QED  BY <1>3 DEF o

LEMMA TwoObjections ==
    ASSUME NEW c1, NEW s1, NEW r1, NEW c2, NEW s2, NEW r2
    PROVE  LET v == FirstOf(<<<<c1, s1, r1>>, <<c2, s2, r2>>>>) IN
           \/ v = Allowed /\ ~c1 /\ ~c2
           \/ c1 /\ v = Verdict(s1, r1)
           \/ c2 /\ v = Verdict(s2, r2)
<1> DEFINE o == <<<<c1, s1, r1>>, <<c2, s2, r2>>>>
<1>0. Len(o) = 2 /\ o \in Seq({o[1], o[2]}) /\ 1 .. 2 = {1, 2}
    OBVIOUS
<1>1. (o[1][1] <=> c1) /\ o[1][2] = s1 /\ o[1][3] = r1
    OBVIOUS
<1>2. (o[2][1] <=> c2) /\ o[2][2] = s2 /\ o[2][3] = r2
    OBVIOUS
<1> HIDE DEF o
<1>3. \/ FirstOf(o) = Allowed /\ \A k \in {1, 2} : ~ o[k][1]
      \/ \E k \in {1, 2} : o[k][1] /\ FirstOf(o) = Verdict(o[k][2], o[k][3])
    <2>1. \/ FirstOf(o) = Allowed /\ \A k \in 1 .. Len(o) : ~ o[k][1]
          \/ \E k \in 1 .. Len(o) : o[k][1] /\ FirstOf(o) = Verdict(o[k][2], o[k][3])
        BY <1>0, FirstObjection, Zenon DEF Verdict
    <2> QED  BY <1>0, <2>1
<1>4. \/ FirstOf(o) = Allowed /\ ~c1 /\ ~c2
      \/ c1 /\ FirstOf(o) = Verdict(s1, r1)
      \/ c2 /\ FirstOf(o) = Verdict(s2, r2)
    BY <1>1, <1>2, <1>3
<1> QED  BY <1>4 DEF o

LEMMA ThreeObjections ==
    ASSUME NEW c1, NEW s1, NEW r1, NEW c2, NEW s2, NEW r2, NEW c3, NEW s3, NEW r3
    PROVE  LET v == FirstOf(<<<<c1, s1, r1>>, <<c2, s2, r2>>, <<c3, s3, r3>>>>) IN
           \/ v = Allowed /\ ~c1 /\ ~c2 /\ ~c3
           \/ c1 /\ v = Verdict(s1, r1)
           \/ c2 /\ v = Verdict(s2, r2)
           \/ c3 /\ v = Verdict(s3, r3)
<1> DEFINE o == <<<<c1, s1, r1>>, <<c2, s2, r2>>, <<c3, s3, r3>>>>
<1>0. Len(o) = 3 /\ o \in Seq({o[1], o[2], o[3]}) /\ 1 .. 3 = {1, 2, 3}
    OBVIOUS
<1>1. (o[1][1] <=> c1) /\ o[1][2] = s1 /\ o[1][3] = r1
    OBVIOUS
<1>2. (o[2][1] <=> c2) /\ o[2][2] = s2 /\ o[2][3] = r2
    OBVIOUS
<1>3. (o[3][1] <=> c3) /\ o[3][2] = s3 /\ o[3][3] = r3
    OBVIOUS
<1> HIDE DEF o
<1>4. \/ FirstOf(o) = Allowed /\ \A k \in {1, 2, 3} : ~ o[k][1]
      \/ \E k \in {1, 2, 3} : o[k][1] /\ FirstOf(o) = Verdict(o[k][2], o[k][3])
    <2>1. \/ FirstOf(o) = Allowed /\ \A k \in 1 .. Len(o) : ~ o[k][1]
          \/ \E k \in 1 .. Len(o) : o[k][1] /\ FirstOf(o) = Verdict(o[k][2], o[k][3])
        BY <1>0, FirstObjection, Zenon DEF Verdict
    <2> QED  BY <1>0, <2>1
<1>5. \/ FirstOf(o) = Allowed /\ ~c1 /\ ~c2 /\ ~c3
      \/ c1 /\ FirstOf(o) = Verdict(s1, r1)
      \/ c2 /\ FirstOf(o) = Verdict(s2, r2)
      \/ c3 /\ FirstOf(o) = Verdict(s3, r3)
    BY <1>1, <1>2, <1>3, <1>4
<1> QED  BY <1>5 DEF o

LEMMA SixObjections ==
    ASSUME NEW c1, NEW s1, NEW r1, NEW c2, NEW s2, NEW r2, NEW c3, NEW s3, NEW r3,
           NEW c4, NEW s4, NEW r4, NEW c5, NEW s5, NEW r5, NEW c6, NEW s6, NEW r6
    PROVE  LET v == FirstOf(<<<<c1, s1, r1>>, <<c2, s2, r2>>, <<c3, s3, r3>>, <<c4, s4, r4>>, <<c5, s5, r5>>, <<c6, s6, r6>>>>) IN
           \/ v = Allowed /\ ~c1 /\ ~c2 /\ ~c3 /\ ~c4 /\ ~c5 /\ ~c6
           \/ c1 /\ v = Verdict(s1, r1)
           \/ c2 /\ v = Verdict(s2, r2)
           \/ c3 /\ v = Verdict(s3, r3)
           \/ c4 /\ v = Verdict(s4, r4)
           \/ c5 /\ v = Verdict(s5, r5)
           \/ c6 /\ v = Verdict(s6, r6)
<1> DEFINE o == <<<<c1, s1, r1>>, <<c2, s2, r2>>, <<c3, s3, r3>>, <<c4, s4, r4>>, <<c5, s5, r5>>, <<c6, s6, r6>>>>
<1>0. Len(o) = 6 /\ o \in Seq({o[1], o[2], o[3], o[4], o[5], o[6]}) /\ 1 .. 6 = {1, 2, 3, 4, 5, 6}
    OBVIOUS
<1>1. (o[1][1] <=> c1) /\ o[1][2] = s1 /\ o[1][3] = r1
    OBVIOUS
<1>2. (o[2][1] <=> c2) /\ o[2][2] = s2 /\ o[2][3] = r2
    OBVIOUS
<1>3. (o[3][1] <=> c3) /\ o[3][2] = s3 /\ o[3][3] = r3
    OBVIOUS
<1>4. (o[4][1] <=> c4) /\ o[4][2] = s4 /\ o[4][3] = r4
    OBVIOUS
<1>5. (o[5][1] <=> c5) /\ o[5][2] = s5 /\ o[5][3] = r5
    OBVIOUS
<1>6. (o[6][1] <=> c6) /\ o[6][2] = s6 /\ o[6][3] = r6
    OBVIOUS
<1> HIDE DEF o
<1>7. \/ FirstOf(o) = Allowed /\ \A k \in {1, 2, 3, 4, 5, 6} : ~ o[k][1]
      \/ \E k \in {1, 2, 3, 4, 5, 6} : o[k][1] /\ FirstOf(o) = Verdict(o[k][2], o[k][3])
    <2>1. \/ FirstOf(o) = Allowed /\ \A k \in 1 .. Len(o) : ~ o[k][1]
          \/ \E k \in 1 .. Len(o) : o[k][1] /\ FirstOf(o) = Verdict(o[k][2], o[k][3])
        BY <1>0, FirstObjection, Zenon DEF Verdict
    <2> QED  BY <1>0, <2>1
<1>8. \/ FirstOf(o) = Allowed /\ ~c1 /\ ~c2 /\ ~c3 /\ ~c4 /\ ~c5 /\ ~c6
      \/ c1 /\ FirstOf(o) = Verdict(s1, r1)
      \/ c2 /\ FirstOf(o) = Verdict(s2, r2)
      \/ c3 /\ FirstOf(o) = Verdict(s3, r3)
      \/ c4 /\ FirstOf(o) = Verdict(s4, r4)
      \/ c5 /\ FirstOf(o) = Verdict(s5, r5)
      \/ c6 /\ FirstOf(o) = Verdict(s6, r6)
    BY <1>1, <1>2, <1>3, <1>4, <1>5, <1>6, <1>7
<1> QED  BY <1>8 DEF o

LEMMA SevenObjections ==
    ASSUME NEW c1, NEW s1, NEW r1, NEW c2, NEW s2, NEW r2, NEW c3, NEW s3, NEW r3,
           NEW c4, NEW s4, NEW r4, NEW c5, NEW s5, NEW r5, NEW c6, NEW s6, NEW r6,
           NEW c7, NEW s7, NEW r7
    PROVE  LET v == FirstOf(<<<<c1, s1, r1>>, <<c2, s2, r2>>, <<c3, s3, r3>>, <<c4, s4, r4>>, <<c5, s5, r5>>, <<c6, s6, r6>>, <<c7, s7, r7>>>>) IN
           \/ v = Allowed /\ ~c1 /\ ~c2 /\ ~c3 /\ ~c4 /\ ~c5 /\ ~c6 /\ ~c7
           \/ c1 /\ v = Verdict(s1, r1)
           \/ c2 /\ v = Verdict(s2, r2)
           \/ c3 /\ v = Verdict(s3, r3)
           \/ c4 /\ v = Verdict(s4, r4)
           \/ c5 /\ v = Verdict(s5, r5)
           \/ c6 /\ v = Verdict(s6, r6)
           \/ c7 /\ v = Verdict(s7, r7)
<1> DEFINE o == <<<<c1, s1, r1>>, <<c2, s2, r2>>, <<c3, s3, r3>>, <<c4, s4, r4>>, <<c5, s5, r5>>, <<c6, s6, r6>>, <<c7, s7, r7>>>>
<1>0. Len(o) = 7 /\ o \in Seq({o[1], o[2], o[3], o[4], o[5], o[6], o[7]}) /\ 1 .. 7 = {1, 2, 3, 4, 5, 6, 7}
    OBVIOUS
<1>1. (o[1][1] <=> c1) /\ o[1][2] = s1 /\ o[1][3] = r1
    OBVIOUS
<1>2. (o[2][1] <=> c2) /\ o[2][2] = s2 /\ o[2][3] = r2
    OBVIOUS
<1>3. (o[3][1] <=> c3) /\ o[3][2] = s3 /\ o[3][3] = r3
    OBVIOUS
<1>4. (o[4][1] <=> c4) /\ o[4][2] = s4 /\ o[4][3] = r4
    OBVIOUS
<1>5. (o[5][1] <=> c5) /\ o[5][2] = s5 /\ o[5][3] = r5
    OBVIOUS
<1>6. (o[6][1] <=> c6) /\ o[6][2] = s6 /\ o[6][3] = r6
    OBVIOUS
<1>7. (o[7][1] <=> c7) /\ o[7][2] = s7 /\ o[7][3] = r7
    OBVIOUS
<1> HIDE DEF o
<1>8. \/ FirstOf(o) = Allowed /\ \A k \in {1, 2, 3, 4, 5, 6, 7} : ~ o[k][1]
      \/ \E k \in {1, 2, 3, 4, 5, 6, 7} : o[k][1] /\ FirstOf(o) = Verdict(o[k][2], o[k][3])
    <2>1. \/ FirstOf(o) = Allowed /\ \A k \in 1 .. Len(o) : ~ o[k][1]
          \/ \E k \in 1 .. Len(o) : o[k][1] /\ FirstOf(o) = Verdict(o[k][2], o[k][3])
        BY <1>0, FirstObjection, Zenon DEF Verdict
    <2> QED  BY <1>0, <2>1
<1>9. \/ FirstOf(o) = Allowed /\ ~c1 /\ ~c2 /\ ~c3 /\ ~c4 /\ ~c5 /\ ~c6 /\ ~c7
      \/ c1 /\ FirstOf(o) = Verdict(s1, r1)
      \/ c2 /\ FirstOf(o) = Verdict(s2, r2)
      \/ c3 /\ FirstOf(o) = Verdict(s3, r3)
      \/ c4 /\ FirstOf(o) = Verdict(s4, r4)
      \/ c5 /\ FirstOf(o) = Verdict(s5, r5)
      \/ c6 /\ FirstOf(o) = Verdict(s6, r6)
      \/ c7 /\ FirstOf(o) = Verdict(s7, r7)
    BY <1>1, <1>2, <1>3, <1>4, <1>5, <1>6, <1>7, <1>8
<1> QED  BY <1>9 DEF o

-----------------------------------------------------------------------------
(***************************************************************************)
(* The policy and the operations.  Where the policy skips a receipt for a  *)
(* reason that is not its own, the operation does nothing; what it allows  *)
(* the operation does, but for the blind spots.                            *)
(***************************************************************************)
StricterReasons == {"item_limit_exceeded", "edge_limit_exceeded", "text_limit_exceeded",
                    "invalid_dimensions", "unknown_update_field"}

Agrees(v, results, blind) ==
    /\ v.status \in {"allowed", "skip", "conflict", "fatal"} /\ v # Failed
    /\ v.status = "allowed" => v = Allowed
    /\ v = Allowed /\ results = {} => blind
    /\ v.status = "skip" /\ v.reason \notin StricterReasons => results = {}

LEMMA CreateNodeAgrees ==
    ASSUME NEW list, NEW id, NEW p
    PROVE  Agrees(createNodePolicy(list, id, p), replayCreateNode(list, id, p), p.color = Malformed)
<1> DEFINE v == createNodePolicy(list, id, p)
           results == replayCreateNode(list, id, p)
<1>1. PICK a, b, c, d, e, f : a = ~HasTab(list, p.tab) /\ b = ItemAcrossTabs(list, id)
          /\ c = (Len(ItemsOf(list, p.tab)) >= ItemsPerTabMax) /\ d = TooLong(p.name)
          /\ e = (p.position = Malformed) /\ f = DimensionOutOfBounds(p.width)
    OBVIOUS
<1>2. v = FirstOf(<<
          <<a, "conflict", "missing_tab">>,
          <<b, "skip", "duplicate_item_id_existing">>,
          <<c, "skip", "item_limit_exceeded">>,
          <<d, "skip", "text_limit_exceeded">>,
          <<e, "skip", "invalid_position">>,
          <<f, "skip", "invalid_dimensions">> >>)
    BY <1>1 DEF createNodePolicy
<1>3. \/ v = Allowed /\ ~a /\ ~b /\ ~c /\ ~d /\ ~e /\ ~f
      \/ a /\ v = Verdict("conflict", "missing_tab")
      \/ b /\ v = Verdict("skip", "duplicate_item_id_existing")
      \/ c /\ v = Verdict("skip", "item_limit_exceeded")
      \/ d /\ v = Verdict("skip", "text_limit_exceeded")
      \/ e /\ v = Verdict("skip", "invalid_position")
      \/ f /\ v = Verdict("skip", "invalid_dimensions")
    BY <1>2, SixObjections
<1>4. results # {} <=> p.color # Malformed /\ HasTab(list, p.tab)
                      /\ ~ItemAcrossTabs(list, id) /\ p.position # Malformed
    BY DEF replayCreateNode, If
<1>5. \/ v = Allowed /\ (results # {} \/ p.color = Malformed)
      \/ v = Verdict("conflict", "missing_tab")
      \/ results = {} /\ v = Verdict("skip", "duplicate_item_id_existing")
      \/ v = Verdict("skip", "item_limit_exceeded")
      \/ v = Verdict("skip", "text_limit_exceeded")
      \/ results = {} /\ v = Verdict("skip", "invalid_position")
      \/ v = Verdict("skip", "invalid_dimensions")
    BY <1>1, <1>3, <1>4
<1> HIDE DEF v, results
<1>6. Agrees(v, results, p.color = Malformed)
    BY <1>5 DEF Agrees, Verdict, Allowed, Failed, StricterReasons
<1> QED  BY <1>6 DEF v, results

LEMMA MoveNodeAgrees ==
    ASSUME NEW list, NEW id, NEW p
    PROVE  Agrees(moveNodePolicy(list, id, p), replayMoveNode(list, id, p), FALSE)
<1> DEFINE v == moveNodePolicy(list, id, p)
           results == replayMoveNode(list, id, p)
<1>1. PICK a, b, c : a = ~HasTab(list, p.tab) /\ b = ~HasItem(list, p.tab, id)
          /\ c = (p.position = Malformed)
    OBVIOUS
<1>2. v = FirstOf(<<
          <<a, "conflict", "missing_tab">>,
          <<b, "conflict", "missing_node">>,
          <<c, "skip", "invalid_position">> >>)
    BY <1>1 DEF moveNodePolicy
<1>3. \/ v = Allowed /\ ~a /\ ~b /\ ~c
      \/ a /\ v = Verdict("conflict", "missing_tab")
      \/ b /\ v = Verdict("conflict", "missing_node")
      \/ c /\ v = Verdict("skip", "invalid_position")
    BY <1>2, ThreeObjections
<1>4. results # {} <=> HasItem(list, p.tab, id) /\ p.position # Malformed
    BY DEF replayMoveNode, If
<1>5. \/ v = Allowed /\ results # {}
      \/ v = Verdict("conflict", "missing_tab")
      \/ v = Verdict("conflict", "missing_node")
      \/ results = {} /\ v = Verdict("skip", "invalid_position")
    BY <1>1, <1>3, <1>4
<1> HIDE DEF v, results
<1>6. Agrees(v, results, FALSE)
    BY <1>5 DEF Agrees, Verdict, Allowed, Failed, StricterReasons
<1> QED  BY <1>6 DEF v, results

LEMMA DeleteNodeAgrees ==
    ASSUME NEW list, NEW id, NEW p
    PROVE  Agrees(deleteNodePolicy(list, id, p), replayDeleteNode(list, id, p), FALSE)
<1> DEFINE v == deleteNodePolicy(list, id, p)
           results == replayDeleteNode(list, id, p)
<1>1. PICK a, b : a = ~HasTab(list, p.tab) /\ b = ~HasItem(list, p.tab, id)
    OBVIOUS
<1>2. v = FirstOf(<<
          <<a, "conflict", "missing_tab">>,
          <<b, "skip", "missing_node">> >>)
    BY <1>1 DEF deleteNodePolicy
<1>3. \/ v = Allowed /\ ~a /\ ~b
      \/ a /\ v = Verdict("conflict", "missing_tab")
      \/ b /\ v = Verdict("skip", "missing_node")
    BY <1>2, TwoObjections
<1>4. results # {} <=> HasItem(list, p.tab, id)
    BY DEF replayDeleteNode, If
<1>5. \/ v = Allowed /\ results # {}
      \/ v = Verdict("conflict", "missing_tab")
      \/ results = {} /\ v = Verdict("skip", "missing_node")
    BY <1>1, <1>3, <1>4
<1> HIDE DEF v, results
<1>6. Agrees(v, results, FALSE)
    BY <1>5 DEF Agrees, Verdict, Allowed, Failed, StricterReasons
<1> QED  BY <1>6 DEF v, results

LEMMA CreateEdgeAgrees ==
    ASSUME NEW list, NEW id, NEW p
    PROVE  Agrees(createEdgePolicy(list, id, p), replayCreateEdge(list, id, p), p.kind = Malformed)
<1> DEFINE v == createEdgePolicy(list, id, p)
           results == replayCreateEdge(list, id, p)
<1>1. PICK a, b, c, d, e, f, g : a = ~HasTab(list, p.tab) /\ b = EdgeAcrossTabs(list, id)
          /\ c = (Absent \in {p.from, p.to}) /\ d = (p.from = p.to)
          /\ e = EdgeByEndpoints(list, p.tab, p.from, p.to)
          /\ f = (~HasItem(list, p.tab, p.from) \/ ~HasItem(list, p.tab, p.to))
          /\ g = (Len(EdgesOf(list, p.tab)) >= EdgesPerTabMax)
    OBVIOUS
<1>2. v = FirstOf(<<
          <<a, "conflict", "missing_tab">>,
          <<b, "skip", "duplicate_edge_id_existing">>,
          <<c, "conflict", "missing_endpoint">>,
          <<d, "skip", "self_edge">>,
          <<e, "skip", "duplicate_endpoint_edge">>,
          <<f, "conflict", "missing_endpoint">>,
          <<g, "skip", "edge_limit_exceeded">> >>)
    BY <1>1 DEF createEdgePolicy
<1>3. \/ v = Allowed /\ ~a /\ ~b /\ ~c /\ ~d /\ ~e /\ ~f /\ ~g
      \/ a /\ v = Verdict("conflict", "missing_tab")
      \/ b /\ v = Verdict("skip", "duplicate_edge_id_existing")
      \/ c /\ v = Verdict("conflict", "missing_endpoint")
      \/ d /\ v = Verdict("skip", "self_edge")
      \/ e /\ v = Verdict("skip", "duplicate_endpoint_edge")
      \/ f /\ v = Verdict("conflict", "missing_endpoint")
      \/ g /\ v = Verdict("skip", "edge_limit_exceeded")
    BY <1>2, SevenObjections
<1>4. results # {} <=> p.kind # Malformed /\ HasTab(list, p.tab)
                      /\ ~EdgeAcrossTabs(list, id) /\ p.from # p.to
                      /\ HasItem(list, p.tab, p.from) /\ HasItem(list, p.tab, p.to)
                      /\ ~EdgeByEndpoints(list, p.tab, p.from, p.to)
    BY DEF replayCreateEdge, If
<1>5. \/ v = Allowed /\ (results # {} \/ p.kind = Malformed)
      \/ v = Verdict("conflict", "missing_tab")
      \/ results = {} /\ v = Verdict("skip", "duplicate_edge_id_existing")
      \/ v = Verdict("conflict", "missing_endpoint")
      \/ results = {} /\ v = Verdict("skip", "self_edge")
      \/ results = {} /\ v = Verdict("skip", "duplicate_endpoint_edge")
      \/ v = Verdict("skip", "edge_limit_exceeded")
    BY <1>1, <1>3, <1>4
<1> HIDE DEF v, results
<1>6. Agrees(v, results, p.kind = Malformed)
    BY <1>5 DEF Agrees, Verdict, Allowed, Failed, StricterReasons
<1> QED  BY <1>6 DEF v, results

LEMMA DeleteEdgeAgrees ==
    ASSUME NEW list, NEW id, NEW p
    PROVE  Agrees(deleteEdgePolicy(list, id, p), replayDeleteEdge(list, id, p), FALSE)
<1> DEFINE v == deleteEdgePolicy(list, id, p)
           results == replayDeleteEdge(list, id, p)
<1>1. PICK a, b : a = ~HasTab(list, p.tab) /\ b = ~HasEdge(list, p.tab, id)
    OBVIOUS
<1>2. v = FirstOf(<<
          <<a, "conflict", "missing_tab">>,
          <<b, "skip", "missing_edge">> >>)
    BY <1>1 DEF deleteEdgePolicy
<1>3. \/ v = Allowed /\ ~a /\ ~b
      \/ a /\ v = Verdict("conflict", "missing_tab")
      \/ b /\ v = Verdict("skip", "missing_edge")
    BY <1>2, TwoObjections
<1>4. results # {} <=> HasEdge(list, p.tab, id)
    BY DEF replayDeleteEdge, If
<1>5. \/ v = Allowed /\ results # {}
      \/ v = Verdict("conflict", "missing_tab")
      \/ results = {} /\ v = Verdict("skip", "missing_edge")
    BY <1>1, <1>3, <1>4
<1> HIDE DEF v, results
<1>6. Agrees(v, results, FALSE)
    BY <1>5 DEF Agrees, Verdict, Allowed, Failed, StricterReasons
<1> QED  BY <1>6 DEF v, results

LEMMA CreateTabAgrees ==
    ASSUME NEW list, NEW id, NEW p
    PROVE  Agrees(createTabPolicy(list, id, p), replayCreateTab(list, id, p), p.index = Malformed)
<1> DEFINE v == createTabPolicy(list, id, p)
           results == replayCreateTab(list, id, p)
<1>1. PICK a, b : a = HasTab(list, id) /\ b = TooLong(p.name)
    OBVIOUS
<1>2. v = FirstOf(<<
          <<a, "skip", "duplicate_tab_id_existing">>,
          <<b, "skip", "text_limit_exceeded">> >>)
    BY <1>1 DEF createTabPolicy
<1>3. \/ v = Allowed /\ ~a /\ ~b
      \/ a /\ v = Verdict("skip", "duplicate_tab_id_existing")
      \/ b /\ v = Verdict("skip", "text_limit_exceeded")
    BY <1>2, TwoObjections
<1>4. results # {} <=> p.index # Malformed /\ ~HasTab(list, id)
    BY DEF replayCreateTab, If
<1>5. \/ v = Allowed /\ (results # {} \/ p.index = Malformed)
      \/ results = {} /\ v = Verdict("skip", "duplicate_tab_id_existing")
      \/ v = Verdict("skip", "text_limit_exceeded")
    BY <1>1, <1>3, <1>4
<1> HIDE DEF v, results
<1>6. Agrees(v, results, p.index = Malformed)
    BY <1>5 DEF Agrees, Verdict, Allowed, Failed, StricterReasons
<1> QED  BY <1>6 DEF v, results

LEMMA DeleteTabAgrees ==
    ASSUME NEW list, IsArray(list), NEW id, NEW p
    PROVE  Agrees(deleteTabPolicy(list, id, p), replayDeleteTab(list, id, p), FALSE)
<1> DEFINE v == deleteTabPolicy(list, id, p)
           results == replayDeleteTab(list, id, p)
<1>1. PICK a, b : a = ~HasTab(list, id) /\ b = (Len(list) <= 1)
    OBVIOUS
<1>2. v = FirstOf(<<
          <<a, "skip", "missing_tab">>,
          <<b, "skip", "last_tab">> >>)
    BY <1>1 DEF deleteTabPolicy
<1>3. \/ v = Allowed /\ ~a /\ ~b
      \/ a /\ v = Verdict("skip", "missing_tab")
      \/ b /\ v = Verdict("skip", "last_tab")
    BY <1>2, TwoObjections
<1>4. results # {} <=> HasTab(list, id) /\ ~(Len(list) <= 1)
    BY DEF replayDeleteTab, If, IsArray
<1>5. \/ v = Allowed /\ results # {}
      \/ results = {} /\ v = Verdict("skip", "missing_tab")
      \/ results = {} /\ v = Verdict("skip", "last_tab")
    BY <1>1, <1>3, <1>4
<1> HIDE DEF v, results
<1>6. Agrees(v, results, FALSE)
    BY <1>5 DEF Agrees, Verdict, Allowed, Failed, StricterReasons
<1> QED  BY <1>6 DEF v, results

LEMMA ReorderTabsAgrees ==
    ASSUME NEW list, NEW id, NEW p
    PROVE  Agrees(reorderTabsPolicy(list, id, p), replayReorderTabs(list, id, p), FALSE)
<1> DEFINE v == reorderTabsPolicy(list, id, p)
           results == replayReorderTabs(list, id, p)
<1>1. PICK a, b : a = ~IsTabOrder(list, p.order) /\ b = AlreadyOrdered(list, p.order)
    OBVIOUS
<1>2. v = FirstOf(<<
          <<a, "skip", "invalid_tab_order">>,
          <<b, "skip", "already_ordered">> >>)
    BY <1>1 DEF reorderTabsPolicy
<1>3. \/ v = Allowed /\ ~a /\ ~b
      \/ a /\ v = Verdict("skip", "invalid_tab_order")
      \/ b /\ v = Verdict("skip", "already_ordered")
    BY <1>2, TwoObjections
<1>4. results # {} <=> IsTabOrder(list, p.order) /\ ~AlreadyOrdered(list, p.order)
    BY DEF replayReorderTabs, If
<1>5. \/ v = Allowed /\ results # {}
      \/ results = {} /\ v = Verdict("skip", "invalid_tab_order")
      \/ results = {} /\ v = Verdict("skip", "already_ordered")
    BY <1>1, <1>3, <1>4
<1> HIDE DEF v, results
<1>6. Agrees(v, results, FALSE)
    BY <1>5 DEF Agrees, Verdict, Allowed, Failed, StricterReasons
<1> QED  BY <1>6 DEF v, results

LEMMA ClearTabNodesAgrees ==
    ASSUME NEW list, NEW id, NEW p
    PROVE  Agrees(clearTabNodesPolicy(list, id, p), replayClearTabNodes(list, id, p), FALSE)
<1> DEFINE v == clearTabNodesPolicy(list, id, p)
           results == replayClearTabNodes(list, id, p)
<1>1. PICK a, b : a = ~HasTab(list, id) /\ b = (ItemsOf(list, id) = <<>>)
    OBVIOUS
<1>2. v = FirstOf(<<
          <<a, "conflict", "missing_tab">>,
          <<b, "skip", "missing_node">> >>)
    BY <1>1 DEF clearTabNodesPolicy
<1>3. \/ v = Allowed /\ ~a /\ ~b
      \/ a /\ v = Verdict("conflict", "missing_tab")
      \/ b /\ v = Verdict("skip", "missing_node")
    BY <1>2, TwoObjections
<1>4. results # {} <=> ItemsOf(list, id) # <<>>
    BY DEF replayClearTabNodes, If
<1>5. \/ v = Allowed /\ results # {}
      \/ v = Verdict("conflict", "missing_tab")
      \/ results = {} /\ v = Verdict("skip", "missing_node")
    BY <1>1, <1>3, <1>4
<1> HIDE DEF v, results
<1>6. Agrees(v, results, FALSE)
    BY <1>5 DEF Agrees, Verdict, Allowed, Failed, StricterReasons
<1> QED  BY <1>6 DEF v, results

LEMMA TextObjections ==
    ASSUME NEW value
    PROVE  LET v == TextObjection(value) IN
           \/ v = Allowed /\ value # Malformed
           \/ v = Verdict("fatal", "invalid_payload")
           \/ v = Verdict("skip", "text_limit_exceeded")
<1> DEFINE v == TextObjection(value)
<1>1. PICK a, b : a = (value = Malformed) /\ b = TooLong(value)
    OBVIOUS
<1>2. v = FirstOf(<< <<a, "fatal", "invalid_payload">>, <<b, "skip", "text_limit_exceeded">> >>)
    BY <1>1 DEF TextObjection
<1>3. \/ v = Allowed /\ ~a /\ ~b
      \/ a /\ v = Verdict("fatal", "invalid_payload")
      \/ b /\ v = Verdict("skip", "text_limit_exceeded")
    BY <1>2, TwoObjections
<1> QED  BY <1>1, <1>3

LEMMA SizeObjections ==
    ASSUME NEW value
    PROVE  LET v == SizeObjection(value) IN
           \/ v = Allowed /\ value # Malformed
           \/ v = Verdict("skip", "invalid_dimensions")
<1> DEFINE v == SizeObjection(value)
<1>1. PICK a : a = (value = Malformed \/ DimensionOutOfBounds(value))
    OBVIOUS
<1>2. v = FirstOf(<< <<a, "skip", "invalid_dimensions">> >>)
    BY <1>1 DEF SizeObjection
<1>3. \/ v = Allowed /\ ~a
      \/ a /\ v = Verdict("skip", "invalid_dimensions")
    BY <1>2, OneObjection
<1> QED  BY <1>1, <1>3

\* A change the policy has nothing against is one that will be made.
OwnObjection(v) ==
    v \in {Verdict("fatal", "invalid_payload"), Verdict("skip", "text_limit_exceeded"),
           Verdict("skip", "invalid_dimensions"), Verdict("skip", "unknown_update_field")}

LEMMA NodeChange ==
    ASSUME NEW field, NEW value
    PROVE  \/ NodeObjection(field, value) = Allowed /\ Usable(field, value)
           \/ OwnObjection(NodeObjection(field, value))
<1>1. CASE field \in {"name", "text"}
    <2>1. NodeObjection(field, value) = TextObjection(value)
        BY <1>1 DEF NodeObjection
    <2> QED  BY <1>1, <2>1, TextObjections DEF OwnObjection, Usable
<1>2. CASE field = "width"
    <2>1. NodeObjection(field, value) = SizeObjection(value)
        BY <1>2 DEF NodeObjection
    <2> QED  BY <1>2, <2>1, SizeObjections DEF OwnObjection, Usable
<1>3. CASE field \notin {"name", "text", "width"}
    <2>1. NodeObjection(field, value) = UnknownField
        BY <1>3 DEF NodeObjection
    <2> QED  BY <2>1 DEF OwnObjection, UnknownField, Verdict
<1> QED  BY <1>1, <1>2, <1>3

LEMMA TabChange ==
    ASSUME NEW field, NEW value
    PROVE  \/ TabObjection(field, value) = Allowed /\ field = "name" /\ value # Malformed
           \/ OwnObjection(TabObjection(field, value))
<1>1. CASE field = "name"
    <2>1. TabObjection(field, value) = TextObjection(value)
        BY <1>1 DEF TabObjection
    <2> QED  BY <1>1, <2>1, TextObjections DEF OwnObjection
<1>2. CASE field # "name"
    BY <1>2 DEF TabObjection, OwnObjection, UnknownField, Verdict
<1> QED  BY <1>1, <1>2

LEMMA UpdateNodeAgrees ==
    ASSUME NEW list, NEW id, NEW p, NEW v \in updateNodePolicy(list, id, p)
    PROVE  Agrees(v, replayUpdateNode(list, id, p), DOMAIN p.changes = {})
<1> DEFINE results == replayUpdateNode(list, id, p)
           usable == {f \in DOMAIN p.changes : Usable(f, p.changes[f])}
           objections == {NodeObjection(f, p.changes[f]) : f \in DOMAIN p.changes}
           first == FirstOf(<< <<~HasTab(list, p.tab), "conflict", "missing_tab">>,
                               <<~HasItem(list, p.tab, id), "conflict", "missing_node">> >>)
<1> SUFFICES Agrees(v, results, DOMAIN p.changes = {})
    OBVIOUS
<1>1. PICK a, b : a = ~HasTab(list, p.tab) /\ b = ~HasItem(list, p.tab, id)
    OBVIOUS
<1>2. first = FirstOf(<< <<a, "conflict", "missing_tab">>, <<b, "conflict", "missing_node">> >>)
    BY <1>1
<1>4. v \in IF first # Allowed THEN {first} ELSE AnyOf(objections)
    BY DEF updateNodePolicy, NodeObjections
<1> HIDE DEF first
<1>3. \/ first = Allowed /\ HasItem(list, p.tab, id)
      \/ first = Verdict("conflict", "missing_tab")
      \/ first = Verdict("conflict", "missing_node")
    <2>1. \/ first = Allowed /\ ~a /\ ~b
          \/ a /\ first = Verdict("conflict", "missing_tab")
          \/ b /\ first = Verdict("conflict", "missing_node")
        BY <1>2, TwoObjections
    <2> QED  BY <1>1, <2>1
<1>5. CASE first # Allowed
    BY <1>3, <1>4, <1>5 DEF Agrees, Verdict, Allowed, Failed
<1>6. CASE first = Allowed
    <2>1. \/ v = Allowed /\ \A f \in DOMAIN p.changes : NodeObjection(f, p.changes[f]) = Allowed
          \/ v # Allowed /\ \E f \in DOMAIN p.changes : v = NodeObjection(f, p.changes[f])
        BY <1>4, <1>6 DEF AnyOf
    <2>2. CASE v = Allowed
        <3>1. ASSUME NEW f \in DOMAIN p.changes  PROVE f \in usable
            <4>1. ~OwnObjection(Allowed)
                BY DEF OwnObjection, Verdict, Allowed
            <4>2. NodeObjection(f, p.changes[f]) = Allowed
                BY <2>1, <2>2
            <4> QED  BY <4>1, <4>2, NodeChange
        <3>2. HasItem(list, p.tab, id)
            BY <1>3, <1>6 DEF Verdict, Allowed
        <3>3. results = {} => usable = {}
            <4> DEFINE t == TabIndex(list, p.tab)
                       i == IndexOfId(ItemsOf(list, p.tab), id)
                       item == list[t].items[i]
                       names == IF usable \cap {"name", "text"} = {} THEN {item.name}
                                ELSE {p.changes[f] : f \in usable \cap {"name", "text"}}
                       width == IF "width" \in usable THEN normalizeDimension(p.changes["width"])
                                ELSE item.width
                       result(name) ==
                           [list EXCEPT ![t].items[i].name = name, ![t].items[i].width = width]
            <4>1. usable # {} => results = {result(name) : name \in names}
                BY <3>2 DEF replayUpdateNode
            <4>2. names # {}
                OBVIOUS
            <4> HIDE DEF results, names, result
            <4> QED  BY <4>1, <4>2
        <3>4. results = {} => DOMAIN p.changes = {}
            BY <3>1, <3>3
        <3> HIDE DEF results, usable
        <3> QED  BY <2>2, <3>4 DEF Agrees, Allowed, Failed
    <2>3. CASE v # Allowed
        <3>1. OwnObjection(v)
            BY <2>1, <2>3, NodeChange
        <3> HIDE DEF results
        <3> QED  BY <2>3, <3>1 DEF OwnObjection, Verdict, Agrees, Allowed, Failed, StricterReasons
    <2> QED  BY <2>2, <2>3
<1> QED  BY <1>5, <1>6

LEMMA UpdateTabAgrees ==
    ASSUME NEW list, NEW id, NEW p, NEW v \in updateTabPolicy(list, id, p)
    PROVE  Agrees(v, replayUpdateTab(list, id, p), FALSE)
<1> DEFINE results == replayUpdateTab(list, id, p)
           objections == {TabObjection(f, p.changes[f]) : f \in DOMAIN p.changes}
           first == FirstOf(<< <<~HasTab(list, id), "conflict", "missing_tab">>,
                               <<DOMAIN p.changes = {}, "skip", "empty_changes">> >>)
<1> SUFFICES Agrees(v, results, FALSE)
    OBVIOUS
<1>1. PICK a, b : a = ~HasTab(list, id) /\ b = (DOMAIN p.changes = {})
    OBVIOUS
<1>2. first = FirstOf(<< <<a, "conflict", "missing_tab">>, <<b, "skip", "empty_changes">> >>)
    BY <1>1
<1>4. v \in IF first # Allowed THEN {first} ELSE AnyOf(objections)
    BY DEF updateTabPolicy, TabObjections
<1>5. results # {} <=>
         HasTab(list, id) /\ "name" \in DOMAIN p.changes /\ p.changes["name"] # Malformed
    BY DEF replayUpdateTab, If
<1> HIDE DEF first, results
<1>3. \/ first = Allowed /\ HasTab(list, id) /\ DOMAIN p.changes # {}
      \/ first = Verdict("conflict", "missing_tab")
      \/ first = Verdict("skip", "empty_changes") /\ DOMAIN p.changes = {}
    <2>1. \/ first = Allowed /\ ~a /\ ~b
          \/ a /\ first = Verdict("conflict", "missing_tab")
          \/ b /\ first = Verdict("skip", "empty_changes")
        BY <1>2, TwoObjections
    <2> QED  BY <1>1, <2>1
<1>6. CASE first # Allowed
    BY <1>3, <1>4, <1>5, <1>6 DEF Agrees, Verdict, Allowed, Failed
<1>7. CASE first = Allowed
    <2>1. \/ v = Allowed /\ \A f \in DOMAIN p.changes : TabObjection(f, p.changes[f]) = Allowed
          \/ v # Allowed /\ \E f \in DOMAIN p.changes : v = TabObjection(f, p.changes[f])
        BY <1>4, <1>7 DEF AnyOf
    <2>2. CASE v = Allowed
        <3>1. PICK f : f \in DOMAIN p.changes /\ HasTab(list, id)
            BY <1>3, <1>7 DEF Verdict, Allowed
        <3>2. TabObjection(f, p.changes[f]) = Allowed /\ ~OwnObjection(Allowed)
            BY <2>1, <2>2, <3>1 DEF OwnObjection, Verdict, Allowed
        <3>3. f = "name" /\ p.changes[f] # Malformed
            BY <3>2, TabChange
        <3> QED  BY <1>5, <2>2, <3>1, <3>3 DEF Agrees, Allowed, Failed
    <2>3. CASE v # Allowed
        <3>1. OwnObjection(v)
            BY <2>1, <2>3, TabChange
        <3> QED  BY <2>3, <3>1 DEF OwnObjection, Verdict, Agrees, Allowed, Failed, StricterReasons
    <2> QED  BY <2>2, <2>3
<1> QED  BY <1>6, <1>7

\* The operation of a mutation that decodes.
LEMMA Dispatch ==
    ASSUME NEW list, NEW m, Decodes(m)
    PROVE  /\ m.op = "CreateNode" => Replayed(list, m) = replayCreateNode(list, m.entity, m.payload)
           /\ m.op = "UpdateNode" => Replayed(list, m) = replayUpdateNode(list, m.entity, m.payload)
           /\ m.op = "MoveNode" => Replayed(list, m) = replayMoveNode(list, m.entity, m.payload)
           /\ m.op = "DeleteNode" => Replayed(list, m) = replayDeleteNode(list, m.entity, m.payload)
           /\ m.op = "CreateEdge" => Replayed(list, m) = replayCreateEdge(list, m.entity, m.payload)
           /\ m.op = "DeleteEdge" => Replayed(list, m) = replayDeleteEdge(list, m.entity, m.payload)
           /\ m.op = "CreateTab" => Replayed(list, m) = replayCreateTab(list, m.entity, m.payload)
           /\ m.op = "UpdateTab" => Replayed(list, m) = replayUpdateTab(list, m.entity, m.payload)
           /\ m.op = "DeleteTab" => Replayed(list, m) = replayDeleteTab(list, m.entity, m.payload)
           /\ m.op = "ReorderTabs" => Replayed(list, m) = replayReorderTabs(list, m.entity, m.payload)
           /\ m.op = "ClearTabNodes" => Replayed(list, m) = replayClearTabNodes(list, m.entity, m.payload)
BY DEF Replayed

LEMMA VerdictsAgree ==
    ASSUME NEW list, IsArray(list), NEW m, IsMutation(m), NEW v \in Verdicts(list, m)
    PROVE  \/ DuplicatedIds(list) /\ v = Verdict("blocked", "duplicate_ids")
           \/ Agrees(v, Replayed(list, m), PolicyBlindSpot(m))
<1>1. CASE DuplicatedIds(list)
    BY <1>1 DEF Verdicts, Verdict
<1>2. CASE ~DuplicatedIds(list) /\ ~Decodes(m)
    <2>1. v = Verdict("fatal", "invalid_payload") /\ Replayed(list, m) = {}
        BY <1>2 DEF Verdicts, Verdict, Replayed
    <2> QED  BY <2>1 DEF Agrees, Verdict, Allowed, Failed
<1>3. CASE ~DuplicatedIds(list) /\ Decodes(m)
    <2> DEFINE id == m.entity
               p == m.payload
    <2>1. m.op = "CreateNode" => v = createNodePolicy(list, id, p)
        BY <1>3 DEF Verdicts
    <2>2. m.op = "UpdateNode" => v \in updateNodePolicy(list, id, p)
        BY <1>3 DEF Verdicts
    <2>3. m.op = "MoveNode" => v = moveNodePolicy(list, id, p)
        BY <1>3 DEF Verdicts
    <2>4. m.op = "DeleteNode" => v = deleteNodePolicy(list, id, p)
        BY <1>3 DEF Verdicts
    <2>5. m.op = "CreateEdge" => v = createEdgePolicy(list, id, p)
        BY <1>3 DEF Verdicts
    <2>6. m.op = "DeleteEdge" => v = deleteEdgePolicy(list, id, p)
        BY <1>3 DEF Verdicts
    <2>7. m.op = "CreateTab" => v = createTabPolicy(list, id, p)
        BY <1>3 DEF Verdicts
    <2>8. m.op = "UpdateTab" => v \in updateTabPolicy(list, id, p)
        BY <1>3 DEF Verdicts
    <2>9. m.op = "DeleteTab" => v = deleteTabPolicy(list, id, p)
        BY <1>3 DEF Verdicts
    <2>10. m.op = "ReorderTabs" => v = reorderTabsPolicy(list, id, p)
        BY <1>3 DEF Verdicts
    <2>11. m.op = "ClearTabNodes" => v = clearTabNodesPolicy(list, id, p)
        BY <1>3 DEF Verdicts
    <2>12. \A blind : Agrees(v, Replayed(list, m), blind) /\ (blind => PolicyBlindSpot(m))
                         => Agrees(v, Replayed(list, m), PolicyBlindSpot(m))
        BY DEF Agrees
    <2>13. CASE m.op \in {"CreateNode", "UpdateNode", "CreateEdge", "CreateTab"}
        <3>1. m.op = "CreateNode" => Agrees(v, Replayed(list, m), p.color = Malformed)
            BY <1>3, <2>1, Dispatch, CreateNodeAgrees
        <3>2. m.op = "UpdateNode" => Agrees(v, Replayed(list, m), DOMAIN p.changes = {})
            BY <1>3, <2>2, Dispatch, UpdateNodeAgrees
        <3>3. m.op = "CreateEdge" => Agrees(v, Replayed(list, m), p.kind = Malformed)
            BY <1>3, <2>5, Dispatch, CreateEdgeAgrees
        <3>4. m.op = "CreateTab" => Agrees(v, Replayed(list, m), p.index = Malformed)
            BY <1>3, <2>7, Dispatch, CreateTabAgrees
        <3> QED  BY <2>13, <3>1, <3>2, <3>3, <3>4 DEF Agrees, PolicyBlindSpot
    <2>14. CASE m.op \in {"MoveNode", "DeleteNode", "DeleteEdge"}
        BY <1>3, <2>3, <2>4, <2>6, <2>12, <2>14, Dispatch, MoveNodeAgrees, DeleteNodeAgrees,
           DeleteEdgeAgrees
    <2>15. CASE m.op \in {"UpdateTab", "DeleteTab"}
        <3>1. CASE m.op = "UpdateTab"
            <4>1. Agrees(v, replayUpdateTab(list, id, p), FALSE)
                BY <2>8, <3>1, UpdateTabAgrees
            <4> QED  BY <1>3, <2>12, <3>1, <4>1, Dispatch
        <3>2. CASE m.op = "DeleteTab"
            BY <1>3, <2>9, <2>12, <3>2, Dispatch, DeleteTabAgrees
        <3> QED  BY <2>15, <3>1, <3>2
    <2>16. CASE m.op \in {"ReorderTabs", "ClearTabNodes"}
        BY <1>3, <2>10, <2>11, <2>12, <2>16, Dispatch, ReorderTabsAgrees, ClearTabNodesAgrees
    <2> QED  BY <2>13, <2>14, <2>15, <2>16 DEF IsMutation
<1> QED  BY <1>1, <1>2, <1>3

\* Only an update can come out in more than one way, and then in two.
LEMMA ResultsOfUpdate ==
    ASSUME NEW list, NEW id, NEW p
    PROVE  IsFiniteSet(replayUpdateNode(list, id, p))
<1> DEFINE usable == {f \in DOMAIN p.changes : Usable(f, p.changes[f])}
           t == TabIndex(list, p.tab)
           i == IndexOfId(ItemsOf(list, p.tab), id)
           item == list[t].items[i]
           names == IF usable \cap {"name", "text"} = {} THEN {item.name}
                    ELSE {p.changes[f] : f \in usable \cap {"name", "text"}}
           width == IF "width" \in usable THEN normalizeDimension(p.changes["width"]) ELSE item.width
           result(name) == [list EXCEPT ![t].items[i].name = name, ![t].items[i].width = width]
           three == {result(item.name), result(p.changes["name"]), result(p.changes["text"])}
<1>1. replayUpdateNode(list, id, p) = {} \/ replayUpdateNode(list, id, p) = {result(name) : name \in names}
    BY DEF replayUpdateNode
<1>2. names \subseteq {item.name, p.changes["name"], p.changes["text"]}
    OBVIOUS
<1> HIDE DEF result, names, usable
<1>3. replayUpdateNode(list, id, p) \subseteq three
    BY <1>1, <1>2
<1>4. IsFiniteSet(three)
    <2> HIDE DEF three
    <2>1. \A a, b, c : IsFiniteSet({a, b, c})
        <3> TAKE a, b, c
        <3>1. IsFiniteSet({a})
            BY FS_Singleton
        <3>2. IsFiniteSet({a} \cup {b})
            BY <3>1, FS_AddElement
        <3>3. IsFiniteSet(({a} \cup {b}) \cup {c})
            BY <3>2, FS_AddElement
        <3>4. ({a} \cup {b}) \cup {c} = {a, b, c}
            OBVIOUS
        <3> QED  BY <3>3, <3>4
    <2> QED  BY <2>1 DEF three
<1> QED  BY <1>3, <1>4, FS_Subset

LEMMA OneResult ==
    ASSUME NEW list, NEW m, IsMutation(m), m.op = "UpdateNode" => ~(Cardinality(Replayed(list, m)) > 1)
    PROVE  \A a, b \in Replayed(list, m) : a = b
<1>1. CASE m.op = "UpdateNode" /\ Decodes(m)
    <2> DEFINE S == Replayed(list, m)
    <2>1. IsFiniteSet(S)
        BY <1>1, Dispatch, ResultsOfUpdate
    <2>2. ASSUME NEW a \in S, NEW b \in S, a # b  PROVE FALSE
        <3>1. Cardinality({a}) = 1 /\ IsFiniteSet({a})
            BY FS_Singleton
        <3>2. Cardinality({a} \cup {b}) = 2 /\ {a} \cup {b} \in SUBSET S
            BY <2>2, <3>1, FS_AddElement
        <3>3. 2 <= Cardinality(S) /\ Cardinality(S) \in Nat
            BY <2>1, <3>2, FS_Subset, FS_CardinalityType
        <3> QED  BY <1>1, <3>3
    <2> QED  BY <2>2
<1>2. CASE ~Decodes(m)
    BY <1>2 DEF Replayed
<1>3. CASE m.op # "UpdateNode" /\ Decodes(m)
    <2> DEFINE AtMostOne(S) == \A a, b \in S : a = b
    <2>0. \A c, r : AtMostOne(If(c, r))
        BY DEF If
    <2> HIDE DEF AtMostOne
    <2>1. \A id, p : AtMostOne(replayCreateNode(list, id, p))
        BY <2>0, Zenon DEF replayCreateNode
    <2>2. \A id, p : AtMostOne(replayMoveNode(list, id, p))
        BY <2>0, Zenon DEF replayMoveNode
    <2>3. \A id, p : AtMostOne(replayDeleteNode(list, id, p))
        BY <2>0, Zenon DEF replayDeleteNode
    <2>4. \A id, p : AtMostOne(replayCreateEdge(list, id, p))
        BY <2>0, Zenon DEF replayCreateEdge
    <2>5. \A id, p : AtMostOne(replayDeleteEdge(list, id, p))
        BY <2>0, Zenon DEF replayDeleteEdge
    <2>6. \A id, p : AtMostOne(replayCreateTab(list, id, p))
        BY <2>0, Zenon DEF replayCreateTab
    <2>7. \A id, p : AtMostOne(replayUpdateTab(list, id, p))
        BY <2>0, Zenon DEF replayUpdateTab
    <2>8. \A id, p : AtMostOne(replayDeleteTab(list, id, p))
        BY <2>0, Zenon DEF replayDeleteTab
    <2>9. \A id, p : AtMostOne(replayReorderTabs(list, id, p))
        BY <2>0, Zenon DEF replayReorderTabs
    <2>10. \A id, p : AtMostOne(replayClearTabNodes(list, id, p))
        BY <2>0, Zenon DEF replayClearTabNodes
    <2>11. AtMostOne(Replayed(list, m))
        BY <1>3, <2>1, <2>2, <2>3, <2>4, <2>5, <2>6, <2>7, <2>8, <2>9, <2>10, Dispatch DEF IsMutation
    <2> QED  BY <2>11 DEF AtMostOne
<1> QED  BY <1>1, <1>2, <1>3

-----------------------------------------------------------------------------
(***************************************************************************)
(* Lists, by their indices                                                 *)
(***************************************************************************)
LEMMA ArrayIsSeq ==
    ASSUME NEW list, IsArray(list)
    PROVE  list \in Seq(ToSet(list)) /\ DOMAIN list = 1 .. Len(list)
<1>1. DOMAIN list = 1 .. Len(list) /\ Len(list) \in Nat
    BY DEF IsArray
<1>2. \A i \in 1 .. Len(list) : list[i] \in ToSet(list)
    BY <1>1 DEF ToSet
<1>3. list \in [1 .. Len(list) -> ToSet(list)]
    BY <1>2 DEF IsArray
<1> QED  BY <1>1, <1>3

LEMMA SeqIsArray ==
    ASSUME NEW S, NEW list \in Seq(S)
    PROVE  IsArray(list)
BY LenProperties DEF IsArray

LEMMA ListOf ==
    ASSUME NEW n \in Nat, NEW list, DOMAIN list = 1 .. n, list = [i \in 1 .. n |-> list[i]]
    PROVE  Len(list) = n /\ IsArray(list)
<1>1. \A i \in 1 .. n : list[i] \in ToSet(list)
    BY DEF ToSet
<1>2. list \in [1 .. n -> ToSet(list)]
    BY <1>1
<1>3. list \in Seq(ToSet(list)) /\ Len(list) = n
    BY <1>2
<1> QED  BY <1>3, SeqIsArray

LEMMA AppendAt ==
    ASSUME NEW list, IsArray(list), NEW e
    PROVE  /\ IsArray(Append(list, e)) /\ Len(Append(list, e)) = Len(list) + 1
           /\ \A i \in 1 .. Len(list) : Append(list, e)[i] = list[i]
           /\ Append(list, e)[Len(list) + 1] = e
<1> DEFINE S == ToSet(list) \cup {e}
<1>1. list \in Seq(S) /\ e \in S
    BY ArrayIsSeq
<1> HIDE DEF S
<1>2. Len(list) \in Nat /\ DOMAIN list = 1 .. Len(list)
    BY <1>1
<1>3. /\ Append(list, e) \in Seq(S) /\ Len(Append(list, e)) = Len(list) + 1
      /\ \A i \in 1 .. Len(list) : Append(list, e)[i] = list[i]
      /\ Append(list, e)[Len(list) + 1] = e
    BY <1>1, AppendProperties
<1>4. IsArray(Append(list, e))
    BY <1>3, SeqIsArray
<1> QED  BY <1>3, <1>4

LEMMA RemovedAt ==
    ASSUME NEW list, IsArray(list), NEW n \in DOMAIN list
    PROVE  LET less == RemoveAt(list, n) IN
           /\ IsArray(less) /\ Len(less) = Len(list) - 1
           /\ \A i \in 1 .. Len(less) : less[i] = list[IF i < n THEN i ELSE i + 1]
<1> DEFINE S == ToSet(list)
           s == SubSeq(list, 1, n - 1)
           t == SubSeq(list, n + 1, Len(list))
<1>1. list \in Seq(S) /\ Len(list) \in Nat /\ n \in 1 .. Len(list)
    BY ArrayIsSeq DEF IsArray
<1>2. \A i \in 1 .. Len(list) : list[i] \in S
    BY <1>1
<1>3. /\ s \in Seq(S) /\ Len(s) = n - 1
      /\ \A i \in 1 .. n - 1 : s[i] = list[i]
    <2>1. \A i \in 1 .. n - 1 : list[i] \in S
        BY <1>1, <1>2
    <2>2. /\ s \in Seq(S) /\ Len(s) = IF 1 <= n - 1 THEN n - 1 - 1 + 1 ELSE 0
          /\ \A i \in 1 .. n - 1 - 1 + 1 : s[i] = list[1 + i - 1]
        BY <1>1, <2>1, SubSeqProperties
    <2> QED  BY <1>1, <2>2
<1>4. /\ t \in Seq(S) /\ Len(t) = Len(list) - n
      /\ \A i \in 1 .. Len(list) - n : t[i] = list[n + i]
    <2>1. \A i \in n + 1 .. Len(list) : list[i] \in S
        BY <1>1, <1>2
    <2>2. /\ t \in Seq(S) /\ Len(t) = IF n + 1 <= Len(list) THEN Len(list) - (n + 1) + 1 ELSE 0
          /\ \A i \in 1 .. Len(list) - (n + 1) + 1 : t[i] = list[n + 1 + i - 1]
        BY <1>1, <2>1, SubSeqProperties
    <2> QED  BY <1>1, <2>2
<1> HIDE DEF S, s, t
<1>5. /\ s \o t \in Seq(S) /\ Len(s \o t) = Len(s) + Len(t)
      /\ \A i \in 1 .. Len(s) + Len(t) : (s \o t)[i] = IF i <= Len(s) THEN s[i] ELSE t[i - Len(s)]
    BY <1>3, <1>4, ConcatProperties
<1>6. Len(s \o t) = Len(list) - 1
    BY <1>1, <1>3, <1>4, <1>5
<1>7. ASSUME NEW i \in 1 .. Len(list) - 1  PROVE (s \o t)[i] = list[IF i < n THEN i ELSE i + 1]
    <2>0. i \in Nat /\ n \in Nat /\ Len(list) \in Nat /\ i \in 1 .. Len(s) + Len(t)
        BY <1>1, <1>5, <1>6
    <2>1. CASE i < n
        <3>1. i \in 1 .. n - 1 /\ i <= Len(s)
            BY <1>3, <2>0, <2>1
        <3>2. (s \o t)[i] = s[i]
            BY <1>5, <2>0, <3>1
        <3> QED  BY <1>3, <2>1, <3>1, <3>2
    <2>2. CASE ~(i < n)
        <3>1. i - (n - 1) \in 1 .. Len(list) - n /\ n + (i - (n - 1)) = i + 1
            BY <1>1, <2>2
        <3>2. ~(i <= Len(s)) /\ i - Len(s) = i - (n - 1)
            BY <1>3, <2>0, <2>2
        <3>3. (s \o t)[i] = t[i - Len(s)]
            BY <1>5, <2>0, <3>2
        <3>4. (s \o t)[i] = t[i - (n - 1)]
            BY <3>2, <3>3
        <3>5. t[i - (n - 1)] = list[n + (i - (n - 1))]
            BY <1>4, <3>1
        <3> QED  BY <2>2, <3>1, <3>4, <3>5
    <2> QED  BY <2>1, <2>2
<1>8. RemoveAt(list, n) = s \o t
    BY DEF RemoveAt, s, t
<1> QED  BY <1>5, <1>6, <1>7, <1>8, SeqIsArray

LEMMA InsertedAt ==
    ASSUME NEW list, IsArray(list), NEW n \in 1 .. Len(list) + 1, NEW e
    PROVE  LET more == InsertAt(list, n, e) IN
           /\ IsArray(more) /\ Len(more) = Len(list) + 1
           /\ more[n] = e
           /\ \A i \in 1 .. Len(more) : i # n => more[i] = list[IF i < n THEN i ELSE i - 1]
<1> DEFINE S == ToSet(list) \cup {e}
           s == SubSeq(list, 1, n - 1)
           t == SubSeq(list, n, Len(list))
           m == s \o <<e>>
<1>1. list \in Seq(S) /\ Len(list) \in Nat /\ n \in 1 .. Len(list) + 1
    BY ArrayIsSeq DEF IsArray
<1>2. \A i \in 1 .. Len(list) : list[i] \in S
    BY <1>1
<1>3. /\ s \in Seq(S) /\ Len(s) = n - 1
      /\ \A i \in 1 .. n - 1 : s[i] = list[i]
    <2>1. \A i \in 1 .. n - 1 : list[i] \in S
        BY <1>1, <1>2
    <2>2. /\ s \in Seq(S) /\ Len(s) = IF 1 <= n - 1 THEN n - 1 - 1 + 1 ELSE 0
          /\ \A i \in 1 .. n - 1 - 1 + 1 : s[i] = list[1 + i - 1]
        BY <1>1, <2>1, SubSeqProperties
    <2> QED  BY <1>1, <2>2
<1>4. /\ t \in Seq(S) /\ Len(t) = Len(list) - n + 1
      /\ \A i \in 1 .. Len(list) - n + 1 : t[i] = list[n + i - 1]
    <2>1. \A i \in n .. Len(list) : list[i] \in S
        BY <1>1, <1>2
    <2>2. /\ t \in Seq(S) /\ Len(t) = IF n <= Len(list) THEN Len(list) - n + 1 ELSE 0
          /\ \A i \in 1 .. Len(list) - n + 1 : t[i] = list[n + i - 1]
        BY <1>1, <2>1, SubSeqProperties
    <2> QED  BY <1>1, <2>2
<1>5. <<e>> \in Seq(S) /\ Len(<<e>>) = 1 /\ <<e>>[1] = e
    OBVIOUS
<1> HIDE DEF S, s, t
<1>6. /\ m \in Seq(S) /\ Len(m) = n
      /\ \A i \in 1 .. n - 1 : m[i] = list[i]
      /\ m[n] = e
    <2>1. /\ m \in Seq(S) /\ Len(m) = Len(s) + 1
          /\ \A i \in 1 .. Len(s) + 1 : m[i] = IF i <= Len(s) THEN s[i] ELSE <<e>>[i - Len(s)]
        BY <1>3, <1>5, ConcatProperties
    <2>2. n - (n - 1) = 1 /\ n \in 1 .. n /\ ~(n <= n - 1)
        BY <1>1
    <2> QED  BY <1>1, <1>3, <1>5, <2>1, <2>2
<1> HIDE DEF m
<1>7. /\ m \o t \in Seq(S) /\ Len(m \o t) = Len(m) + Len(t)
      /\ \A i \in 1 .. Len(m) + Len(t) : (m \o t)[i] = IF i <= Len(m) THEN m[i] ELSE t[i - Len(m)]
    BY <1>4, <1>6, ConcatProperties
<1>8. Len(m \o t) = Len(list) + 1
    BY <1>1, <1>4, <1>6, <1>7
<1>9. ASSUME NEW i \in 1 .. Len(list) + 1, i # n
      PROVE (m \o t)[i] = list[IF i < n THEN i ELSE i - 1]
    <2>1. CASE i < n
        BY <1>1, <1>4, <1>6, <1>7, <2>1
    <2>2. CASE ~(i < n)
        <3>1. i - n \in 1 .. Len(list) - n + 1 /\ n + (i - n) - 1 = i - 1 /\ ~(i <= n)
            BY <1>1, <1>9, <2>2
        <3>2. (m \o t)[i] = t[i - n]
            BY <1>1, <1>4, <1>6, <1>7, <3>1
        <3> QED  BY <1>4, <2>2, <3>1, <3>2
    <2> QED  BY <2>1, <2>2
<1>10. (m \o t)[n] = e
    BY <1>1, <1>4, <1>6, <1>7
<1>11. InsertAt(list, n, e) = m \o t
    BY DEF InsertAt, m, s, t
<1> QED  BY <1>7, <1>8, <1>9, <1>10, <1>11, SeqIsArray

LEMMA ReplacedAt ==
    ASSUME NEW list, IsArray(list), NEW n \in DOMAIN list, NEW e
    PROVE  LET new == [list EXCEPT ![n] = e] IN
           /\ IsArray(new) /\ DOMAIN new = DOMAIN list
           /\ new[n] = e
           /\ \A i \in DOMAIN list : i # n => new[i] = list[i]
<1> DEFINE new == [list EXCEPT ![n] = e]
<1>1. Len(list) \in Nat /\ DOMAIN list = 1 .. Len(list)
    BY DEF IsArray
<1>2. DOMAIN new = 1 .. Len(list) /\ new = [i \in 1 .. Len(list) |-> new[i]]
    BY <1>1
<1>3. new[n] = e /\ \A i \in DOMAIN list : i # n => new[i] = list[i]
    BY <1>1
<1> HIDE DEF new
<1>4. IsArray(new)
    BY <1>1, <1>2, ListOf
<1> QED  BY <1>1, <1>2, <1>3, <1>4 DEF new

\* Entries that were there before, each at most once.
Thinned(less, list) ==
    \E g : \A i \in DOMAIN less :
        /\ g[i] \in DOMAIN list /\ list[g[i]].id = less[i].id
        /\ \A j \in DOMAIN less : g[i] = g[j] => i = j

\* The places of the entries that pass are numbered without a gap.
LEMMA Places ==
    ASSUME NEW n \in Nat, NEW passing, passing \subseteq 1 .. n
    PROVE  /\ Cardinality(passing) \in Nat
           /\ \A k \in 1 .. Cardinality(passing) :
                 \E i \in passing : Cardinality({j \in passing : j < i}) = k - 1
<1> DEFINE below(i) == {j \in passing : j < i}
           c == Cardinality(passing)
           rank == [i \in passing |-> Cardinality(below(i))]
<1>1. IsFiniteSet(passing) /\ c \in Nat
    <2>1. IsFiniteSet(1 .. n)
        BY FS_Interval
    <2> QED  BY <2>1, FS_Subset, FS_CardinalityType
<1>2. \A i \in passing : IsFiniteSet(below(i)) /\ Cardinality(below(i)) \in Nat
    <2> TAKE i \in passing
    <2>1. below(i) \in SUBSET passing
        OBVIOUS
    <2> HIDE DEF below
    <2> QED  BY <1>1, <2>1, FS_Subset, FS_CardinalityType
<1>3. \A i, j \in passing : i < j => Cardinality(below(i)) < Cardinality(below(j))
    <2> SUFFICES ASSUME NEW i \in passing, NEW j \in passing, i < j
                 PROVE  Cardinality(below(i)) < Cardinality(below(j))
        OBVIOUS
    <2>0. i \in Nat /\ j \in Nat /\ \A k \in passing : k \in Nat
        OBVIOUS
    <2>1. i \notin below(i) /\ below(i) \cup {i} \in SUBSET below(j)
        <3>1. ASSUME NEW k \in passing, k < i  PROVE k < j
            BY <2>0, <3>1
        <3>2. ~(i < i)
            BY <2>0
        <3> QED  BY <3>1, <3>2
    <2> HIDE DEF below
    <2>2. /\ IsFiniteSet(below(i) \cup {i})
          /\ Cardinality(below(i) \cup {i}) = Cardinality(below(i)) + 1
        BY <1>2, <2>1, FS_AddElement
    <2>3. Cardinality(below(i) \cup {i}) <= Cardinality(below(j))
        BY <1>2, <2>1, FS_Subset
    <2> QED  BY <1>2, <2>2, <2>3
<1>4. \A i \in passing : Cardinality(below(i)) < c
    <2> TAKE i \in passing
    <2>1. i \notin below(i) /\ below(i) \cup {i} \in SUBSET passing
        OBVIOUS
    <2> HIDE DEF below
    <2>2. /\ IsFiniteSet(below(i) \cup {i})
          /\ Cardinality(below(i) \cup {i}) = Cardinality(below(i)) + 1
        BY <1>2, <2>1, FS_AddElement
    <2>3. Cardinality(below(i) \cup {i}) <= c
        BY <1>1, <2>1, FS_Subset
    <2> QED  BY <1>1, <1>2, <2>2, <2>3
<1> HIDE DEF below, c
<1>5. rank \in Injection(passing, 0 .. c - 1)
    <2>1. rank \in [passing -> 0 .. c - 1]
        BY <1>1, <1>2, <1>4
    <2>2. ASSUME NEW i \in passing, NEW j \in passing, rank[i] = rank[j]  PROVE i = j
        <3>1. Cardinality(below(i)) = Cardinality(below(j)) /\ i \in Nat /\ j \in Nat
            BY <2>2
        <3>2. ~(i < j) /\ ~(j < i)
            BY <1>2, <1>3, <3>1
        <3> QED  BY <3>1, <3>2
    <2> HIDE DEF rank
    <2> QED  BY <2>1, <2>2, Fun_IsInj, Zenon
<1>6. IsFiniteSet(0 .. c - 1) /\ Cardinality(0 .. c - 1) = c
    BY <1>1, FS_Interval
<1>7. rank \in Surjection(passing, 0 .. c - 1)
    <2> HIDE DEF rank
    <2> QED  BY <1>5, <1>6, FS_Injection DEF c
<1>8. ASSUME NEW k \in 1 .. c  PROVE \E i \in passing : Cardinality(below(i)) = k - 1
    <2>1. k - 1 \in 0 .. c - 1
        BY <1>1
    <2>2. \A t \in 0 .. c - 1 : \E i \in passing : rank[i] = t
        <3> HIDE DEF rank
        <3> QED  BY <1>7 DEF Surjection
    <2> QED  BY <2>1, <2>2
<1> QED  BY <1>1, <1>8 DEF below, c

\* What is left of a tab's edges when an item goes.
WithoutEdgesOf(list, id) == Kept(list, LAMBDA e : id \notin {e.from, e.to})

LEMMA KeptAre ==
    ASSUME NEW list, IsArray(list), NEW id
    PROVE  LET kept == WithoutEdgesOf(list, id) IN
           /\ IsArray(kept) /\ Thinned(kept, list)
           /\ \A k \in DOMAIN kept :
                 \E i \in DOMAIN list : kept[k] = list[i] /\ id \notin {list[i].from, list[i].to}
<1> DEFINE passing == {i \in DOMAIN list : id \notin {list[i].from, list[i].to}}
           c == Cardinality(passing)
           place(k) == CHOOSE i \in passing : Cardinality({j \in passing : j < i}) = k - 1
           kept == [k \in 1 .. c |-> list[place(k)]]
           g == [k \in 1 .. c |-> place(k)]
<1>1. WithoutEdgesOf(list, id) = kept
    BY DEF WithoutEdgesOf, Kept
<1>2. /\ c \in Nat
      /\ \A k \in 1 .. c : \E i \in passing : Cardinality({j \in passing : j < i}) = k - 1
    <2>1. Len(list) \in Nat /\ passing \subseteq 1 .. Len(list)
        BY DEF IsArray
    <2> HIDE DEF passing
    <2> QED  BY <2>1, Places
<1>3. \A k \in 1 .. c : place(k) \in passing /\ Cardinality({j \in passing : j < place(k)}) = k - 1
    <2> HIDE DEF passing, c
    <2> QED  BY <1>2
<1>4. \A k, l \in 1 .. c : place(k) = place(l) => k = l
    <2> HIDE DEF passing, c
    <2> SUFFICES ASSUME NEW k \in 1 .. c, NEW l \in 1 .. c, place(k) = place(l)  PROVE k = l
        OBVIOUS
    <2>1. k - 1 = l - 1
        <3> HIDE DEF place
        <3> QED  BY <1>3
    <2> QED  BY <1>2, <2>1
<1>5. passing \subseteq DOMAIN list /\ \A i \in passing : id \notin {list[i].from, list[i].to}
    OBVIOUS
<1> HIDE DEF passing, c, place
<1>6. IsArray(kept) /\ DOMAIN kept = 1 .. c
    <2>1. DOMAIN kept = 1 .. c /\ kept = [k \in 1 .. c |-> kept[k]]
        OBVIOUS
    <2> HIDE DEF kept
    <2> QED  BY <1>2, <2>1, ListOf
<1>7. Thinned(kept, list)
    <2>1. ASSUME NEW i \in 1 .. c
          PROVE  /\ g[i] \in DOMAIN list /\ list[g[i]].id = kept[i].id
                 /\ \A j \in 1 .. c : g[i] = g[j] => i = j
        BY <1>3, <1>4, <1>5
    <2> HIDE DEF g, kept
    <2>2. \A i \in DOMAIN kept :
             /\ g[i] \in DOMAIN list /\ list[g[i]].id = kept[i].id
             /\ \A j \in DOMAIN kept : g[i] = g[j] => i = j
        BY <1>6, <2>1
    <2> QED  BY <2>2, Zenon DEF Thinned
<1>8. ASSUME NEW k \in DOMAIN kept
      PROVE  \E i \in DOMAIN list : kept[k] = list[i] /\ id \notin {list[i].from, list[i].to}
    <2>1. k \in 1 .. c /\ kept[k] = list[place(k)]
        BY <1>6
    <2>2. place(k) \in passing
        BY <1>3, <2>1
    <2>3. place(k) \in DOMAIN list /\ id \notin {list[place(k)].from, list[place(k)].to}
        BY <1>5, <2>2
    <2> HIDE DEF kept
    <2> QED  BY <2>1, <2>3
<1> QED  BY <1>1, <1>6, <1>7, <1>8

LEMMA SameIds ==
    ASSUME NEW list, NEW new, DOMAIN new = DOMAIN list, \A i \in DOMAIN list : new[i].id = list[i].id
    PROVE  Thinned(new, list)
<1> DEFINE g == [i \in DOMAIN list |-> i]
<1>1. \A i \in DOMAIN new :
         /\ g[i] \in DOMAIN list /\ list[g[i]].id = new[i].id
         /\ \A j \in DOMAIN new : g[i] = g[j] => i = j
    OBVIOUS
<1> HIDE DEF g
<1> QED  BY <1>1, Zenon DEF Thinned

LEMMA RemovedIsThinned ==
    ASSUME NEW list, IsArray(list), NEW n \in DOMAIN list
    PROVE  Thinned(RemoveAt(list, n), list)
<1> DEFINE less == RemoveAt(list, n)
           g == [i \in DOMAIN less |-> IF i < n THEN i ELSE i + 1]
<1>1. Len(list) \in Nat /\ DOMAIN list = 1 .. Len(list) /\ n \in 1 .. Len(list)
    BY DEF IsArray
<1>2. /\ DOMAIN less = 1 .. Len(list) - 1
      /\ \A i \in 1 .. Len(list) - 1 : less[i] = list[IF i < n THEN i ELSE i + 1]
    <2>1. /\ IsArray(less) /\ Len(less) = Len(list) - 1
          /\ \A i \in 1 .. Len(less) : less[i] = list[IF i < n THEN i ELSE i + 1]
        BY RemovedAt
    <2> HIDE DEF less
    <2>2. DOMAIN less = 1 .. Len(less)
        BY <2>1 DEF IsArray
    <2> QED  BY <2>1, <2>2
<1> HIDE DEF less
<1>3. \A i \in 1 .. Len(list) - 1 : g[i] = IF i < n THEN i ELSE i + 1
    BY <1>2
<1> HIDE DEF g
<1>4. ASSUME NEW i \in 1 .. Len(list) - 1
      PROVE  /\ g[i] \in 1 .. Len(list) /\ list[g[i]].id = less[i].id
             /\ \A j \in 1 .. Len(list) - 1 : g[i] = g[j] => i = j
    <2>1. less[i] = list[g[i]]
        BY <1>2, <1>3
    <2>2. g[i] \in 1 .. Len(list)
        BY <1>1, <1>3
    <2>3. ASSUME NEW j \in 1 .. Len(list) - 1, g[i] = g[j]  PROVE i = j
        <3>1. (IF i < n THEN i ELSE i + 1) = (IF j < n THEN j ELSE j + 1)
            BY <1>3, <2>3
        <3> QED  BY <1>1, <3>1
    <2> QED  BY <2>1, <2>2, <2>3
<1>5. \A i \in DOMAIN less :
         /\ g[i] \in DOMAIN list /\ list[g[i]].id = less[i].id
         /\ \A j \in DOMAIN less : g[i] = g[j] => i = j
    BY <1>1, <1>2, <1>4
<1>6. Thinned(less, list)
    BY <1>5, Zenon DEF Thinned
<1> QED  BY <1>6 DEF less

\* A list of a tab that gets no id which is there already.
AddsNoId(new, lists, t) ==
    \/ Thinned(new, lists[t])
    \/ \E e : /\ new = Append(lists[t], e)
              /\ \A k \in DOMAIN lists : \A j \in DOMAIN lists[k] : lists[k][j].id # e.id

LEMMA StillDistinct ==
    ASSUME NEW lists, NEW t \in DOMAIN lists, IsArray(lists[t]), ~HasDuplicates(lists),
           NEW new, AddsNoId(new, lists, t)
    PROVE  ~HasDuplicates([lists EXCEPT ![t] = new])
<1> DEFINE all == [lists EXCEPT ![t] = new]
<1>1. DOMAIN all = DOMAIN lists /\ all[t] = new /\ \A k \in DOMAIN lists : k # t => all[k] = lists[k]
    OBVIOUS
<1> HIDE DEF all
<1>2. SUFFICES ASSUME NEW k \in DOMAIN lists, NEW l \in DOMAIN lists, NEW i \in DOMAIN all[k],
                      NEW j \in DOMAIN all[l], <<k, i>> # <<l, j>>, all[k][i].id = all[l][j].id
               PROVE  FALSE
    BY <1>1 DEF HasDuplicates, all
<1>3. \A a, b \in DOMAIN lists : \A x \in DOMAIN lists[a], y \in DOMAIN lists[b] :
         lists[a][x].id = lists[b][y].id => a = b /\ x = y
    BY DEF HasDuplicates
<1>4. CASE Thinned(new, lists[t])
    <2>1. PICK g : \A x \in DOMAIN new :
                      /\ g[x] \in DOMAIN lists[t] /\ lists[t][g[x]].id = new[x].id
                      /\ \A y \in DOMAIN new : g[x] = g[y] => x = y
        BY <1>4 DEF Thinned
    <2> DEFINE h(a, x) == IF a = t THEN g[x] ELSE x
    <2>2. h(k, i) \in DOMAIN lists[k] /\ lists[k][h(k, i)].id = all[k][i].id
        BY <1>1, <1>2, <2>1
    <2>3. h(l, j) \in DOMAIN lists[l] /\ lists[l][h(l, j)].id = all[l][j].id
        BY <1>1, <1>2, <2>1
    <2>4. k = l /\ h(k, i) = h(l, j)
        <3> HIDE DEF h
        <3> QED  BY <1>2, <1>3, <2>2, <2>3
    <2>5. i = j
        BY <1>1, <1>2, <2>1, <2>4
    <2> QED  BY <1>2, <2>4, <2>5
<1>5. ASSUME NEW e, new = Append(lists[t], e),
             \A a \in DOMAIN lists : \A x \in DOMAIN lists[a] : lists[a][x].id # e.id
      PROVE  FALSE
    <2> DEFINE n == Len(lists[t])
    <2>1. /\ n \in Nat /\ DOMAIN lists[t] = 1 .. n /\ DOMAIN new = 1 .. n + 1
          /\ new[n + 1] = e /\ \A x \in 1 .. n : new[x] = lists[t][x]
        BY <1>5, AppendAt DEF IsArray
    <2>2. DOMAIN new = DOMAIN lists[t] \cup {n + 1}
        BY <2>1
    <2> HIDE DEF n
    <2> DEFINE old(a, x) == x \in DOMAIN lists[a] /\ all[a][x] = lists[a][x]
               fresh(a, x) == a = t /\ x = n + 1 /\ all[a][x] = e
    <2>3. old(k, i) \/ fresh(k, i)
        BY <1>1, <1>2, <2>1, <2>2
    <2>4. old(l, j) \/ fresh(l, j)
        BY <1>1, <1>2, <2>1, <2>2
    <2>5. CASE old(k, i) /\ old(l, j)
        BY <1>2, <1>3, <2>5
    <2>6. CASE old(k, i) /\ fresh(l, j)
        BY <1>2, <1>5, <2>6
    <2>7. CASE fresh(k, i) /\ old(l, j)
        BY <1>2, <1>5, <2>7
    <2>8. CASE fresh(k, i) /\ fresh(l, j)
        BY <1>2, <2>8
    <2> QED  BY <2>3, <2>4, <2>5, <2>6, <2>7, <2>8
<1> QED  BY <1>4, <1>5 DEF AddsNoId

\* What a replayed operation makes of the tabs; the edges of the tabs in loose
\* may lose their items.
Follows(new, list, loose) ==
    /\ IsTabs(new)
    /\ ~DuplicatedIds(list) => ~DuplicatedIds(new)
    /\ \A k \in DOMAIN new :
          \/ Dangling(new[k]) = {}
          \/ \E l \in DOMAIN list : list[l].id = new[k].id /\ Dangling(new[k]) \subseteq Dangling(list[l])
          \/ new[k].id \in loose

LEMMA TabReplaced ==
    ASSUME NEW list, IsTabs(list), NEW t \in DOMAIN list, NEW tab, IsTab(tab), tab.id = list[t].id,
           AddsNoId(tab.items, AllItems(list), t), AddsNoId(tab.edges, AllEdges(list), t),
           NEW loose, Dangling(tab) \subseteq Dangling(list[t]) \/ tab.id \in loose
    PROVE  Follows([list EXCEPT ![t] = tab], list, loose)
<1> DEFINE new == [list EXCEPT ![t] = tab]
<1>1. /\ IsArray(new) /\ DOMAIN new = DOMAIN list /\ new[t] = tab
      /\ \A k \in DOMAIN list : k # t => new[k] = list[k]
    BY ReplacedAt DEF IsTabs
<1> HIDE DEF new
<1>2. IsTabs(new)
    BY <1>1 DEF IsTabs
<1>3. ASSUME ~DuplicatedIds(list)  PROVE ~DuplicatedIds(new)
    <2>1. AllItems(new) = [AllItems(list) EXCEPT ![t] = tab.items]
        BY <1>1 DEF AllItems
    <2>2. AllEdges(new) = [AllEdges(list) EXCEPT ![t] = tab.edges]
        BY <1>1 DEF AllEdges
    <2>3. t \in DOMAIN AllItems(list) /\ IsArray(AllItems(list)[t])
        BY DEF AllItems, IsTabs, IsTab
    <2>4. t \in DOMAIN AllEdges(list) /\ IsArray(AllEdges(list)[t])
        BY DEF AllEdges, IsTabs, IsTab
    <2>5. ~HasDuplicates(AllItems(list)) /\ ~HasDuplicates(AllEdges(list))
        BY <1>3 DEF DuplicatedIds
    <2>6. ~HasDuplicates([AllItems(list) EXCEPT ![t] = tab.items])
        <3> DEFINE lists == AllItems(list)
        <3>1. t \in DOMAIN lists /\ IsArray(lists[t]) /\ ~HasDuplicates(lists) /\ AddsNoId(tab.items, lists, t)
            BY <2>3, <2>5
        <3> HIDE DEF lists
        <3>2. ~HasDuplicates([lists EXCEPT ![t] = tab.items])
            BY <3>1, StillDistinct
        <3> QED  BY <3>2 DEF lists
    <2>7. ~HasDuplicates([AllEdges(list) EXCEPT ![t] = tab.edges])
        <3> DEFINE lists == AllEdges(list)
        <3>1. t \in DOMAIN lists /\ IsArray(lists[t]) /\ ~HasDuplicates(lists) /\ AddsNoId(tab.edges, lists, t)
            BY <2>4, <2>5
        <3> HIDE DEF lists
        <3>2. ~HasDuplicates([lists EXCEPT ![t] = tab.edges])
            BY <3>1, StillDistinct
        <3> QED  BY <3>2 DEF lists
    <2> QED  BY <2>1, <2>2, <2>6, <2>7 DEF DuplicatedIds
<1>4. ASSUME NEW k \in DOMAIN new
      PROVE  \/ Dangling(new[k]) = {}
             \/ \E l \in DOMAIN list : list[l].id = new[k].id /\ Dangling(new[k]) \subseteq Dangling(list[l])
             \/ new[k].id \in loose
    BY <1>1
<1>5. Follows(new, list, loose)
    BY <1>2, <1>3, <1>4 DEF Follows
<1> QED  BY <1>5 DEF new

LEMMA TabsMoved ==
    ASSUME NEW list, IsTabs(list), NEW new, IsTabs(new), NEW from, NEW loose,
           \A k \in DOMAIN new : \/ new[k].items = <<>> /\ new[k].edges = <<>>
                                 \/ from[k] \in DOMAIN list /\ new[k] = list[from[k]],
           \A k, l \in DOMAIN new :
               \/ new[k].items = <<>> /\ new[k].edges = <<>>
               \/ new[l].items = <<>> /\ new[l].edges = <<>>
               \/ from[k] = from[l] => k = l
    PROVE  Follows(new, list, loose)
<1>1. \A k \in DOMAIN new : new[k].edges = <<>> => Dangling(new[k]) = {}
    <2>1. \A tab : tab.edges = <<>> => Dangling(tab) = {}
        BY DEF Dangling, ToSet
    <2> QED  BY <2>1
<1>2. ASSUME ~DuplicatedIds(list)  PROVE ~DuplicatedIds(new)
    <2>1. ~HasDuplicates(AllItems(list)) /\ ~HasDuplicates(AllEdges(list))
        BY <1>2 DEF DuplicatedIds
    <2>2. /\ DOMAIN AllItems(list) = DOMAIN list /\ \A k \in DOMAIN list : AllItems(list)[k] = list[k].items
          /\ DOMAIN AllItems(new) = DOMAIN new /\ \A k \in DOMAIN new : AllItems(new)[k] = new[k].items
        BY DEF AllItems
    <2>3. /\ DOMAIN AllEdges(list) = DOMAIN list /\ \A k \in DOMAIN list : AllEdges(list)[k] = list[k].edges
          /\ DOMAIN AllEdges(new) = DOMAIN new /\ \A k \in DOMAIN new : AllEdges(new)[k] = new[k].edges
        BY DEF AllEdges
    <2>0. DOMAIN <<>> = {}
        OBVIOUS
    <2>4. ASSUME NEW k \in DOMAIN new, NEW l \in DOMAIN new,
                 NEW i \in DOMAIN new[k].items, NEW j \in DOMAIN new[l].items,
                 new[k].items[i].id = new[l].items[j].id
          PROVE  k = l /\ i = j
        <3>1. \A a, b \in DOMAIN list : \A x \in DOMAIN list[a].items, y \in DOMAIN list[b].items :
                 list[a].items[x].id = list[b].items[y].id => a = b /\ x = y
            BY <2>1, <2>2 DEF HasDuplicates
        <3>2. new[k].items # <<>> /\ new[l].items # <<>>
            BY <2>0
        <3>3. /\ from[k] \in DOMAIN list /\ new[k] = list[from[k]]
              /\ from[l] \in DOMAIN list /\ new[l] = list[from[l]]
            BY <3>2
        <3>4. from[k] = from[l] /\ i = j
            BY <2>4, <3>1, <3>3
        <3> QED  BY <3>2, <3>4
    <2>5. ASSUME NEW k \in DOMAIN new, NEW l \in DOMAIN new,
                 NEW i \in DOMAIN new[k].edges, NEW j \in DOMAIN new[l].edges,
                 new[k].edges[i].id = new[l].edges[j].id
          PROVE  k = l /\ i = j
        <3>1. \A a, b \in DOMAIN list : \A x \in DOMAIN list[a].edges, y \in DOMAIN list[b].edges :
                 list[a].edges[x].id = list[b].edges[y].id => a = b /\ x = y
            BY <2>1, <2>3 DEF HasDuplicates
        <3>2. new[k].edges # <<>> /\ new[l].edges # <<>>
            BY <2>0
        <3>3. /\ from[k] \in DOMAIN list /\ new[k] = list[from[k]]
              /\ from[l] \in DOMAIN list /\ new[l] = list[from[l]]
            BY <3>2
        <3>4. from[k] = from[l] /\ i = j
            BY <2>5, <3>1, <3>3
        <3> QED  BY <3>2, <3>4
    <2>6. ~HasDuplicates(AllItems(new))
        BY <2>2, <2>4 DEF HasDuplicates
    <2>7. ~HasDuplicates(AllEdges(new))
        BY <2>3, <2>5 DEF HasDuplicates
    <2> QED  BY <2>6, <2>7 DEF DuplicatedIds
<1>3. \A k \in DOMAIN new :
         \/ Dangling(new[k]) = {}
         \/ \E l \in DOMAIN list : list[l].id = new[k].id /\ Dangling(new[k]) \subseteq Dangling(list[l])
    BY <1>1
<1> QED  BY <1>2, <1>3 DEF Follows

-----------------------------------------------------------------------------
(***************************************************************************)
(* What each operation makes of the tabs                                   *)
(***************************************************************************)
IsItem(item) == DOMAIN item = {"id", "name", "position", "width"}
IsEdge(edge) == DOMAIN edge = {"id", "from", "to"}

LEMMA SameLists ==
    ASSUME NEW list, NEW t \in DOMAIN list
    PROVE  /\ AddsNoId(list[t].items, AllItems(list), t)
           /\ AddsNoId(list[t].edges, AllEdges(list), t)
<1>1. AllItems(list)[t] = list[t].items /\ AllEdges(list)[t] = list[t].edges
    BY DEF AllItems, AllEdges
<1>2. Thinned(list[t].items, list[t].items) /\ Thinned(list[t].edges, list[t].edges)
    BY SameIds
<1> QED  BY <1>1, <1>2 DEF AddsNoId

LEMMA ItemsReplaced ==
    ASSUME NEW list, IsTabs(list), NEW t \in DOMAIN list,
           NEW items, IsArray(items), \A i \in DOMAIN items : IsItem(items[i]),
           AddsNoId(items, AllItems(list), t),
           NEW loose,
           \/ \A i \in DOMAIN list[t].items :
                 \E j \in DOMAIN items : items[j].id = list[t].items[i].id
           \/ list[t].id \in loose
    PROVE  Follows([list EXCEPT ![t].items = items], list, loose)
<1> DEFINE tab == [list[t] EXCEPT !.items = items]
<1>1. /\ IsTab(list[t])
      /\ DOMAIN list[t] = {"id", "name", "items", "edges"}
    BY DEF IsTabs, IsTab
<1>2. /\ DOMAIN tab = DOMAIN list[t] /\ tab.items = items
      /\ tab.id = list[t].id /\ tab.edges = list[t].edges
    BY <1>1
<1>3. [list EXCEPT ![t].items = items] = [list EXCEPT ![t] = tab]
    OBVIOUS
<1> HIDE DEF tab
<1>4. IsTab(tab)
    BY <1>1, <1>2 DEF IsTab, IsItem
<1>5. AddsNoId(tab.items, AllItems(list), t) /\ AddsNoId(tab.edges, AllEdges(list), t)
    BY <1>2, SameLists
<1>6. Dangling(tab) \subseteq Dangling(list[t]) \/ tab.id \in loose
    <2>1. CASE \A i \in DOMAIN list[t].items :
                  \E j \in DOMAIN items : items[j].id = list[t].items[i].id
        BY <1>2, <2>1 DEF Dangling, ToSet
    <2> QED  BY <1>2, <2>1
<1> QED  BY <1>3, <1>4, <1>5, <1>6, <1>2, TabReplaced

LEMMA EdgesReplaced ==
    ASSUME NEW list, IsTabs(list), NEW t \in DOMAIN list,
           NEW edges, IsArray(edges), \A i \in DOMAIN edges : IsEdge(edges[i]),
           AddsNoId(edges, AllEdges(list), t),
           \A i \in DOMAIN edges :
              \/ \E j \in DOMAIN list[t].edges : edges[i] = list[t].edges[j]
              \/ /\ \E j \in DOMAIN list[t].items : edges[i].from = list[t].items[j].id
                 /\ \E j \in DOMAIN list[t].items : edges[i].to = list[t].items[j].id
    PROVE  Follows([list EXCEPT ![t].edges = edges], list, {})
<1> DEFINE tab == [list[t] EXCEPT !.edges = edges]
<1>1. /\ IsTab(list[t])
      /\ DOMAIN list[t] = {"id", "name", "items", "edges"}
    BY DEF IsTabs, IsTab
<1>2. /\ DOMAIN tab = DOMAIN list[t] /\ tab.edges = edges
      /\ tab.id = list[t].id /\ tab.items = list[t].items
    BY <1>1
<1>3. [list EXCEPT ![t].edges = edges] = [list EXCEPT ![t] = tab]
    OBVIOUS
<1> HIDE DEF tab
<1>4. IsTab(tab)
    BY <1>1, <1>2 DEF IsTab, IsEdge
<1>5. AddsNoId(tab.items, AllItems(list), t) /\ AddsNoId(tab.edges, AllEdges(list), t)
    BY <1>2, SameLists
<1>6. Dangling(tab) \subseteq Dangling(list[t])
    BY <1>2 DEF Dangling, ToSet
<1> QED  BY <1>3, <1>4, <1>5, <1>6, <1>2, TabReplaced

\* An item changes in place.
LEMMA ItemReplaced ==
    ASSUME NEW list, IsTabs(list), NEW t \in DOMAIN list, NEW i \in DOMAIN list[t].items,
           NEW item, IsItem(item), item.id = list[t].items[i].id
    PROVE  Follows([list EXCEPT ![t].items = [list[t].items EXCEPT ![i] = item]], list, {})
<1> DEFINE items == [list[t].items EXCEPT ![i] = item]
<1>1. IsArray(list[t].items) /\ \A j \in DOMAIN list[t].items : IsItem(list[t].items[j])
    BY DEF IsTabs, IsTab, IsItem
<1>2. /\ IsArray(items) /\ DOMAIN items = DOMAIN list[t].items /\ items[i] = item
      /\ \A j \in DOMAIN list[t].items : j # i => items[j] = list[t].items[j]
    BY <1>1, ReplacedAt
<1> HIDE DEF items
<1>3. \A j \in DOMAIN items : IsItem(items[j]) /\ items[j].id = list[t].items[j].id
    BY <1>1, <1>2
<1>4. AddsNoId(items, AllItems(list), t)
    <2>1. Thinned(items, list[t].items)
        BY <1>2, <1>3, SameIds
    <2> QED  BY <2>1 DEF AddsNoId, AllItems
<1>5. \A k \in DOMAIN list[t].items : \E j \in DOMAIN items : items[j].id = list[t].items[k].id
    BY <1>2, <1>3
<1>6. Follows([list EXCEPT ![t].items = items], list, {})
    BY <1>2, <1>3, <1>4, <1>5, ItemsReplaced
<1> QED  BY <1>6 DEF items

LEMMA ItemFound ==
    ASSUME NEW list, IsTabs(list), NEW x, NEW id, HasItem(list, x, id)
    PROVE  LET t == TabIndex(list, x)
               i == IndexOfId(ItemsOf(list, x), id)
           IN  /\ HasTab(list, x) /\ t \in DOMAIN list /\ list[t].id = x
               /\ ItemsOf(list, x) = list[t].items
               /\ i \in DOMAIN list[t].items /\ list[t].items[i].id = id
               /\ IsItem(list[t].items[i])
<1> DEFINE t == TabIndex(list, x)
<1>1. HasTab(list, x)
    <2>1. ~HasTab(list, x) => ItemsOf(list, x) = <<>>
        BY DEF ItemsOf
    <2>2. IndexOfId(<<>>, id) = 0
        <3>1. IsArray(<<>>) /\ DOMAIN <<>> = {}
            BY DEF IsArray
        <3> QED  BY <3>1, IdFound
    <2> QED  BY <2>1, <2>2 DEF HasItem
<1>2. t \in DOMAIN list /\ list[t].id = x
    BY <1>1, TabFound DEF IsTabs
<1>3. ItemsOf(list, x) = list[t].items
    BY <1>1 DEF ItemsOf
<1>4. IsTab(list[t])
    BY <1>2 DEF IsTabs
<1>5. IsArray(list[t].items) /\ \A i \in DOMAIN list[t].items : IsItem(list[t].items[i])
    BY <1>4 DEF IsTab, IsItem
<1>6. IndexOfId(list[t].items, id) # 0
    BY <1>3 DEF HasItem
<1>7. /\ IndexOfId(list[t].items, id) \in DOMAIN list[t].items
      /\ list[t].items[IndexOfId(list[t].items, id)].id = id
    BY <1>5, <1>6, IdFound
<1> QED  BY <1>1, <1>2, <1>3, <1>5, <1>7

LEMMA EdgeFound ==
    ASSUME NEW list, IsTabs(list), NEW x, NEW id, HasEdge(list, x, id)
    PROVE  LET t == TabIndex(list, x)
               i == IndexOfId(list[t].edges, id)
           IN  /\ t \in DOMAIN list
               /\ i \in DOMAIN list[t].edges
<1> DEFINE t == TabIndex(list, x)
<1>1. HasTab(list, x)
    <2>1. ~HasTab(list, x) => EdgesOf(list, x) = <<>>
        BY DEF EdgesOf
    <2>2. IndexOfId(<<>>, id) = 0
        <3>1. IsArray(<<>>) /\ DOMAIN <<>> = {}
            BY DEF IsArray
        <3> QED  BY <3>1, IdFound
    <2> QED  BY <2>1, <2>2 DEF HasEdge
<1>2. t \in DOMAIN list
    BY <1>1, TabFound DEF IsTabs
<1>3. EdgesOf(list, x) = list[t].edges
    BY <1>1 DEF EdgesOf
<1>4. IsArray(list[t].edges)
    BY <1>2 DEF IsTabs, IsTab
<1>5. IndexOfId(list[t].edges, id) # 0
    BY <1>3 DEF HasEdge
<1> QED  BY <1>2, <1>4, <1>5, IdFound

LEMMA Unique == \A condition, result : \A r \in If(condition, result) : condition /\ r = result
BY DEF If

LEMMA CreateNodeFollows ==
    ASSUME NEW list, IsTabs(list), NEW id, NEW p, NEW r \in replayCreateNode(list, id, p)
    PROVE  Follows(r, list, {})
<1> DEFINE t == TabIndex(list, p.tab)
           item == [id |-> id, name |-> p.name, position |-> normalizePosition(p.position),
                    width |-> IF p.width = Absent THEN Absent ELSE normalizeDimension(p.width)]
           items == Append(list[t].items, item)
<1>1. /\ HasTab(list, p.tab) /\ ~ItemAcrossTabs(list, id)
      /\ r = [list EXCEPT ![t].items = items]
    BY Unique DEF replayCreateNode
<1>2. t \in DOMAIN list
    BY <1>1, TabFound DEF IsTabs
<1>3. /\ IsItem(item) /\ item.id = id
    BY DEF IsItem
<1> HIDE DEF item, t
<1>4. IsArray(list[t].items) /\ \A i \in DOMAIN list[t].items : IsItem(list[t].items[i])
    BY <1>2 DEF IsTabs, IsTab, IsItem
<1>5. /\ IsArray(items) /\ Len(items) = Len(list[t].items) + 1
      /\ \A i \in 1 .. Len(list[t].items) : items[i] = list[t].items[i]
      /\ items[Len(list[t].items) + 1] = item
    BY <1>4, AppendAt
<1>6. AddsNoId(items, AllItems(list), t)
    <2>1. \A k \in DOMAIN list : \A j \in DOMAIN list[k].items : list[k].items[j].id # id
        <3> TAKE k \in DOMAIN list
        <3>1. IsArray(list[k].items)
            BY DEF IsTabs, IsTab
        <3>2. IndexOfId(list[k].items, id) = 0
            BY <1>1 DEF ItemAcrossTabs
        <3> QED  BY <3>1, <3>2, IdFound
    <2>2. /\ DOMAIN AllItems(list) = DOMAIN list
          /\ \A k \in DOMAIN list : AllItems(list)[k] = list[k].items
        BY DEF AllItems
    <2>3. \A k \in DOMAIN AllItems(list) : \A j \in DOMAIN AllItems(list)[k] : AllItems(list)[k][j].id # item.id
        BY <1>3, <2>1, <2>2
    <2> QED  BY <1>2, <2>2, <2>3 DEF AddsNoId
<1> HIDE DEF items
<1>7. DOMAIN list[t].items = 1 .. Len(list[t].items) /\ DOMAIN items = 1 .. Len(list[t].items) + 1
      /\ Len(list[t].items) \in Nat
    BY <1>4, <1>5 DEF IsArray
<1>8. \A i \in DOMAIN items : IsItem(items[i])
    BY <1>3, <1>4, <1>5, <1>7
<1>9. \A i \in DOMAIN list[t].items : \E j \in DOMAIN items : items[j].id = list[t].items[i].id
    BY <1>5, <1>7
<1> QED  BY <1>1, <1>2, <1>5, <1>6, <1>8, <1>9, ItemsReplaced

LEMMA UpdateNodeFollows ==
    ASSUME NEW list, IsTabs(list), NEW id, NEW p, NEW r \in replayUpdateNode(list, id, p)
    PROVE  Follows(r, list, {})
<1> DEFINE t == TabIndex(list, p.tab)
           i == IndexOfId(ItemsOf(list, p.tab), id)
           usable == {f \in DOMAIN p.changes : Usable(f, p.changes[f])}
           names == IF usable \cap {"name", "text"} = {} THEN {list[t].items[i].name}
                    ELSE {p.changes[f] : f \in usable \cap {"name", "text"}}
           wide == IF "width" \in usable THEN normalizeDimension(p.changes["width"])
                   ELSE list[t].items[i].width
           result(name) == [list EXCEPT ![t].items[i].name = name, ![t].items[i].width = wide]
<1>0. HasItem(list, p.tab, id) /\ r \in {result(name) : name \in names}
    BY DEF replayUpdateNode
<1> HIDE DEF usable, names, wide
<1>1. /\ HasItem(list, p.tab, id)
      /\ \E name, width : r = [list EXCEPT ![t].items[i].name = name, ![t].items[i].width = width]
    BY <1>0
<1>2. PICK name, width : r = [list EXCEPT ![t].items[i].name = name, ![t].items[i].width = width]
    BY <1>1
<1>3. /\ t \in DOMAIN list /\ i \in DOMAIN list[t].items /\ IsItem(list[t].items[i])
    BY <1>1, ItemFound
<1>4. DOMAIN list[t] = {"id", "name", "items", "edges"}
    BY <1>3 DEF IsTabs, IsTab
<1> HIDE DEF t, i
<1> DEFINE item == [list[t].items[i] EXCEPT !.name = name, !.width = width]
<1>5. r = [list EXCEPT ![t].items = [list[t].items EXCEPT ![i] = item]]
    BY <1>2, <1>3, <1>4
<1>6. IsItem(item) /\ item.id = list[t].items[i].id
    BY <1>3 DEF IsItem
<1> QED  BY <1>3, <1>5, <1>6, ItemReplaced

LEMMA MoveNodeFollows ==
    ASSUME NEW list, IsTabs(list), NEW id, NEW p, NEW r \in replayMoveNode(list, id, p)
    PROVE  Follows(r, list, {})
<1> DEFINE t == TabIndex(list, p.tab)
           i == IndexOfId(ItemsOf(list, p.tab), id)
           position == normalizePosition(p.position)
<1>1. HasItem(list, p.tab, id) /\ r = [list EXCEPT ![t].items[i].position = position]
    BY Unique DEF replayMoveNode
<1>2. t \in DOMAIN list /\ i \in DOMAIN list[t].items /\ IsItem(list[t].items[i])
    BY <1>1, ItemFound
<1> HIDE DEF t, i, position
<1> DEFINE item == [list[t].items[i] EXCEPT !.position = position]
<1>3. r = [list EXCEPT ![t].items = [list[t].items EXCEPT ![i] = item]]
    BY <1>1
<1>4. IsItem(item) /\ item.id = list[t].items[i].id
    BY <1>2 DEF IsItem
<1> QED  BY <1>2, <1>3, <1>4, ItemReplaced

LEMMA DeleteNodeFollows ==
    ASSUME NEW list, IsTabs(list), NEW id, NEW p, NEW r \in replayDeleteNode(list, id, p)
    PROVE  Follows(r, list, {})
<1> DEFINE t == TabIndex(list, p.tab)
           i == IndexOfId(ItemsOf(list, p.tab), id)
           old == list[t]
           items == RemoveAt(old.items, i)
           edges == WithoutEdgesOf(old.edges, id)
           tab == [old EXCEPT !.items = items, !.edges = edges]
<1>1. HasItem(list, p.tab, id)
    BY Unique DEF replayDeleteNode
<1>2. /\ t \in DOMAIN list /\ ItemsOf(list, p.tab) = old.items
      /\ i \in DOMAIN old.items /\ old.items[i].id = id
    BY <1>1, ItemFound
<1>3. r = [list EXCEPT ![t] = [old EXCEPT !.items = RemoveAt(old.items, IndexOfId(old.items, id)),
                                          !.edges = Kept(old.edges, LAMBDA e : id \notin {e.from, e.to})]]
    BY Unique DEF replayDeleteNode
<1>4. r = [list EXCEPT ![t] = tab]
    BY <1>2, <1>3 DEF WithoutEdgesOf
<1>5. IsTab(old) /\ DOMAIN old = {"id", "name", "items", "edges"}
    BY <1>2 DEF IsTabs, IsTab
<1>6. /\ IsArray(old.items) /\ \A j \in DOMAIN old.items : IsItem(old.items[j])
      /\ IsArray(old.edges) /\ \A j \in DOMAIN old.edges : IsEdge(old.edges[j])
    BY <1>5 DEF IsTab, IsItem, IsEdge
<1> HIDE DEF t, i, old, items, edges
<1>7. DOMAIN tab = DOMAIN old /\ tab.items = items /\ tab.edges = edges /\ tab.id = old.id
    BY <1>5
<1> HIDE DEF tab
<1>8. /\ IsArray(items) /\ Thinned(items, old.items) /\ Len(items) = Len(old.items) - 1
      /\ \A j \in 1 .. Len(items) : items[j] = old.items[IF j < i THEN j ELSE j + 1]
    BY <1>2, <1>6, RemovedAt, RemovedIsThinned DEF items
<1>9. /\ IsArray(edges) /\ Thinned(edges, old.edges)
      /\ \A k \in DOMAIN edges :
            \E j \in DOMAIN old.edges : edges[k] = old.edges[j] /\ id \notin {old.edges[j].from, old.edges[j].to}
    BY <1>6, KeptAre DEF edges
<1>10. /\ Len(old.items) \in Nat /\ i \in 1 .. Len(old.items)
       /\ DOMAIN old.items = 1 .. Len(old.items) /\ DOMAIN items = 1 .. Len(old.items) - 1
    BY <1>2, <1>6, <1>8 DEF IsArray
<1>11. IsTab(tab)
    <2>1. \A j \in DOMAIN items : IsItem(items[j])
        <3> TAKE j \in DOMAIN items
        <3>1. (IF j < i THEN j ELSE j + 1) \in 1 .. Len(old.items) /\ j \in 1 .. Len(items)
            BY <1>8, <1>10
        <3> QED  BY <1>6, <1>8, <1>10, <3>1
    <2>2. \A k \in DOMAIN edges : IsEdge(edges[k])
        BY <1>6, <1>9
    <2> QED  BY <1>5, <1>7, <1>8, <1>9, <2>1, <2>2 DEF IsTab, IsItem, IsEdge
<1>12. AddsNoId(tab.items, AllItems(list), t) /\ AddsNoId(tab.edges, AllEdges(list), t)
    <2>1. AllItems(list)[t] = old.items /\ AllEdges(list)[t] = old.edges
        BY <1>2 DEF AllItems, AllEdges, old
    <2> QED  BY <1>7, <1>8, <1>9, <2>1 DEF AddsNoId
<1>13. \A j \in DOMAIN old.items : old.items[j].id = id \/ \E k \in DOMAIN items : items[k].id = old.items[j].id
    <2> SUFFICES ASSUME NEW j \in DOMAIN old.items, old.items[j].id # id
                 PROVE  \E k \in DOMAIN items : items[k].id = old.items[j].id
        OBVIOUS
    <2>1. j # i /\ j \in 1 .. Len(old.items)
        BY <1>2, <1>10
    <2>2. CASE j < i
        <3>1. j \in 1 .. Len(items) /\ j \in DOMAIN items
            BY <1>8, <1>10, <2>1, <2>2
        <3>2. items[j] = old.items[j]
            BY <1>8, <2>2, <3>1
        <3> QED  BY <3>1, <3>2
    <2>3. CASE ~(j < i)
        <3>1. j - 1 \in 1 .. Len(items) /\ j - 1 \in DOMAIN items /\ ~(j - 1 < i) /\ (j - 1) + 1 = j
            BY <1>8, <1>10, <2>1, <2>3
        <3>2. items[j - 1] = old.items[(j - 1) + 1]
            BY <1>8, <3>1
        <3> QED  BY <3>1, <3>2
    <2> QED  BY <2>2, <2>3
<1>14. Dangling(tab) \subseteq Dangling(old)
    BY <1>7, <1>9, <1>13 DEF Dangling, ToSet
<1> QED  BY <1>2, <1>4, <1>7, <1>11, <1>12, <1>14, TabReplaced DEF old

LEMMA CreateEdgeFollows ==
    ASSUME NEW list, IsTabs(list), NEW id, NEW p, NEW r \in replayCreateEdge(list, id, p)
    PROVE  Follows(r, list, {})
<1> DEFINE t == TabIndex(list, p.tab)
           edge == [id |-> id, from |-> p.from, to |-> p.to]
           edges == Append(list[t].edges, edge)
<1>1. /\ HasTab(list, p.tab) /\ ~EdgeAcrossTabs(list, id)
      /\ HasItem(list, p.tab, p.from) /\ HasItem(list, p.tab, p.to)
      /\ r = [list EXCEPT ![t].edges = edges]
    BY Unique DEF replayCreateEdge
<1>2. /\ t \in DOMAIN list
      /\ \E j \in DOMAIN list[t].items : p.from = list[t].items[j].id
      /\ \E j \in DOMAIN list[t].items : p.to = list[t].items[j].id
    BY <1>1, ItemFound
<1>3. IsEdge(edge) /\ edge.id = id /\ edge.from = p.from /\ edge.to = p.to
    BY DEF IsEdge
<1> HIDE DEF edge, t
<1>4. IsArray(list[t].edges) /\ \A i \in DOMAIN list[t].edges : IsEdge(list[t].edges[i])
    BY <1>2 DEF IsTabs, IsTab, IsEdge
<1>5. /\ IsArray(edges) /\ Len(edges) = Len(list[t].edges) + 1
      /\ \A i \in 1 .. Len(list[t].edges) : edges[i] = list[t].edges[i]
      /\ edges[Len(list[t].edges) + 1] = edge
    BY <1>4, AppendAt
<1>6. AddsNoId(edges, AllEdges(list), t)
    <2>1. \A k \in DOMAIN list : \A j \in DOMAIN list[k].edges : list[k].edges[j].id # id
        <3> TAKE k \in DOMAIN list
        <3>1. IsArray(list[k].edges)
            BY DEF IsTabs, IsTab
        <3>2. IndexOfId(list[k].edges, id) = 0
            BY <1>1 DEF EdgeAcrossTabs
        <3> QED  BY <3>1, <3>2, IdFound
    <2>2. /\ DOMAIN AllEdges(list) = DOMAIN list
          /\ \A k \in DOMAIN list : AllEdges(list)[k] = list[k].edges
        BY DEF AllEdges
    <2>3. \A k \in DOMAIN AllEdges(list) : \A j \in DOMAIN AllEdges(list)[k] : AllEdges(list)[k][j].id # edge.id
        BY <1>3, <2>1, <2>2
    <2> QED  BY <1>2, <2>2, <2>3 DEF AddsNoId
<1> HIDE DEF edges
<1>7. DOMAIN list[t].edges = 1 .. Len(list[t].edges) /\ DOMAIN edges = 1 .. Len(list[t].edges) + 1
      /\ Len(list[t].edges) \in Nat
    BY <1>4, <1>5 DEF IsArray
<1>8. \A i \in DOMAIN edges : IsEdge(edges[i])
    BY <1>3, <1>4, <1>5, <1>7
<1>9. \A i \in DOMAIN edges :
         \/ \E j \in DOMAIN list[t].edges : edges[i] = list[t].edges[j]
         \/ edges[i] = edge
    BY <1>5, <1>7
<1>10. \A i \in DOMAIN edges :
          \/ \E j \in DOMAIN list[t].edges : edges[i] = list[t].edges[j]
          \/ /\ \E j \in DOMAIN list[t].items : edges[i].from = list[t].items[j].id
             /\ \E j \in DOMAIN list[t].items : edges[i].to = list[t].items[j].id
    BY <1>2, <1>3, <1>9
<1>11. Follows([list EXCEPT ![t].edges = edges], list, {})
    BY <1>2, <1>5, <1>6, <1>8, <1>10, EdgesReplaced
<1> QED  BY <1>1, <1>11

LEMMA DeleteEdgeFollows ==
    ASSUME NEW list, IsTabs(list), NEW id, NEW p, NEW r \in replayDeleteEdge(list, id, p)
    PROVE  Follows(r, list, {})
<1> DEFINE t == TabIndex(list, p.tab)
           i == IndexOfId(list[t].edges, id)
           edges == RemoveAt(list[t].edges, i)
<1>1. HasEdge(list, p.tab, id) /\ r = [list EXCEPT ![t].edges = edges]
    BY Unique DEF replayDeleteEdge
<1>2. t \in DOMAIN list /\ i \in DOMAIN list[t].edges
    BY <1>1, EdgeFound
<1> HIDE DEF t, i
<1>3. IsArray(list[t].edges) /\ \A j \in DOMAIN list[t].edges : IsEdge(list[t].edges[j])
    BY <1>2 DEF IsTabs, IsTab, IsEdge
<1>4. /\ IsArray(edges) /\ Thinned(edges, list[t].edges) /\ Len(edges) = Len(list[t].edges) - 1
      /\ \A j \in 1 .. Len(edges) : edges[j] = list[t].edges[IF j < i THEN j ELSE j + 1]
    BY <1>2, <1>3, RemovedAt, RemovedIsThinned
<1> HIDE DEF edges
<1>5. \A j \in DOMAIN edges : \E k \in DOMAIN list[t].edges : edges[j] = list[t].edges[k]
    <2> TAKE j \in DOMAIN edges
    <2>1. /\ j \in 1 .. Len(edges) /\ DOMAIN list[t].edges = 1 .. Len(list[t].edges)
          /\ Len(list[t].edges) \in Nat /\ i \in 1 .. Len(list[t].edges)
        BY <1>2, <1>3, <1>4 DEF IsArray
    <2>2. (IF j < i THEN j ELSE j + 1) \in 1 .. Len(list[t].edges)
        BY <1>4, <2>1
    <2> QED  BY <1>4, <2>1, <2>2
<1>6. AddsNoId(edges, AllEdges(list), t)
    BY <1>2, <1>4 DEF AddsNoId, AllEdges
<1>7. \A j \in DOMAIN edges : IsEdge(edges[j])
    BY <1>3, <1>5
<1> QED  BY <1>1, <1>2, <1>4, <1>5, <1>6, <1>7, EdgesReplaced

LEMMA CreateTabFollows ==
    ASSUME NEW list, IsTabs(list), NEW id, NEW p, p.index \in Int \cup {Absent, Malformed},
           NEW r \in replayCreateTab(list, id, p)
    PROVE  Follows(r, list, {})
<1> DEFINE index == IF p.index = Absent THEN Len(list) ELSE Within(0, Len(list), p.index)
           n == index + 1
           tab == [id |-> id, name |-> p.name, items |-> <<>>, edges |-> <<>>]
           from == [k \in DOMAIN r |-> IF k < n THEN k ELSE k - 1]
<1>1. p.index # Malformed /\ r = InsertAt(list, n, tab)
    BY Unique DEF replayCreateTab
<1>2. IsArray(list) /\ Len(list) \in Nat /\ DOMAIN list = 1 .. Len(list)
    BY DEF IsTabs, IsArray
<1>3. n \in 1 .. Len(list) + 1
    <2>1. index \in 0 .. Len(list)
        BY <1>1, <1>2 DEF Within
    <2> HIDE DEF index
    <2> QED  BY <1>2, <2>1
<1> HIDE DEF n
<1>4. tab.items = <<>> /\ tab.edges = <<>> /\ IsTab(tab)
    <2>1. IsArray(<<>>) /\ DOMAIN <<>> = {}
        BY DEF IsArray
    <2> QED  BY <2>1 DEF IsTab
<1> HIDE DEF tab
<1>5. /\ IsArray(r) /\ Len(r) = Len(list) + 1
      /\ r[n] = tab
      /\ \A i \in 1 .. Len(r) : i # n => r[i] = list[IF i < n THEN i ELSE i - 1]
    BY <1>1, <1>2, <1>3, InsertedAt
<1>6. DOMAIN r = 1 .. Len(list) + 1
    BY <1>5 DEF IsArray
<1>7. ASSUME NEW k \in DOMAIN r, k # n  PROVE from[k] \in DOMAIN list /\ r[k] = list[from[k]]
    <2>1. from[k] = IF k < n THEN k ELSE k - 1
        OBVIOUS
    <2> HIDE DEF from
    <2>2. from[k] \in 1 .. Len(list)
        BY <1>2, <1>3, <1>6, <1>7, <2>1
    <2> QED  BY <1>2, <1>5, <1>6, <1>7, <2>1, <2>2
<1>8. IsTabs(r)
    BY <1>4, <1>5, <1>7 DEF IsTabs
<1>9. \A k, l \in DOMAIN r : k # n /\ l # n /\ from[k] = from[l] => k = l
    <2> SUFFICES ASSUME NEW k \in DOMAIN r, NEW l \in DOMAIN r, k # n, l # n, from[k] = from[l]
                 PROVE  k = l
        OBVIOUS
    <2>1. (IF k < n THEN k ELSE k - 1) = (IF l < n THEN l ELSE l - 1)
        OBVIOUS
    <2> QED  BY <1>2, <1>3, <1>6, <2>1
<1> HIDE DEF from
<1>10. \A k \in DOMAIN r : \/ r[k].items = <<>> /\ r[k].edges = <<>>
                           \/ from[k] \in DOMAIN list /\ r[k] = list[from[k]]
    BY <1>4, <1>5, <1>7
<1>11. \A k, l \in DOMAIN r : \/ r[k].items = <<>> /\ r[k].edges = <<>>
                              \/ r[l].items = <<>> /\ r[l].edges = <<>>
                              \/ from[k] = from[l] => k = l
    BY <1>4, <1>5, <1>9
<1> QED  BY <1>8, <1>10, <1>11, TabsMoved

LEMMA UpdateTabFollows ==
    ASSUME NEW list, IsTabs(list), NEW id, NEW p, NEW r \in replayUpdateTab(list, id, p)
    PROVE  Follows(r, list, {})
<1> DEFINE t == TabIndex(list, id)
           name == p.changes["name"]
           tab == [list[t] EXCEPT !.name = name]
<1>1. HasTab(list, id) /\ r = [list EXCEPT ![t].name = name]
    BY Unique DEF replayUpdateTab
<1>2. t \in DOMAIN list
    BY <1>1, TabFound DEF IsTabs
<1> HIDE DEF t, name
<1>3. r = [list EXCEPT ![t] = tab]
    BY <1>1
<1>4. IsTab(list[t]) /\ DOMAIN list[t] = {"id", "name", "items", "edges"}
    BY <1>2 DEF IsTabs, IsTab
<1>5. /\ DOMAIN tab = DOMAIN list[t] /\ tab.id = list[t].id
      /\ tab.items = list[t].items /\ tab.edges = list[t].edges
    BY <1>4
<1> HIDE DEF tab
<1>6. IsTab(tab)
    BY <1>4, <1>5 DEF IsTab
<1>7. AddsNoId(tab.items, AllItems(list), t) /\ AddsNoId(tab.edges, AllEdges(list), t)
    BY <1>2, <1>5, SameLists
<1>8. Dangling(tab) \subseteq Dangling(list[t])
    BY <1>5 DEF Dangling
<1> QED  BY <1>2, <1>3, <1>5, <1>6, <1>7, <1>8, TabReplaced

LEMMA DeleteTabFollows ==
    ASSUME NEW list, IsTabs(list), NEW id, NEW p, NEW r \in replayDeleteTab(list, id, p)
    PROVE  Follows(r, list, {})
<1> DEFINE n == TabIndex(list, id)
           from == [k \in DOMAIN r |-> IF k < n THEN k ELSE k + 1]
<1>1. HasTab(list, id) /\ r = RemoveAt(list, n)
    BY Unique DEF replayDeleteTab
<1>2. IsArray(list) /\ Len(list) \in Nat /\ DOMAIN list = 1 .. Len(list)
    BY DEF IsTabs, IsArray
<1>3. n \in 1 .. Len(list)
    BY <1>1, <1>2, TabFound
<1> HIDE DEF n
<1>4. /\ IsArray(r) /\ Len(r) = Len(list) - 1
      /\ \A i \in 1 .. Len(r) : r[i] = list[IF i < n THEN i ELSE i + 1]
    BY <1>1, <1>2, <1>3, RemovedAt
<1>5. DOMAIN r = 1 .. Len(list) - 1
    BY <1>4 DEF IsArray
<1>6. ASSUME NEW k \in DOMAIN r  PROVE from[k] \in DOMAIN list /\ r[k] = list[from[k]]
    <2>1. from[k] = IF k < n THEN k ELSE k + 1
        OBVIOUS
    <2> HIDE DEF from
    <2>2. from[k] \in 1 .. Len(list)
        BY <1>2, <1>3, <1>5, <2>1
    <2> QED  BY <1>2, <1>4, <1>5, <2>1, <2>2
<1>7. IsTabs(r)
    BY <1>4, <1>6 DEF IsTabs
<1>8. \A k, l \in DOMAIN r : from[k] = from[l] => k = l
    <2> SUFFICES ASSUME NEW k \in DOMAIN r, NEW l \in DOMAIN r, from[k] = from[l]
                 PROVE  k = l
        OBVIOUS
    <2>1. (IF k < n THEN k ELSE k + 1) = (IF l < n THEN l ELSE l + 1)
        OBVIOUS
    <2> QED  BY <1>2, <1>3, <1>5, <2>1
<1> HIDE DEF from
<1> QED  BY <1>6, <1>7, <1>8, TabsMoved

LEMMA ReorderTabsFollows ==
    ASSUME NEW list, IsTabs(list), NEW id, NEW p, IsArray(p.order), NEW r \in replayReorderTabs(list, id, p)
    PROVE  Follows(r, list, {})
<1> DEFINE order == p.order
           from == [k \in DOMAIN list |-> TabIndex(list, order[k])]
<1>1. IsTabOrder(list, order) /\ r = [k \in DOMAIN list |-> list[TabIndex(list, order[k])]]
    BY Unique DEF replayReorderTabs
<1>2. IsArray(list) /\ Len(list) \in Nat /\ DOMAIN list = 1 .. Len(list)
    BY DEF IsTabs, IsArray
<1>3. DOMAIN order = DOMAIN list
    BY <1>1, <1>2 DEF IsTabOrder, IsArray
<1> HIDE DEF order
<1>4. \A k \in DOMAIN list : HasTab(list, order[k])
    <2> TAKE k \in DOMAIN list
    <2>1. order[k] \in ToSet(order)
        BY <1>3 DEF ToSet
    <2>2. \E j \in DOMAIN list : list[j].id = order[k]
        BY <1>1, <2>1 DEF IsTabOrder
    <2> QED  BY <1>2, <2>2, TabFound
<1>5. \A k \in DOMAIN list : from[k] \in DOMAIN list /\ list[from[k]].id = order[k] /\ r[k] = list[from[k]]
    <2> TAKE k \in DOMAIN list
    <2>1. from[k] = TabIndex(list, order[k]) /\ r[k] = list[TabIndex(list, order[k])]
        BY <1>1
    <2> QED  BY <1>2, <1>4, <2>1, TabFound
<1> HIDE DEF from
<1>6. DOMAIN r = 1 .. Len(list) /\ r = [k \in 1 .. Len(list) |-> r[k]]
    BY <1>1, <1>2
<1>7. IsTabs(r)
    <2>1. IsArray(r)
        BY <1>2, <1>6, ListOf
    <2> QED  BY <1>2, <1>5, <1>6, <2>1 DEF IsTabs
<1>8. \A k, l \in DOMAIN r : from[k] = from[l] => k = l
    <2>1. \A k, l \in DOMAIN list : order[k] = order[l] => k = l
        BY <1>1, <1>3 DEF IsTabOrder, IsInjective
    <2> QED  BY <1>2, <1>5, <1>6, <2>1
<1>9. \A k \in DOMAIN r : from[k] \in DOMAIN list /\ r[k] = list[from[k]]
    BY <1>2, <1>5, <1>6
<1> QED  BY <1>7, <1>8, <1>9, TabsMoved

LEMMA ClearTabNodesFollows ==
    ASSUME NEW list, IsTabs(list), NEW id, NEW p, NEW r \in replayClearTabNodes(list, id, p)
    PROVE  Follows(r, list, {id})
<1> DEFINE t == TabIndex(list, id)
<1>1. ItemsOf(list, id) # <<>> /\ r = [list EXCEPT ![t].items = <<>>]
    BY Unique DEF replayClearTabNodes
<1>2. HasTab(list, id)
    BY <1>1 DEF ItemsOf
<1>3. t \in DOMAIN list /\ list[t].id = id
    BY <1>2, TabFound DEF IsTabs
<1> HIDE DEF t
<1>4. IsArray(<<>>) /\ DOMAIN <<>> = {}
    BY DEF IsArray
<1>5. AddsNoId(<<>>, AllItems(list), t)
    BY <1>4 DEF AddsNoId, Thinned
<1> QED  BY <1>1, <1>3, <1>4, <1>5, ItemsReplaced

LEMMA ReplayedFollows ==
    ASSUME NEW list, IsTabs(list), NEW m, IsMutation(m), NEW r \in Replayed(list, m)
    PROVE  Follows(r, list, IF m.op = "ClearTabNodes" THEN {m.entity} ELSE {})
<1>1. Decodes(m) /\ m.payload # Malformed
    BY DEF Replayed, Decodes
<1>2. CASE m.op \in {"CreateNode", "UpdateNode", "MoveNode", "DeleteNode"}
    BY <1>1, <1>2, Dispatch, CreateNodeFollows, UpdateNodeFollows, MoveNodeFollows, DeleteNodeFollows
<1>3. CASE m.op \in {"CreateEdge", "DeleteEdge"}
    BY <1>1, <1>3, Dispatch, CreateEdgeFollows, DeleteEdgeFollows
<1>4. CASE m.op = "CreateTab"
    <2>1. m.payload.index \in Int \cup {Absent, Malformed}
        BY <1>1, <1>4 DEF IsMutation
    <2> QED  BY <1>1, <1>4, <2>1, Dispatch, CreateTabFollows
<1>5. CASE m.op = "ReorderTabs"
    <2>1. IsArray(m.payload.order)
        BY <1>1, <1>5 DEF IsMutation
    <2> QED  BY <1>1, <1>5, <2>1, Dispatch, ReorderTabsFollows
<1>6. CASE m.op \in {"UpdateTab", "DeleteTab"}
    BY <1>1, <1>6, Dispatch, UpdateTabFollows, DeleteTabFollows
<1>7. CASE m.op = "ClearTabNodes"
    BY <1>1, <1>7, Dispatch, ClearTabNodesFollows
<1> QED  BY <1>2, <1>3, <1>4, <1>5, <1>6, <1>7 DEF IsMutation

-----------------------------------------------------------------------------
(***************************************************************************)
(* The two replays                                                         *)
(***************************************************************************)
\* No operation makes an id occur twice or an edge lose its items: what the
\* tabs have of either they had in the document, or a tab was cleared.
Lineage ==
    /\ IsTabs(source) /\ IsTabs(tabs)
    /\ DuplicatedIds(tabs) => DuplicatedIds(source)
    /\ \A k \in DOMAIN tabs :
          \/ Dangling(tabs[k]) = {}
          \/ \E l \in DOMAIN source : /\ source[l].id = tabs[k].id
                                      /\ Dangling(tabs[k]) \subseteq Dangling(source[l])
          \/ tabs[k].id \in cleared

ReplayTabsInvariant == Lineage /\ StopsAreExplained /\ DryRunPredictsApply

LEMMA InitEstablishes == ReplayInit => ReplayTabsInvariant
<1> SUFFICES ASSUME ReplayInit  PROVE ReplayTabsInvariant
    OBVIOUS
<1>1. Lineage
    BY ReplayTabsAssumption DEF ReplayInit, Lineage
<1>2. StopsAreExplained
    BY DEF ReplayInit, StopsAreExplained, Allowed, Failed
<1>3. DryRunPredictsApply
    BY DEF ReplayInit, DryRunPredictsApply
<1> QED  BY <1>1, <1>2, <1>3 DEF ReplayTabsInvariant

LEMMA LineageKept ==
    ASSUME Lineage, NEW m \in Mutations, ReplayReceipt(m)
    PROVE  Lineage'
<1>1. IsMutation(m)
    BY ReplayTabsAssumption
<1>2. source' = source /\ IsTabs(source) /\ IsTabs(tabs)
    BY DEF ReplayReceipt, Lineage
<1>3. tabs' = tabs \/ tabs' \in Replayed(tabs, m)
    BY DEF ReplayReceipt, AuthoritativeStep
<1>4. cleared' = IF tabs' = tabs THEN cleared
                 ELSE IF m.op = "ClearTabNodes" THEN cleared \cup {m.entity} ELSE cleared
    BY DEF ReplayReceipt, AuthoritativeStep
<1>5. CASE tabs' = tabs
    BY <1>2, <1>4, <1>5 DEF Lineage
<1>6. CASE tabs' # tabs
    <2> DEFINE loose == IF m.op = "ClearTabNodes" THEN {m.entity} ELSE {}
    <2>1. Follows(tabs', tabs, loose)
        BY <1>1, <1>2, <1>3, <1>6, ReplayedFollows
    <2>2. cleared' = cleared \cup loose
        BY <1>4, <1>6
    <2> HIDE DEF loose
    <2>3. IsTabs(tabs') /\ (DuplicatedIds(tabs') => DuplicatedIds(source))
        BY <2>1 DEF Follows, Lineage
    <2>4. ASSUME NEW k \in DOMAIN tabs'
          PROVE  \/ Dangling(tabs'[k]) = {}
                 \/ \E l \in DOMAIN source : /\ source[l].id = tabs'[k].id
                                             /\ Dangling(tabs'[k]) \subseteq Dangling(source[l])
                 \/ tabs'[k].id \in cleared'
        <3>1. CASE Dangling(tabs'[k]) = {} \/ tabs'[k].id \in loose
            BY <2>2, <3>1
        <3>2. ASSUME NEW l \in DOMAIN tabs, tabs[l].id = tabs'[k].id,
                     Dangling(tabs'[k]) \subseteq Dangling(tabs[l])
              PROVE  \/ Dangling(tabs'[k]) = {}
                     \/ \E j \in DOMAIN source : /\ source[j].id = tabs'[k].id
                                                 /\ Dangling(tabs'[k]) \subseteq Dangling(source[j])
                     \/ tabs'[k].id \in cleared'
            <4>1. \/ Dangling(tabs[l]) = {}
                  \/ \E j \in DOMAIN source : /\ source[j].id = tabs[l].id
                                              /\ Dangling(tabs[l]) \subseteq Dangling(source[j])
                  \/ tabs[l].id \in cleared
                BY DEF Lineage
            <4> QED  BY <2>2, <3>2, <4>1
        <3> QED  BY <2>1, <3>1, <3>2 DEF Follows
    <2>5. \A k \in DOMAIN tabs' :
             \/ Dangling(tabs'[k]) = {}
             \/ \E l \in DOMAIN source : /\ source[l].id = tabs'[k].id
                                         /\ Dangling(tabs'[k]) \subseteq Dangling(source[l])
             \/ tabs'[k].id \in cleared'
        BY <2>4
    <2> QED  BY <1>2, <2>3, <2>5 DEF Lineage
<1> QED  BY <1>5, <1>6

LEMMA StopsKept ==
    ASSUME Lineage, NEW m \in Mutations, ReplayReceipt(m)
    PROVE  StopsAreExplained'
<1>1. IsMutation(m) /\ IsArray(tabs) /\ source' = source
    BY ReplayTabsAssumption DEF Lineage, IsTabs, ReplayReceipt
<1>2. PICK v \in Verdicts(tabs, m) : verdict' = IF v = Allowed /\ Replayed(tabs, m) = {} THEN Failed ELSE v
    BY DEF ReplayReceipt, AuthoritativeStep
<1>3. \/ DuplicatedIds(tabs) /\ v = Verdict("blocked", "duplicate_ids")
      \/ Agrees(v, Replayed(tabs, m), PolicyBlindSpot(m))
    BY <1>1, <1>2, VerdictsAgree
<1>4. verdict'.status = "blocked" => DuplicatedIds(source)
    BY <1>2, <1>3 DEF Agrees, Failed, Lineage
<1>5. verdict' = Failed => PolicyBlindSpot(m) /\ abortedAt' = m
    <2>1. verdict' = Failed => abortedAt' = m
        BY DEF ReplayReceipt, Stopped, Failed
    <2>2. Verdict("blocked", "duplicate_ids") # Failed /\ Verdict("blocked", "duplicate_ids") # Allowed
        BY DEF Verdict, Failed, Allowed
    <2> QED  BY <1>2, <1>3, <2>1, <2>2 DEF Agrees
<1> QED  BY <1>1, <1>4, <1>5 DEF StopsAreExplained

LEMMA PredictionKept ==
    ASSUME Lineage, DryRunPredictsApply, NEW m \in Mutations, ReplayReceipt(m)
    PROVE  DryRunPredictsApply'
<1> SUFFICES ASSUME ~Stopped', ~divergent'  PROVE dryTabs' = tabs'
    BY DEF DryRunPredictsApply
<1>1. IsMutation(m) /\ IsArray(tabs)
    BY ReplayTabsAssumption DEF Lineage, IsTabs
<1>2. PICK v \in Verdicts(tabs, m) :
         /\ tabs' \in IF v = Allowed /\ Replayed(tabs, m) # {} THEN Replayed(tabs, m) ELSE {tabs}
         /\ verdict' = IF v = Allowed /\ Replayed(tabs, m) = {} THEN Failed ELSE v
         /\ divergent' = (divergent \/ Stricter(v, m))
    BY DEF ReplayReceipt, AuthoritativeStep
<1>3. ~divergent /\ ~Stricter(v, m)
    BY <1>2
<1>4. dryTabs = tabs
    BY <1>3 DEF DryRunPredictsApply, ReplayReceipt
<1>5. dryTabs' \in IF Replayed(tabs, m) = {} THEN {tabs} ELSE Replayed(tabs, m)
    BY <1>4 DEF ReplayReceipt, DryRunStep
<1>6. verdict'.status \in {"allowed", "skip"}
    BY DEF Stopped
<1>7. Agrees(v, Replayed(tabs, m), PolicyBlindSpot(m))
    <2>1. v # Verdict("blocked", "duplicate_ids")
        BY <1>2, <1>6 DEF Verdict, Allowed
    <2> QED  BY <1>1, <2>1, VerdictsAgree
<1>8. CASE v = Allowed
    <2>1. Replayed(tabs, m) # {}
        BY <1>2, <1>6, <1>8 DEF Failed
    <2>2. \A a, b \in Replayed(tabs, m) : a = b
        BY <1>1, <1>3, OneResult DEF Stricter
    <2> QED  BY <1>2, <1>5, <1>8, <2>1, <2>2
<1>9. CASE v # Allowed
    <2>1. v.status = "skip"
        BY <1>2, <1>6, <1>7, <1>9 DEF Agrees
    <2>2. v.reason \notin StricterReasons
        BY <1>3 DEF Stricter, StricterReasons
    <2>3. Replayed(tabs, m) = {}
        BY <1>7, <2>1, <2>2 DEF Agrees
    <2> QED  BY <1>2, <1>5, <1>9, <2>3
<1> QED  BY <1>8, <1>9

LEMMA StepKeeps == ReplayTabsInvariant /\ [ReplayNext]_replayVars => ReplayTabsInvariant'
<1> SUFFICES ASSUME ReplayTabsInvariant, [ReplayNext]_replayVars  PROVE ReplayTabsInvariant'
    OBVIOUS
<1>1. ASSUME NEW m \in Mutations, ReplayReceipt(m)  PROVE ReplayTabsInvariant'
    BY <1>1, LineageKept, StopsKept, PredictionKept DEF ReplayTabsInvariant
<1>2. CASE UNCHANGED replayVars
    BY <1>2 DEF ReplayTabsInvariant, Lineage, StopsAreExplained, DryRunPredictsApply, Stopped, replayVars
<1> QED  BY <1>1, <1>2 DEF ReplayNext

LEMMA ReplayTabsInvariantHolds == ReplaySpec => []ReplayTabsInvariant
BY InitEstablishes, StepKeeps, PTL DEF ReplaySpec

\* A replay stops early only at duplicate ids that the stored document has
\* already, or at an allowed receipt whose payload the policy cannot judge:
\* the policy and the operation decide the same question in separate code.
THEOREM StopsExplained == ReplaySpec => []StopsAreExplained
<1>1. ReplayTabsInvariant => StopsAreExplained
    BY DEF ReplayTabsInvariant
<1> QED  BY <1>1, ReplayTabsInvariantHolds, PTL

\* Whatever is replayed, in whatever order: an edge lacks one of its items only
\* if it did so in the stored document, or after its tab was cleared.
THEOREM EdgesKeepTheirItems == ReplaySpec => []EdgesDangleOnlyAfterClear
<1>1. ReplayTabsInvariant => EdgesDangleOnlyAfterClear
    <2> SUFFICES ASSUME ReplayTabsInvariant, NEW tab \in ToSet(tabs), tab.id \notin cleared
                 PROVE  Dangling(tab) \subseteq
                        UNION {Dangling(stored) : stored \in {s \in ToSet(source) : s.id = tab.id}}
        BY DEF EdgesDangleOnlyAfterClear
    <2>1. PICK k \in DOMAIN tabs : tab = tabs[k]
        BY DEF ToSet
    <2>2. \/ Dangling(tab) = {}
          \/ \E l \in DOMAIN source : source[l].id = tab.id /\ Dangling(tab) \subseteq Dangling(source[l])
        BY <2>1 DEF ReplayTabsInvariant, Lineage
    <2>3. ASSUME NEW l \in DOMAIN source, source[l].id = tab.id, Dangling(tab) \subseteq Dangling(source[l])
          PROVE  Dangling(tab) \subseteq
                 UNION {Dangling(stored) : stored \in {s \in ToSet(source) : s.id = tab.id}}
        <3>1. source[l] \in {s \in ToSet(source) : s.id = tab.id}
            BY <2>3 DEF ToSet
        <3> HIDE DEF Dangling
        <3> QED  BY <2>3, <3>1
    <2> QED  BY <2>2, <2>3
<1> QED  BY <1>1, ReplayTabsInvariantHolds, PTL

\* As long as the authoritative replay has not stopped and no receipt met a
\* rule that only the policy has, the dry run has the same tabs.
THEOREM DryRunPredicts == ReplaySpec => []DryRunPredictsApply
<1>1. ReplayTabsInvariant => DryRunPredictsApply
    BY DEF ReplayTabsInvariant
<1> QED  BY <1>1, ReplayTabsInvariantHolds, PTL

\* Tabs stay tabs, and no sequence of operations makes an id occur twice that
\* did not in the stored document.
THEOREM TabsStaySound == ReplaySpec => [](IsTabs(tabs) /\ (DuplicatedIds(tabs) => DuplicatedIds(source)))
<1>1. ReplayTabsInvariant => IsTabs(tabs) /\ (DuplicatedIds(tabs) => DuplicatedIds(source))
    BY DEF ReplayTabsInvariant, Lineage
<1> QED  BY <1>1, ReplayTabsInvariantHolds, PTL
=============================================================================
