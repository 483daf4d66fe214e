---------------------------- MODULE MermaidImport ----------------------------
(***************************************************************************)
(* Importing a Mermaid flowchart (js/mermaid-adapter.js) into a tab: the   *)
(* adapter reads the source line by line, merges what the lines say of     *)
(* each node, and hands the graph to GraphCreation, which accepts or       *)
(* rejects it as a whole.  A caller may also hand over a graph directly.   *)
(*                                                                         *)
(* A line is a record that says what it matches after trimming, and a node *)
(* reference [id, form, label] the bracket form around the label ("" when  *)
(* it is empty or only quotes).  Regular expressions are not modelled, but *)
(* the order in which they are tried is part of "form".                    *)
(***************************************************************************)
EXTENDS GraphCreation

CONSTANTS
    Lines,       \* the lines a source is made of
    MaxLines,    \* bound on the lines of a source
    CallOptions, \* [originX, originY, spacingX, spacingY] of the importing call
    Requests     \* [graph, originX, originY]: the graphs handed over directly

ASSUME RequestsAreRaw == \A r \in Requests : IsRawGraph(r.graph)

VARIABLES
    source,       \* the lines read so far
    headerSeen, direction,
    found,        \* nodesById in nodeOrder
    parsedEdges,
    warnings, parseErrors,
    parse         \* "reading", "failed" or "submitted"

parserVars == <<source, headerSeen, direction, found, parsedEdges, warnings, parseErrors, parse>>
importVars == <<graphVars, parserVars>>

ImportInit ==
    /\ NothingCreated
    /\ \/ parse = "reading" /\ request = Junk
       \/ parse = "submitted" /\ request \in Requests
    /\ source = <<>>
    /\ headerSeen = FALSE /\ direction = "LR"
    /\ found = <<>> /\ parsedEdges = <<>>
    /\ warnings = {} /\ parseErrors = {}

-----------------------------------------------------------------------------
(* One line *)

\* What each bracket form makes of a node, and how strongly it says so.
Patterns ==
    [bare       |-> [shape |-> "default", shapeScore |-> 0],
     circle     |-> [shape |-> "circle",  shapeScore |-> 3],
     stadium    |-> [shape |-> "oval",    shapeScore |-> 3],
     database   |-> [shape |-> "oval",    shapeScore |-> 3],
     subroutine |-> [shape |-> "default", shapeScore |-> 2],
     rhombus    |-> [shape |-> "diamond", shapeScore |-> 3],
     round      |-> [shape |-> "default", shapeScore |-> 2],
     square     |-> [shape |-> "default", shapeScore |-> 2],
     flag       |-> [shape |-> "default", shapeScore |-> 1]]

\* No node reference: an empty end of an edge, or text no pattern matches.
ReferenceErrors(ref) ==
    IF ref.form = "empty" THEN {"invalid_node_reference"}
    ELSE IF ref.form \notin DOMAIN Patterns THEN {"unsupported_node_syntax"}
    ELSE IF ref.label = "too long" THEN {"node_label_too_long"}
    ELSE {}

ReferenceWarnings(ref, line) ==
    IF ReferenceErrors(ref) = {} /\ ref.form = "flag"
    THEN {[code |-> "unsupported_node_shape", line |-> line, node |-> ref.id]} ELSE {}

parseNodeReference(ref) ==
    [id |-> ref.id, label |-> IF ref.label = "" THEN ref.id ELSE ref.label,
     shape |-> Patterns[ref.form].shape,
     labelScore |-> IF ref.label = "" THEN 0 ELSE 1,
     shapeScore |-> Patterns[ref.form].shapeScore]

\* Broken variant: the last label wins, an empty one included.
MergedLastLabel(old, new) ==
    [old EXCEPT !.label = new.label, !.labelScore = new.labelScore,
                !.shape = IF new.shapeScore > old.shapeScore THEN new.shape ELSE @,
                !.shapeScore = Larger(@, new.shapeScore)]

\* A node met before keeps its label and shape unless the new ones score higher.
Merged(old, new) ==
    [old EXCEPT !.label = IF new.labelScore > old.labelScore THEN new.label ELSE @,
                !.labelScore = Larger(@, new.labelScore),
                !.shape = IF new.shapeScore > old.shapeScore THEN new.shape ELSE @,
                !.shapeScore = Larger(@, new.shapeScore)]

mergeNodeDefinition(list, new) ==
    IF new.id \in IdsOf(list)
    THEN [i \in DOMAIN list |-> IF list[i].id = new.id THEN Merged(list[i], new) ELSE list[i]]
    ELSE Append(list, new)

\* Broken variant: no warning when the scores are equal.
ConflictsOfWeaker(list, new, line) ==
    {[code |-> "conflicting_node_label", line |-> line, node |-> new.id] :
        i \in {j \in DOMAIN list : /\ list[j].id = new.id /\ new.labelScore > 0
                                   /\ new.labelScore < list[j].labelScore
                                   /\ new.label # list[j].label}}

\* The warnings of that merge.
Conflicts(list, new, line) ==
    LET clash(code, kept) == [code |-> code, line |-> line, node |-> new.id]
        same == {list[i] : i \in {j \in DOMAIN list : list[j].id = new.id}}
    IN  {clash("conflicting_node_label", old.label) : old \in
            {o \in same : /\ new.labelScore > 0 /\ new.labelScore <= o.labelScore
                          /\ new.label # o.label}} \cup
        {clash("conflicting_node_shape", old.shape) : old \in
            {o \in same : /\ new.shapeScore > 0 /\ new.shapeScore <= o.shapeScore
                          /\ new.shape # o.shape}}

LineNumber == Len(source) + 1   \* of the line being read

CanRead(line) ==
    /\ parse = "reading" /\ Len(source) < MaxLines
    /\ source' = Append(source, line)

\* Blank lines and comments, and a line of semicolons below the header.
SkipLine(line) ==
    /\ CanRead(line)
    /\ line.kind = "blank" \/ (line.kind = "semicolons" /\ headerSeen)
    /\ UNCHANGED <<graphVars, headerSeen, direction, found, parsedEdges, warnings, parseErrors, parse>>

normalizeMermaidDirection(way) == IF way = "LR" THEN "LR" ELSE "TD"

\* The first other line must be a header of a supported diagram.
ReadHeader(line) ==
    /\ CanRead(line)
    /\ ~ headerSeen /\ line.kind = "header"
    /\ headerSeen' = TRUE
    /\ direction' = normalizeMermaidDirection(line.direction)
    /\ UNCHANGED <<graphVars, found, parsedEdges, warnings, parseErrors, parse>>

RefuseHeader(line) ==
    /\ CanRead(line)
    /\ ~ headerSeen /\ line.kind \notin {"header", "blank"}
    /\ parseErrors' = {IF line.kind = "diagram" THEN "unsupported_diagram_type"
                       ELSE "invalid_diagram_header"}
    /\ parse' = "failed"
    /\ UNCHANGED <<graphVars, headerSeen, direction, found, parsedEdges, warnings>>

\* classDef, class, style, linkStyle, click, subgraph and end.
IgnoreStatement(line) ==
    /\ CanRead(line)
    /\ headerSeen /\ line.kind = "ignored"
    /\ warnings' = warnings \cup
          {[code |-> "ignored_mermaid_statement", line |-> LineNumber, node |-> Absent]}
    /\ UNCHANGED <<graphVars, headerSeen, direction, found, parsedEdges, parseErrors, parse>>

\* Anything else without an arrow is a node reference: also a second header, which no
\* pattern matches, and the name of another diagram type, which is a legal node id.
ReferenceOf(line) ==
    CASE line.kind = "node"    -> line.ref
      [] line.kind = "header"  -> [id |-> "", form |-> "no pattern", label |-> ""]
      [] line.kind = "diagram" -> [id |-> line.name, form |-> "bare", label |-> ""]

\* The references of a line, left to right; an error in the left one hides the right.
References(line) ==
    IF line.kind = "edge" THEN <<line.left, line.right>>
    ELSE IF line.kind \in {"node", "header", "diagram"} THEN <<ReferenceOf(line)>>
    ELSE <<>>

WellFormed(line) == \A k \in DOMAIN References(line) : ReferenceErrors(References(line)[k]) = {}

FirstErrors(line) ==
    LET refs == References(line) IN
    IF ReferenceErrors(refs[1]) # {} THEN ReferenceErrors(refs[1]) ELSE ReferenceErrors(refs[2])

\* The warnings of the references parsed before the first error, if any.
SyntaxWarnings(line) ==
    LET refs == References(line) IN
    UNION {ReferenceWarnings(refs[k], LineNumber) :
              k \in {j \in DOMAIN refs : \A i \in 1 .. j - 1 : ReferenceErrors(refs[i]) = {}}}

IsStatement(line) == CanRead(line) /\ headerSeen /\ References(line) # <<>>

\* A statement in error is left out and the parser goes on, to report them all.
RefuseStatement(line) ==
    /\ IsStatement(line)
    /\ ~ WellFormed(line)
    /\ parseErrors' = parseErrors \cup FirstErrors(line)
    /\ warnings' = warnings \cup SyntaxWarnings(line)
    /\ UNCHANGED <<graphVars, headerSeen, direction, found, parsedEdges, parse>>

ReadStatement(line) ==
    LET refs == References(line)
        first == parseNodeReference(refs[1])
        once == mergeNodeDefinition(found, first)
        second == parseNodeReference(refs[2])
    IN
    /\ IsStatement(line)
    /\ WellFormed(line)
    /\ found' = IF Len(refs) = 1 THEN once ELSE mergeNodeDefinition(once, second)
    /\ warnings' = warnings \cup SyntaxWarnings(line) \cup Conflicts(found, first, LineNumber) \cup
          (IF Len(refs) = 1 THEN {} ELSE Conflicts(once, second, LineNumber))
    /\ parsedEdges' = IF line.kind # "edge" THEN parsedEdges
                      ELSE Append(parsedEdges, [from |-> first.id, to |-> second.id, kind |-> line.arrow])
    /\ UNCHANGED <<graphVars, headerSeen, direction, parseErrors, parse>>

-----------------------------------------------------------------------------
(* The end of the source *)

\* No header, or statements in error: no graph.
RefuseSource ==
    /\ parse = "reading"
    /\ ~ headerSeen \/ parseErrors # {}
    /\ parseErrors' = IF headerSeen THEN parseErrors ELSE {"missing_diagram_header"}
    /\ parse' = "failed"
    /\ UNCHANGED <<graphVars, source, headerSeen, direction, found, parsedEdges, warnings>>

PositiveOnly(value) == IF value \in Int /\ value > 0 THEN value ELSE Absent

buildGraphOptions(call) ==
    [direction |-> direction, originX |-> call.originX, originY |-> call.originY,
     spacingX |-> PositiveOnly(call.spacingX), spacingY |-> PositiveOnly(call.spacingY)]

\* The graph, with the nodes in the order of their first mention, goes to GraphCreation.
SubmitGraph(call) ==
    /\ parse = "reading"
    /\ headerSeen /\ parseErrors = {}
    /\ request' = [graph |->
          [nodes |-> [i \in DOMAIN found |->
              [id |-> found[i].id, label |-> found[i].label, shape |-> found[i].shape,
               x |-> Absent, y |-> Absent, width |-> Absent, height |-> Absent]],
           edges |-> parsedEdges, options |-> buildGraphOptions(call)],
          originX |-> Absent, originY |-> Absent]
    /\ parse' = "submitted"
    /\ UNCHANGED <<layoutVars, phase, nodes, edges, errors, items, itemEdges, source, headerSeen,
                   direction, found, parsedEdges, warnings, parseErrors>>

ReadLine(line) ==
    \/ SkipLine(line)
    \/ ReadHeader(line)
    \/ RefuseHeader(line)
    \/ IgnoreStatement(line)
    \/ RefuseStatement(line)
    \/ ReadStatement(line)

LayoutStep == parse = "submitted" /\ Layout /\ UNCHANGED parserVars

ImportNext ==
    \/ \E line \in Lines : ReadLine(line)
    \/ RefuseSource
    \/ \E call \in CallOptions : SubmitGraph(call)
    \/ parse = "submitted" /\ CreationNext /\ UNCHANGED parserVars

\* The program runs on between two iterations of the layering loop.
ImportSpec == ImportInit /\ [][ImportNext]_importVars /\ WF_importVars(LayoutStep)

-----------------------------------------------------------------------------
(***************************************************************************)
(* What the source says of a node, read without the parser: its mentions,  *)
(* <<line, side>>, in the statements that are well formed.                 *)
(***************************************************************************)
FirstStatement ==
    IF \E k \in DOMAIN source : source[k].kind # "blank"
    THEN CHOOSE k \in DOMAIN source :
            source[k].kind # "blank" /\ \A j \in 1 .. k - 1 : source[j].kind = "blank"
    ELSE 0

Mentions(id) ==
    {m \in (FirstStatement + 1 .. Len(source)) \X {1, 2} :
        /\ m[2] \in DOMAIN References(source[m[1]])
        /\ WellFormed(source[m[1]])
        /\ References(source[m[1]])[m[2]].id = id}

Mentioned(m) == References(source[m[1]])[m[2]]

Before(m, n) == m[1] < n[1] \/ (m[1] = n[1] /\ m[2] < n[2])

Strength(m) == Patterns[Mentioned(m).form].shapeScore

(***************************************************************************)
(* In whatever order a node is mentioned, with and without a label, bare   *)
(* and in brackets, it keeps the first label it was given and the first of *)
(* the shapes its strongest form gives it.                                 *)
(***************************************************************************)
FirstLabelStrongestShape ==
    headerSeen => \A i \in DOMAIN found :
        LET node == found[i]
            named == {m \in Mentions(node.id) : Mentioned(m).label # ""}
            strongest == {m \in Mentions(node.id) :
                            \A n \in Mentions(node.id) : Strength(n) <= Strength(m)}
        IN  /\ IF named = {} THEN node.label = node.id
               ELSE \E m \in named : /\ \A n \in named : ~ Before(n, m)
                                     /\ node.label = Mentioned(m).label
            /\ \E m \in strongest : /\ \A n \in strongest : ~ Before(n, m)
                                    /\ node.shape = Patterns[Mentioned(m).form].shape

(***************************************************************************)
(* No label is dropped in silence, and no warning cries wolf: a line is    *)
(* warned about exactly when it gives a node a label other than the one    *)
(* the node keeps.                                                         *)
(***************************************************************************)
DroppedLabelsReported ==
    headerSeen => \A i \in DOMAIN found, line \in DOMAIN source :
        [code |-> "conflicting_node_label", line |-> line, node |-> found[i].id] \in warnings
            <=> \E m \in Mentions(found[i].id) :
                    /\ m[1] = line
                    /\ Mentioned(m).label \notin {"", found[i].label}
=============================================================================
