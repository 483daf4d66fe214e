SPECIFICATION ImportSpec
CONSTANTS
    Absent = Absent
    Junk = Junk
    GRAPH_MAX_NODES = 4
    GRAPH_MAX_EDGES = 6
    Requests <- AllRequests
    Lines <- SomeLines
    MaxLines = 4
    CallOptions <- Calls
INVARIANTS LayersFollowEdges CyclesComeLast NoOverlap ImportedWhole ItemsSurviveReload
    FirstLabelStrongestShape DroppedLabelsReported
PROPERTY LayoutEnds
CHECK_DEADLOCK FALSE
