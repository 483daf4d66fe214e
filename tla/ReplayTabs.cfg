SPECIFICATION ReplaySpec
CONSTANTS
    Malformed = Malformed
    Absent = Absent
    ItemsPerTabMax = 2
    EdgesPerTabMax = 1
    Snapshots <- MCSnapshots
    Mutations <- MCMutations
    MaxReceipts = 4
INVARIANTS
    StopsAreExplained
    EdgesDangleOnlyAfterClear
    DryRunPredictsApply
CHECK_DEADLOCK FALSE
