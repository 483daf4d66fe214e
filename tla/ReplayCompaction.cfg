SPECIFICATION Spec
CONSTANTS
    NoDocument = NoDocument
    NoVersion = NoVersion
    NoReceipt = NoReceipt
    NoObservation = NoObservation
    NoApplication = NoApplication
    Malformed = Malformed
    Absent = Absent
    Operators = {op1}
    Bodies <- OneSnapshotOrMalformed
    Decodable <- OneSnapshot
    DuplicateIds = {}
    Ops = {"CreateNode"}
    DryRun <- MCDryRun
    Authoritative <- MCAuthoritative
    NumMutations = 2
    MaxVersion = 3
    MaxTime = 2
    WriteDelay = 1
    MaxObservations = 2
    ObservationRetention = 1
    ReceiptRetention = 1
    RetainedObservationCount = 1
    RetainedReceiptCount = 1
INVARIANTS
    OneApply
    RowsKeepTheirReferences
    ApplicationsMatchObservation
PROPERTIES
    CompactKeepsApplicable
    AcknowledgedReceiptsKept
