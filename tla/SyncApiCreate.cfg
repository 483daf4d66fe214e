SPECIFICATION ApiSpec
CONSTANTS
    NoDocument = NoDocument
    NoVersion = NoVersion
    NoReceipt = NoReceipt
    NoObservation = NoObservation
    NoApplication = NoApplication
    Malformed = Malformed
    Absent = Absent
    Operators = {op1}
    Clients = {c1}
    MaxLimit = 1
    Bodies <- Snapshots
    Decodable <- Snapshots
    DuplicateIds = {}
    Ops = {"CreateNode"}
    DryRun <- MCDryRun
    Authoritative <- MCAuthoritative
    NumMutations = 2
    MaxVersion = 3
    MaxTime = 0
    WriteDelay = 0
    MaxObservations = 1
    ObservationRetention = 1
    ReceiptRetention = 1
    RetainedObservationCount = 1
    RetainedReceiptCount = 1
PROPERTIES
    VersionRequiredToReplace
