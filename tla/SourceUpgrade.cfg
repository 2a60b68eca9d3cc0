SPECIFICATION FairSpec
CONSTANTS
    HoursPerDay = 2
    RowKinds = {"order", "shipment", "invoice", "case"}
    Checkouts <- StagedCheckouts
    Seeds <- StagedSeeds
    SimDay = 5
    MaxRows = 2
    BatchSize = 1
    AuditRunners = {a1, a2}
    HistoryRunners = {h1, h2}
    MaxCrashes = 1
INVARIANTS AuditCheckpointTrue HistoryLinked HistoryCompleteIsWhole
PROPERTIES SchemaOfOneCheckout UpgradeCompletes
CHECK_DEADLOCK FALSE
