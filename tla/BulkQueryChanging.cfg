SPECIFICATION Spec
CONSTANTS
    Jobs = {j1}
    Datasets <- ChangingData
    HasOrderBy = TRUE
    SortKey <- TiedKeys
    PartRecords = 2
    BulkWorkers = 1
    MaxCrashes = 2
INVARIANTS TypeOK ResumeNeverRefused PartsTile
PROPERTY ResultsFrozen
CHECK_DEADLOCK FALSE
