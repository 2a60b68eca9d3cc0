SPECIFICATION Spec
CONSTANTS
    Jobs = {j1}
    Datasets <- GrowingData
    HasOrderBy = FALSE
    SortKey <- TiedKeys
    PartRecords = 2
    BulkWorkers = 1
    MaxCrashes = 1
INVARIANT ExactlyOnce
CHECK_DEADLOCK FALSE
