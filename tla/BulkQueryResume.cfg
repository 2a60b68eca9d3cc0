SPECIFICATION FairSpec
CONSTANTS
    Jobs = {j1, j2}
    Datasets <- StableData
    HasOrderBy = FALSE
    SortKey <- TiedKeys
    PartRecords = 2
    BulkWorkers = 1
    MaxCrashes = 1
INVARIANT ExactlyOnce
PROPERTIES JobLifecycle EveryJobSettles
CHECK_DEADLOCK FALSE
