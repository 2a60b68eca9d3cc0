SPECIFICATION FairSpec
CONSTANTS
    a = a
    b = b
    Jobs = {j1}
    Ids = {a, b}
    Blank = Blank
    Malformed = Malformed
    Wide = Wide
    Files <- MixedFiles
    Seed = {b}
    BatchRecords = 2
    BulkWorkers = 1
    MaxCrashes = 2
INVARIANTS TypeOK
PROPERTIES OutcomesFrozen JobLifecycle EveryJobSettles
CHECK_DEADLOCK FALSE
