SPECIFICATION Spec
CONSTANTS
    a = a
    b = b
    Jobs = {j1, j2}
    Ids = {a, b}
    Blank = Blank
    Malformed = Malformed
    Wide = Wide
    Files <- RacingFile
    Seed = {}
    BatchRecords = 2
    BulkWorkers = 2
    MaxCrashes = 1
INVARIANTS OutcomesMatchTable OutcomesJustified CompleteIsWhole
CHECK_DEADLOCK FALSE
