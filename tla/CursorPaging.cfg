SPECIFICATION FairSpec
CONSTANTS
    r1 = r1
    r2 = r2
    r3 = r3
    r4 = r4
    r5 = r5
    Locators = {l1, l2}
    Ids = {r1, r2, r3, r4, r5}
    LastSnapshot = 1
    Results <- ShrinkingResults
    BatchSize = 2
    MaxRetries = 2
    MaxCrashes = 2
INVARIANTS ExtractExact OpenCursorReadable
PROPERTIES StartupLeavesNoOrphan EveryExtractEnds
CHECK_DEADLOCK FALSE
