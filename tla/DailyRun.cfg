SPECIFICATION FairSpec
CONSTANTS
    LastDay = 5
    Items <- MCItems
    Kind <- MCKind
    Parent <- MCParent
    Delay <- MCDelay
    CrmDay <- MCCrmDay
    Creates <- MCCreates
    BreachDays = {4, 5}
    InterruptAt <- AllSteps
    MaxInterrupts = 2
INVARIANTS TypeOK WatermarkSound ManifestMatches EffectsOnce CasesKept PostedInTime
PROPERTIES CompletedUnchanged CatchesUp
CHECK_DEADLOCK FALSE
