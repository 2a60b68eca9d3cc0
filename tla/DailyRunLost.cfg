SPECIFICATION Spec
CONSTANTS
    LastDay = 5
    Items <- MCItems
    Kind <- MCKind
    Parent <- MCParent
    Delay <- MCDelay
    CrmDay <- MCCrmDay
    Creates <- MCCreates
    BreachDays = {4}
    InterruptAt = {"record"}
    MaxInterrupts = 1
INVARIANT NothingLost
CHECK_DEADLOCK FALSE
