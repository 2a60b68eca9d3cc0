SPECIFICATION Spec
CONSTANTS
    a = a
    b = b
    Ids = {a, b}
    SeedIds = {a}
    LastDate = 3
    Changed <- ThreeDates
    Sessions = {s1}
    FirstWhileListing = FALSE
INVARIANTS RowsOfItsTime SimulatorAgrees
PROPERTIES ImplementsDataset FailsOnlyIfMoved AnswersOneState
CHECK_DEADLOCK FALSE
