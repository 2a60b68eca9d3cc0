SPECIFICATION Spec
CONSTANTS
    a = a
    b = b
    Ids = {a, b}
    SeedIds = {a}
    LastDate = 2
    Changed <- TwoDates
    Sessions = {s1, s2}
    FirstWhileListing = TRUE
INVARIANT ReadsOneState
CHECK_DEADLOCK FALSE
