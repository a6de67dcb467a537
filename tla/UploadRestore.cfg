CONSTANTS
    p1 = p1
    p2 = p2
    Puts = {p1, p2}
    Size = 2
    Limits = {0}
    MaxBreaks = 0
    MaxRestarts = 1
    WriteMayFail = FALSE
    None = None
SPECIFICATION Spec
SYMMETRY PutSymmetry
INVARIANT OneAttempt
CHECK_DEADLOCK FALSE
