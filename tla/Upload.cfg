CONSTANTS
    p1 = p1
    p2 = p2
    Puts = {p1, p2}
    Size = 2
    Limits = {0, 1}
    MaxBreaks = 1
    MaxRestarts = 1
    WriteMayFail = TRUE
    None = None
SPECIFICATION Spec
SYMMETRY PutSymmetry
CONSTRAINT OneRestore
INVARIANT UploadIsFaithful
PROPERTY GrowthWithinLimit
CHECK_DEADLOCK FALSE
