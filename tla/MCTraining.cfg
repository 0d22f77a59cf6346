CONSTANTS
    Jobs = {j1}
    Steps = {s1, s2}
    Scores = {1, 2}
    MaxIterations = 2
    MaxPosts = 2
    MaxClaims = 5
    MaxCrashes = 1
SYMMETRY Symmetry
SPECIFICATION Spec
INVARIANTS
    TypeOK
    BestIsBest
    AtMostOneActive
    CancelIsFinal
    IterationsBounded
CHECK_DEADLOCK FALSE
