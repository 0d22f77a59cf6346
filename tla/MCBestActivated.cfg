CONSTANTS
    Jobs = {j1}
    Steps = {s1, s2}
    Scores = {1, 2}
    MaxIterations = 2
    MaxPosts = 2
    MaxClaims = 5
    MaxCrashes = 1
SPECIFICATION Spec
INVARIANT BestActivated
CHECK_DEADLOCK FALSE
