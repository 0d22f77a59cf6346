CONSTANTS
    Clients = {c1, c2}
    Runs = {r1, r2}
    NoRun = none
    MaxOpens = 1
    MaxRestarts = 1
    MaxFailures = 1
SYMMETRY Symmetry
SPECIFICATION Spec
INVARIANTS
    TypeOK
    OneRunUnlessClosed
    GuardIsFreed
    AnswerRecordedOnce
    AnswerKept
CHECK_DEADLOCK FALSE
