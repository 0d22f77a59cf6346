CONSTANTS
    Tasks = {t1, t2, t3}
    Retries = 3
    MaxFaults = 4
SPECIFICATION Spec
INVARIANTS
    TypeOK
    TaskRunOnce
    WithdrawnNotRun
    CountsHonest
CHECK_DEADLOCK FALSE
