CONSTANTS
    c1 = c1
    c2 = c2
    c3 = c3
    s1 = s1
    s2 = s2
    Calls <- MCCalls
    Sweeps = {k1, k2}
    SessionOf <- MCSessionOf
    MaxFaults = 4
SPECIFICATION FairSpec
INVARIANTS
    TypeOK
    BilledOnce
    RecordHeld
PROPERTY LettersDrain
CHECK_DEADLOCK FALSE
