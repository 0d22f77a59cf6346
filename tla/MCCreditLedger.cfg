CONSTANTS
    Requests = {r1, r2, r3}
    Orgs = {org}
    Sessions = {sess}
    NoSession = none
    Amounts = {1, 2}
    DailyLimit = 2
    InitialCredit = 7
    MaxCalls = 4
SYMMETRY Symmetry
SPECIFICATION Spec
INVARIANTS
    TypeOK
    NoOverdraft
    RetryNotCharged
    CapOvershootBounded
    DuplicatesBounded
PROPERTY AtomicLedger
CHECK_DEADLOCK FALSE
