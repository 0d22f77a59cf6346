CONSTANTS
    buyer = buyer
    seller = seller
    agency = agency
    Orgs = {buyer, seller, agency}
    NoOrg = none
    Referrer <- MCReferrer
    ActiveReferrals <- MCActive
    Transfers = {t1}
    Callers = {c1, c2}
    Amounts = {50, 100}
    OtherAmounts = {100}
    InitialCredit = 100
    MaxOther = 2
SYMMETRY Symmetry
SPECIFICATION Spec
INVARIANTS
    TypeOK
    NoOverdraft
    OnlyStaleRefundsLeak
    SerialRefundsBounded
    PayoutWithinFee
CHECK_DEADLOCK FALSE
