CONSTANTS
    Orgs = {buyer, seller}
    Buyer = buyer
    Seller = seller
    NoOrg = none
    Referrer <- MCReferrer
    ActiveReferrals <- MCActive
    Transfers = {t1, t2}
    Callers = {h1, h2}
    Amounts = {90, 100}
    OtherAmounts = {100}
    InitialCredit = 100
    MaxOther = 1
    Price = 100
    Overages = {0, 100}
    MaxSends = 2
SYMMETRY Symmetry
SPECIFICATION TaskSpec
INVARIANTS
    TaskTypeOK
    PaymentsAccounted
    ServedKeepsPrice
    FailedIsRefunded
CHECK_DEADLOCK FALSE
