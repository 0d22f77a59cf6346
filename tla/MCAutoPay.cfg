CONSTANTS
    Orgs = {buyer, seller}
    Buyer = buyer
    Seller = seller
    NoOrg = none
    Referrer <- MCReferrer
    ActiveReferrals <- MCActive
    Transfers = {t1}
    Callers = {h1}
    Amounts = {100}
    OtherAmounts = {100}
    InitialCredit = 100
    MaxOther = 0
    Price = 100
    Overages = {0}
    MaxSends = 1
SPECIFICATION TaskSpec
INVARIANT AutoPayAccepted
CHECK_DEADLOCK FALSE
