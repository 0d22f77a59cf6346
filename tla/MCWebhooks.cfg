CONSTANTS
    org = org
    checkout = checkout
    invoice = invoice
    call = call
    Requests = {r1, r2}
    Orgs = {org}
    Sessions = {call}
    NoSession = none
    Amounts = {1}
    DailyLimit = 2
    InitialCredit = 1
    MaxCalls = 12
    Checkouts = {checkout}
    Invoices = {invoice}
    Payer <- MCPayer
    Worth <- MCWorth
    MaxFaults = 2
SPECIFICATION FairWebhookSpec
INVARIANT EffectsBounded
PROPERTY PaidEventsCredited
CHECK_DEADLOCK FALSE
