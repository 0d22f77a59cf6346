---------------------------- MODULE CreditLedger ----------------------------
(***************************************************************************)
(* The credit ledger of the control plane, logic/credits.ts.               *)
(*                                                                         *)
(* An HTTP handler or a queue consumer that calls addCredits,              *)
(* deductCredits or refundCredits is a request.  The functions use no      *)
(* transaction: each SQL statement commits by itself, so each statement is *)
(* an action here, and a request can die between two of them.  Amounts are *)
(* whole numbers of micro-dollars (numeric(20,6)).                         *)
(*                                                                         *)
(* The table org_credit_balance is the three functions balance, purchased  *)
(* and consumed; credit_transactions is kept as what the code asks of it:  *)
(* the sums of its amounts by type, the spend in the last 24 hours, and    *)
(* the number of burn rows of each session.                                *)
(***************************************************************************)
EXTENDS Integers, FiniteSetsExt

CONSTANTS
    Requests,    \* concurrent callers of the ledger
    Orgs,
    Sessions,    \* session ids long enough to be used for idempotency
    NoSession,   \* an empty (or shorter than four characters) session id
    Amounts,     \* costs, purchases and refunds
    DailyLimit,  \* org_settings.daily_budget_usd, or its default
    InitialCredit, \* what each org has purchased before the behaviour
    MaxCalls     \* bound on the number of calls in a behaviour

ASSUME LedgerAssumption ==
    /\ NoSession \notin Sessions
    /\ IsFiniteSet(Requests) /\ Requests # {}
    /\ Amounts \subseteq Nat \ {0} /\ IsFiniteSet(Amounts) /\ Amounts # {}
    /\ DailyLimit \in Nat
    /\ InitialCredit \in Nat
    /\ MaxCalls \in Nat

VARIABLES
    balance,     \* org_credit_balance.balance_usd
    purchased,   \* org_credit_balance.lifetime_purchased_usd
    consumed,    \* org_credit_balance.lifetime_consumed_usd
    audit,       \* sums of credit_transactions.amount_usd, by type
    daySpend,    \* sum of the burn rows of the last 24 hours
    burnRows,    \* number of burn rows of each session
    req,         \* local state of each request
    calls,       \* calls begun (bounded by MaxCalls)
    unaudited,   \* history: mutations whose request died before its audit row
    charges,     \* history: balance deductions made for each session
    blind        \* history: orgs for which some failed read was defaulted

table == <<balance, purchased, consumed>>
log == <<audit, daySpend, burnRows>>
history == <<unaudited, charges, blind>>
vars == <<table, log, req, calls, history>>

Kinds == {"purchase", "burn", "refund"}
Sums == [Kinds -> Int]
NoSums == [k \in Kinds |-> 0]

(* known records whether the session already had a burn row when the call  *)
(* began.                                                                  *)
Idle == [pc |-> "idle"]
Working == [pc: {"dedup", "update", "audit"}, kind: Kinds, org: Orgs,
            amt: Amounts, session: Sessions \cup {NoSession}, known: BOOLEAN]

TypeOK ==
    /\ balance \in [Orgs -> Int]
    /\ purchased \in [Orgs -> Int]
    /\ consumed \in [Orgs -> Int]
    /\ audit \in [Orgs -> Sums]
    /\ daySpend \in [Orgs -> Nat]
    /\ burnRows \in [Orgs -> [Sessions -> Nat]]
    /\ req \in [Requests -> {Idle} \cup Working]
    /\ calls \in 0..MaxCalls
    /\ unaudited \in [Orgs -> Sums]
    /\ charges \in [Orgs -> [Sessions -> Nat]]
    /\ blind \subseteq Orgs

Init ==
    /\ balance = [o \in Orgs |-> InitialCredit]
    /\ purchased = [o \in Orgs |-> InitialCredit]
    /\ consumed = [o \in Orgs |-> 0]
    /\ audit = [o \in Orgs |-> [NoSums EXCEPT !["purchase"] = InitialCredit]]
    /\ daySpend = [o \in Orgs |-> 0]
    /\ burnRows = [o \in Orgs |-> [s \in Sessions |-> 0]]
    /\ req = [r \in Requests |-> Idle]
    /\ calls = 0
    /\ unaudited = [o \in Orgs |-> NoSums]
    /\ charges = [o \in Orgs |-> [s \in Sessions |-> 0]]
    /\ blind = {}

-----------------------------------------------------------------------------
Begin(r) ==
    /\ req[r] = Idle
    /\ calls < MaxCalls
    /\ calls' = calls + 1

(* The conditions of the code, each preceded by the form that a plausible  *)
(* mistake would give it.                                                  *)
CoversAlways(o, a) == TRUE
Covers(o, a) == balance[o] >= a

OverCapLate(o, a) == daySpend[o] > DailyLimit
OverCap(o, a) == daySpend[o] + a > DailyLimit

HasBurnRowNever(o, s) == FALSE
HasBurnRow(o, s) == burnRows[o][s] > 0

SpendOfRowSigned(a) == -a
SpendOfRow(a) == a

Enter(r, pc, kind, o, a, s) ==
    req' = [req EXCEPT ![r] = [pc |-> pc, kind |-> kind, org |-> o, amt |-> a,
                               session |-> s,
                               known |-> s \in Sessions /\ burnRows[o][s] > 0]]

Return(r) == req' = [req EXCEPT ![r] = Idle]

(* addCredits: the upsert.  The SELECT that follows only fills the         *)
(* balance_after_usd column and is part of the audit step.                 *)
AddUpsert(r, o, a) ==
    /\ Begin(r)
    /\ balance' = [balance EXCEPT ![o] = @ + a]
    /\ purchased' = [purchased EXCEPT ![o] = @ + a]
    /\ Enter(r, "audit", "purchase", o, a, NoSession)
    /\ UNCHANGED <<consumed, log, history>>

RefundCountedAsPurchase(r, o, a) ==
    /\ Begin(r)
    /\ balance' = [balance EXCEPT ![o] = @ + a]
    /\ purchased' = [purchased EXCEPT ![o] = @ + a]
    /\ Enter(r, "audit", "refund", o, a, NoSession)
    /\ UNCHANGED <<consumed, log, history>>

(* refundCredits: the same upsert, without the lifetime counter.           *)
RefundUpsert(r, o, a) ==
    /\ Begin(r)
    /\ balance' = [balance EXCEPT ![o] = @ + a]
    /\ Enter(r, "audit", "refund", o, a, NoSession)
    /\ UNCHANGED <<purchased, consumed, log, history>>

(* deductCredits: the daily cap.  A call over the cap returns              *)
(* { success: false }.  A spend that cannot be read counts as zero, and    *)
(* settings that cannot be parsed skip the check: a call over the cap may  *)
(* go on.  For settings that cannot be read the cap is $50, which may let  *)
(* a call over its org's own cap go on, or refuse one below it.            *)
DailyCap(r, o, a, s) ==
    /\ Begin(r)
    /\ LET pass == Enter(r, IF s = NoSession THEN "update" ELSE "dedup",
                         "burn", o, a, s)
       IN \/ ~OverCap(o, a) /\ pass /\ UNCHANGED blind
          \/ UNCHANGED <<req, blind>>
          \/ OverCap(o, a) /\ pass /\ blind' = blind \cup {o}
    /\ UNCHANGED <<table, log, unaudited, charges>>

(* deductCredits: the idempotency check.  A row found returns              *)
(* { success: true } without a deduction; a read that fails counts as no   *)
(* row.                                                                    *)
Dedup(r) ==
    /\ req[r].pc = "dedup"
    /\ LET found == HasBurnRow(req[r].org, req[r].session)
           goOn  == req' = [req EXCEPT ![r].pc = "update"]
       IN \/ found /\ Return(r) /\ UNCHANGED blind
          \/ ~found /\ goOn /\ UNCHANGED blind
          \/ found /\ goOn /\ blind' = blind \cup {req[r].org}
    /\ UNCHANGED <<table, log, calls, unaudited, charges>>

(* deductCredits: UPDATE ... WHERE balance_usd >= amount.                  *)
DeductUpdate(r) ==
    /\ req[r].pc = "update"
    /\ LET o == req[r].org
           a == req[r].amt
           s == req[r].session
       IN \/ /\ Covers(o, a)
             /\ balance' = [balance EXCEPT ![o] = @ - a]
             /\ consumed' = [consumed EXCEPT ![o] = @ + a]
             /\ charges' = IF s = NoSession THEN charges
                           ELSE [charges EXCEPT ![o][s] = @ + 1]
             /\ req' = [req EXCEPT ![r].pc = "audit"]
          \/ /\ ~Covers(o, a)
             /\ Return(r)
             /\ UNCHANGED <<balance, consumed, charges>>
    /\ UNCHANGED <<purchased, log, calls, unaudited, blind>>

(* All three functions: the INSERT INTO credit_transactions.               *)
AuditInsert(r) ==
    /\ req[r].pc = "audit"
    /\ LET o == req[r].org
           a == req[r].amt
           s == req[r].session
           k == req[r].kind
       IN /\ audit' = [audit EXCEPT ![o][k] = @ + a]
          /\ daySpend' = IF k = "burn" THEN [daySpend EXCEPT ![o] = @ + SpendOfRow(a)]
                         ELSE daySpend
          /\ burnRows' = IF s = NoSession THEN burnRows
                         ELSE [burnRows EXCEPT ![o][s] = @ + 1]
    /\ Return(r)
    /\ UNCHANGED <<table, calls, history>>

(* A statement throws, or the worker running the request is evicted: the   *)
(* statements that already committed stay.                                 *)
Die(r) ==
    /\ req[r] # Idle
    /\ unaudited' = IF req[r].pc = "audit"
                    THEN [unaudited EXCEPT ![req[r].org][req[r].kind] =
                                              @ + req[r].amt]
                    ELSE unaudited
    /\ Return(r)
    /\ UNCHANGED <<table, log, calls, charges, blind>>

(* Burn rows grow older than 24 hours.                                     *)
WindowSlides(o) ==
    /\ daySpend[o] > 0
    /\ \E d \in 0..(daySpend[o] - 1) :
          daySpend' = [daySpend EXCEPT ![o] = d]
    /\ UNCHANGED <<table, audit, burnRows, req, calls, history>>

Next ==
    \/ \E r \in Requests, o \in Orgs, a \in Amounts :
          \/ AddUpsert(r, o, a)
          \/ RefundUpsert(r, o, a)
          \/ \E s \in Sessions \cup {NoSession} : DailyCap(r, o, a, s)
    \/ \E r \in Requests :
          Dedup(r) \/ DeductUpdate(r) \/ AuditInsert(r) \/ Die(r)
    \/ \E o \in Orgs : WindowSlides(o)

Spec == Init /\ [][Next]_vars

-----------------------------------------------------------------------------
(* The requests of org o that have passed the daily cap, and those of them *)
(* (of one kind) that have changed the balance but not written their row.  *)
Spending(o) == {r \in Requests : req[r] # Idle /\ req[r].org = o
                                               /\ req[r].kind = "burn"}
Unwritten(o, k) == {r \in Requests : req[r].pc = "audit" /\ req[r].org = o
                                                         /\ req[r].kind = k}
AmountOf(rs) == MapThenSumSet(LAMBDA r : req[r].amt, rs)
Booked(o, k) == audit[o][k] + AmountOf(Unwritten(o, k)) + unaudited[o][k]

(* No interleaving of requests takes a balance below zero: the WHERE of    *)
(* the UPDATE, not the checks made before it, is what prevents overdraft.  *)
NoOverdraft == \A o \in Orgs : balance[o] >= 0

(* The ledger implements the account of Account.tla, where each call is    *)
(* one step: taken together with the rows that requests still owe the log, *)
(* or died owing it, every amount in the balance and in the lifetime       *)
(* counters is booked once and under its kind, and no statement in between *)
(* shows.                                                                  *)
ImplementedAccount == INSTANCE Account
    WITH books <- [o \in Orgs |-> [k \in Kinds |-> Booked(o, k)]]

AtomicLedger == ImplementedAccount!Spec

(* What the idempotency check of deductCredits does guarantee: a call that *)
(* begins when its session already has a burn row never deducts, unless    *)
(* the check's own read failed.                                            *)
RetryNotCharged ==
    \A r \in Requests :
        req[r].pc \in {"update", "audit"} /\ req[r].known
            => req[r].org \in blind

(* The daily cap is checked against rows written long after it: concurrent *)
(* calls overshoot it, but each by no more than its own amount.            *)
CapOvershootBounded ==
    \A o \in Orgs \ blind :
        daySpend[o] <= DailyLimit + (Cardinality(Requests) - 1) * Max(Amounts)

(* The idempotency check reads rows written after the deduction: calls for *)
(* one session that run beside each other are all charged, but never more  *)
(* of them than run at once, unless a read failed or a request died before *)
(* it wrote its row.                                                       *)
DuplicatesBounded ==
    \A o \in Orgs \ blind, s \in Sessions :
        unaudited[o]["burn"] = 0 => charges[o][s] <= Cardinality(Requests)
=============================================================================
