--------------------------- MODULE AgentPayments ---------------------------
(***************************************************************************)
(* Agent-to-agent payments: transferCredits, the referral payouts it makes *)
(* after its transaction, and refundTransfer (logic/agent-payments.ts,     *)
(* logic/referrals.ts).                                                    *)
(*                                                                         *)
(* A transfer is one database transaction followed by single statements; a *)
(* refund is a check followed by one transaction.  Postgres runs at READ   *)
(* COMMITTED, so a transaction whose guarded UPDATE matched no row holds   *)
(* no lock, and other requests commit between its next statements; from    *)
(* its first row write on it is one step.  Purchases and run costs change  *)
(* the same balances meanwhile.                                            *)
(***************************************************************************)
EXTENDS FeeSplit, FiniteSetsExt

CONSTANTS
    Orgs,
    NoOrg,          \* the referrer of an org that nobody referred
    Referrer,       \* the active row of table referrals of each org
    ActiveReferrals,\* how many active referrals each org has made
    Transfers,      \* transfer ids, a fresh one for each transferCredits
    Callers,        \* concurrent callers of refundTransfer
    Amounts,        \* amounts transferred or refunded
    OtherAmounts,   \* amounts bought or spent outside these functions
    InitialCredit,
    MaxOther        \* bound on the purchases and spends of a behaviour

ASSUME PaymentsAssumption ==
    /\ IsFiniteSet(Orgs)
    /\ NoOrg \notin Orgs
    /\ Referrer \in [Orgs -> Orgs \cup {NoOrg}]
    /\ \A o \in Orgs : Referrer[o] # o
    /\ ActiveReferrals \in [Orgs -> Nat]
    /\ Amounts \subseteq Nat \ {0}
    /\ OtherAmounts \subseteq Nat \ {0}
    /\ InitialCredit \in Nat
    /\ MaxOther \in Nat

VARIABLES
    balance,    \* org_credit_balance.balance_usd
    xfer,       \* each transfer: its rows and where transferCredits is
    call,       \* each call of refundTransfer
    refundRows, \* rows of credit_transactions with reference refund-<id>
    supply,     \* history: all credit bought and not spent
    refunded,   \* history: what each transfer's refunds gave back
    raced,      \* history: transfers with two refunds under way at once
    stale,      \* history: transfers refunded from an outdated balance
    others      \* purchases and spends so far (bounded by MaxOther)

history == <<supply, refunded, raced, stale, others>>
vars == <<balance, xfer, call, refundRows, history>>

(* amt is the amount in a transfer's audit rows, paid what referrers were  *)
(* really credited, known the total that transferCredits was told, kept    *)
(* the amount of the platform's row.                                       *)
Unused == [pc |-> "unused"]
Tail == {"refer", "l1row", "l2", "l2row", "fee"}
Committed == [pc: Tail \cup {"done", "dead"}, from: Orgs, to: Orgs,
              amt: Amounts, paid: Nat, known: Nat, kept: Int]

Idle == [pc |-> "idle"]
Refunding == [pc: {"begin", "peek", "drain"}, t: Transfers, to: Orgs,
              amt: Amounts, available: Nat]

TypeOK ==
    /\ balance \in [Orgs -> Int]
    /\ xfer \in [Transfers -> {Unused} \cup Committed]
    /\ call \in [Callers -> {Idle} \cup Refunding]
    /\ refundRows \in [Transfers -> Nat]
    /\ supply \in Int
    /\ refunded \in [Transfers -> Nat]
    /\ raced \subseteq Transfers
    /\ stale \subseteq Transfers
    /\ others \in 0..MaxOther

Init ==
    /\ balance = [o \in Orgs |-> InitialCredit]
    /\ xfer = [t \in Transfers |-> Unused]
    /\ call = [c \in Callers |-> Idle]
    /\ refundRows = [t \in Transfers |-> 0]
    /\ supply = Cardinality(Orgs) * InitialCredit
    /\ refunded = [t \in Transfers |-> 0]
    /\ raced = {}
    /\ stale = {}
    /\ others = 0

-----------------------------------------------------------------------------
(* Each condition and each amount of the code that a plausible mistake     *)
(* would change, preceded by the form the mistake would give it.           *)
CoversAlways(o, a) == TRUE
Covers(o, a) == balance[o] >= a

ReceivedGross(a) == a
Received(a) == ReceiverAmount(a)

(* What both audit rows of a transfer say: the amount before the fee.      *)
RecordedNet(a) == ReceiverAmount(a)
Recorded(a) == a

RefundExistsNever(t) == FALSE
RefundExists(t) == refundRows[t] > 0

L1OfPlatformRate(t) == PlatformFee(xfer[t].amt)
L1Of(t) == L1Payout(xfer[t].amt, ActiveReferrals[Referrer[xfer[t].to]])
L2Of(t) == L2Payout(xfer[t].amt, ActiveReferrals[Referrer[xfer[t].to]])
L1Org(t) == Referrer[xfer[t].to]
L2Org(t) == Referrer[L1Org(t)]
HasL1(t) == L1Org(t) # NoOrg /\ L1Of(t) > 0
HasL2(t) == L2Org(t) # NoOrg /\ L2Of(t) > 0

-----------------------------------------------------------------------------
(* addCredits and deductCredits of logic/credits.ts, as far as they change *)
(* a balance.                                                              *)
Purchase(o, a) ==
    /\ others < MaxOther
    /\ others' = others + 1
    /\ balance' = [balance EXCEPT ![o] = @ + a]
    /\ supply' = supply + a
    /\ UNCHANGED <<xfer, call, refundRows, refunded, raced, stale>>

Spend(o, a) ==
    /\ others < MaxOther
    /\ others' = others + 1
    /\ balance[o] >= a
    /\ balance' = [balance EXCEPT ![o] = @ - a]
    /\ supply' = supply - a
    /\ UNCHANGED <<xfer, call, refundRows, refunded, raced, stale>>

-----------------------------------------------------------------------------
(* transferCredits: the transaction that debits the sender, credits the    *)
(* receiver and writes both audit rows.  Without cover it is rolled back.  *)
Transfer(t, from, to, a) ==
    /\ xfer[t] = Unused
    /\ from # to
    /\ Covers(from, a)
    /\ balance' = [balance EXCEPT ![from] = @ - a, ![to] = @ + Received(a)]
    /\ xfer' = [xfer EXCEPT ![t] =
                  [pc |-> "refer", from |-> from, to |-> to, amt |-> Recorded(a),
                   paid |-> 0, known |-> 0, kept |-> 0]]
    /\ UNCHANGED <<call, refundRows, history>>

At(t, pc) == xfer[t].pc = pc

CreditReferrer(t, o, payout, pc) ==
    /\ balance' = [balance EXCEPT ![o] = @ + payout]
    /\ xfer' = [xfer EXCEPT ![t].paid = @ + payout, ![t].pc = pc]
    /\ UNCHANGED <<call, refundRows, history>>

GoToFee(t, known) ==
    /\ xfer' = [xfer EXCEPT ![t].known = known, ![t].pc = "fee"]
    /\ UNCHANGED <<balance, call, refundRows, history>>

(* distributeReferralEarnings: credit the receiver's referrer.  The check  *)
(* for earlier earnings never finds any, since the transfer id is new.     *)
PayL1(t) ==
    /\ At(t, "refer")
    /\ \/ HasL1(t) /\ CreditReferrer(t, L1Org(t), L1Of(t), "l1row")
       \/ ~HasL1(t) /\ GoToFee(t, 0)

(* The row of referral_earnings for a payout.                              *)
EarningRow(t) ==
    \/ /\ At(t, "l1row")
       /\ xfer' = [xfer EXCEPT ![t].pc = "l2"]
       /\ UNCHANGED <<balance, call, refundRows, history>>
    \/ /\ At(t, "l2row")
       /\ GoToFee(t, xfer[t].paid)

(* Credit the referrer's referrer.                                         *)
PayL2(t) ==
    /\ At(t, "l2")
    /\ \/ HasL2(t) /\ CreditReferrer(t, L2Org(t), L2Of(t), "l2row")
       \/ ~HasL2(t) /\ GoToFee(t, xfer[t].paid)

(* A statement of the distribution throws: transferCredits swallows it and *)
(* takes the payout to be zero.                                            *)
ReferralThrows(t) ==
    /\ xfer[t].pc \in Tail \ {"fee"}
    /\ GoToFee(t, 0)

(* The platform's row; its error is ignored.                               *)
PlatformRow(t) ==
    /\ At(t, "fee")
    /\ LET retained == PlatformFee(xfer[t].amt) - xfer[t].known
       IN \E kept \in {0, IF retained > 0 THEN retained ELSE 0} :
             xfer' = [xfer EXCEPT ![t].kept = kept, ![t].pc = "done"]
    /\ UNCHANGED <<balance, call, refundRows, history>>

(* The worker running transferCredits is evicted.                          *)
TransferDies(t) ==
    /\ xfer[t].pc \in Tail
    /\ xfer' = [xfer EXCEPT ![t].pc = "dead"]
    /\ UNCHANGED <<balance, call, refundRows, history>>

-----------------------------------------------------------------------------
RefundReturn(c) == call' = [call EXCEPT ![c] = Idle]
UnderRefund(t) == \E c \in Callers : call[c] # Idle /\ call[c].t = t

(* refundTransfer: the check for an earlier refund, outside the            *)
(* transaction.  A call that finds one returns and changes nothing.  The   *)
(* caller names the org to take the amount from: the receiver, or the      *)
(* sender itself where it could not tell whose the agent is (A2ATask).     *)
RefundCheck(c, t, to, a) ==
    /\ call[c] = Idle
    /\ xfer[t] # Unused
    /\ to \in {xfer[t].from, xfer[t].to}
    /\ a <= xfer[t].amt
    /\ ~RefundExists(t)
    /\ call' = [call EXCEPT ![c] = [pc |-> "begin", t |-> t, to |-> to, amt |-> a,
                                    available |-> 0]]
    /\ raced' = IF UnderRefund(t) THEN raced \cup {t} ELSE raced
    /\ UNCHANGED <<balance, xfer, refundRows, supply, refunded, stale, others>>

(* What a refund of a really gives back: nothing to a sender that pays     *)
(* itself.                                                                 *)
GivenBack(c, a) == IF call[c].to = xfer[call[c].t].from THEN 0 ELSE a

MoveBack(c, a) ==
    LET t == call[c].t
    IN /\ refundRows' = [refundRows EXCEPT ![t] = @ + 1]
       /\ refunded' = [refunded EXCEPT ![t] = @ + GivenBack(c, a)]
       /\ RefundReturn(c)

(* The receiver covers the refund: both balances and both rows at once.    *)
RefundFull(c) ==
    /\ call[c].pc = "begin"
    /\ LET to == call[c].to
           from == xfer[call[c].t].from
           a == call[c].amt
       IN /\ Covers(to, a)
          /\ balance' = [[balance EXCEPT ![to] = @ - a] EXCEPT ![from] = @ + a]
          /\ MoveBack(c, a)
    /\ UNCHANGED <<xfer, supply, raced, stale, others>>

(* The receiver does not: the UPDATE matches no row and locks nothing.     *)
RefundMiss(c) ==
    /\ call[c].pc = "begin"
    /\ ~Covers(call[c].to, call[c].amt)
    /\ call' = [call EXCEPT ![c].pc = "peek"]
    /\ UNCHANGED <<balance, xfer, refundRows, history>>

(* SELECT what the receiver has; with nothing there the call returns.      *)
RefundPeek(c) ==
    /\ call[c].pc = "peek"
    /\ LET t == call[c].t
           has == balance[call[c].to]
       IN \/ /\ has <= 0
             /\ RefundReturn(c)
             /\ UNCHANGED stale
          \/ /\ has > 0
             /\ call' = [call EXCEPT ![c].pc = "drain", ![c].available = has]
             /\ stale' = IF has >= call[c].amt THEN stale \cup {t} ELSE stale
    /\ UNCHANGED <<balance, xfer, refundRows, supply, refunded, raced, others>>

(* SET balance_usd = 0, the sender's credit, the row and the commit.       *)
RefundDrain(c) ==
    /\ call[c].pc = "drain"
    /\ LET t == call[c].t
           to == call[c].to
           available == call[c].available
       IN /\ balance' = [[balance EXCEPT ![to] = 0] EXCEPT ![xfer[t].from] = @ + available]
          /\ stale' = IF balance[to] # available THEN stale \cup {t} ELSE stale
          /\ MoveBack(c, available)
    /\ UNCHANGED <<xfer, supply, raced, others>>

(* The call throws or its worker is evicted: the transaction rolls back.   *)
RefundDies(c) ==
    /\ call[c] # Idle
    /\ RefundReturn(c)
    /\ UNCHANGED <<balance, xfer, refundRows, history>>

RefundStep(c) ==
    RefundFull(c) \/ RefundMiss(c) \/ RefundPeek(c) \/ RefundDrain(c)

TransferStep(t) ==
    PayL1(t) \/ EarningRow(t) \/ PayL2(t) \/ ReferralThrows(t) \/ PlatformRow(t)

Next ==
    \/ \E o \in Orgs, a \in OtherAmounts : Purchase(o, a) \/ Spend(o, a)
    \/ \E t \in Transfers, from, to \in Orgs, a \in Amounts :
          Transfer(t, from, to, a)
    \/ \E t \in Transfers : TransferStep(t) \/ TransferDies(t)
    \/ \E c \in Callers, t \in Transfers, to \in Orgs, a \in Amounts :
          RefundCheck(c, t, to, a)
    \/ \E c \in Callers : RefundStep(c) \/ RefundDies(c)

Spec == Init /\ [][Next]_vars

-----------------------------------------------------------------------------
Made == {t \in Transfers : xfer[t] # Unused}
SumOver(S, f(_)) == MapThenSumSet(f, S)
Held == SumOver(Orgs, LAMBDA o : balance[o])
Retained == SumOver(Made, LAMBDA t : PlatformFee(xfer[t].amt) - xfer[t].paid)

(* Neither transfers nor refunds nor payouts overdraw an org, whatever     *)
(* runs between their statements.                                          *)
NoOverdraft == \A o \in Orgs : balance[o] >= 0

(* Credit is neither made nor lost: what the orgs hold and what the        *)
(* platform really kept of its fees is the credit bought and not spent.    *)
MoneyConserved == Held + Retained = supply

(* The same, unless a partial refund wrote a balance over one that had     *)
(* changed since it was read: that is the only leak.                       *)
OnlyStaleRefundsLeak == stale = {} => MoneyConserved

(* What the idempotency check of refundTransfer does guarantee: refunds of *)
(* a transfer that do not overlap, and that act on current balances, give  *)
(* back no more than was paid, over any number of calls and crashes.       *)
SerialRefundsBounded ==
    \A t \in Made \ (raced \cup stale) : refunded[t] <= xfer[t].amt

(* The referrers of a receiver never get more than the platform's fee,     *)
(* whichever payouts fail; and payouts and the platform's row share that   *)
(* fee, unless the distribution threw after a payout, so that known is not *)
(* what was paid: then the platform books the whole fee besides.           *)
PayoutWithinFee ==
    \A t \in Made :
        LET x == xfer[t]
            fee == PlatformFee(x.amt)
        IN /\ x.paid <= fee /\ x.kept <= fee
           /\ x.known = x.paid => x.kept + x.paid <= fee
=============================================================================
