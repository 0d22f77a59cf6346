------------------------------ MODULE A2ATask ------------------------------
(***************************************************************************)
(* A paid task between two agents: the SendMessage handler of              *)
(* routes/a2a.ts, with its payment gate, settlement and refund, and the    *)
(* two ways a buyer pays for it: transferCredits, behind POST              *)
(* /credits/transfer, and the automatic payment of the tool a2a-send       *)
(* (runtime/tools.ts), which repeats a transfer without its transaction.   *)
(*                                                                         *)
(* Balances, transfers and refunds are those of AgentPayments; a handler   *)
(* of a task is one of its callers of refundTransfer.                      *)
(***************************************************************************)
EXTENDS AgentPayments

CONSTANTS
    Buyer, Seller,  \* the orgs of the two agents
    Price,          \* pricing.price_per_task_usd of the seller's agent
    Overages,       \* what a settlement may find to be too much (0: nothing)
    MaxSends        \* bound on the requests that carry one receipt

ASSUME TaskAssumption ==
    /\ IsFiniteSet(Callers)
    /\ Buyer \in Orgs /\ Seller \in Orgs /\ Buyer # Seller
    /\ Price \in Amounts
    /\ Overages \subseteq {0} \cup Amounts
    /\ \A x \in Overages : x <= Price
    /\ MaxSends \in Nat

VARIABLES
    auto,       \* where the automatic payment of each transfer is
    outRow,     \* the amount in a transfer's transfer_out row (0: no row)
    inRow,      \* the amount in the seller's transfer_in row (0: no row)
    task,       \* each handler of SendMessage
    sends,      \* requests that carried each receipt (bounded by MaxSends)
    served,     \* history: tasks completed against each receipt
    due,        \* history: what the last settlement of a receipt gives back
    refused,    \* history: receipts the gate refused for their amount
    failed,     \* history: receipts with a handler that threw
    lapsed      \* history: receipts with a refund that did not come about

receipts == <<auto, outRow, inRow>>
story == <<sends, served, due, refused, failed, lapsed>>
taskVars == <<vars, receipts, task, story>>

(* A handler's org is targetOrgId: the caller's own where it could not     *)
(* read whose the agent is.                                                *)
NoTask == [pc |-> "idle"]
Tasks == [pc: {"gate", "run", "settle", "settling", "refund", "refunding"},
          t: Transfers, over: {0} \cup Overages, org: {Buyer, Seller}]

TaskTypeOK ==
    /\ TypeOK
    /\ auto \in [Transfers -> {"no", "credit", "out", "in", "sent", "lost", "gone"}]
    /\ outRow \in [Transfers -> {0, Price}]
    /\ inRow \in [Transfers -> {0, Price, ReceiverAmount(Price)}]
    /\ task \in [Callers -> {NoTask} \cup Tasks]
    /\ \A h \in Callers :
          call[h] # Idle => task[h].pc \in {"settling", "refunding"}
    /\ sends \in [Transfers -> 0..MaxSends]
    /\ served \in [Transfers -> 0..MaxSends]
    /\ due \in [Transfers -> {0} \cup Overages]
    /\ refused \subseteq Transfers
    /\ failed \subseteq Transfers
    /\ lapsed \subseteq Transfers

TaskInit ==
    /\ Init
    /\ auto = [t \in Transfers |-> "no"]
    /\ outRow = [t \in Transfers |-> 0] /\ inRow = [t \in Transfers |-> 0]
    /\ task = [h \in Callers |-> NoTask]
    /\ sends = [t \in Transfers |-> 0] /\ served = [t \in Transfers |-> 0]
    /\ due = [t \in Transfers |-> 0]
    /\ refused = {} /\ failed = {} /\ lapsed = {}

-----------------------------------------------------------------------------
(* Conditions that a plausible mistake would change, each preceded by the  *)
(* form the mistake would give it.                                         *)
MayThrowLate(pc) == pc \in {"gate", "run", "settle"}
MayThrow(pc) == pc \in {"gate", "run"}

(* What the buyer's row says was paid.                                     *)
PaidNet(t) == Received(outRow[t])
Paid(t) == outRow[t]

CreditedGross(t) == Price
Credited(t) == Received(Price)

-----------------------------------------------------------------------------
(* The buyer calls transferCredits.                                        *)
Pay(t) ==
    /\ Transfer(t, Buyer, Seller, Price)
    /\ outRow' = [outRow EXCEPT ![t] = Recorded(Price)]
    /\ inRow' = [inRow EXCEPT ![t] = Recorded(Price)]
    /\ UNCHANGED <<auto, task, story>>

(* a2a-send got a 402.  Its statements commit one by one: the debit,       *)
AutoDebit(t) ==
    /\ xfer[t] = Unused
    /\ Covers(Buyer, Price)
    /\ balance' = [balance EXCEPT ![Buyer] = @ - Price]
    /\ xfer' = [xfer EXCEPT ![t] =
                  [pc |-> "dead", from |-> Buyer, to |-> Seller, amt |-> Price,
                   paid |-> 0, known |-> 0, kept |-> 0]]
    /\ auto' = [auto EXCEPT ![t] = "credit"]
    /\ UNCHANGED <<call, refundRows, history, outRow, inRow, task, story>>

(* the credit of the seller,                                               *)
AutoCredit(t) ==
    /\ auto[t] = "credit"
    /\ balance' = [balance EXCEPT ![Seller] = @ + Credited(t)]
    /\ auto' = [auto EXCEPT ![t] = "out"]
    /\ UNCHANGED <<xfer, call, refundRows, history, outRow, inRow, task, story>>

(* the buyer's row, the seller's row, with the net amount, and the         *)
(* platform's row.  An error in one of the three is ignored.  The module   *)
(* of the referral payouts does not exist in this worker.                  *)
AutoOutRow(t) ==
    /\ auto[t] = "out"
    /\ auto' = [auto EXCEPT ![t] = "in"]
    /\ outRow' \in {outRow, [outRow EXCEPT ![t] = Price]}
    /\ UNCHANGED <<vars, inRow, task, story>>

AutoInRow(t) ==
    /\ auto[t] = "in"
    /\ auto' = [auto EXCEPT ![t] = "sent"]
    /\ inRow' \in {inRow, [inRow EXCEPT ![t] = Credited(t)]}
    /\ \E fee \in {0, PlatformFee(Price)} : xfer' = [xfer EXCEPT ![t].kept = fee]
    /\ UNCHANGED <<balance, call, refundRows, history, outRow, task, story>>

(* A statement throws, or the worker is evicted.                           *)
AutoDies(t) ==
    /\ auto[t] \in {"credit", "out", "in"}
    /\ auto' = [auto EXCEPT ![t] = IF @ = "credit" THEN "lost" ELSE "gone"]
    /\ UNCHANGED <<vars, outRow, inRow, task, story>>

-----------------------------------------------------------------------------
In(h, pc) == task[h].pc = pc
Go(h, pc) == task' = [task EXCEPT ![h].pc = pc]
Reply(h) == task' = [task EXCEPT ![h] = NoTask]

(* A request with the receipt: a2a-send repeats its request once; the      *)
(* client of transferCredits may send again as often as it likes.          *)
HasReceipt(t) ==
    \/ auto[t] = "no" /\ xfer[t].pc = "done"
    \/ auto[t] = "sent" /\ sends[t] = 0

(* The first read tells whose the agent is.  A failed read, like one that  *)
(* finds no row, leaves the caller's own org and skips the gate: the task  *)
(* runs whatever its receipt is worth.                                     *)
Send(h, t) ==
    /\ task[h] = NoTask
    /\ HasReceipt(t)
    /\ sends[t] < MaxSends
    /\ sends' = [sends EXCEPT ![t] = @ + 1]
    /\ \E start \in {[pc |-> "gate", org |-> Seller], [pc |-> "run", org |-> Buyer]} :
          task' = [task EXCEPT ![h] = [pc |-> start.pc, t |-> t, over |-> 0,
                                       org |-> start.org]]
    /\ UNCHANGED <<vars, receipts, served, due, refused, failed, lapsed>>

(* verifyPaymentReceipt.  It reads one transfer_in row of the transfer, in *)
(* no stated order: once the platform's row is there, maybe that one.      *)
Gate(h) ==
    LET t == task[h].t
    IN /\ In(h, "gate")
       /\ \/ inRow[t] >= Price /\ Go(h, "run") /\ UNCHANGED refused
          \/ inRow[t] < Price /\ Reply(h) /\ refused' = refused \cup {t}
          \/ xfer[t].kept > 0 /\ Reply(h) /\ UNCHANGED refused
       /\ UNCHANGED <<vars, receipts, sends, served, due, failed, lapsed>>

(* The runtime answers with the task's output, from whose cost follows     *)
(* what the receipt was too much,                                          *)
Complete(h, over) ==
    /\ In(h, "run")
    /\ served' = [served EXCEPT ![task[h].t] = @ + 1]
    /\ due' = [due EXCEPT ![task[h].t] = over]
    /\ task' = [task EXCEPT ![h].pc = "settle", ![h].over = over]
    /\ UNCHANGED <<vars, receipts, sends, refused, failed, lapsed>>

(* or with an error status: the handler replies and is done, without a     *)
(* refund.                                                                 *)
RuntimeError(h) ==
    /\ In(h, "run")
    /\ Reply(h)
    /\ UNCHANGED <<vars, receipts, story>>

(* An exception before the task is complete leads to the refund.           *)
Throw(h) ==
    /\ MayThrow(task[h].pc)
    /\ Go(h, "refund")
    /\ failed' = failed \cup {task[h].t}
    /\ UNCHANGED <<vars, receipts, sends, served, due, refused, lapsed>>

(* The amount a handler asks refundTransfer for: the overage of a          *)
(* settlement; after an exception the amount of the transfer_out row, or   *)
(* nothing where the agent still counts as the caller's own.               *)
Owed(h) ==
    LET paid == Paid(task[h].t)
    IN IF paid = 0 THEN 0
       ELSE IF In(h, "settle") THEN task[h].over
       ELSE IF task[h].org = Buyer THEN 0 ELSE paid

AskRefund(h) ==
    /\ task[h].pc \in {"settle", "refund"}
    /\ Owed(h) > 0
    /\ RefundCheck(h, task[h].t, task[h].org, Owed(h))
    /\ Go(h, IF In(h, "settle") THEN "settling" ELSE "refunding")
    /\ UNCHANGED <<receipts, story>>

(* Nothing to give back, or it was given back before.                      *)
Lapses(t) == lapsed' = lapsed \cup {t}

NoRefund(h) ==
    /\ task[h].pc \in {"settle", "refund"}
    /\ \/ Owed(h) = 0 /\ In(h, "refund") /\ Lapses(task[h].t)
       \/ Owed(h) = 0 /\ In(h, "settle") /\ UNCHANGED lapsed
       \/ RefundExists(task[h].t) /\ UNCHANGED lapsed
    /\ Reply(h)
    /\ UNCHANGED <<vars, receipts, sends, served, due, refused, failed>>

(* The seller's balance does not cover a refund, or its call throws.       *)
Lapse(h) ==
    /\ RefundMiss(h) \/ RefundDies(h)
    /\ Lapses(call[h].t)
    /\ UNCHANGED <<receipts, task, sends, served, due, refused, failed>>

(* refundTransfer has returned, with or without success.                   *)
Finish(h) ==
    /\ task[h].pc \in {"settling", "refunding"}
    /\ call[h] = Idle
    /\ Reply(h)
    /\ UNCHANGED <<vars, receipts, story>>

(* The worker is evicted: the open transaction, if any, rolls back.  The   *)
(* same is seen when a read that the gate, the settlement or the refund    *)
(* starts with fails, or an exception comes before the owner of the agent  *)
(* is known.                                                               *)
HandlerDies(h) ==
    /\ task[h] # NoTask
    /\ Reply(h)
    /\ RefundReturn(h)
    /\ \/ (In(h, "refund") \/ call[h] # Idle) /\ Lapses(task[h].t)
       \/ ~In(h, "refund") /\ call[h] = Idle /\ UNCHANGED lapsed
    /\ UNCHANGED <<balance, xfer, refundRows, history, receipts,
                   sends, served, due, refused, failed>>

-----------------------------------------------------------------------------
AutoStep(t) ==
    AutoDebit(t) \/ AutoCredit(t) \/ AutoOutRow(t) \/ AutoInRow(t) \/ AutoDies(t)

Handle(h) ==
    \/ \E over \in Overages : Complete(h, over)
    \/ Gate(h) \/ RuntimeError(h) \/ Throw(h)
    \/ AskRefund(h) \/ NoRefund(h) \/ Finish(h) \/ HandlerDies(h)

Payments ==
    \/ \E a \in OtherAmounts, o \in {Buyer, Seller} : Purchase(o, a) \/ Spend(o, a)
    \/ \E t \in Transfers : TransferStep(t) \/ TransferDies(t)
    \/ \E h \in Callers : RefundFull(h) \/ RefundPeek(h) \/ RefundDrain(h)

TaskNext ==
    \/ Payments /\ UNCHANGED <<receipts, task, story>>
    \/ \E t \in Transfers : Pay(t) \/ AutoStep(t)
    \/ \E h \in Callers, t \in Transfers : Send(h, t)
    \/ \E h \in Callers : Handle(h) \/ Lapse(h)

TaskSpec == TaskInit /\ [][TaskNext]_taskVars

-----------------------------------------------------------------------------
(* What automatic payments have taken from the buyer and not yet, or never,*)
(* given to the seller.                                                    *)
InFlight ==
    ReceiverAmount(Price)
      * Cardinality({t \in Transfers : auto[t] \in {"credit", "lost"}})

(* Through both ways of paying, refunds and settlements, no credit is made *)
(* or lost, except by a partial refund that acts on an outdated balance:   *)
(* what an interrupted automatic payment takes is gone, and nothing else.  *)
PaymentsAccounted == stale = {} => Held + Retained + InFlight = supply

(* A receipt sent once, whose task was completed, keeps its price: no more *)
(* than the overage of its settlement comes back, whatever fails           *)
(* afterwards, and whoever the handler takes the agent's owner to be.      *)
ServedKeepsPrice ==
    \A t \in Transfers \ stale :
        sends[t] = 1 /\ served[t] = 1 => refunded[t] <= due[t]

(* A handler that throws gives the price back: once no handler has a       *)
(* receipt that failed and was never served, all of it was refunded, by    *)
(* that handler or by another one with the same receipt.  Excused are the  *)
(* refunds that lapsed: the handler or its refundTransfer broke off, the   *)
(* seller's balance did not cover the price, the buyer's row was never     *)
(* written, or the exception came while the agent's owner was unknown.     *)
Handled(t) == \E h \in Callers : task[h] # NoTask /\ task[h].t = t
FailedIsRefunded ==
    \A t \in failed \ lapsed :
        served[t] = 0 /\ ~Handled(t) => refunded[t] >= Price

(* a2a-send, "auto-pay via credit transfer and retry": the retry carries a *)
(* receipt that the gate takes to be enough, if its row was written.       *)
AutoPayAccepted == \A t \in refused : auto[t] = "sent" => inRow[t] = 0
=============================================================================
