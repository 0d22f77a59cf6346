------------------------ MODULE AgentPayments_proofs ------------------------
(***************************************************************************)
(* Proofs about AgentPayments for any orgs, referrals, transfers, callers  *)
(* and amounts: types, no overdraft, payouts bounded by the fee, refunds   *)
(* bounded by the transfer, and no credit made or lost but by a stale      *)
(* refund.  Then about the paid tasks of A2ATask, which extends it: a task *)
(* that was served keeps its price, one that failed is refunded unless the *)
(* refund lapsed, and no credit is lost but by a stale refund or an        *)
(* interrupted automatic payment.                                          *)
(***************************************************************************)
EXTENDS A2ATask, FiniteSetFacts

(* Rounding keeps the platform's fee between nothing and the whole amount, *)
(* so that the receiver is never debited by a transfer.                    *)
LEMMA FeeBounds ==
    ASSUME NEW a \in Nat
    PROVE  /\ PlatformFee(a) \in Nat
           /\ PlatformFee(a) <= a
           /\ ReceiverAmount(a) \in Nat
<1>1. (a * 10 + 50) \div 100 \in Nat
  BY SMT
<1>2. (a * 10 + 50) \div 100 <= a
  BY SMT
<1>3. QED
  BY <1>1, <1>2 DEF PlatformFee, ReceiverAmount, RoundedPercent

LEMMA PayoutTypes ==
    ASSUME NEW a \in Nat, NEW active \in Nat
    PROVE  L1Payout(a, active) \in Nat /\ L2Payout(a, active) \in Nat
BY SMT DEF L1Payout, L2Payout, RoundedPercent, L1_CAP_THRESHOLD

(* The two referral levels together never get more than the platform's     *)
(* fee, in whatever way the three roundings of an amount fall              *)
(* (transferCredits and distributeReferralEarnings).                       *)
THEOREM PayoutsFitTheFee ==
    ASSUME NEW a \in Nat, NEW active \in Nat
    PROVE  L1Payout(a, active) + L2Payout(a, active) <= PlatformFee(a)
<1>1. CASE L1Payout(a, active) > 0
  <2>1. L1Payout(a, active) <= (a * 3 + 50) \div 100
    BY SMT DEF L1Payout, RoundedPercent, L1_CAP_THRESHOLD
  <2>2. (a * 3 + 50) \div 100 > 0
    BY <1>1, <2>1, PayoutTypes, SMT
  <2>3. (a * 3 + 50) \div 100 + (a * 1 + 50) \div 100 <= (a * 10 + 50) \div 100
    BY <2>2, SMT
  <2>4. QED
    BY <1>1, <2>1, <2>3, PayoutTypes, SMT DEF L2Payout, PlatformFee, RoundedPercent
<1>2. CASE ~(L1Payout(a, active) > 0)
  BY <1>2, FeeBounds, PayoutTypes, SMT DEF L2Payout
<1>3. QED
  BY <1>1, <1>2

-----------------------------------------------------------------------------
(* How far the payouts of a committed transfer x have come.  The second    *)
(* level is reached only through a first level that was paid; this is what *)
(* bounds the sum of both payouts at each of the places where the          *)
(* distribution can throw or die.                                          *)
FirstLevel(x) == L1Payout(x.amt, ActiveReferrals[Referrer[x.to]])
SecondLevel(x) == L2Payout(x.amt, ActiveReferrals[Referrer[x.to]])
Stage(x) ==
    /\ x.paid <= PlatformFee(x.amt)
    /\ x.pc = "refer" => x.paid = 0
    /\ x.pc \in {"l1row", "l2", "l2row"} => Referrer[x.to] # NoOrg
    /\ x.pc \in {"l1row", "l2"} => x.paid = FirstLevel(x)

StageInv == \A t \in Transfers : xfer[t] # Unused => Stage(xfer[t])

(* A call of refundTransfer is about a transfer that was made.             *)
CallInv == \A c \in Callers : call[c] # Idle => xfer[call[c].t] # Unused

IInv == TypeOK /\ StageInv /\ CallInv /\ NoOverdraft

LEMMA TransferRecord ==
    ASSUME TypeOK, NEW t \in Transfers, xfer[t] # Unused
    PROVE  /\ xfer[t] \in Committed
           /\ xfer[t].to \in Orgs
           /\ xfer[t].from \in Orgs
           /\ xfer[t].amt \in Amounts
           /\ xfer[t].amt \in Nat
           /\ xfer[t].paid \in Nat
<1>1. xfer[t] \in Committed
  BY DEF TypeOK
<1>2. QED
  BY <1>1, PaymentsAssumption DEF Committed

LEMMA CallRecord ==
    ASSUME TypeOK, CallInv, NEW c \in Callers, call[c] # Idle
    PROVE  /\ call[c] \in Refunding
           /\ call[c].t \in Transfers
           /\ call[c].to \in Orgs
           /\ call[c].amt \in Amounts
           /\ call[c].amt \in Nat
           /\ call[c].available \in Nat
           /\ xfer[call[c].t] # Unused
<1>1. call[c] \in Refunding
  BY DEF TypeOK
<1>2. QED
  BY <1>1, PaymentsAssumption DEF Refunding, CallInv

LEMMA ShareTypes ==
    ASSUME TypeOK, NEW t \in Transfers, xfer[t] # Unused,
           Referrer[xfer[t].to] # NoOrg
    PROVE  /\ Referrer[xfer[t].to] \in Orgs
           /\ L1Of(t) \in Nat /\ L1Of(t) = FirstLevel(xfer[t])
           /\ L2Of(t) \in Nat /\ L2Of(t) = SecondLevel(xfer[t])
           /\ L1Of(t) + L2Of(t) <= PlatformFee(xfer[t].amt)
<1>1. Referrer[xfer[t].to] \in Orgs
  BY TransferRecord, PaymentsAssumption
<1>2. ActiveReferrals[Referrer[xfer[t].to]] \in Nat
  BY <1>1, PaymentsAssumption
<1>3. QED
  BY <1>1, <1>2, TransferRecord, PayoutTypes, PayoutsFitTheFee
     DEF L1Of, L2Of, FirstLevel, SecondLevel

(* A change of one transfer's record, or none, keeps StageInv when the new *)
(* record is at a stage the payouts can reach; and calls stay about        *)
(* transfers that were made.                                               *)
LEMMA StageKept ==
    ASSUME TypeOK, StageInv, NEW t \in Transfers, NEW x,
           xfer' = [xfer EXCEPT ![t] = x], x # Unused, Stage(x)
    PROVE  StageInv'
  BY DEF TypeOK, StageInv

LEMMA CallsKept ==
    ASSUME TypeOK, CallInv, NEW t \in Transfers, NEW x,
           xfer' = [xfer EXCEPT ![t] = x], x # Unused, call' = call
    PROVE  CallInv'
  BY DEF TypeOK, CallInv

LEMMA InitInv == Init => IInv
<1> SUFFICES ASSUME Init PROVE IInv
  OBVIOUS
<1> USE PaymentsAssumption
<1>1. Cardinality(Orgs) * InitialCredit \in Int
  BY FS_CardinalityType
<1>2. TypeOK
  BY <1>1 DEF Init, TypeOK
<1>3. QED
  BY <1>2 DEF Init, IInv, StageInv, CallInv, NoOverdraft

-----------------------------------------------------------------------------
(* The steps of transferCredits.                                           *)
LEMMA TransferKeeps ==
    ASSUME IInv, NEW t \in Transfers, NEW from \in Orgs, NEW to \in Orgs,
           NEW a \in Amounts, Transfer(t, from, to, a)
    PROVE  IInv'
<1> USE PaymentsAssumption DEF IInv
<1> DEFINE x == [pc |-> "refer", from |-> from, to |-> to, amt |-> a,
                 paid |-> 0, known |-> 0, kept |-> 0]
<1>1. a \in Nat /\ Received(a) \in Nat
  BY FeeBounds DEF Received
<1>2. xfer' = [xfer EXCEPT ![t] = x]
  BY DEF Transfer, Recorded
<1>3. x \in Committed /\ x # Unused
  BY DEF Committed, Tail, Unused
<1>4. Stage(x)
  BY <1>1, FeeBounds DEF Stage
<1>5. TypeOK'
  BY <1>1, <1>2, <1>3 DEF Transfer, TypeOK, history
<1>6. NoOverdraft'
  BY <1>1 DEF Transfer, Covers, NoOverdraft, TypeOK
<1>7. QED
  BY <1>2, <1>3, <1>4, <1>5, <1>6, StageKept, CallsKept DEF Transfer

(* Crediting a referrer: a nonnegative payout, and the record moves on.    *)
LEMMA CreditKeeps ==
    ASSUME IInv, NEW t \in Transfers, NEW o \in Orgs, NEW payout \in Nat,
           NEW pc \in {"l1row", "l2row"}, xfer[t] # Unused,
           CreditReferrer(t, o, payout, pc),
           Stage([xfer[t] EXCEPT !.paid = @ + payout, !.pc = pc])
    PROVE  IInv'
<1> USE DEF IInv
<1> DEFINE x == [xfer[t] EXCEPT !.paid = @ + payout, !.pc = pc]
<1>1. xfer' = [xfer EXCEPT ![t] = x]
  BY DEF CreditReferrer, TypeOK
<1>2. x \in Committed /\ x # Unused
  <2>1. xfer[t] \in Committed /\ xfer[t].paid + payout \in Nat
    BY TransferRecord
  <2>2. QED
    BY <2>1 DEF Committed, Tail, Unused
<1>3. TypeOK'
  BY <1>1, <1>2 DEF CreditReferrer, TypeOK, history
<1>4. NoOverdraft'
  BY DEF CreditReferrer, NoOverdraft, TypeOK
<1>5. QED
  BY <1>1, <1>2, <1>3, <1>4, StageKept, CallsKept DEF CreditReferrer

(* A step that only moves a transfer's record on, paying nobody.           *)
LEMMA RecordKeeps ==
    ASSUME IInv, NEW t \in Transfers, NEW x \in Committed, Stage(x), x # Unused,
           xfer' = [xfer EXCEPT ![t] = x],
           UNCHANGED <<balance, call, refundRows, history>>
    PROVE  IInv'
<1> USE DEF IInv
<1>1. TypeOK'
  BY DEF TypeOK, history
<1>2. NoOverdraft'
  BY DEF NoOverdraft
<1>3. QED
  BY <1>1, <1>2, StageKept, CallsKept

LEMMA GoToFeeKeeps ==
    ASSUME IInv, NEW t \in Transfers, NEW known \in Nat, xfer[t] # Unused,
           GoToFee(t, known)
    PROVE  IInv'
<1> DEFINE x == [xfer[t] EXCEPT !.known = known, !.pc = "fee"]
<1>1. xfer[t] \in Committed
  BY TransferRecord DEF IInv
<1>2. x \in Committed /\ x # Unused
  BY <1>1 DEF Committed, Tail, Unused
<1>3. Stage(x)
  BY <1>1 DEF IInv, StageInv, Stage, Committed
<1>4. xfer' = [xfer EXCEPT ![t] = x]
  BY DEF GoToFee, IInv, TypeOK
<1>5. QED
  BY <1>2, <1>3, <1>4, RecordKeeps DEF GoToFee

LEMMA PayL1Keeps ==
    ASSUME IInv, NEW t \in Transfers, PayL1(t)
    PROVE  IInv'
<1>1. xfer[t] # Unused
  BY DEF PayL1, At, Unused
<1>2. CASE HasL1(t) /\ CreditReferrer(t, L1Org(t), L1Of(t), "l1row")
  <2>1. Referrer[xfer[t].to] # NoOrg
    BY <1>2 DEF HasL1, L1Org
  <2>2. /\ L1Org(t) \in Orgs
        /\ L1Of(t) \in Nat
        /\ L1Of(t) = FirstLevel(xfer[t])
        /\ L1Of(t) <= PlatformFee(xfer[t].amt)
    <3>1. PlatformFee(xfer[t].amt) \in Nat
      BY <1>1, TransferRecord, FeeBounds DEF IInv
    <3>2. QED
      BY <1>1, <2>1, <3>1, ShareTypes DEF IInv, L1Org
  <2>3. xfer[t] \in Committed /\ xfer[t].paid = 0
    BY <1>1, TransferRecord DEF IInv, StageInv, Stage, PayL1, At
  <2>4. Stage([xfer[t] EXCEPT !.paid = @ + L1Of(t), !.pc = "l1row"])
    BY <2>1, <2>2, <2>3 DEF Stage, Committed, FirstLevel
  <2>5. QED
    BY <1>1, <1>2, <2>2, <2>4, CreditKeeps
<1>3. CASE GoToFee(t, 0)
  BY <1>1, <1>3, GoToFeeKeeps
<1>4. QED
  BY <1>2, <1>3 DEF PayL1

LEMMA EarningRowKeeps ==
    ASSUME IInv, NEW t \in Transfers, EarningRow(t)
    PROVE  IInv'
<1>1. xfer[t] # Unused
  BY DEF EarningRow, At, Unused
<1>2. xfer[t] \in Committed /\ xfer[t].paid \in Nat
  BY <1>1, TransferRecord DEF IInv
<1>3. CASE At(t, "l1row") /\ xfer' = [xfer EXCEPT ![t].pc = "l2"]
           /\ UNCHANGED <<balance, call, refundRows, history>>
  <2> DEFINE x == [xfer[t] EXCEPT !.pc = "l2"]
  <2>1. x \in Committed /\ x # Unused
    BY <1>2 DEF Committed, Tail, Unused
  <2>2. Stage(x)
    BY <1>1, <1>2, <1>3 DEF IInv, StageInv, Stage, Committed, At, FirstLevel
  <2>3. xfer' = [xfer EXCEPT ![t] = x]
    BY <1>3 DEF IInv, TypeOK
  <2>4. QED
    BY <1>3, <2>1, <2>2, <2>3, RecordKeeps
<1>4. CASE GoToFee(t, xfer[t].paid)
  BY <1>1, <1>2, <1>4, GoToFeeKeeps
<1>5. QED
  BY <1>3, <1>4 DEF EarningRow

LEMMA PayL2Keeps ==
    ASSUME IInv, NEW t \in Transfers, PayL2(t)
    PROVE  IInv'
<1>1. xfer[t] # Unused
  BY DEF PayL2, At, Unused
<1>2. xfer[t] \in Committed /\ xfer[t].paid \in Nat
  BY <1>1, TransferRecord DEF IInv
<1>3. CASE HasL2(t) /\ CreditReferrer(t, L2Org(t), L2Of(t), "l2row")
  <2>1. Referrer[xfer[t].to] # NoOrg /\ xfer[t].paid = FirstLevel(xfer[t])
    BY <1>1 DEF IInv, StageInv, Stage, PayL2, At
  <2>2. /\ L2Org(t) \in Orgs
        /\ L1Of(t) \in Nat /\ L1Of(t) = FirstLevel(xfer[t])
        /\ L2Of(t) \in Nat
        /\ L1Of(t) + L2Of(t) <= PlatformFee(xfer[t].amt)
    BY <1>1, <1>3, <2>1, ShareTypes, PaymentsAssumption
       DEF IInv, HasL2, L1Org, L2Org
  <2>3. Stage([xfer[t] EXCEPT !.paid = @ + L2Of(t), !.pc = "l2row"])
    BY <1>2, <2>1, <2>2 DEF Stage, Committed
  <2>4. QED
    BY <1>1, <1>3, <2>2, <2>3, CreditKeeps
<1>4. CASE GoToFee(t, xfer[t].paid)
  BY <1>1, <1>2, <1>4, GoToFeeKeeps
<1>5. QED
  BY <1>3, <1>4 DEF PayL2

LEMMA ReferralThrowsKeeps ==
    ASSUME IInv, NEW t \in Transfers, ReferralThrows(t)
    PROVE  IInv'
<1>1. xfer[t] # Unused
  BY DEF ReferralThrows, Tail, Unused
<1>2. QED
  BY <1>1, GoToFeeKeeps DEF ReferralThrows

LEMMA PlatformRowKeeps ==
    ASSUME IInv, NEW t \in Transfers, PlatformRow(t)
    PROVE  IInv'
<1>1. xfer[t] # Unused
  BY DEF PlatformRow, At, Unused
<1>2. xfer[t] \in Committed /\ PlatformFee(xfer[t].amt) \in Nat
  BY <1>1, TransferRecord, FeeBounds DEF IInv
<1>3. PICK kept \in Int : xfer' = [xfer EXCEPT ![t].kept = kept, ![t].pc = "done"]
  <2> DEFINE retained == PlatformFee(xfer[t].amt) - xfer[t].known
             row == IF retained > 0 THEN retained ELSE 0
  <2>1. xfer[t].known \in Nat
    BY <1>2 DEF Committed
  <2>2. row \in Int
    BY <1>2, <2>1
  <2>3. \E kept \in {0, row} :
           xfer' = [xfer EXCEPT ![t].kept = kept, ![t].pc = "done"]
    BY DEF PlatformRow
  <2> HIDE DEF row
  <2>4. {0, row} \subseteq Int
    BY <2>2
  <2>5. QED
    BY <2>3, <2>4, Zenon
<1> DEFINE x == [xfer[t] EXCEPT !.kept = kept, !.pc = "done"]
<1>4. x \in Committed /\ x # Unused
  BY <1>2 DEF Committed, Tail, Unused
<1>5. Stage(x)
  BY <1>1, <1>2 DEF IInv, StageInv, Stage, Committed
<1>6. xfer' = [xfer EXCEPT ![t] = x]
  BY <1>3 DEF IInv, TypeOK
<1>7. QED
  BY <1>4, <1>5, <1>6, RecordKeeps DEF PlatformRow

LEMMA TransferDiesKeeps ==
    ASSUME IInv, NEW t \in Transfers, TransferDies(t)
    PROVE  IInv'
<1>1. xfer[t] # Unused
  BY DEF TransferDies, Tail, Unused
<1>2. xfer[t] \in Committed
  BY <1>1, TransferRecord DEF IInv
<1> DEFINE x == [xfer[t] EXCEPT !.pc = "dead"]
<1>3. x \in Committed /\ x # Unused
  BY <1>2 DEF Committed, Tail, Unused
<1>4. Stage(x)
  BY <1>1, <1>2 DEF IInv, StageInv, Stage, Committed
<1>5. xfer' = [xfer EXCEPT ![t] = x]
  BY DEF TransferDies, IInv, TypeOK
<1>6. QED
  BY <1>3, <1>4, <1>5, RecordKeeps DEF TransferDies

-----------------------------------------------------------------------------
(* The steps of refundTransfer.  Each starts from a call about a transfer  *)
(* whose parties and amount are known.                                     *)
LEMMA ReturnKeeps ==
    ASSUME TypeOK, CallInv, NEW c \in Callers, RefundReturn(c), xfer' = xfer
    PROVE  call' \in [Callers -> {Idle} \cup Refunding] /\ CallInv'
  BY DEF TypeOK, CallInv, RefundReturn

LEMMA StageUnchanged == StageInv /\ xfer' = xfer => StageInv'
  BY DEF StageInv

LEMMA RefundCheckKeeps ==
    ASSUME IInv, NEW c \in Callers, NEW t \in Transfers, NEW to \in Orgs,
           NEW a \in Amounts, RefundCheck(c, t, to, a)
    PROVE  IInv'
<1> USE DEF IInv
<1>1. TypeOK'
  <2>1. call' \in [Callers -> {Idle} \cup Refunding]
    BY DEF RefundCheck, TypeOK, Refunding
  <2>2. raced' \subseteq Transfers
    BY DEF RefundCheck, TypeOK
  <2>3. QED
    BY <2>1, <2>2 DEF RefundCheck, TypeOK
<1>2. CallInv'
  BY DEF RefundCheck, TypeOK, CallInv
<1>3. NoOverdraft'
  BY DEF RefundCheck, NoOverdraft
<1>4. QED
  BY <1>1, <1>2, <1>3, StageUnchanged DEF RefundCheck

LEMMA GivenBackIs ==
    ASSUME NEW c \in Callers, NEW a \in Nat
    PROVE  GivenBack(c, a) \in Nat /\ GivenBack(c, a) <= a
  BY DEF GivenBack

LEMMA MoveBackKeeps ==
    ASSUME IInv, NEW c \in Callers, call[c] # Idle, NEW a \in Nat, MoveBack(c, a),
           balance' \in [Orgs -> Int], NoOverdraft', stale' \subseteq Transfers,
           UNCHANGED <<xfer, supply, raced, others>>
    PROVE  IInv'
<1> USE DEF IInv
<1>1. call[c].t \in Transfers
  BY CallRecord
<1>2. refundRows' \in [Transfers -> Nat] /\ refunded' \in [Transfers -> Nat]
  BY <1>1, GivenBackIs DEF MoveBack, TypeOK
<1>3. call' \in [Callers -> {Idle} \cup Refunding] /\ CallInv'
  BY ReturnKeeps DEF MoveBack
<1>4. TypeOK'
  BY <1>2, <1>3 DEF TypeOK
<1>5. QED
  BY <1>3, <1>4, StageUnchanged

LEMMA RefundFullKeeps ==
    ASSUME IInv, NEW c \in Callers, RefundFull(c)
    PROVE  IInv'
<1> USE DEF IInv
<1>1. call[c] # Idle
  BY DEF RefundFull, Idle
<1> DEFINE from == xfer[call[c].t].from
           to == call[c].to
           a == call[c].amt
<1>2. to \in Orgs /\ from \in Orgs /\ a \in Nat /\ call[c].t \in Transfers
  BY <1>1, CallRecord, TransferRecord
<1>3. /\ balance[to] >= a
      /\ balance' = [[balance EXCEPT ![to] = @ - a] EXCEPT ![from] = @ + a]
      /\ MoveBack(c, a)
      /\ UNCHANGED <<xfer, supply, raced, stale, others>>
  BY DEF RefundFull, Covers
<1> HIDE DEF from, to, a
<1>4. balance' \in [Orgs -> Int] /\ NoOverdraft'
  BY <1>2, <1>3 DEF TypeOK, NoOverdraft
<1>5. stale' \subseteq Transfers
  BY <1>3 DEF TypeOK
<1>6. QED
  BY <1>1, <1>2, <1>3, <1>4, <1>5, MoveBackKeeps

LEMMA RefundMissKeeps ==
    ASSUME IInv, NEW c \in Callers, RefundMiss(c)
    PROVE  IInv'
<1> USE DEF IInv
<1>1. call[c] # Idle
  BY DEF RefundMiss, Idle
<1>2. call[c] \in Refunding
  BY <1>1, CallRecord
<1>3. call' \in [Callers -> {Idle} \cup Refunding] /\ CallInv'
  BY <1>1, <1>2 DEF RefundMiss, TypeOK, Refunding, CallInv
<1>4. TypeOK' /\ NoOverdraft'
  BY <1>3 DEF RefundMiss, TypeOK, NoOverdraft, history
<1>5. QED
  BY <1>3, <1>4, StageUnchanged DEF RefundMiss

LEMMA RefundPeekKeeps ==
    ASSUME IInv, NEW c \in Callers, RefundPeek(c)
    PROVE  IInv'
<1> USE DEF IInv
<1>1. call[c] # Idle
  BY DEF RefundPeek, Idle
<1>2. call[c] \in Refunding /\ call[c].t \in Transfers
  BY <1>1, CallRecord
<1> DEFINE has == balance[call[c].to]
<1>3. has \in Int
  BY <1>1, <1>2, CallRecord, TransferRecord DEF TypeOK
<1>4. call' \in [Callers -> {Idle} \cup Refunding] /\ CallInv'
  <2>1. CASE has <= 0 /\ RefundReturn(c)
    BY <2>1, ReturnKeeps DEF RefundPeek
  <2>2. CASE /\ has > 0
             /\ call' = [call EXCEPT ![c].pc = "drain", ![c].available = has]
    <3>1. has \in Nat
      BY <1>3, <2>2
    <3> HIDE DEF has
    <3>2. QED
      BY <1>1, <1>2, <2>2, <3>1 DEF RefundPeek, TypeOK, Refunding, CallInv
  <2>3. QED
    BY <2>1, <2>2 DEF RefundPeek
<1>5. stale' \subseteq Transfers
  BY <1>2 DEF RefundPeek, TypeOK
<1>6. TypeOK' /\ NoOverdraft'
  BY <1>4, <1>5 DEF RefundPeek, TypeOK, NoOverdraft
<1>7. QED
  BY <1>4, <1>6, StageUnchanged DEF RefundPeek

LEMMA RefundDrainKeeps ==
    ASSUME IInv, NEW c \in Callers, RefundDrain(c)
    PROVE  IInv'
<1> USE DEF IInv
<1>1. call[c] # Idle
  BY DEF RefundDrain, Idle
<1> DEFINE from == xfer[call[c].t].from
           to == call[c].to
           available == call[c].available
<1>2. /\ to \in Orgs /\ from \in Orgs
      /\ available \in Nat /\ call[c].t \in Transfers
  BY <1>1, CallRecord, TransferRecord
<1>3. /\ balance' = [[balance EXCEPT ![to] = 0] EXCEPT ![from] = @ + available]
      /\ MoveBack(c, available)
      /\ stale' \subseteq stale \cup {call[c].t}
      /\ UNCHANGED <<xfer, supply, raced, others>>
  BY DEF RefundDrain
<1> HIDE DEF from, to, available
<1>4. balance' \in [Orgs -> Int] /\ NoOverdraft'
  BY <1>2, <1>3 DEF TypeOK, NoOverdraft
<1>5. stale' \subseteq Transfers
  BY <1>2, <1>3 DEF TypeOK
<1>6. QED
  BY <1>1, <1>2, <1>3, <1>4, <1>5, MoveBackKeeps

LEMMA RefundDiesKeeps ==
    ASSUME IInv, NEW c \in Callers, RefundDies(c)
    PROVE  IInv'
<1> USE DEF IInv
<1>1. call' \in [Callers -> {Idle} \cup Refunding] /\ CallInv'
  BY ReturnKeeps DEF RefundDies
<1>2. TypeOK' /\ NoOverdraft'
  BY <1>1 DEF RefundDies, TypeOK, NoOverdraft, history
<1>3. QED
  BY <1>1, <1>2, StageUnchanged DEF RefundDies

-----------------------------------------------------------------------------
LEMMA OtherKeeps ==
    ASSUME IInv, NEW o \in Orgs, NEW a \in OtherAmounts,
           Purchase(o, a) \/ Spend(o, a)
    PROVE  IInv'
<1> USE PaymentsAssumption DEF IInv
<1>1. a \in Nat
  OBVIOUS
<1>2. TypeOK'
  BY <1>1 DEF Purchase, Spend, TypeOK
<1>3. NoOverdraft'
  BY <1>1 DEF Purchase, Spend, NoOverdraft, TypeOK
<1>4. CallInv'
  BY DEF Purchase, Spend, CallInv
<1>5. QED
  BY <1>2, <1>3, <1>4, StageUnchanged DEF Purchase, Spend

LEMMA NextInv == IInv /\ [Next]_vars => IInv'
<1> SUFFICES ASSUME IInv, [Next]_vars PROVE IInv'
  OBVIOUS
<1>1. CASE \E o \in Orgs, a \in OtherAmounts : Purchase(o, a) \/ Spend(o, a)
  BY <1>1, OtherKeeps
<1>2. CASE \E t \in Transfers, from, to \in Orgs, a \in Amounts :
              Transfer(t, from, to, a)
  BY <1>2, TransferKeeps
<1>3. CASE \E t \in Transfers : TransferStep(t) \/ TransferDies(t)
  BY <1>3, PayL1Keeps, EarningRowKeeps, PayL2Keeps, ReferralThrowsKeeps,
     PlatformRowKeeps, TransferDiesKeeps DEF TransferStep
<1>4. CASE \E c \in Callers, t \in Transfers, to \in Orgs, a \in Amounts :
             RefundCheck(c, t, to, a)
  BY <1>4, RefundCheckKeeps
<1>5. CASE \E c \in Callers : RefundStep(c) \/ RefundDies(c)
  BY <1>5, RefundFullKeeps, RefundMissKeeps, RefundPeekKeeps,
     RefundDrainKeeps, RefundDiesKeeps DEF RefundStep
<1>6. CASE UNCHANGED vars
  BY <1>6 DEF vars, history, IInv, TypeOK, StageInv, CallInv, NoOverdraft
<1>7. QED
  BY <1>1, <1>2, <1>3, <1>4, <1>5, <1>6 DEF Next

LEMMA Invariant == Spec => []IInv
  BY InitInv, NextInv, PTL DEF Spec

(* Type correctness of transferCredits and refundTransfer.                 *)
THEOREM TypeCorrect == Spec => []TypeOK
<1>1. IInv => TypeOK
  BY DEF IInv
<1>2. QED
  BY <1>1, Invariant, PTL

(* No transfer, payout, full or partial refund, with other requests        *)
(* between its statements, takes a balance below zero.                     *)
THEOREM NeverOverdrawn == Spec => []NoOverdraft
<1>1. IInv => NoOverdraft
  BY DEF IInv
<1>2. QED
  BY <1>1, Invariant, PTL

(* The platform's row is written last, and with what the distribution said *)
(* it had paid.                                                            *)
Split(x) ==
    /\ x.pc \in Tail => x.kept = 0
    /\ x.kept <= PlatformFee(x.amt)
    /\ x.known = x.paid => x.kept + x.paid <= PlatformFee(x.amt)
SplitInv == \A t \in Transfers : xfer[t] # Unused => Split(xfer[t])

(* A step that leaves the platform's row alone, in a transfer that has     *)
(* none yet.                                                               *)
LEMMA SplitEarly ==
    ASSUME NEW x \in Committed, x.pc \in Tail \cup {"dead"}, x.kept = 0, Stage(x)
    PROVE  Split(x)
<1>1. x.amt \in Nat /\ x.paid \in Nat
  BY PaymentsAssumption DEF Committed
<1> QED
  BY <1>1, FeeBounds DEF Split, Stage, Tail

(* A step of transferCredits on t alone, which is now recorded as x.       *)
LEMMA SplitOne ==
    ASSUME IInv, SplitInv, NEW t \in Transfers, NEW x, xfer' = [xfer EXCEPT ![t] = x],
           Split(x)
    PROVE  SplitInv'
  BY DEF SplitInv, IInv, TypeOK

LEMMA SplitStep ==
    ASSUME IInv, IInv', SplitInv, NEW t \in Transfers,
           TransferStep(t) \/ TransferDies(t)
    PROVE  SplitInv'
<1>1. xfer[t] # Unused /\ xfer[t].pc \in Tail
  BY DEF TransferStep, PayL1, EarningRow, PayL2, ReferralThrows, PlatformRow,
         TransferDies, At, Unused, Tail
<1>2. xfer[t] \in Committed /\ xfer[t].kept = 0
  BY <1>1, TransferRecord DEF IInv, SplitInv, Split
<1>3. xfer'[t] # Unused => xfer'[t] \in Committed /\ Stage(xfer'[t])
  BY DEF IInv, TypeOK, StageInv
<1>4. ASSUME NEW x \in Committed, xfer' = [xfer EXCEPT ![t] = x],
             x.pc \in Tail \cup {"dead"}, x.kept = 0
      PROVE  SplitInv'
  <2>1. xfer'[t] = x /\ x # Unused
    BY <1>4 DEF IInv, TypeOK, Tail, Unused
  <2>2. Split(x)
    BY <1>3, <1>4, <2>1, SplitEarly
  <2> QED
    BY <1>4, <2>2, SplitOne
<1>5. ASSUME NEW known \in Nat, GoToFee(t, known)
      PROVE  SplitInv'
  <2> DEFINE x == [xfer[t] EXCEPT !.known = known, !.pc = "fee"]
  <2>1. x \in Committed /\ x.pc \in Tail /\ x.kept = 0
    BY <1>2, <1>5 DEF Committed, Tail
  <2>2. xfer' = [xfer EXCEPT ![t] = x]
    BY <1>5 DEF GoToFee, IInv, TypeOK
  <2> QED
    BY <1>4, <2>1, <2>2
<1>6. ASSUME NEW o, NEW payout \in Nat, NEW pc \in {"l1row", "l2row"},
             CreditReferrer(t, o, payout, pc)
      PROVE  SplitInv'
  <2> DEFINE x == [xfer[t] EXCEPT !.paid = @ + payout, !.pc = pc]
  <2>1. xfer[t].paid + payout \in Nat
    BY <1>2, <1>6 DEF Committed
  <2>2. x \in Committed /\ x.pc \in Tail /\ x.kept = 0
    BY <1>2, <1>6, <2>1 DEF Committed, Tail
  <2>3. xfer' = [xfer EXCEPT ![t] = x]
    BY <1>6 DEF CreditReferrer, IInv, TypeOK
  <2> QED
    BY <1>4, <2>2, <2>3
<1>7. ASSUME NEW pc \in {"l2", "dead"}, xfer' = [xfer EXCEPT ![t].pc = pc]
      PROVE  SplitInv'
  <2> DEFINE x == [xfer[t] EXCEPT !.pc = pc]
  <2>1. x \in Committed /\ x.pc \in Tail \cup {"dead"} /\ x.kept = 0
    BY <1>2, <1>7 DEF Committed, Tail
  <2>2. xfer' = [xfer EXCEPT ![t] = x]
    BY <1>7 DEF IInv, TypeOK
  <2> QED
    BY <1>4, <2>1, <2>2
<1>8. CASE PlatformRow(t)
  <2> DEFINE fee == PlatformFee(xfer[t].amt)
             retained == fee - xfer[t].known
             row == IF retained > 0 THEN retained ELSE 0
  <2>1. fee \in Nat /\ xfer[t].known \in Nat /\ xfer[t].paid \in Nat
        /\ xfer[t].paid <= fee
    BY <1>1, <1>2, TransferRecord, FeeBounds DEF IInv, StageInv, Stage, Committed
  <2>2. /\ row \in Int /\ row <= fee
        /\ xfer[t].known = xfer[t].paid => row + xfer[t].paid <= fee
    BY <2>1
  <2>3. PICK kept \in {0, row} :
           xfer' = [xfer EXCEPT ![t].kept = kept, ![t].pc = "done"]
    BY <1>8 DEF PlatformRow
  <2> DEFINE x == [xfer[t] EXCEPT !.kept = kept, !.pc = "done"]
  <2>4. xfer' = [xfer EXCEPT ![t] = x]
    BY <2>3 DEF IInv, TypeOK
  <2>5. /\ x.pc = "done" /\ x.kept = kept /\ x.paid = xfer[t].paid
        /\ x.known = xfer[t].known /\ x.amt = xfer[t].amt
    BY <1>2 DEF Committed
  <2> HIDE DEF row, x
  <2>6. kept <= fee /\ (xfer[t].known = xfer[t].paid => kept + xfer[t].paid <= fee)
    BY <2>1, <2>2, <2>3
  <2>7. Split(x)
    BY <2>5, <2>6 DEF Split, Tail
  <2> QED
    BY <2>4, <2>7, SplitOne
<1>9. CASE PayL1(t)
  <2>1. HasL1(t) => L1Of(t) \in Nat
    BY <1>1, ShareTypes DEF HasL1, L1Org, IInv
  <2> QED
    BY <1>5, <1>6, <1>9, <2>1 DEF PayL1
<1>10. CASE PayL2(t)
  <2>1. Referrer[xfer[t].to] # NoOrg
    BY <1>1, <1>10 DEF PayL2, At, IInv, StageInv, Stage
  <2>2. L2Of(t) \in Nat /\ xfer[t].paid \in Nat
    BY <1>1, <2>1, ShareTypes, TransferRecord DEF IInv
  <2> QED
    BY <1>5, <1>6, <1>10, <2>2 DEF PayL2
<1>11. CASE EarningRow(t)
  <2>1. xfer[t].paid \in Nat
    BY <1>2 DEF Committed
  <2> QED
    BY <1>5, <1>7, <1>11, <2>1 DEF EarningRow
<1> QED
  BY <1>5, <1>7, <1>8, <1>9, <1>10, <1>11
     DEF TransferStep, ReferralThrows, TransferDies

LEMMA SplitNext == IInv /\ IInv' /\ SplitInv /\ [Next]_vars => SplitInv'
<1> SUFFICES ASSUME IInv, IInv', SplitInv, [Next]_vars PROVE SplitInv'
  OBVIOUS
<1>1. ASSUME xfer' = xfer PROVE SplitInv'
  BY <1>1 DEF SplitInv
<1>2. CASE \E t \in Transfers, from, to \in Orgs, a \in Amounts :
              Transfer(t, from, to, a)
  <2>1. PICK t \in Transfers, from \in Orgs, to \in Orgs, a \in Amounts :
           Transfer(t, from, to, a)
    BY <1>2
  <2> DEFINE x == [pc |-> "refer", from |-> from, to |-> to, amt |-> a,
                   paid |-> 0, known |-> 0, kept |-> 0]
  <2>2. xfer' = [xfer EXCEPT ![t] = x]
    BY <2>1 DEF Transfer, Recorded
  <2>3. a \in Nat /\ PlatformFee(a) \in Nat
    BY PaymentsAssumption, FeeBounds
  <2>4. Split(x)
    BY <2>3 DEF Split
  <2> QED
    BY <2>2, <2>4, SplitOne
<1>3. CASE \E t \in Transfers : TransferStep(t) \/ TransferDies(t)
  BY <1>3, SplitStep
<1> QED
  BY <1>1, <1>2, <1>3 DEF Next, Purchase, Spend, RefundCheck, RefundStep, RefundFull,
     RefundMiss, RefundPeek, RefundDrain, RefundDies, vars

(* Referrers never get more than the fee of the transfer, and they and the *)
(* platform's row never more than it together unless the distribution      *)
(* threw after a payout, for every amount and wherever it throws or dies.  *)
THEOREM PayoutsBounded == Spec => []PayoutWithinFee
<1>1. IInv /\ SplitInv => PayoutWithinFee
  BY DEF IInv, StageInv, Stage, SplitInv, Split, PayoutWithinFee, Made
<1>2. Init => SplitInv
  BY DEF Init, SplitInv
<1>3. IInv /\ IInv' /\ SplitInv /\ [Next]_vars => SplitInv'
  BY SplitNext
<1> QED
  BY <1>1, <1>2, <1>3, Invariant, PTL DEF Spec

-----------------------------------------------------------------------------
(* The inductive form of SerialRefundsBounded: while the refunds of a      *)
(* transfer neither overlap nor act on an outdated balance, one call at    *)
(* most is about it, that call found no refund, and will move no more than *)
(* the amount it was called with.                                          *)
On(c, t) == call[c] # Idle /\ call[c].t = t

SerialInv(t) ==
    t \notin raced \cup stale =>
        /\ refundRows[t] = 0 \/ xfer[t] = Unused => refunded[t] = 0
        /\ xfer[t] # Unused => refunded[t] <= xfer[t].amt
        /\ \A c \in Callers : On(c, t) =>
              /\ refundRows[t] = 0
              /\ call[c].amt <= xfer[t].amt
              /\ call[c].pc = "drain" => call[c].available <= call[c].amt
        /\ \A c, d \in Callers : On(c, t) /\ On(d, t) => c = d

SerialAll == \A t \in Transfers : SerialInv(t)

(* The steps of transferCredits neither unmake a transfer nor change its   *)
(* amount or its parties.                                                  *)
SameTerms(x, y) == x.amt = y.amt /\ x.from = y.from /\ x.to = y.to

TermsStay ==
    \A t \in Transfers : xfer[t] # Unused =>
        xfer'[t] # Unused /\ SameTerms(xfer'[t], xfer[t])

LEMMA TransferStepStays ==
    ASSUME IInv, NEW t \in Transfers, TransferStep(t) \/ TransferDies(t)
    PROVE  /\ TermsStay
           /\ \A p \in Transfers : xfer[p] = Unused => xfer'[p] = Unused
           /\ UNCHANGED <<call, refundRows, history>>
<1>1. xfer[t] # Unused
  BY DEF TransferStep, PayL1, EarningRow, PayL2, ReferralThrows, PlatformRow,
         TransferDies, At, Unused, Tail
<1>2. xfer[t] \in Committed
  BY <1>1, TransferRecord DEF IInv
<1>3. /\ UNCHANGED <<call, refundRows, history>>
      /\ \A p \in Transfers : xfer[p] = Unused => xfer'[p] = Unused
  <2>1. /\ UNCHANGED <<call, refundRows, history>>
        /\ \A p \in Transfers \ {t} : xfer'[p] = xfer[p]
    BY DEF TransferStep, PayL1, EarningRow, PayL2, ReferralThrows, PlatformRow,
           TransferDies, CreditReferrer, GoToFee, IInv, TypeOK
  <2> QED
    BY <1>1, <2>1
<1>4. ASSUME NEW x, xfer' = [xfer EXCEPT ![t] = x], x # Unused,
             SameTerms(x, xfer[t])
      PROVE  TermsStay
  BY <1>4 DEF TermsStay, SameTerms, IInv, TypeOK
<1>5. ASSUME NEW o, NEW payout, NEW pc, CreditReferrer(t, o, payout, pc)
      PROVE  TermsStay
  <2> DEFINE x == [xfer[t] EXCEPT !.paid = @ + payout, !.pc = pc]
  <2>1. x # Unused /\ SameTerms(x, xfer[t])
    BY <1>2 DEF Committed, Unused, SameTerms
  <2>2. xfer' = [xfer EXCEPT ![t] = x]
    BY <1>5 DEF CreditReferrer, IInv, TypeOK
  <2>3. QED
    BY <1>4, <2>1, <2>2
<1>6. ASSUME NEW known, GoToFee(t, known)
      PROVE  TermsStay
  <2> DEFINE x == [xfer[t] EXCEPT !.known = known, !.pc = "fee"]
  <2>1. x # Unused /\ SameTerms(x, xfer[t])
    BY <1>2 DEF Committed, Unused, SameTerms
  <2>2. xfer' = [xfer EXCEPT ![t] = x]
    BY <1>6 DEF GoToFee, IInv, TypeOK
  <2>3. QED
    BY <1>4, <2>1, <2>2
<1>7. ASSUME NEW pc, NEW kept, xfer' = [xfer EXCEPT ![t].kept = kept, ![t].pc = pc]
      PROVE  TermsStay
  <2> DEFINE x == [xfer[t] EXCEPT !.kept = kept, !.pc = pc]
  <2>1. x # Unused /\ SameTerms(x, xfer[t])
    BY <1>2 DEF Committed, Unused, SameTerms
  <2>2. xfer' = [xfer EXCEPT ![t] = x]
    BY <1>7 DEF IInv, TypeOK
  <2>3. QED
    BY <1>4, <2>1, <2>2
<1>8. ASSUME NEW pc, xfer' = [xfer EXCEPT ![t].pc = pc]
      PROVE  TermsStay
  <2> DEFINE x == [xfer[t] EXCEPT !.pc = pc]
  <2>1. x # Unused /\ SameTerms(x, xfer[t])
    BY <1>2 DEF Committed, Unused, SameTerms
  <2>2. xfer' = [xfer EXCEPT ![t] = x]
    BY <1>8 DEF IInv, TypeOK
  <2>3. QED
    BY <1>4, <2>1, <2>2
<1>9. CASE PayL1(t) \/ PayL2(t) \/ ReferralThrows(t)
  BY <1>3, <1>5, <1>6, <1>9 DEF PayL1, PayL2, ReferralThrows
<1>10. CASE EarningRow(t)
  BY <1>3, <1>6, <1>8, <1>10 DEF EarningRow
<1>11. CASE PlatformRow(t)
  <2>1. PICK kept : xfer' = [xfer EXCEPT ![t].kept = kept, ![t].pc = "done"]
    BY <1>11 DEF PlatformRow
  <2>2. QED
    BY <1>3, <1>7, <2>1
<1>12. CASE TransferDies(t)
  BY <1>3, <1>8, <1>12 DEF TransferDies
<1>13. QED
  BY <1>9, <1>10, <1>11, <1>12 DEF TransferStep

LEMMA SerialFrame ==
    ASSUME IInv, SerialAll, TermsStay, UNCHANGED <<call, refundRows, refunded>>,
           raced \subseteq raced', stale \subseteq stale',
           \A t \in Transfers \ (raced \cup stale) :
              xfer[t] = Unused /\ xfer'[t] # Unused => refunded[t] <= xfer'[t].amt
    PROVE  SerialAll'
<1> SUFFICES ASSUME NEW t \in Transfers, t \notin raced' \cup stale'
             PROVE  SerialInv(t)'
  BY DEF SerialAll, SerialInv
<1>1. SerialInv(t) /\ t \notin raced \cup stale
  BY DEF SerialAll
<1>2. \A c \in Callers : On(c, t)' <=> On(c, t)
  BY DEF On
<1>3. \A c \in Callers : On(c, t) => xfer'[t].amt = xfer[t].amt
  BY DEF On, TermsStay, SameTerms, IInv, CallInv
<1>4. QED
  BY <1>1, <1>2, <1>3 DEF SerialInv, TermsStay, SameTerms

(* A call leaves; it may have moved its amount.                            *)
LEMMA SerialReturn ==
    ASSUME IInv, SerialAll, NEW c \in Callers, RefundReturn(c),
           UNCHANGED <<xfer, refundRows, refunded, raced>>, stale \subseteq stale'
    PROVE  SerialAll'
<1> SUFFICES ASSUME NEW t \in Transfers, t \notin raced' \cup stale'
             PROVE  SerialInv(t)'
  BY DEF SerialAll, SerialInv
<1>1. SerialInv(t) /\ t \notin raced \cup stale
  BY DEF SerialAll
<1>2. \A d \in Callers : On(d, t)' => On(d, t) /\ call'[d] = call[d]
  BY DEF On, RefundReturn, IInv, TypeOK
<1>3. QED
  BY <1>1, <1>2 DEF SerialInv

LEMMA SerialMove ==
    ASSUME IInv, SerialAll, NEW c \in Callers, call[c] # Idle, NEW a \in Nat,
           MoveBack(c, a), UNCHANGED <<xfer, raced>>, stale \subseteq stale',
           call[c].t \notin raced \cup stale' => a <= call[c].amt
    PROVE  SerialAll'
<1> SUFFICES ASSUME NEW t \in Transfers, t \notin raced' \cup stale'
             PROVE  SerialInv(t)'
  BY DEF SerialAll, SerialInv
<1>1. SerialInv(t) /\ t \notin raced \cup stale
  BY DEF SerialAll
<1>2. \A d \in Callers : On(d, t)' => d # c /\ On(d, t) /\ call'[d] = call[d]
  BY DEF On, MoveBack, RefundReturn, IInv, TypeOK
<1>3. /\ call[c].t \in Transfers /\ call[c].amt \in Nat /\ xfer[call[c].t] # Unused
      /\ refundRows[t] \in Nat /\ refunded[t] \in Nat
  BY CallRecord DEF IInv, TypeOK
<1> DEFINE r == GivenBack(c, a)
<1>4. /\ refundRows' = [refundRows EXCEPT ![call[c].t] = @ + 1]
      /\ refunded' = [refunded EXCEPT ![call[c].t] = @ + r]
      /\ r \in Nat /\ r <= a
  BY GivenBackIs DEF MoveBack
<1> HIDE DEF r
<1>5. CASE call[c].t # t
  <2>1. refundRows'[t] = refundRows[t] /\ refunded'[t] = refunded[t]
    BY <1>3, <1>4, <1>5 DEF IInv, TypeOK
  <2>2. QED
    BY <1>1, <1>2, <2>1 DEF SerialInv
<1>6. CASE call[c].t = t
  <2>1. On(c, t)
    BY <1>6 DEF On
  <2>2. \A d \in Callers : ~On(d, t)'
    BY <1>1, <1>2, <2>1 DEF SerialInv
  <2>3. refundRows'[t] = refundRows[t] + 1 /\ refunded'[t] = refunded[t] + r
    BY <1>3, <1>4, <1>6 DEF IInv, TypeOK
  <2>4. /\ refunded[t] = 0 /\ refundRows[t] = 0
        /\ call[c].amt <= xfer[t].amt /\ a <= call[c].amt
    BY <1>1, <1>6, <2>1 DEF SerialInv
  <2>5. xfer[t].amt \in Nat
    BY <1>3, <1>6, TransferRecord DEF IInv
  <2>6. refunded'[t] <= xfer'[t].amt /\ refundRows'[t] # 0 /\ xfer'[t] # Unused
    BY <1>3, <1>4, <1>6, <2>3, <2>4, <2>5
  <2>7. QED
    BY <2>2, <2>6 DEF SerialInv
<1>7. QED
  BY <1>5, <1>6
(* A call in the same transaction goes to its next statement.              *)
LEMMA SerialGoOn ==
    ASSUME IInv, SerialAll, NEW c \in Callers, call[c] # Idle, NEW k,
           call' = [call EXCEPT ![c] = k], k.t = call[c].t, k.amt = call[c].amt,
           call[c].t \notin stale' /\ k.pc = "drain" => k.available <= k.amt,
           UNCHANGED <<xfer, refundRows, refunded, raced>>, stale \subseteq stale'
    PROVE  SerialAll'
<1> SUFFICES ASSUME NEW t \in Transfers, t \notin raced' \cup stale'
             PROVE  SerialInv(t)'
  BY DEF SerialAll, SerialInv
<1>1. SerialInv(t) /\ t \notin raced \cup stale
  BY DEF SerialAll
<1>2. \A d \in Callers : /\ On(d, t)' => On(d, t)
                         /\ d # c => call'[d] = call[d]
  BY DEF On, IInv, TypeOK
<1>3. call'[c] = k
  BY DEF IInv, TypeOK
<1>4. ASSUME NEW d \in Callers, On(d, t)'
      PROVE  /\ refundRows'[t] = 0
             /\ call'[d].amt <= xfer'[t].amt
             /\ call'[d].pc = "drain" => call'[d].available <= call'[d].amt
  <2>1. On(d, t)
    BY <1>2, <1>4
  <2>2. CASE d # c
    BY <1>1, <1>2, <2>1, <2>2 DEF SerialInv
  <2>3. CASE d = c
    <3>1. call[c].t = t
      BY <2>1, <2>3 DEF On
    <3>2. QED
      BY <1>1, <1>3, <2>1, <2>3, <3>1 DEF SerialInv
  <2>4. QED
    BY <2>2, <2>3
<1>5. QED
  BY <1>1, <1>2, <1>4 DEF SerialInv

LEMMA SerialCheck ==
    ASSUME IInv, SerialAll, NEW c \in Callers, NEW p \in Transfers, NEW to \in Orgs,
           NEW a \in Amounts, RefundCheck(c, p, to, a)
    PROVE  SerialAll'
<1> SUFFICES ASSUME NEW t \in Transfers, t \notin raced' \cup stale'
             PROVE  SerialInv(t)'
  BY DEF SerialAll, SerialInv
<1> DEFINE k == [pc |-> "begin", t |-> p, to |-> to, amt |-> a, available |-> 0]
<1>1. /\ raced' = IF UnderRefund(p) THEN raced \cup {p} ELSE raced
      /\ UNCHANGED <<xfer, refundRows, refunded, stale>>
      /\ xfer[p] # Unused /\ a <= xfer[p].amt /\ ~RefundExists(p)
      /\ call' = [call EXCEPT ![c] = k]
  BY DEF RefundCheck
<1>2. SerialInv(t) /\ t \notin raced \cup stale
  BY <1>1 DEF SerialAll
<1>3. call'[c] = k /\ \A d \in Callers : d # c => call'[d] = call[d]
  BY <1>1 DEF IInv, TypeOK
<1>4. k.t = p /\ k.amt = a /\ k.pc = "begin"
  OBVIOUS
<1>5. \A d \in Callers : d # c => (On(d, t)' <=> On(d, t))
  BY <1>3 DEF On
<1> HIDE DEF k
<1>6. CASE t # p
  <2>1. ~On(c, t)'
    BY <1>3, <1>4, <1>6 DEF On
  <2>2. QED
    BY <1>1, <1>2, <1>3, <1>5, <2>1 DEF SerialInv
<1>7. CASE t = p
  <2>1. \A d \in Callers : ~On(d, t)
    BY <1>1, <1>7 DEF UnderRefund, On
  <2>2. refundRows[t] = 0
    <3>1. refundRows[t] \in Nat /\ ~(refundRows[t] > 0)
      BY <1>1, <1>7 DEF IInv, TypeOK, RefundExists
    <3>2. QED
      BY <3>1
  <2>3. \A d \in Callers : On(d, t)' => d = c
    BY <1>5, <2>1
  <2>4. QED
    BY <1>1, <1>2, <1>3, <1>4, <1>7, <2>2, <2>3 DEF SerialInv
<1>8. QED
  BY <1>6, <1>7

LEMMA SerialStep ==
    ASSUME IInv, SerialAll, NEW c \in Callers, RefundStep(c) \/ RefundDies(c)
    PROVE  SerialAll'
<1>1. call[c] # Idle
  <2>1. call[c].pc # "idle" \/ call[c] # Idle
    BY DEF RefundStep, RefundFull, RefundMiss, RefundPeek, RefundDrain, RefundDies
  <2> QED
    BY <2>1 DEF Idle
<1>2. /\ call[c] \in Refunding /\ call[c].t \in Transfers
      /\ call[c].amt \in Nat /\ call[c].available \in Nat
      /\ xfer[call[c].t] # Unused
  BY <1>1, CallRecord DEF IInv
<1>3. CASE RefundDies(c)
  BY <1>3, SerialReturn DEF RefundDies, history
<1>4. CASE RefundFull(c)
  <2>1. /\ MoveBack(c, call[c].amt) /\ UNCHANGED <<xfer, raced>>
        /\ stale \subseteq stale'
        /\ call[c].amt <= call[c].amt
    BY <1>2, <1>4 DEF RefundFull
  <2>2. QED
    BY <1>1, <1>2, <2>1, SerialMove
<1>5. CASE RefundMiss(c)
  <2> DEFINE k == [call[c] EXCEPT !.pc = "peek"]
  <2>1. k.t = call[c].t /\ k.amt = call[c].amt /\ k.pc = "peek"
    BY <1>2 DEF Refunding
  <2>2. /\ call' = [call EXCEPT ![c] = k]
        /\ UNCHANGED <<xfer, refundRows, refunded, raced>> /\ stale \subseteq stale'
    BY <1>5 DEF RefundMiss, history
  <2> HIDE DEF k
  <2>3. QED
    BY <1>1, <2>1, <2>2, SerialGoOn
<1>6. CASE RefundPeek(c)
  <2> DEFINE has == balance[call[c].to]
             k == [call[c] EXCEPT !.pc = "drain", !.available = has]
  <2>1. UNCHANGED <<xfer, refundRows, refunded, raced>>
    BY <1>6 DEF RefundPeek
  <2>2. CASE RefundReturn(c) /\ stale' = stale
    BY <2>1, <2>2, SerialReturn
  <2>3. CASE /\ call' = [call EXCEPT ![c].pc = "drain", ![c].available = has]
             /\ stale' = IF has >= call[c].amt THEN stale \cup {call[c].t} ELSE stale
    <3>1. k.t = call[c].t /\ k.amt = call[c].amt /\ k.pc = "drain" /\ k.available = has
      BY <1>2 DEF Refunding
    <3>2. call' = [call EXCEPT ![c] = k]
      BY <2>3
    <3>3. has \in Int
      BY <1>1, CallRecord DEF IInv, TypeOK
    <3>4. call[c].t \notin stale' => has <= call[c].amt
      <4> HIDE DEF has
      <4>1. QED
        BY <1>2, <2>3, <3>3
    <3>5. stale \subseteq stale'
      BY <2>3
    <3> HIDE DEF k, has
    <3>6. QED
      BY <1>1, <2>1, <3>1, <3>2, <3>4, <3>5, SerialGoOn
  <2>4. QED
    BY <1>6, <2>2, <2>3 DEF RefundPeek
<1>7. CASE RefundDrain(c)
  <2>1. /\ MoveBack(c, call[c].available) /\ UNCHANGED <<xfer, raced>>
        /\ stale \subseteq stale' /\ call[c].pc = "drain"
    BY <1>7 DEF RefundDrain
  <2>2. call[c].t \notin raced \cup stale' => call[c].available <= call[c].amt
    <3>1. SerialInv(call[c].t) /\ On(c, call[c].t)
      BY <1>1, <1>2 DEF SerialAll, On
    <3>2. QED
      BY <2>1, <3>1 DEF SerialInv
  <2>3. QED
    BY <1>1, <1>2, <2>1, <2>2, SerialMove
<1>8. QED
  BY <1>3, <1>4, <1>5, <1>6, <1>7 DEF RefundStep

LEMMA SerialNext == IInv /\ SerialAll /\ [Next]_vars => SerialAll'
<1> SUFFICES ASSUME IInv, SerialAll, [Next]_vars PROVE SerialAll'
  OBVIOUS
<1>1. ASSUME UNCHANGED <<xfer, call, refundRows, refunded, raced, stale>>
      PROVE  SerialAll'
  <2>1. TermsStay
    BY <1>1 DEF TermsStay, SameTerms
  <2>2. QED
    BY <1>1, <2>1, SerialFrame
<1>2. CASE \E o \in Orgs, a \in OtherAmounts : Purchase(o, a) \/ Spend(o, a)
  BY <1>1, <1>2 DEF Purchase, Spend
<1>3. ASSUME NEW t \in Transfers, NEW from \in Orgs, NEW to \in Orgs, NEW a \in Amounts,
             Transfer(t, from, to, a)
      PROVE  SerialAll'
  <2> DEFINE x == [pc |-> "refer", from |-> from, to |-> to, amt |-> Recorded(a),
                   paid |-> 0, known |-> 0, kept |-> 0]
  <2>1. /\ xfer[t] = Unused /\ xfer' = [xfer EXCEPT ![t] = x]
        /\ UNCHANGED <<call, refundRows, refunded, raced, stale>>
    BY <1>3 DEF Transfer, history
  <2>2. x.amt = a /\ a \in Nat
    BY PaymentsAssumption DEF Recorded
  <2> HIDE DEF x
  <2>3. TermsStay
    BY <2>1 DEF TermsStay, SameTerms, IInv, TypeOK
  <2>4. ASSUME NEW p \in Transfers \ (raced \cup stale), xfer[p] = Unused,
               xfer'[p] # Unused
        PROVE  refunded[p] <= xfer'[p].amt
    <3>1. p = t
      BY <2>1, <2>4 DEF IInv, TypeOK
    <3>2. xfer'[p].amt = a
      BY <2>1, <2>2, <3>1 DEF IInv, TypeOK
    <3>3. refunded[p] = 0
      BY <2>4 DEF SerialAll, SerialInv
    <3>4. QED
      BY <2>2, <3>2, <3>3
  <2>5. QED
    BY <2>1, <2>3, <2>4, SerialFrame
<1>4. ASSUME NEW t \in Transfers, TransferStep(t) \/ TransferDies(t)
      PROVE  SerialAll'
  <2>1. /\ TermsStay /\ UNCHANGED <<call, refundRows, refunded, raced, stale>>
        /\ \A p \in Transfers : xfer[p] = Unused => xfer'[p] = Unused
    BY <1>4, TransferStepStays DEF history
  <2>2. QED
    BY <2>1, SerialFrame
<1>5. CASE \E c \in Callers, t \in Transfers, to \in Orgs, a \in Amounts :
             RefundCheck(c, t, to, a)
  BY <1>5, SerialCheck
<1>6. CASE \E c \in Callers : RefundStep(c) \/ RefundDies(c)
  BY <1>6, SerialStep
<1>7. CASE UNCHANGED vars
  BY <1>1, <1>7 DEF vars, history
<1>8. QED
  BY <1>2, <1>3, <1>4, <1>5, <1>6, <1>7 DEF Next

(* Refunds of a transfer that do not overlap and act on current balances   *)
(* give back no more than was paid, over any number of calls, crashes and  *)
(* transfers.                                                              *)
THEOREM RefundsAreBounded == Spec => []SerialRefundsBounded
<1>1. Init => SerialAll
  BY DEF Init, SerialAll, SerialInv, On
<1>2. SerialAll => SerialRefundsBounded
  BY DEF SerialAll, SerialInv, SerialRefundsBounded, Made
<1>3. QED
  BY <1>1, <1>2, SerialNext, Invariant, PTL DEF Spec
-----------------------------------------------------------------------------
(* The two sums of the ledger, as Totals: what the orgs hold, and what the *)
(* platform kept of the transfers made.                                    *)
Share(x) == PlatformFee(x.amt) - x.paid
RetainedSum(m, S) == MapThenSumSet(LAMBDA t : PlatformFee(m[t].amt) - m[t].paid, S)
RetainedOf(m, S) == [t \in S |-> Share(m[t])]
IsRetainedSum(m, S, f) ==
    f = [T \in SUBSET S |->
           IF T = {} THEN 0
           ELSE PlatformFee(m[First(T)].amt) - m[First(T)].paid + f[T \ {First(T)}]]

LEMMA RetainedSumIs ==
    ASSUME NEW m, NEW S, IsFiniteSet(S)
    PROVE  RetainedSum(m, S) = Total(RetainedOf(m, S), S)
<1> DEFINE g == RetainedOf(m, S)
           c == CHOOSE f : IsRetainedSum(m, S, f)
<1>1. ASSUME NEW f
      PROVE  IsSum(g, S, f) <=> IsRetainedSum(m, S, f)
  <2>1. \A T \in SUBSET S : T # {} => First(T) \in S
    BY FirstIn
  <2>2. \A T \in SUBSET S : T # {} =>
          g[First(T)] = PlatformFee(m[First(T)].amt) - m[First(T)].paid
    BY <2>1 DEF RetainedOf, Share
  <2> HIDE DEF g
  <2>3. [T \in SUBSET S |-> IF T = {} THEN 0 ELSE g[First(T)] + f[T \ {First(T)}]]
         = [T \in SUBSET S |->
              IF T = {} THEN 0
              ELSE PlatformFee(m[First(T)].amt) - m[First(T)].paid + f[T \ {First(T)}]]
    BY <2>2
  <2> QED
    BY <2>3 DEF IsSum, IsRetainedSum
<1>2. IsSum(g, S, SumOf(g, S))
  BY SumExists
<1>3. IsSum(g, S, c)
  BY <1>1, <1>2
<1>4. c[S] = SumOf(g, S)[S]
  <2> HIDE DEF g, c
  <2>1. PICK f : f = c
    OBVIOUS
  <2>2. PICK h : h = SumOf(g, S)
    OBVIOUS
  <2>3. IsSum(g, S, f) /\ IsSum(g, S, h) /\ S \in SUBSET S
    BY <1>2, <1>3, <2>1, <2>2
  <2>4. \A U \in SUBSET S : f[U] = h[U]
    BY <2>3, SumUnique
  <2> QED
    BY <2>1, <2>2, <2>4
<1>5. RetainedSum(m, S) = c[S]
  BY DEF RetainedSum, MapThenSumSet, MapThenFoldSet, IsRetainedSum, First
<1> QED
  BY <1>4, <1>5, TotalIs

LEMMA SumsAreTotals ==
    ASSUME IsFiniteSet(Made)
    PROVE  /\ Held = Total(balance, Orgs) /\ Held' = Total(balance', Orgs)
           /\ Retained = Total(RetainedOf(xfer, Made), Made)
<1>1. Held = Total(balance, Orgs) /\ Held' = Total(balance', Orgs)
  BY DEF Held, SumOver, Total, MapThenSumSet, MapThenFoldSet
<1>2. Retained = RetainedSum(xfer, Made)
  BY DEF Retained, SumOver, RetainedSum, MapThenSumSet, MapThenFoldSet
<1> QED
  BY <1>1, <1>2, RetainedSumIs

LEMMA RetainedNext ==
    ASSUME IsFiniteSet(Made')
    PROVE  Retained' = Total(RetainedOf(xfer', Made'), Made')
<1>1. Retained' = RetainedSum(xfer', Made')
  BY DEF Retained, SumOver, RetainedSum, MapThenSumSet, MapThenFoldSet
<1> QED
  BY <1>1, RetainedSumIs

(* The sums after a step: one balance changes; two balances change.        *)
LEMMA HeldOne ==
    ASSUME IInv, NEW o \in Orgs, NEW v \in Int, balance' = Changed(balance, o, v)
    PROVE  Held \in Int /\ Held' = Held + (v - balance[o])
<1>1. /\ Held = Total(balance, Orgs)
      /\ Held' = Total(Changed(balance, o, v), Orgs)
  BY DEF Held, SumOver, Total, MapThenSumSet, MapThenFoldSet
<1>2. balance \in [Orgs -> Int] /\ IsFiniteSet(Orgs)
  BY PaymentsAssumption DEF IInv, TypeOK
<1>3. /\ Total(balance, Orgs) \in Int
      /\ Total(Changed(balance, o, v), Orgs) = Total(balance, Orgs) + (v - balance[o])
  BY <1>2, TotalChanged
<1> QED
  BY <1>1, <1>3

LEMMA HeldTwo ==
    ASSUME IInv, NEW o \in Orgs, NEW p \in Orgs, o # p, NEW v \in Int, NEW w \in Int,
           balance' = Changed(Changed(balance, o, v), p, w)
    PROVE  Held \in Int /\ Held' = Held + (v - balance[o]) + (w - balance[p])
<1> DEFINE g == Changed(balance, o, v)
<1>1. Held = Total(balance, Orgs) /\ Held' = Total(Changed(g, p, w), Orgs)
  BY DEF Held, SumOver, Total, MapThenSumSet, MapThenFoldSet
<1>2. balance \in [Orgs -> Int] /\ IsFiniteSet(Orgs)
  BY PaymentsAssumption DEF IInv, TypeOK
<1>3. /\ Total(balance, Orgs) \in Int
      /\ g \in [Orgs -> Int]
      /\ Total(g, Orgs) = Total(balance, Orgs) + (v - balance[o])
  BY <1>2, TotalChanged
<1>4. g[p] = balance[p] /\ balance[o] \in Int /\ balance[p] \in Int
  BY <1>2 DEF Changed
<1> HIDE DEF g
<1>5. PICK f \in [Orgs -> Int] : f = g
  BY <1>3
<1>6. Total(Changed(f, p, w), Orgs) = Total(f, Orgs) + (w - f[p])
  BY <1>2, TotalChanged
<1> QED
  BY <1>1, <1>3, <1>4, <1>5, <1>6

LEMMA HeldSame ==
    ASSUME IInv, balance' = balance
    PROVE  Held \in Int /\ Held' = Held
<1>1. Held' = Held
  BY DEF Held, SumOver, MapThenSumSet, MapThenFoldSet
<1>2. Held = Total(balance, Orgs)
  BY DEF Held, SumOver, Total, MapThenSumSet, MapThenFoldSet
<1> QED
  BY <1>1, <1>2, TotalType, PaymentsAssumption DEF IInv, TypeOK

LEMMA HeldType ==
    ASSUME IInv
    PROVE  Held \in Int
<1>1. Held = Total(balance, Orgs)
  BY DEF Held, SumOver, Total, MapThenSumSet, MapThenFoldSet
<1> QED
  BY <1>1, TotalType, PaymentsAssumption DEF IInv, TypeOK

(* What the platform kept of one transfer is an integer.                   *)
LEMMA ShareType ==
    ASSUME IInv, NEW t \in Made
    PROVE  Share(xfer[t]) \in Int
<1>1. t \in Transfers /\ xfer[t] \in Committed /\ xfer[t].amt \in Nat
  BY TransferRecord DEF IInv, Made
<1>2. xfer[t].paid \in Nat
  BY <1>1 DEF Committed
<1> QED
  BY <1>1, <1>2, FeeBounds DEF Share

LEMMA RetainedType ==
    ASSUME IInv, IsFiniteSet(Made)
    PROVE  Retained \in Int
<1>1. \A t \in Made : RetainedOf(xfer, Made)[t] \in Int
  BY ShareType DEF RetainedOf
<1> QED
  BY <1>1, SumsAreTotals, TotalType

(* No transfer is made, and none changes its amount or its payouts.        *)
LEMMA RetainedSame ==
    ASSUME IInv, IsFiniteSet(Made), Made' = Made,
           \A t \in Made : xfer'[t].amt = xfer[t].amt /\ xfer'[t].paid = xfer[t].paid
    PROVE  Retained' = Retained
<1>1. \A t \in Made : RetainedOf(xfer, Made)[t] = RetainedOf(xfer', Made)[t]
  BY DEF RetainedOf, Share
<1>2. Total(RetainedOf(xfer, Made), Made) = Total(RetainedOf(xfer', Made), Made)
  BY <1>1, TotalSame
<1>3. Retained' = Total(RetainedOf(xfer', Made'), Made')
  BY RetainedNext
<1> QED
  BY <1>2, <1>3, SumsAreTotals

(* One transfer's payouts grow by d.                                       *)
LEMMA RetainedPaid ==
    ASSUME IInv, IsFiniteSet(Made), NEW t \in Made, Made' = Made, NEW d \in Int,
           \A u \in Made \ {t} : xfer'[u] = xfer[u],
           xfer'[t].amt = xfer[t].amt, xfer'[t].paid = xfer[t].paid + d
    PROVE  Retained' = Retained - d
<1> DEFINE g == RetainedOf(xfer, Made)
           v == Share(xfer[t]) - d
<1>1. Retained = Total(g, Made) /\ Retained' = Total(RetainedOf(xfer', Made), Made)
  BY SumsAreTotals, RetainedNext
<1>2. /\ g \in [Made -> Int] /\ g[t] = Share(xfer[t]) /\ Share(xfer[t]) \in Int
      /\ v \in Int
  BY ShareType DEF RetainedOf
<1>3. Share(xfer'[t]) = v
  <2>1. xfer[t].paid \in Nat /\ PlatformFee(xfer[t].amt) \in Int
    BY TransferRecord, FeeBounds DEF IInv, Made
  <2> QED
    BY <2>1 DEF Share
<1>4. RetainedOf(xfer', Made) = Changed(g, t, v)
  <2>1. \A u \in Made \ {t} : Share(xfer'[u]) = Share(xfer[u])
    OBVIOUS
  <2> HIDE DEF v
  <2> QED
    BY <1>3, <2>1 DEF RetainedOf, Changed
<1> HIDE DEF g, v
<1>5. /\ Total(g, Made) \in Int
      /\ Total(Changed(g, t, v), Made) = Total(g, Made) + (v - g[t])
  BY <1>2, TotalChanged
<1> QED
  BY <1>1, <1>2, <1>4, <1>5 DEF v

(* A transfer is made: the platform keeps its whole fee.                   *)
LEMMA RetainedMade ==
    ASSUME IInv, IsFiniteSet(Made), NEW t \in Transfers, t \notin Made,
           Made' = Made \cup {t}, \A u \in Made : xfer'[u] = xfer[u],
           xfer'[t].amt \in Nat, xfer'[t].paid = 0
    PROVE  IsFiniteSet(Made') /\ Retained' = Retained + PlatformFee(xfer'[t].amt)
<1> DEFINE M == Made \cup {t}
           g == RetainedOf(xfer, Made)
           h == RetainedOf(xfer', M)
<1>1. IsFiniteSet(M)
  BY FS_AddElement
<1>2. /\ \A u \in Made : g[u] = Share(xfer[u]) /\ h[u] = Share(xfer[u])
      /\ h[t] = PlatformFee(xfer'[t].amt) - 0
  BY DEF RetainedOf, Share
<1>3. Retained = Total(g, Made) /\ Retained' = Total(h, M)
  <2>1. Retained = Total(g, Made)
    BY SumsAreTotals
  <2>2. Retained' = Total(RetainedOf(xfer', Made'), Made')
    BY <1>1, RetainedNext
  <2> QED
    BY <2>1, <2>2
<1>4. PlatformFee(xfer'[t].amt) \in Int
  BY FeeBounds
<1>5. \A u \in Made : g[u] \in Int /\ g[u] = h[u]
  BY <1>2, ShareType
<1>6. \A u \in M : h[u] \in Int
  <2>1. h[t] \in Int
    BY <1>2, <1>4
  <2> HIDE DEF g, h
  <2> QED
    BY <1>5, <2>1
<1>7. Total(g, Made) = Total(h, Made) /\ Total(g, Made) \in Int
  <2> HIDE DEF g, h
  <2> QED
    BY <1>5, TotalSame, TotalType
<1>8. Total(h, M) = h[t] + Total(h, Made)
  <2> HIDE DEF g, h
  <2> QED
    BY <1>6, TotalWith
<1> QED
  BY <1>1, <1>2, <1>3, <1>4, <1>7, <1>8

-----------------------------------------------------------------------------
(* The inductive invariant behind OnlyStaleRefundsLeak: finitely many      *)
(* transfers were made, each between two different orgs (so that a refund  *)
(* changes two balances), and without a stale refund nothing leaks beyond  *)
(* a gap there was before (none here; A2ATask's automatic payments make    *)
(* one).                                                                   *)
Leaks(gap) == stale = {} => Held + Retained + gap = supply

LeakInv(gap) ==
    /\ IsFiniteSet(Made)
    /\ \A t \in Made : xfer[t].from # xfer[t].to
    /\ Leaks(gap)

(* A step that changes no transfer.                                        *)
LEMMA LeakUntouched ==
    ASSUME NEW gap \in Int, IInv, LeakInv(gap),
           xfer' = xfer, stale \subseteq stale',
           stale' = {} => Held' = Held + (supply' - supply),
           Held \in Int, Held' \in Int, supply \in Int, supply' \in Int
    PROVE  LeakInv(gap)'
<1>1. Made' = Made
  BY DEF Made
<1>2. Retained' = Retained
  BY <1>1, RetainedSame DEF LeakInv
<1>3. Retained \in Int
  BY RetainedType DEF LeakInv
<1>4. Leaks(gap)' <=> (stale' = {} => Held' + Retained + gap = supply')
  BY <1>2 DEF Leaks
<1>5. Leaks(gap)'
  <2>1. SUFFICES ASSUME stale' = {}
                 PROVE  Held' + Retained + gap = supply'
    BY <1>4
  <2>2. Held + Retained + gap = supply
    BY <2>1 DEF LeakInv, Leaks
  <2>3. Held' = Held + (supply' - supply)
    BY <2>1
  <2>4. PICK h, r, s, u \in Int :
            h = Held /\ r = Retained /\ s = supply /\ u = supply'
    BY <1>3
  <2>5. h + r + gap = s /\ Held' = h + (u - s)
    BY <2>2, <2>3, <2>4
  <2>6. (h + (u - s)) + r + gap = u
    BY <2>5
  <2> QED
    BY <2>4, <2>5, <2>6
<1>6. IsFiniteSet(Made') /\ \A t \in Made' : xfer'[t].from # xfer'[t].to
  BY <1>1 DEF LeakInv
<1> QED
  BY <1>5, <1>6 DEF LeakInv

(* A step of a transfer: its parties stay, and what is paid to a referrer  *)
(* is what the platform no longer keeps.                                   *)
LEMMA LeakPaid ==
    ASSUME NEW gap \in Int, IInv, LeakInv(gap),
           NEW t \in Transfers, xfer[t] # Unused, NEW d \in Int,
           NEW x, xfer' = Changed(xfer, t, x), x # Unused,
           x.amt = xfer[t].amt, x.from = xfer[t].from, x.to = xfer[t].to,
           x.paid = xfer[t].paid + d,
           Held \in Int, Held' = Held + d, UNCHANGED history
    PROVE  LeakInv(gap)'
<1>1. t \in Made
  BY DEF Made
<1>2. /\ \A u \in Made \ {t} : xfer'[u] = xfer[u]
      /\ xfer'[t] = x
  BY DEF Made, IInv, TypeOK, Changed
<1>3. Made' = Made
  BY DEF Made, IInv, TypeOK, Changed
<1>4. Retained' = Retained - d
  BY <1>1, <1>2, <1>3, RetainedPaid DEF LeakInv
<1>5. Retained \in Int
  BY RetainedType DEF LeakInv
<1>6. Held' + Retained' = Held + Retained
  BY <1>4, <1>5
<1>7. supply' = supply /\ stale' = stale
  BY DEF history
<1>8. Leaks(gap)'
  BY <1>6, <1>7 DEF LeakInv, Leaks
<1>9. IsFiniteSet(Made') /\ \A u \in Made' : xfer'[u].from # xfer'[u].to
  BY <1>1, <1>2, <1>3 DEF LeakInv
<1> QED
  BY <1>8, <1>9 DEF LeakInv

LEMMA LeakTransferStep ==
    ASSUME NEW gap \in Int, IInv, LeakInv(gap),
           NEW t \in Transfers, TransferStep(t) \/ TransferDies(t)
    PROVE  LeakInv(gap)'
<1>1. xfer[t] # Unused
  BY DEF TransferStep, PayL1, EarningRow, PayL2, ReferralThrows, PlatformRow,
         TransferDies, At, Unused, Tail
<1>2. xfer[t] \in Committed /\ xfer[t].paid \in Nat
  BY <1>1, TransferRecord DEF IInv
<1>3. ASSUME NEW x, xfer' = Changed(xfer, t, x), x # Unused,
             x.amt = xfer[t].amt, x.from = xfer[t].from, x.to = xfer[t].to,
             x.paid = xfer[t].paid, UNCHANGED <<balance, history>>
      PROVE  LeakInv(gap)'
  <2>1. Held \in Int /\ Held' = Held
    BY <1>3, HeldSame
  <2>2. x.paid = xfer[t].paid + 0 /\ Held' = Held + 0
    BY <1>2, <1>3, <2>1
  <2> QED
    BY <1>1, <1>3, <2>1, <2>2, LeakPaid
<1>4. ASSUME NEW o \in Orgs, NEW payout \in Nat, NEW pc,
             CreditReferrer(t, o, payout, pc)
      PROVE  LeakInv(gap)'
  <2> DEFINE x == [xfer[t] EXCEPT !.paid = @ + payout, !.pc = pc]
  <2>1. /\ x # Unused /\ x.amt = xfer[t].amt /\ x.from = xfer[t].from
        /\ x.to = xfer[t].to /\ x.paid = xfer[t].paid + payout
    BY <1>2 DEF Committed, Unused
  <2>2. xfer' = Changed(xfer, t, x) /\ UNCHANGED history
    BY <1>4 DEF CreditReferrer, IInv, TypeOK, Changed
  <2>3. Held \in Int /\ Held' = Held + payout
    <3>1. balance[o] \in Int
      BY DEF IInv, TypeOK
    <3>2. PICK v \in Int : v = balance[o] + payout
      BY <3>1
    <3>3. balance' = Changed(balance, o, v)
      BY <1>4, <3>2 DEF CreditReferrer, Changed
    <3>4. Held \in Int /\ Held' = Held + (v - balance[o])
      BY <3>3, HeldOne
    <3> QED
      BY <3>1, <3>2, <3>4
  <2> HIDE DEF x
  <2> QED
    BY <1>1, <2>1, <2>2, <2>3, LeakPaid
<1>5. ASSUME NEW known, GoToFee(t, known)
      PROVE  LeakInv(gap)'
  <2> DEFINE x == [xfer[t] EXCEPT !.known = known, !.pc = "fee"]
  <2>1. /\ x # Unused /\ x.amt = xfer[t].amt /\ x.from = xfer[t].from
        /\ x.to = xfer[t].to /\ x.paid = xfer[t].paid
    BY <1>2 DEF Committed, Unused
  <2>2. xfer' = Changed(xfer, t, x) /\ UNCHANGED <<balance, history>>
    BY <1>5 DEF GoToFee, IInv, TypeOK, Changed
  <2> HIDE DEF x
  <2> QED
    BY <1>3, <2>1, <2>2
<1>6. ASSUME NEW pc, xfer' = [xfer EXCEPT ![t].pc = pc], UNCHANGED <<balance, history>>
      PROVE  LeakInv(gap)'
  <2> DEFINE x == [xfer[t] EXCEPT !.pc = pc]
  <2>1. /\ x # Unused /\ x.amt = xfer[t].amt /\ x.from = xfer[t].from
        /\ x.to = xfer[t].to /\ x.paid = xfer[t].paid
    BY <1>2 DEF Committed, Unused
  <2>2. xfer' = Changed(xfer, t, x)
    BY <1>6 DEF IInv, TypeOK, Changed
  <2> HIDE DEF x
  <2> QED
    BY <1>3, <1>6, <2>1, <2>2
<1>7. CASE PlatformRow(t)
  <2>1. PICK kept : xfer' = [xfer EXCEPT ![t].kept = kept, ![t].pc = "done"]
    BY <1>7 DEF PlatformRow
  <2> DEFINE x == [xfer[t] EXCEPT !.kept = kept, !.pc = "done"]
  <2>2. /\ x # Unused /\ x.amt = xfer[t].amt /\ x.from = xfer[t].from
        /\ x.to = xfer[t].to /\ x.paid = xfer[t].paid
    BY <1>2 DEF Committed, Unused
  <2>3. xfer' = Changed(xfer, t, x)
    BY <2>1 DEF IInv, TypeOK, Changed
  <2>4. UNCHANGED <<balance, history>>
    BY <1>7 DEF PlatformRow
  <2> HIDE DEF x
  <2> QED
    BY <1>3, <2>2, <2>3, <2>4
<1>8. CASE PayL1(t)
  <2>1. CASE HasL1(t) /\ CreditReferrer(t, L1Org(t), L1Of(t), "l1row")
    <3>1. L1Org(t) \in Orgs /\ L1Of(t) \in Nat
      BY <1>1, <2>1, ShareTypes DEF HasL1, L1Org, IInv
    <3> QED
      BY <1>4, <2>1, <3>1
  <2> QED
    BY <1>5, <1>8, <2>1 DEF PayL1
<1>9. CASE PayL2(t)
  <2>1. CASE HasL2(t) /\ CreditReferrer(t, L2Org(t), L2Of(t), "l2row")
    <3>1. L2Org(t) \in Orgs /\ L2Of(t) \in Nat
      <4>1. xfer[t].to \in Orgs /\ Referrer[xfer[t].to] # NoOrg
        BY <1>1, <1>9, TransferRecord DEF PayL2, At, IInv, StageInv, Stage
      <4> QED
        BY <1>1, <2>1, <4>1, ShareTypes, PaymentsAssumption
           DEF HasL2, L2Org, L1Org, IInv
    <3> QED
      BY <1>4, <2>1, <3>1
  <2> QED
    BY <1>5, <1>9, <2>1 DEF PayL2
<1>10. CASE EarningRow(t)
  BY <1>5, <1>6, <1>10 DEF EarningRow
<1>11. CASE ReferralThrows(t)
  BY <1>5, <1>11 DEF ReferralThrows
<1>12. CASE TransferDies(t)
  BY <1>6, <1>12 DEF TransferDies
<1> QED
  BY <1>7, <1>8, <1>9, <1>10, <1>11, <1>12 DEF TransferStep

(* Money moves between two orgs: one loses m, the other gets n.            *)
Moved(o, p, m, n) == [balance EXCEPT ![o] = @ - m, ![p] = @ + n]

LEMMA HeldMoved ==
    ASSUME IInv, NEW o \in Orgs, NEW p \in Orgs, o # p, NEW m \in Int, NEW n \in Int,
           balance' = Moved(o, p, m, n)
    PROVE  Held \in Int /\ Held' = Held + (n - m)
<1>1. balance[o] \in Int /\ balance[p] \in Int
  BY DEF IInv, TypeOK
<1>2. PICK v \in Int, w \in Int : v = balance[o] - m /\ w = balance[p] + n
  BY <1>1
<1>3. balance' = Changed(Changed(balance, o, v), p, w)
  BY <1>2 DEF Changed, Moved, IInv, TypeOK
<1>4. Held \in Int /\ Held' = Held + (v - balance[o]) + (w - balance[p])
  BY <1>3, HeldTwo
<1> QED
  BY <1>1, <1>2, <1>4

LEMMA LeakOther ==
    ASSUME NEW gap \in Int, IInv, LeakInv(gap),
           NEW o \in Orgs, NEW a \in OtherAmounts,
           Purchase(o, a) \/ Spend(o, a)
    PROVE  LeakInv(gap)'
<1>1. /\ balance[o] \in Int /\ supply \in Int /\ a \in Int
      /\ xfer' = xfer /\ stale' = stale
  BY PaymentsAssumption DEF IInv, TypeOK, Purchase, Spend
<1>2. ASSUME NEW v \in Int, balance' = Changed(balance, o, v),
             supply' = supply + (v - balance[o])
      PROVE  LeakInv(gap)'
  <2>1. Held \in Int /\ Held' = Held + (v - balance[o])
    BY <1>2, HeldOne
  <2>2. supply' \in Int /\ Held' \in Int /\ Held' = Held + (supply' - supply)
    BY <1>1, <1>2, <2>1
  <2> QED
    BY <1>1, <2>1, <2>2, LeakUntouched
<1>3. CASE Purchase(o, a)
  <2>1. PICK v \in Int : v = balance[o] + a
    BY <1>1
  <2>2. balance' = Changed(balance, o, v)
    BY <1>3, <2>1 DEF Purchase, Changed
  <2>3. supply' = supply + (v - balance[o])
    BY <1>1, <1>3, <2>1 DEF Purchase
  <2> QED
    BY <1>2, <2>2, <2>3
<1>4. CASE Spend(o, a)
  <2>1. PICK v \in Int : v = balance[o] - a
    BY <1>1
  <2>2. balance' = Changed(balance, o, v)
    BY <1>4, <2>1 DEF Spend, Changed
  <2>3. supply' = supply + (v - balance[o])
    BY <1>1, <1>4, <2>1 DEF Spend
  <2> QED
    BY <1>2, <2>2, <2>3
<1> QED
  BY <1>3, <1>4

(* What the receiver does not get of a transfer, the platform keeps.       *)
LEMMA LeakTransfer ==
    ASSUME NEW gap \in Int, IInv, LeakInv(gap),
           NEW t \in Transfers, NEW from \in Orgs, NEW to \in Orgs,
           NEW a \in Amounts, Transfer(t, from, to, a)
    PROVE  LeakInv(gap)'
<1> DEFINE x == [pc |-> "refer", from |-> from, to |-> to, amt |-> Recorded(a),
                 paid |-> 0, known |-> 0, kept |-> 0]
<1>1. /\ from # to /\ xfer[t] = Unused
      /\ balance' = Moved(from, to, a, Received(a))
      /\ xfer' = Changed(xfer, t, x)
      /\ supply' = supply /\ stale' = stale
  BY DEF Transfer, history, Changed, Moved
<1>2. /\ x # Unused /\ x.amt = a /\ x.paid = 0 /\ x.from = from /\ x.to = to
      /\ a \in Nat
  BY PaymentsAssumption DEF Recorded, Unused
<1> HIDE DEF x
<1>3. xfer'[t] = x /\ \A u \in Made : xfer'[u] = xfer[u]
  BY <1>1 DEF Made, IInv, TypeOK, Changed
<1>4. t \notin Made /\ Made' = Made \cup {t}
  BY <1>1, <1>2 DEF Made, IInv, TypeOK, Changed
<1>5. IsFiniteSet(Made') /\ Retained' = Retained + PlatformFee(a)
  <2>1. xfer'[t].amt = a /\ xfer'[t].amt \in Nat /\ xfer'[t].paid = 0
    BY <1>2, <1>3
  <2>2. IsFiniteSet(Made') /\ Retained' = Retained + PlatformFee(xfer'[t].amt)
    BY <1>3, <1>4, <2>1, RetainedMade DEF LeakInv
  <2> QED
    BY <2>1, <2>2
<1>6. PlatformFee(a) \in Nat /\ ReceiverAmount(a) = a - PlatformFee(a)
  BY <1>2, FeeBounds DEF ReceiverAmount
<1>7. Held \in Int /\ Held' = Held + (Received(a) - a)
  <2>1. Received(a) \in Int
    BY <1>2, <1>6 DEF Received
  <2>2. PICK m \in Int, n \in Int : m = a /\ n = Received(a)
    BY <1>2, <2>1
  <2>3. balance' = Moved(from, to, m, n)
    BY <1>1, <2>2
  <2>4. Held \in Int /\ Held' = Held + (n - m)
    BY <1>1, <2>3, HeldMoved
  <2> QED
    BY <2>2, <2>4
<1>8. Held' + Retained' = Held + Retained
  <2>1. Retained \in Int
    BY RetainedType DEF LeakInv
  <2> QED
    BY <1>2, <1>5, <1>6, <1>7, <2>1 DEF Received
<1>9. Leaks(gap)'
  BY <1>1, <1>8 DEF LeakInv, Leaks
<1>10. \A u \in Made' : xfer'[u].from # xfer'[u].to
  BY <1>1, <1>2, <1>3, <1>4 DEF LeakInv
<1> QED
  BY <1>5, <1>9, <1>10 DEF LeakInv

(* A refund moves what the receiver loses to the sender, and loses none of *)
(* it when the receiver's balance is still what the call read.             *)
LEMMA LeakRefund ==
    ASSUME NEW gap \in Int, IInv, LeakInv(gap),
           NEW c \in Callers, RefundStep(c) \/ RefundDies(c)
    PROVE  LeakInv(gap)'
<1>1. call[c] # Idle
  <2>1. call[c].pc # "idle" \/ call[c] # Idle
    BY DEF RefundStep, RefundFull, RefundMiss, RefundPeek, RefundDrain, RefundDies
  <2> QED
    BY <2>1 DEF Idle
<1>2. /\ call[c].t \in Made /\ call[c].amt \in Nat /\ call[c].available \in Nat
  BY <1>1, CallRecord DEF IInv, Made
<1> DEFINE from == xfer[call[c].t].from
           to == call[c].to
<1>3. from \in Orgs /\ to \in Orgs
  BY <1>1, <1>2, CallRecord, TransferRecord DEF IInv, Made
<1>4. supply \in Int /\ balance[to] \in Int /\ balance[from] \in Int
  BY <1>3 DEF IInv, TypeOK
<1>5. xfer' = xfer /\ supply' = supply /\ stale \subseteq stale'
  BY DEF RefundStep, RefundFull, RefundMiss, RefundPeek, RefundDrain, RefundDies,
         history
<1> HIDE DEF from, to
<1>6. CASE balance' = balance
  <2>1. Held \in Int /\ Held' = Held
    BY <1>6, HeldSame
  <2>2. Held' \in Int /\ Held' = Held + (supply' - supply)
    BY <1>4, <1>5, <2>1
  <2> QED
    BY <1>4, <1>5, <2>1, <2>2, LeakUntouched
<1>7. CASE RefundFull(c) /\ to = from
  <2>1. balance' = [[balance EXCEPT ![to] = @ - call[c].amt]
                       EXCEPT ![from] = @ + call[c].amt]
    BY <1>7 DEF RefundFull, from, to
  <2>2. \A o \in Orgs : balance'[o] = balance[o]
    BY <1>2, <1>3, <1>4, <1>7, <2>1 DEF IInv, TypeOK
  <2>3. balance' = balance
    BY <2>1, <2>2 DEF IInv, TypeOK
  <2> QED
    BY <1>6, <2>3
<1>8. CASE RefundFull(c) /\ to # from
  <2>1. balance' = Moved(to, from, call[c].amt, call[c].amt)
    BY <1>8 DEF RefundFull, from, to, Moved
  <2>2. PICK a \in Nat : a = call[c].amt
    BY <1>2
  <2>3. Held \in Int /\ Held' = Held + (a - a)
    BY <1>3, <1>8, <2>1, <2>2, HeldMoved
  <2>4. Held' \in Int /\ Held' = Held + (supply' - supply)
    BY <1>4, <1>5, <2>3
  <2> QED
    BY <1>4, <1>5, <2>3, <2>4, LeakUntouched
<1>9. CASE RefundDrain(c)
  <2>1. PICK a \in Nat : a = call[c].available
    BY <1>2
  <2>2. /\ balance' = [[balance EXCEPT ![to] = 0] EXCEPT ![from] = @ + a]
        /\ stale' = {} => balance[to] = a
    BY <1>9, <2>1 DEF RefundDrain, from, to
  <2>3. CASE to # from
    <3>1. PICK w \in Int : w = balance[from] + a
      BY <1>4
    <3>2. balance' = Changed(Changed(balance, to, 0), from, w)
      BY <1>3, <2>2, <2>3, <3>1 DEF Changed, IInv, TypeOK
    <3>3. Held \in Int /\ Held' = Held + (0 - balance[to]) + (w - balance[from])
      BY <1>3, <2>3, <3>2, HeldTwo
    <3>4. Held' = Held - balance[to] + a
      BY <1>4, <3>1, <3>3
    <3>5. balance[to] = a => Held' = Held + (supply' - supply)
      BY <1>4, <1>5, <3>3, <3>4
    <3>6. Held' \in Int
      BY <1>4, <3>3, <3>4
    <3> QED
      BY <1>4, <1>5, <2>2, <3>3, <3>5, <3>6, LeakUntouched
  <2>4. CASE to = from
    <3>1. balance' = Changed(balance, to, a)
      <4>1. balance' = [[balance EXCEPT ![to] = 0] EXCEPT ![from] = @ + a]
        BY <2>2
      <4>2. balance \in [Orgs -> Int] /\ to \in Orgs /\ from \in Orgs
        BY <1>3 DEF IInv, TypeOK
      <4>3. \A o \in Orgs : balance'[o] = IF o = to THEN a ELSE balance[o]
        BY <2>4, <4>1, <4>2
      <4> QED
        BY <4>1, <4>2, <4>3 DEF Changed
    <3>2. Held \in Int /\ Held' = Held + (a - balance[to])
      BY <1>3, <3>1, HeldOne
    <3>3. Held' \in Int /\ (balance[to] = a => Held' = Held + (supply' - supply))
      BY <1>4, <1>5, <3>2
    <3> QED
      BY <1>4, <1>5, <2>2, <3>2, <3>3, LeakUntouched
  <2> QED
    BY <2>3, <2>4
<1> QED
  BY <1>6, <1>7, <1>8, <1>9 DEF RefundStep, RefundMiss, RefundPeek, RefundDies

LEMMA LeakNext ==
    ASSUME NEW gap \in Int, IInv, LeakInv(gap),
           [Next]_vars
    PROVE  LeakInv(gap)'
<1>1. ASSUME UNCHANGED <<balance, xfer, supply, stale>>
      PROVE  LeakInv(gap)'
  <2>1. supply \in Int
    BY DEF IInv, TypeOK
  <2>2. Held \in Int /\ Held' = Held
    BY <1>1, HeldSame
  <2>3. Held' \in Int /\ Held' = Held + (supply' - supply)
    BY <1>1, <2>1, <2>2
  <2> QED
    BY <1>1, <2>1, <2>2, <2>3, LeakUntouched
<1>2. CASE \E o \in Orgs, a \in OtherAmounts : Purchase(o, a) \/ Spend(o, a)
  BY <1>2, LeakOther
<1>3. CASE \E t \in Transfers, from, to \in Orgs, a \in Amounts :
             Transfer(t, from, to, a)
  BY <1>3, LeakTransfer
<1>4. CASE \E t \in Transfers : TransferStep(t) \/ TransferDies(t)
  BY <1>4, LeakTransferStep
<1>5. CASE \E c \in Callers, t \in Transfers, to \in Orgs, a \in Amounts :
             RefundCheck(c, t, to, a)
  BY <1>1, <1>5 DEF RefundCheck
<1>6. CASE \E c \in Callers : RefundStep(c) \/ RefundDies(c)
  BY <1>6, LeakRefund
<1>7. CASE UNCHANGED vars
  BY <1>1, <1>7 DEF vars, history
<1> QED
  BY <1>2, <1>3, <1>4, <1>5, <1>6, <1>7 DEF Next

LEMMA LeakInit == Init => LeakInv(0)
<1> SUFFICES ASSUME Init PROVE LeakInv(0)
  OBVIOUS
<1>1. Made = {} /\ IsFiniteSet(Made)
  <2>1. Made = {}
    BY DEF Init, Made
  <2> QED
    BY <2>1, FS_EmptySet
<1>2. Held = Cardinality(Orgs) * InitialCredit
  <2>1. PICK g : g = balance
    OBVIOUS
  <2>2. \A o \in Orgs : g[o] = InitialCredit
    BY <2>1 DEF Init
  <2>3. Total(g, Orgs) = Cardinality(Orgs) * InitialCredit
    BY <2>2, TotalConstant, PaymentsAssumption
  <2> QED
    BY <1>1, <2>1, <2>3, SumsAreTotals
<1>3. Retained = 0
  <2>1. Retained = Total(RetainedOf(xfer, {}), {})
    BY <1>1, SumsAreTotals
  <2> QED
    BY <2>1, TotalEmpty
<1>4. Cardinality(Orgs) \in Nat /\ supply = Cardinality(Orgs) * InitialCredit
      /\ InitialCredit \in Nat
  BY FS_CardinalityType, PaymentsAssumption DEF Init
<1>5. \A n \in Nat, i \in Nat : n * i + 0 + 0 = n * i
  OBVIOUS
<1>6. Leaks(0)
  BY <1>2, <1>3, <1>4, <1>5 DEF Leaks
<1> QED
  BY <1>1, <1>6 DEF LeakInv

(* Credit is neither made nor lost by transfers, payouts and refunds,      *)
(* whatever runs between their statements and whichever of them fail,      *)
(* unless a partial refund wrote over a balance that had changed since it  *)
(* was read (refundTransfer): that is the only leak.                       *)
THEOREM OnlyStaleLeaks == Spec => []OnlyStaleRefundsLeak
<1>1. IInv /\ LeakInv(0) => OnlyStaleRefundsLeak
  <2> SUFFICES ASSUME IInv, LeakInv(0), stale = {}
               PROVE  Held + Retained = supply
    BY DEF OnlyStaleRefundsLeak, MoneyConserved
  <2>1. Held \in Int /\ Retained \in Int
    BY HeldType, RetainedType DEF LeakInv
  <2>2. Held + Retained + 0 = supply
    BY DEF LeakInv, Leaks
  <2> QED
    BY <2>1, <2>2
<1>2. IInv /\ LeakInv(0) /\ [Next]_vars => LeakInv(0)'
  BY LeakNext
<1>3. QED
  BY <1>1, <1>2, LeakInit, Invariant, PTL DEF Spec

-----------------------------------------------------------------------------
(* Paid tasks (A2ATask).  The inductive invariant of TaskSpec: that of the *)
(* payments; the types; a refund under way is that of its handler, for the *)
(* handler's receipt, from the org it holds to be the agent's and, in a    *)
(* settlement, for its overage; and what a transfer is.                    *)
Statements == {"gate", "run", "settle", "settling", "refund", "refunding"}

TaskType ==
    /\ auto \in [Transfers -> {"no", "credit", "out", "in", "sent", "lost", "gone"}]
    /\ outRow \in [Transfers -> {0, Price}]
    /\ inRow \in [Transfers -> {0, Price, ReceiverAmount(Price)}]
    /\ task \in [Callers -> {NoTask} \cup Tasks]
    /\ sends \in [Transfers -> 0..MaxSends]
    /\ served \in [Transfers -> Nat]
    /\ due \in [Transfers -> {0} \cup Overages]
    /\ refused \subseteq Transfers
    /\ failed \subseteq Transfers
    /\ lapsed \subseteq Transfers

CallerInv ==
    \A h \in Callers : call[h] # Idle =>
        /\ task[h].pc \in {"settling", "refunding"}
        /\ call[h].t = task[h].t
        /\ call[h].to = task[h].org
        /\ task[h].pc = "settling" => call[h].amt = task[h].over

RowOf(t) ==
    /\ xfer[t] = Unused => auto[t] = "no"
    /\ xfer[t] # Unused =>
          xfer[t].from = Buyer /\ xfer[t].to = Seller /\ xfer[t].amt = Price
RowInv == \A t \in Transfers : RowOf(t)

TaskInv == IInv /\ TaskType /\ CallerInv /\ RowInv

LEMMA PriceFacts ==
    /\ Price \in Nat /\ Price > 0
    /\ PlatformFee(Price) \in Nat /\ PlatformFee(Price) <= Price
    /\ ReceiverAmount(Price) \in Nat
    /\ ReceiverAmount(Price) = Price - PlatformFee(Price)
    /\ Overages \subseteq Nat
    /\ \A x \in Overages : x > 0 => x \in Amounts
<1>1. Price \in Nat /\ Price > 0 /\ Overages \subseteq Nat
      /\ \A x \in Overages : x > 0 => x \in Amounts
  BY TaskAssumption, PaymentsAssumption
<1> QED
  BY <1>1, FeeBounds DEF ReceiverAmount

LEMMA TaskRecord ==
    ASSUME TaskType, NEW h \in Callers
    PROVE  /\ task[h] # NoTask <=> task[h].pc # "idle"
           /\ task[h] # NoTask <=> task[h].pc \in Statements
           /\ task[h] # NoTask <=> task[h] \in Tasks
           /\ task[h] \in Tasks => /\ task[h].t \in Transfers
                                   /\ task[h].over \in {0} \cup Overages
                                   /\ task[h].org \in {Buyer, Seller}
<1>1. task[h] \in {NoTask} \cup Tasks
  BY DEF TaskType
<1> QED
  BY <1>1 DEF NoTask, Tasks, Statements

(* A handler goes on in its own record.                                    *)
LEMMA GoRecord ==
    ASSUME TaskType, NEW h \in Callers, task[h] \in Tasks, NEW pc \in Statements,
           Go(h, pc)
    PROVE  /\ task' \in [Callers -> {NoTask} \cup Tasks]
           /\ task'[h] \in Tasks
           /\ task'[h].pc = pc /\ task'[h].t = task[h].t /\ task'[h].over = task[h].over
           /\ task'[h].org = task[h].org
           /\ \A g \in Callers \ {h} : task'[g] = task[g]
  BY DEF TaskType, Go, Tasks, Statements

LEMMA ReplyRecord ==
    ASSUME TaskType, NEW h \in Callers, Reply(h)
    PROVE  /\ task' \in [Callers -> {NoTask} \cup Tasks]
           /\ task'[h] = NoTask /\ task'[h].pc = "idle"
           /\ \A g \in Callers \ {h} : task'[g] = task[g]
  BY DEF TaskType, Reply, NoTask

LEMMA CompleteRecord ==
    ASSUME TaskType, NEW h \in Callers, task[h] \in Tasks, NEW over \in Overages,
           Complete(h, over)
    PROVE  /\ task' \in [Callers -> {NoTask} \cup Tasks]
           /\ task'[h] \in Tasks
           /\ task'[h].pc = "settle" /\ task'[h].t = task[h].t /\ task'[h].over = over
           /\ task'[h].org = task[h].org
           /\ \A g \in Callers \ {h} : task'[g] = task[g]
  BY DEF TaskType, Complete, Tasks

LEMMA SendRecord ==
    ASSUME TaskType, NEW h \in Callers, NEW t \in Transfers, Send(h, t)
    PROVE  /\ task[h] = NoTask
           /\ task' \in [Callers -> {NoTask} \cup Tasks]
           /\ task'[h].pc \in {"gate", "run"} /\ task'[h].t = t
           /\ \A g \in Callers \ {h} : task'[g] = task[g]
<1>1. PICK start \in {[pc |-> "gate", org |-> Seller], [pc |-> "run", org |-> Buyer]} :
         task' = [task EXCEPT ![h] = [pc |-> start.pc, t |-> t, over |-> 0,
                                      org |-> start.org]]
  BY DEF Send
<1>2. start.pc \in {"gate", "run"} /\ start.org \in {Buyer, Seller}
  OBVIOUS
<1> DEFINE k == [pc |-> start.pc, t |-> t, over |-> 0, org |-> start.org]
<1>3. k \in Tasks /\ k.pc \in {"gate", "run"} /\ k.t = t
  BY <1>2 DEF Tasks
<1>4. task' = [task EXCEPT ![h] = k] /\ task[h] = NoTask
  BY <1>1 DEF Send
<1> HIDE DEF k
<1> QED
  BY <1>3, <1>4 DEF TaskType

LEMMA TaskInitInv == TaskInit => TaskInv
<1> SUFFICES ASSUME TaskInit PROVE TaskInv
  OBVIOUS
<1>1. IInv
  BY InitInv DEF TaskInit
<1>2. TaskType
  BY TaskAssumption DEF TaskInit, TaskType
<1>3. CallerInv /\ RowInv
  BY DEF TaskInit, Init, CallerInv, RowInv, RowOf, NoTask
<1> QED
  BY <1>1, <1>2, <1>3 DEF TaskInv

-----------------------------------------------------------------------------
(* The steps of transferCredits and refundTransfer on their own: the terms *)
(* of the transfers stay, and a call that is under way afterwards was      *)
(* before, for the same transfer, org and amount.                          *)
CallsGoOn ==
    \A c \in Callers : call'[c] # Idle =>
        /\ call[c] # Idle
        /\ call'[c].t = call[c].t /\ call'[c].to = call[c].to
        /\ call'[c].amt = call[c].amt

UnusedStays == \A t \in Transfers : xfer[t] = Unused => xfer'[t] = Unused

LEMMA CallSame == ASSUME call' = call PROVE CallsGoOn
  BY DEF CallsGoOn

LEMMA CallReturns ==
    ASSUME IInv, NEW c \in Callers, RefundReturn(c)
    PROVE  CallsGoOn
  BY DEF CallsGoOn, RefundReturn, IInv, TypeOK

LEMMA RefundStepGoesOn ==
    ASSUME IInv, NEW c \in Callers, RefundStep(c) \/ RefundDies(c)
    PROVE  CallsGoOn /\ xfer' = xfer
<1>1. xfer' = xfer
  BY DEF RefundStep, RefundFull, RefundMiss, RefundPeek, RefundDrain, RefundDies
<1>2. CASE RefundReturn(c)
  BY <1>1, <1>2, CallReturns
<1>3. CASE RefundMiss(c)
  <2>1. call[c] # Idle
    BY <1>3 DEF RefundMiss, Idle
  <2>2. call[c] \in Refunding
    BY <2>1, CallRecord DEF IInv
  <2> QED
    BY <1>1, <1>3, <2>1, <2>2 DEF RefundMiss, CallsGoOn, IInv, TypeOK, Refunding
<1>4. CASE RefundPeek(c)
  <2>1. call[c] # Idle
    BY <1>4 DEF RefundPeek, Idle
  <2>2. call[c] \in Refunding
    BY <2>1, CallRecord DEF IInv
  <2>3. CASE \E has : call' = [call EXCEPT ![c].pc = "drain", ![c].available = has]
    BY <1>1, <2>1, <2>2, <2>3 DEF CallsGoOn, IInv, TypeOK, Refunding
  <2> QED
    BY <1>1, <1>2, <1>4, <2>3 DEF RefundPeek
<1> QED
  BY <1>1, <1>2, <1>3, <1>4 DEF RefundStep, RefundFull, RefundDrain, RefundDies, MoveBack

(* Payments and the refunds that lapse are the steps of AgentPayments that *)
(* the handlers do not see.                                                *)
Unseen == Payments \/ \E h \in Callers : RefundMiss(h) \/ RefundDies(h)

LEMMA UnseenAreSteps ==
    ASSUME IInv, Unseen
    PROVE  Next /\ TermsStay /\ UnusedStays /\ CallsGoOn
<1>1. ASSUME xfer' = xfer
      PROVE  TermsStay /\ UnusedStays
  BY <1>1 DEF TermsStay, SameTerms, UnusedStays
<1>2. CASE \E a \in OtherAmounts, o \in {Buyer, Seller} : Purchase(o, a) \/ Spend(o, a)
  <2>1. PICK o \in {Buyer, Seller}, a \in OtherAmounts : Purchase(o, a) \/ Spend(o, a)
    BY <1>2
  <2>2. o \in Orgs
    BY TaskAssumption
  <2>3. xfer' = xfer /\ call' = call
    BY <2>1 DEF Purchase, Spend
  <2> QED
    BY <1>1, <2>1, <2>2, <2>3, CallSame DEF Next
<1>3. CASE \E t \in Transfers : TransferStep(t) \/ TransferDies(t)
  <2>1. PICK t \in Transfers : TransferStep(t) \/ TransferDies(t)
    BY <1>3
  <2> QED
    BY <2>1, TransferStepStays, CallSame DEF Next, UnusedStays
<1>4. CASE \E h \in Callers : RefundStep(h) \/ RefundDies(h)
  <2>1. PICK h \in Callers : RefundStep(h) \/ RefundDies(h)
    BY <1>4
  <2> QED
    BY <1>1, <2>1, RefundStepGoesOn DEF Next
<1> QED
  BY <1>2, <1>3, <1>4 DEF Unseen, Payments, RefundStep

LEMMA UnseenKeep ==
    ASSUME TaskInv, Unseen, UNCHANGED <<receipts, task, sends, served, due, refused, failed>>,
           lapsed' \subseteq Transfers
    PROVE  TaskInv'
<1>1. Next /\ TermsStay /\ UnusedStays /\ CallsGoOn
  BY UnseenAreSteps DEF TaskInv
<1>2. IInv'
  BY <1>1, NextInv DEF TaskInv
<1>3. UNCHANGED <<auto, outRow, inRow>>
  BY DEF receipts
<1>4. TaskType'
  BY <1>3 DEF TaskInv, TaskType
<1>5. CallerInv'
  BY <1>1, <1>3 DEF TaskInv, CallerInv, CallsGoOn
<1>6. RowInv'
  BY <1>1, <1>3 DEF TaskInv, RowInv, RowOf, TermsStay, SameTerms, UnusedStays
<1> QED
  BY <1>2, <1>4, <1>5, <1>6 DEF TaskInv

(* What a lapse is about: the receipt of the handler whose call it was.    *)
LEMMA LapseIs ==
    ASSUME TaskInv, NEW h \in Callers, Lapse(h)
    PROVE  /\ Unseen /\ call[h] # Idle /\ call[h].t \in Transfers
           /\ call[h].t = task[h].t
           /\ lapsed' = lapsed \cup {call[h].t}
           /\ UNCHANGED <<receipts, task, sends, served, due, refused, failed>>
<1>1. call[h] # Idle
  <2>1. RefundMiss(h) => call[h].pc = "begin"
    BY DEF RefundMiss
  <2>2. RefundDies(h) => call[h] # Idle
    BY DEF RefundDies
  <2> QED
    BY <2>1, <2>2 DEF Lapse, Idle
<1>2. call[h].t \in Transfers
  BY <1>1, CallRecord DEF TaskInv, IInv
<1> QED
  BY <1>1, <1>2 DEF Lapse, Lapses, Unseen, TaskInv, CallerInv

-----------------------------------------------------------------------------
(* The two ways to pay.                                                    *)
LEMMA PayKeeps ==
    ASSUME TaskInv, NEW t \in Transfers, Pay(t)
    PROVE  TaskInv'
<1>1. /\ Transfer(t, Buyer, Seller, Price) /\ xfer[t] = Unused
      /\ UNCHANGED <<auto, task, story, call>>
      /\ outRow' = [outRow EXCEPT ![t] = Price]
      /\ inRow' = [inRow EXCEPT ![t] = Price]
  BY DEF Pay, Transfer, Recorded
<1>2. IInv'
  BY <1>1, TransferKeeps, TaskAssumption DEF TaskInv
<1>3. TaskType'
  BY <1>1 DEF TaskInv, TaskType, story
<1>4. CallerInv'
  BY <1>1 DEF TaskInv, CallerInv
<1> DEFINE x == [pc |-> "refer", from |-> Buyer, to |-> Seller, amt |-> Recorded(Price),
                 paid |-> 0, known |-> 0, kept |-> 0]
<1>5. /\ x # Unused /\ x.from = Buyer /\ x.to = Seller /\ x.amt = Price
      /\ xfer' = [xfer EXCEPT ![t] = x]
  BY <1>1 DEF Transfer, Unused, Recorded
<1> HIDE DEF x
<1>6. RowInv'
  BY <1>1, <1>5 DEF TaskInv, RowInv, RowOf, IInv, TypeOK
<1> QED
  BY <1>2, <1>3, <1>4, <1>6 DEF TaskInv

LEMMA AutoDebitKeeps ==
    ASSUME TaskInv, NEW t \in Transfers, AutoDebit(t)
    PROVE  TaskInv'
<1> DEFINE x == [pc |-> "dead", from |-> Buyer, to |-> Seller, amt |-> Price,
                 paid |-> 0, known |-> 0, kept |-> 0]
<1>1. /\ xfer[t] = Unused /\ xfer' = [xfer EXCEPT ![t] = x]
      /\ balance[Buyer] >= Price
      /\ balance' = [balance EXCEPT ![Buyer] = @ - Price]
      /\ auto' = [auto EXCEPT ![t] = "credit"]
      /\ UNCHANGED <<call, refundRows, history, outRow, inRow, task, story>>
  BY DEF AutoDebit, Covers
<1>2. x \in Committed /\ x # Unused /\ x.from = Buyer /\ x.to = Seller /\ x.amt = Price
  BY TaskAssumption DEF Committed, Unused, Tail
<1>3. Stage(x)
  BY PriceFacts DEF Stage
<1> HIDE DEF x
<1>4. balance' \in [Orgs -> Int] /\ NoOverdraft'
  BY <1>1, PriceFacts, TaskAssumption DEF TaskInv, IInv, TypeOK, NoOverdraft
<1>5. TypeOK'
  BY <1>1, <1>2, <1>4 DEF TaskInv, IInv, TypeOK, history
<1>6. IInv'
  BY <1>1, <1>2, <1>3, <1>4, <1>5, StageKept, CallsKept DEF TaskInv, IInv
<1>7. TaskType'
  BY <1>1 DEF TaskInv, TaskType, story
<1>8. CallerInv'
  BY <1>1 DEF TaskInv, CallerInv
<1>9. RowInv'
  BY <1>1, <1>2 DEF TaskInv, RowInv, RowOf, TaskType, IInv, TypeOK
<1> QED
  BY <1>6, <1>7, <1>8, <1>9 DEF TaskInv

LEMMA AutoCreditKeeps ==
    ASSUME TaskInv, NEW t \in Transfers, AutoCredit(t)
    PROVE  TaskInv'
<1>1. /\ auto[t] = "credit" /\ auto' = [auto EXCEPT ![t] = "out"]
      /\ balance' = [balance EXCEPT ![Seller] = @ + ReceiverAmount(Price)]
      /\ UNCHANGED <<xfer, call, refundRows, history, outRow, inRow, task, story>>
  BY DEF AutoCredit, Credited, Received
<1>2. balance' \in [Orgs -> Int] /\ NoOverdraft'
  BY <1>1, PriceFacts, TaskAssumption DEF TaskInv, IInv, TypeOK, NoOverdraft
<1>3. TypeOK' /\ StageInv' /\ CallInv'
  BY <1>1, <1>2 DEF TaskInv, IInv, TypeOK, history, StageInv, CallInv
<1>4. TaskType' /\ CallerInv'
  BY <1>1 DEF TaskInv, TaskType, CallerInv, story
<1>5. RowInv'
  BY <1>1 DEF TaskInv, TaskType, RowInv, RowOf
<1> QED
  BY <1>2, <1>3, <1>4, <1>5 DEF TaskInv, IInv

(* The buyer's row, and the ways the payment can break off.                *)
LEMMA AutoRestKeeps ==
    ASSUME TaskInv, NEW t \in Transfers, AutoOutRow(t) \/ AutoDies(t)
    PROVE  TaskInv'
<1>1. /\ UNCHANGED <<vars, inRow, task, story>>
      /\ auto[t] \in {"credit", "out", "in"}
      /\ auto' \in [Transfers -> {"no", "credit", "out", "in", "sent", "lost", "gone"}]
      /\ \A u \in Transfers \ {t} : auto'[u] = auto[u]
      /\ outRow' \in [Transfers -> {0, Price}]
  BY DEF AutoOutRow, AutoDies, TaskInv, TaskType
<1>2. IInv' /\ xfer' = xfer /\ call' = call
  BY <1>1, NextInv DEF TaskInv, vars
<1>3. TaskType' /\ CallerInv'
  BY <1>1, <1>2 DEF TaskInv, TaskType, CallerInv, story
<1>4. RowInv'
  BY <1>1, <1>2 DEF TaskInv, RowInv, RowOf
<1> QED
  BY <1>2, <1>3, <1>4 DEF TaskInv

LEMMA AutoInRowKeeps ==
    ASSUME TaskInv, NEW t \in Transfers, AutoInRow(t)
    PROVE  TaskInv'
<1>1. PICK fee \in {0, PlatformFee(Price)} : xfer' = [xfer EXCEPT ![t].kept = fee]
  BY DEF AutoInRow
<1>2. /\ auto[t] = "in" /\ auto' = [auto EXCEPT ![t] = "sent"]
      /\ inRow' \in {inRow, [inRow EXCEPT ![t] = ReceiverAmount(Price)]}
      /\ UNCHANGED <<balance, call, refundRows, history, outRow, task, story>>
  BY DEF AutoInRow, Credited, Received
<1>3. RowOf(t)
  BY DEF TaskInv, RowInv
<1>4. xfer[t] # Unused
  BY <1>2, <1>3 DEF RowOf
<1>5. xfer[t] \in Committed /\ fee \in Int
  BY <1>4, TransferRecord, PriceFacts DEF TaskInv, IInv
<1> DEFINE x == [xfer[t] EXCEPT !.kept = fee]
<1>6. xfer' = [xfer EXCEPT ![t] = x]
  BY <1>1 DEF TaskInv, IInv, TypeOK
<1>7. x \in Committed /\ x # Unused
  BY <1>5 DEF Committed, Tail, Unused
<1>8. /\ x.paid = xfer[t].paid /\ x.amt = xfer[t].amt /\ x.pc = xfer[t].pc
      /\ x.from = xfer[t].from /\ x.to = xfer[t].to
  BY <1>5 DEF Committed
<1> HIDE DEF x
<1>9. Stage(x)
  BY <1>4, <1>8 DEF TaskInv, IInv, StageInv, Stage, FirstLevel
<1>10. IInv'
  BY <1>2, <1>6, <1>7, <1>9, RecordKeeps DEF TaskInv
<1>11. inRow' \in [Transfers -> {0, Price, ReceiverAmount(Price)}]
  BY <1>2 DEF TaskInv, TaskType
<1>12. TaskType' /\ CallerInv'
  BY <1>2, <1>11 DEF TaskInv, TaskType, CallerInv, story
<1>13. RowInv'
  BY <1>2, <1>3, <1>4, <1>6, <1>7, <1>8 DEF TaskInv, RowInv, RowOf, TaskType, IInv, TypeOK
<1> QED
  BY <1>10, <1>12, <1>13 DEF TaskInv

-----------------------------------------------------------------------------
(* The handler of SendMessage.  While it is outside refundTransfer, a step *)
(* of its own touches neither the payments nor the receipts.               *)
LEMMA HandlerFrame ==
    ASSUME TaskInv, NEW h \in Callers, UNCHANGED <<vars, receipts>>, call[h] = Idle,
           task' \in [Callers -> {NoTask} \cup Tasks],
           \A g \in Callers \ {h} : task'[g] = task[g],
           sends' \in [Transfers -> 0..MaxSends], served' \in [Transfers -> Nat],
           due' \in [Transfers -> {0} \cup Overages], refused' \subseteq Transfers,
           failed' \subseteq Transfers, lapsed' \subseteq Transfers
    PROVE  TaskInv'
<1>1. UNCHANGED <<xfer, call, auto, outRow, inRow>> /\ IInv'
  BY NextInv DEF TaskInv, vars, receipts
<1>2. TaskType'
  BY <1>1 DEF TaskInv, TaskType
<1>3. CallerInv'
  BY <1>1 DEF TaskInv, CallerInv
<1>4. RowInv'
  BY <1>1 DEF TaskInv, RowInv, RowOf
<1> QED
  BY <1>1, <1>2, <1>3, <1>4 DEF TaskInv

LEMMA SendKeeps ==
    ASSUME TaskInv, NEW h \in Callers, NEW t \in Transfers, Send(h, t)
    PROVE  TaskInv'
<1>1. call[h] = Idle
  BY DEF Send, TaskInv, CallerInv, NoTask
<1>2. /\ task' \in [Callers -> {NoTask} \cup Tasks]
      /\ \A g \in Callers \ {h} : task'[g] = task[g]
  BY SendRecord DEF TaskInv
<1>3. sends' \in [Transfers -> 0..MaxSends]
  <2>1. sends[t] + 1 \in 0..MaxSends
    BY TaskAssumption DEF Send, TaskInv, TaskType
  <2> QED
    BY <2>1 DEF Send, TaskInv, TaskType
<1>4. /\ served' \in [Transfers -> Nat] /\ due' \in [Transfers -> {0} \cup Overages]
      /\ refused' \subseteq Transfers /\ failed' \subseteq Transfers
      /\ lapsed' \subseteq Transfers /\ UNCHANGED <<vars, receipts>>
  BY DEF Send, TaskInv, TaskType
<1> QED
  BY <1>1, <1>2, <1>3, <1>4, HandlerFrame

(* The steps between two statements, without the completion of the task.   *)
HandlerStep(h) ==
    Gate(h) \/ RuntimeError(h) \/ Throw(h) \/ NoRefund(h) \/ Finish(h)

LEMMA HandlerStepIs ==
    ASSUME TaskInv, NEW h \in Callers, HandlerStep(h)
    PROVE  /\ UNCHANGED <<vars, receipts, sends, served, due>> /\ refused' \subseteq Transfers
           /\ failed' \subseteq Transfers /\ lapsed' \subseteq Transfers
           /\ task[h] \in Tasks /\ call[h] = Idle
           /\ \/ Reply(h) /\ failed' = failed
              \/ /\ task[h].pc = "gate" /\ Go(h, "run")
                 /\ UNCHANGED <<failed, lapsed>>
              \/ /\ task[h].pc \in {"gate", "run"} /\ Go(h, "refund")
                 /\ failed' = failed \cup {task[h].t} /\ lapsed' = lapsed
<1>1. task[h].pc \in Statements
  BY DEF HandlerStep, Gate, RuntimeError, Throw, NoRefund, Finish, In, MayThrow, Statements
<1>2. task[h] \in Tasks /\ task[h].t \in Transfers
  BY <1>1, TaskRecord DEF TaskInv
<1>3. call[h] = Idle
  BY DEF HandlerStep, Gate, RuntimeError, Throw, NoRefund, Finish, In, MayThrow,
         TaskInv, CallerInv
<1>4. CASE Gate(h)
  <2>1. /\ UNCHANGED <<vars, receipts, sends, served, due, failed, lapsed>>
        /\ refused' \subseteq Transfers
    BY <1>2, <1>4 DEF Gate, TaskInv, TaskType
  <2>2. Reply(h) \/ (task[h].pc = "gate" /\ Go(h, "run"))
    BY <1>4 DEF Gate, In
  <2> QED
    BY <1>2, <1>3, <2>1, <2>2 DEF TaskInv, TaskType
<1>5. CASE RuntimeError(h) \/ Finish(h)
  BY <1>2, <1>3, <1>5 DEF RuntimeError, Finish, story, TaskInv, TaskType
<1>6. CASE Throw(h)
  BY <1>2, <1>3, <1>6 DEF Throw, MayThrow, TaskInv, TaskType
<1>7. CASE NoRefund(h)
  BY <1>2, <1>3, <1>7 DEF NoRefund, Lapses, TaskInv, TaskType
<1> QED
  BY <1>4, <1>5, <1>6, <1>7 DEF HandlerStep

LEMMA HandlerStepKeeps ==
    ASSUME TaskInv, NEW h \in Callers, HandlerStep(h)
    PROVE  TaskInv'
<1>1. /\ UNCHANGED <<vars, receipts, sends, served, due>> /\ refused' \subseteq Transfers
      /\ failed' \subseteq Transfers /\ lapsed' \subseteq Transfers
      /\ task[h] \in Tasks /\ call[h] = Idle
      /\ Reply(h) \/ Go(h, "run") \/ Go(h, "refund")
  BY HandlerStepIs
<1>2. /\ task' \in [Callers -> {NoTask} \cup Tasks]
      /\ \A g \in Callers \ {h} : task'[g] = task[g]
  BY <1>1, ReplyRecord, GoRecord DEF TaskInv, Statements
<1>3. /\ sends' \in [Transfers -> 0..MaxSends] /\ served' \in [Transfers -> Nat]
      /\ due' \in [Transfers -> {0} \cup Overages]
  BY <1>1 DEF TaskInv, TaskType
<1> QED
  BY <1>1, <1>2, <1>3, HandlerFrame

LEMMA CompleteIs ==
    ASSUME TaskInv, NEW h \in Callers, NEW over \in Overages, Complete(h, over)
    PROVE  /\ task[h].pc = "run" /\ task[h] \in Tasks /\ task[h].t \in Transfers
           /\ call[h] = Idle
           /\ task' \in [Callers -> {NoTask} \cup Tasks]
           /\ task'[h].pc = "settle" /\ task'[h].t = task[h].t /\ task'[h].over = over
           /\ \A g \in Callers \ {h} : task'[g] = task[g]
           /\ served' = [served EXCEPT ![task[h].t] = @ + 1]
           /\ due' = [due EXCEPT ![task[h].t] = over]
           /\ UNCHANGED <<vars, receipts, sends, refused, failed, lapsed>>
<1>1. task[h].pc = "run"
  BY DEF Complete, In
<1>2. /\ task[h] \in Tasks /\ task[h].t \in Transfers /\ call[h] = Idle
  BY <1>1, TaskRecord DEF TaskInv, CallerInv, Statements
<1> QED
  BY <1>1, <1>2, CompleteRecord DEF Complete, TaskInv

LEMMA CompleteKeeps ==
    ASSUME TaskInv, NEW h \in Callers, NEW over \in Overages, Complete(h, over)
    PROVE  TaskInv'
<1>1. /\ task[h].t \in Transfers /\ call[h] = Idle
      /\ task' \in [Callers -> {NoTask} \cup Tasks]
      /\ \A g \in Callers \ {h} : task'[g] = task[g]
      /\ served' = [served EXCEPT ![task[h].t] = @ + 1]
      /\ due' = [due EXCEPT ![task[h].t] = over]
      /\ UNCHANGED <<vars, receipts, sends, refused, failed, lapsed>>
  BY CompleteIs
<1>2. /\ served' \in [Transfers -> Nat] /\ due' \in [Transfers -> {0} \cup Overages]
      /\ sends' \in [Transfers -> 0..MaxSends] /\ refused' \subseteq Transfers
      /\ failed' \subseteq Transfers /\ lapsed' \subseteq Transfers
  BY <1>1 DEF TaskInv, TaskType
<1> QED
  BY <1>1, <1>2, HandlerFrame

LEMMA OwedFacts ==
    ASSUME TaskInv, NEW h \in Callers, task[h] \in Tasks, Owed(h) > 0
    PROVE  /\ Owed(h) \in Amounts
           /\ In(h, "settle") => Owed(h) = task[h].over
           /\ ~In(h, "settle") => Owed(h) = Price /\ task[h].org = Seller
<1>1. task[h].t \in Transfers /\ task[h].over \in {0} \cup Overages
      /\ task[h].org \in {Buyer, Seller}
  BY TaskRecord DEF TaskInv
<1>2. outRow[task[h].t] \in {0, Price} /\ Price \in Amounts
  BY <1>1, TaskAssumption DEF TaskInv, TaskType
<1>3. Owed(h) \in Amounts
  <2>1. CASE Owed(h) = 0
    BY <2>1
  <2>2. CASE Owed(h) = task[h].over
    <3>1. PICK x \in {0} \cup Overages : x = task[h].over
      BY <1>1
    <3>2. x > 0
      BY <2>2, <3>1
    <3>3. x \in Amounts
      BY <3>1, <3>2, PriceFacts
    <3> QED
      BY <2>2, <3>1, <3>3
  <2>3. CASE Owed(h) = outRow[task[h].t] /\ outRow[task[h].t] # 0
    BY <1>2, <2>3
  <2> QED
    BY <2>1, <2>2, <2>3 DEF Owed, Paid
<1>4. In(h, "settle") => Owed(h) = task[h].over
  BY DEF Owed
<1>5. ASSUME ~In(h, "settle")
      PROVE  Owed(h) = Price /\ task[h].org = Seller
  <2>1. Owed(h) = IF outRow[task[h].t] = 0 THEN 0
                  ELSE IF task[h].org = Buyer THEN 0 ELSE outRow[task[h].t]
    BY <1>5 DEF Owed, Paid
  <2>2. Owed(h) # 0
    OBVIOUS
  <2> QED
    BY <1>1, <1>2, <2>1, <2>2
<1> QED
  BY <1>3, <1>4, <1>5

LEMMA AskRefundIs ==
    ASSUME TaskInv, NEW h \in Callers, AskRefund(h)
    PROVE  /\ task[h] \in Tasks /\ task[h].t \in Transfers /\ task[h].org \in Orgs
           /\ Owed(h) \in Amounts
           /\ RefundCheck(h, task[h].t, task[h].org, Owed(h))
           /\ UNCHANGED <<receipts, story, xfer>>
           /\ task' \in [Callers -> {NoTask} \cup Tasks]
           /\ task'[h] \in Tasks
           /\ \/ /\ task[h].pc = "settle" /\ task'[h].pc = "settling"
                 /\ Owed(h) = task[h].over
              \/ /\ task[h].pc = "refund" /\ task'[h].pc = "refunding"
                 /\ Owed(h) = Price /\ task[h].org = Seller
           /\ task'[h].t = task[h].t /\ task'[h].over = task[h].over
           /\ task'[h].org = task[h].org
           /\ \A g \in Callers \ {h} : task'[g] = task[g]
           /\ call[h] = Idle /\ call'[h] # Idle /\ call'[h].pc = "begin"
           /\ call'[h].t = task[h].t
           /\ call'[h].to = task[h].org /\ call'[h].amt = Owed(h)
           /\ \A g \in Callers \ {h} : call'[g] = call[g]
<1>1. task[h].pc \in {"settle", "refund"} /\ UNCHANGED <<receipts, story>>
      /\ RefundCheck(h, task[h].t, task[h].org, Owed(h)) /\ Owed(h) > 0
  BY DEF AskRefund
<1>2. task[h] \in Tasks /\ task[h].t \in Transfers /\ task[h].org \in Orgs
  BY <1>1, TaskRecord, TaskAssumption DEF TaskInv, Statements
<1>3. /\ Owed(h) \in Amounts
      /\ task[h].pc = "settle" => Owed(h) = task[h].over
      /\ task[h].pc # "settle" => Owed(h) = Price /\ task[h].org = Seller
  BY <1>1, <1>2, OwedFacts DEF In
<1> DEFINE pc == IF In(h, "settle") THEN "settling" ELSE "refunding"
<1>4. Go(h, pc) /\ pc \in Statements
  BY DEF AskRefund, Statements
<1>5. /\ task[h].pc = "settle" => pc = "settling"
      /\ task[h].pc = "refund" => pc = "refunding"
  BY DEF In
<1> HIDE DEF pc
<1>6. /\ task' \in [Callers -> {NoTask} \cup Tasks]
      /\ task'[h] \in Tasks
      /\ task'[h].pc = pc /\ task'[h].t = task[h].t /\ task'[h].over = task[h].over
      /\ task'[h].org = task[h].org
      /\ \A g \in Callers \ {h} : task'[g] = task[g]
  BY <1>2, <1>4, GoRecord DEF TaskInv
<1>7. /\ xfer' = xfer /\ call[h] = Idle
      /\ call'[h] = [pc |-> "begin", t |-> task[h].t, to |-> task[h].org,
                     amt |-> Owed(h), available |-> 0]
      /\ \A g \in Callers \ {h} : call'[g] = call[g]
  BY <1>1 DEF RefundCheck, TaskInv, IInv, TypeOK
<1>8. /\ call'[h] # Idle /\ call'[h].pc = "begin" /\ call'[h].t = task[h].t
      /\ call'[h].to = task[h].org /\ call'[h].amt = Owed(h)
  BY <1>7 DEF Idle
<1> QED
  BY <1>1, <1>2, <1>3, <1>5, <1>6, <1>7, <1>8

LEMMA AskRefundKeeps ==
    ASSUME TaskInv, NEW h \in Callers, AskRefund(h)
    PROVE  TaskInv'
<1>1. IInv'
  BY AskRefundIs, RefundCheckKeeps DEF TaskInv
<1>2. UNCHANGED <<xfer, auto, outRow, inRow, sends, served, due, refused, failed, lapsed>>
      /\ task' \in [Callers -> {NoTask} \cup Tasks]
  BY AskRefundIs DEF receipts, story
<1>3. TaskType' /\ RowInv'
  BY <1>2 DEF TaskInv, TaskType, RowInv, RowOf
<1>4. CallerInv'
  <2> SUFFICES ASSUME NEW g \in Callers, call'[g] # Idle
               PROVE  /\ task'[g].pc \in {"settling", "refunding"}
                      /\ call'[g].t = task'[g].t
                      /\ call'[g].to = task'[g].org
                      /\ task'[g].pc = "settling" => call'[g].amt = task'[g].over
    BY DEF CallerInv
  <2>1. CASE g = h
    BY <2>1, AskRefundIs
  <2>2. CASE g # h
    BY <2>2, AskRefundIs DEF TaskInv, CallerInv
  <2> QED
    BY <2>1, <2>2
<1> QED
  BY <1>1, <1>3, <1>4 DEF TaskInv

LEMMA HandlerDiesIs ==
    ASSUME TaskInv, NEW h \in Callers, HandlerDies(h)
    PROVE  /\ task[h] \in Tasks /\ task[h].t \in Transfers
           /\ UNCHANGED <<balance, xfer, refundRows, history, receipts,
                          sends, served, due, refused, failed>>
           /\ \/ /\ task[h].pc = "refund" \/ call[h] # Idle
                 /\ lapsed' = lapsed \cup {task[h].t}
              \/ /\ task[h].pc # "refund" /\ call[h] = Idle /\ lapsed' = lapsed
           /\ task' \in [Callers -> {NoTask} \cup Tasks] /\ task'[h] = NoTask
           /\ call'[h] = Idle
           /\ \A g \in Callers \ {h} : task'[g] = task[g] /\ call'[g] = call[g]
           /\ call' \in [Callers -> {Idle} \cup Refunding] /\ CallInv'
<1>1. /\ Reply(h) /\ RefundReturn(h) /\ task[h] # NoTask
      /\ UNCHANGED <<balance, xfer, refundRows, history, receipts,
                     sends, served, due, refused, failed>>
      /\ \/ /\ task[h].pc = "refund" \/ call[h] # Idle
            /\ lapsed' = lapsed \cup {task[h].t}
         \/ /\ task[h].pc # "refund" /\ call[h] = Idle /\ lapsed' = lapsed
  BY DEF HandlerDies, Lapses, In
<1>2. task[h] \in Tasks /\ task[h].t \in Transfers
  BY <1>1, TaskRecord DEF TaskInv
<1>3. call'[h] = Idle /\ \A g \in Callers \ {h} : call'[g] = call[g]
  BY <1>1 DEF RefundReturn, TaskInv, IInv, TypeOK
<1>4. call' \in [Callers -> {Idle} \cup Refunding] /\ CallInv'
  BY <1>1, ReturnKeeps DEF TaskInv, IInv
<1> QED
  BY <1>1, <1>2, <1>3, <1>4, ReplyRecord DEF TaskInv

LEMMA HandlerDiesKeeps ==
    ASSUME TaskInv, NEW h \in Callers, HandlerDies(h)
    PROVE  TaskInv'
<1>1. /\ UNCHANGED <<balance, xfer, refundRows, supply, refunded, raced, stale, others,
                     auto, outRow, inRow, sends, served, due, refused, failed>>
      /\ call' \in [Callers -> {Idle} \cup Refunding] /\ CallInv'
      /\ task' \in [Callers -> {NoTask} \cup Tasks] /\ lapsed' \subseteq Transfers
  BY HandlerDiesIs DEF receipts, history, TaskInv, TaskType
<1>2. TypeOK' /\ StageInv' /\ NoOverdraft'
  BY <1>1 DEF TaskInv, IInv, TypeOK, StageInv, NoOverdraft
<1>3. TaskType'
  BY <1>1 DEF TaskInv, TaskType
<1>4. CallerInv'
  BY HandlerDiesIs DEF TaskInv, CallerInv
<1>5. RowInv'
  BY <1>1 DEF TaskInv, RowInv, RowOf
<1> QED
  BY <1>1, <1>2, <1>3, <1>4, <1>5 DEF TaskInv, IInv

LEMMA TaskNextInv ==
    ASSUME TaskInv, [TaskNext]_taskVars
    PROVE  TaskInv'
<1>1. CASE Payments /\ UNCHANGED <<receipts, task, story>>
  BY <1>1, UnseenKeep DEF Unseen, story, TaskInv, TaskType
<1>2. CASE \E t \in Transfers : Pay(t) \/ AutoStep(t)
  BY <1>2, PayKeeps, AutoDebitKeeps, AutoCreditKeeps, AutoRestKeeps, AutoInRowKeeps
     DEF AutoStep
<1>3. CASE \E h \in Callers, t \in Transfers : Send(h, t)
  BY <1>3, SendKeeps
<1>4. CASE \E h \in Callers : Handle(h)
  BY <1>4, HandlerStepKeeps, CompleteKeeps, AskRefundKeeps, HandlerDiesKeeps
     DEF Handle, HandlerStep
<1>5. CASE \E h \in Callers : Lapse(h)
  <2>1. PICK h \in Callers : Lapse(h)
    BY <1>5
  <2>2. lapsed' \subseteq Transfers
    BY <2>1, LapseIs DEF TaskInv, TaskType
  <2> QED
    BY <2>1, <2>2, LapseIs, UnseenKeep
<1>6. CASE UNCHANGED taskVars
  <2>1. UNCHANGED <<vars, auto, outRow, inRow, task, sends, served, due, refused,
                    failed, lapsed>>
    BY <1>6 DEF taskVars, receipts, story
  <2>2. IInv' /\ UNCHANGED <<call, xfer>>
    BY <2>1, NextInv DEF TaskInv, vars
  <2> QED
    BY <2>1, <2>2 DEF TaskInv, TaskType, CallerInv, RowInv, RowOf
<1> QED
  BY <1>1, <1>2, <1>3, <1>4, <1>5, <1>6 DEF TaskNext

LEMMA TaskInvariant == TaskSpec => []TaskInv
<1>1. TaskInv /\ [TaskNext]_taskVars => TaskInv'
  BY TaskNextInv
<1> QED
  BY <1>1, TaskInitInv, PTL DEF TaskSpec

-----------------------------------------------------------------------------
(* The bound on served rests on a count: what was served and what is on    *)
(* its way there never exceed the requests that carried the receipt.       *)
Ahead(t) == {h \in Callers : task[h].pc \in {"gate", "run"} /\ task[h].t = t}
CountInv == \A t \in Transfers : served[t] + Cardinality(Ahead(t)) <= sends[t]

LEMMA AheadMoves ==
    ASSUME TaskInv, TaskInv', NEW h \in Callers, NEW t \in Transfers,
           \A g \in Callers \ {h} : task'[g] = task[g]
    PROVE  /\ Cardinality(Ahead(t)) \in Nat /\ Cardinality(Ahead(t)') \in Nat
           /\ (h \in Ahead(t) <=> h \in Ahead(t)') =>
                 Cardinality(Ahead(t)') = Cardinality(Ahead(t))
           /\ h \notin Ahead(t) /\ h \in Ahead(t)' =>
                 Cardinality(Ahead(t)') = Cardinality(Ahead(t)) + 1
           /\ h \in Ahead(t) /\ h \notin Ahead(t)' =>
                 Cardinality(Ahead(t)') = Cardinality(Ahead(t)) - 1
           /\ served[t] \in Nat /\ sends[t] \in Nat
<1>1. PICK S : S = Ahead(t)
  OBVIOUS
<1>2. PICK T : T = Ahead(t)'
  OBVIOUS
<1>3. S \in SUBSET Callers /\ T \in SUBSET Callers /\ S \ {h} = T \ {h}
  BY <1>1, <1>2 DEF Ahead
<1>4. /\ Cardinality(S) \in Nat /\ Cardinality(T) \in Nat
      /\ (h \in S <=> h \in T) => T = S
      /\ h \notin S /\ h \in T => Cardinality(T) = Cardinality(S) + 1
      /\ h \in S /\ h \notin T => Cardinality(T) = Cardinality(S) - 1
  BY <1>3, OneApart, TaskAssumption
<1>5. served[t] \in Nat /\ sends[t] \in Nat
  BY TaskAssumption DEF TaskInv, TaskType
<1> QED
  BY <1>1, <1>2, <1>4, <1>5

(* A step by which no handler gets ahead.                                  *)
LEMMA CountKept ==
    ASSUME TaskInv, TaskInv', CountInv, NEW h \in Callers,
           \A g \in Callers \ {h} : task'[g] = task[g],
           \A t \in Transfers : h \in Ahead(t)' => h \in Ahead(t),
           UNCHANGED <<sends, served>>
    PROVE  CountInv'
<1> SUFFICES ASSUME NEW t \in Transfers
             PROVE  served'[t] + Cardinality(Ahead(t)') <= sends'[t]
  BY DEF CountInv
<1>1. served[t] + Cardinality(Ahead(t)) <= sends[t]
  BY DEF CountInv
<1>2. PICK n, m, s, x : n = Cardinality(Ahead(t)) /\ m = Cardinality(Ahead(t)')
                        /\ s = served[t] /\ x = sends[t]
  OBVIOUS
<1>3. n \in Nat /\ m \in Nat /\ s \in Nat /\ x \in Nat /\ (m = n \/ m = n - 1)
  BY <1>2, AheadMoves
<1>4. s + m <= x
  BY <1>1, <1>2, <1>3
<1> QED
  BY <1>2, <1>4

LEMMA CountUntouched ==
    ASSUME CountInv, UNCHANGED <<task, sends, served>>
    PROVE  CountInv'
<1>1. \A t \in Transfers : Ahead(t)' = Ahead(t)
  BY DEF Ahead
<1> QED
  BY <1>1 DEF CountInv

LEMMA CountSend ==
    ASSUME TaskInv, TaskInv', CountInv, NEW h \in Callers, NEW t \in Transfers, Send(h, t)
    PROVE  CountInv'
<1>a. /\ task[h] = NoTask /\ task'[h].pc \in {"gate", "run"} /\ task'[h].t = t
      /\ \A g \in Callers \ {h} : task'[g] = task[g]
  BY SendRecord DEF TaskInv
<1>b. sends' = [sends EXCEPT ![t] = @ + 1] /\ served' = served
  BY DEF Send
<1>1. /\ task[h].pc = "idle" /\ task'[h].pc \in {"gate", "run"} /\ task'[h].t = t
      /\ \A g \in Callers \ {h} : task'[g] = task[g]
      /\ sends' = [sends EXCEPT ![t] = @ + 1] /\ served' = served
  BY <1>a, <1>b DEF NoTask
<1> SUFFICES ASSUME NEW u \in Transfers
             PROVE  served'[u] + Cardinality(Ahead(u)') <= sends'[u]
  BY DEF CountInv
<1>2. h \notin Ahead(u) /\ (h \in Ahead(u)' <=> u = t)
  BY <1>1 DEF Ahead
<1>3. served[u] + Cardinality(Ahead(u)) <= sends[u]
  BY DEF CountInv
<1>4. PICK n, m, s, x : n = Cardinality(Ahead(u)) /\ m = Cardinality(Ahead(u)')
                        /\ s = served[u] /\ x = sends[u]
  OBVIOUS
<1>5. /\ n \in Nat /\ m \in Nat /\ s \in Nat /\ x \in Nat
      /\ m = IF u = t THEN n + 1 ELSE n
  BY <1>1, <1>2, <1>4, AheadMoves
<1>6. sends'[u] = IF u = t THEN x + 1 ELSE x
  BY <1>1, <1>4 DEF TaskInv, TaskType
<1>7. s + m <= IF u = t THEN x + 1 ELSE x
  BY <1>3, <1>4, <1>5
<1> QED
  BY <1>1, <1>4, <1>6, <1>7

LEMMA CountComplete ==
    ASSUME TaskInv, TaskInv', CountInv, NEW h \in Callers, NEW over \in Overages,
           Complete(h, over)
    PROVE  CountInv'
<1>1. task[h].pc = "run" /\ task[h].t \in Transfers
  BY CompleteIs
<1>3. /\ task'[h].pc = "settle" /\ \A g \in Callers \ {h} : task'[g] = task[g]
      /\ served' = [served EXCEPT ![task[h].t] = @ + 1] /\ sends' = sends
  BY CompleteIs
<1> SUFFICES ASSUME NEW u \in Transfers
             PROVE  served'[u] + Cardinality(Ahead(u)') <= sends'[u]
  BY DEF CountInv
<1>4. h \notin Ahead(u)' /\ (h \in Ahead(u) <=> u = task[h].t)
  BY <1>1, <1>3 DEF Ahead
<1>5. served[u] + Cardinality(Ahead(u)) <= sends[u]
  BY DEF CountInv
<1>6. PICK n, m, s, x : n = Cardinality(Ahead(u)) /\ m = Cardinality(Ahead(u)')
                        /\ s = served[u] /\ x = sends[u]
  OBVIOUS
<1>7. /\ n \in Nat /\ m \in Nat /\ s \in Nat /\ x \in Nat
      /\ m = IF u = task[h].t THEN n - 1 ELSE n
  BY <1>3, <1>4, <1>6, AheadMoves
<1>8. served'[u] = IF u = task[h].t THEN s + 1 ELSE s
  BY <1>3, <1>6 DEF TaskInv, TaskType
<1>9. (IF u = task[h].t THEN s + 1 ELSE s) + m <= x
  BY <1>5, <1>6, <1>7
<1> QED
  BY <1>3, <1>6, <1>8, <1>9

(* What the other steps of a handler do to its record.                     *)
LEMMA HandlerStepRecord ==
    ASSUME TaskInv, NEW h \in Callers,
           HandlerStep(h) \/ AskRefund(h) \/ HandlerDies(h)
    PROVE  /\ UNCHANGED <<sends, served, due>>
           /\ \A g \in Callers \ {h} : task'[g] = task[g]
           /\ task[h] \in Tasks
           /\ \/ task'[h] = NoTask
              \/ /\ task'[h].t = task[h].t /\ task'[h].over = task[h].over
                 /\ \/ task[h].pc = "gate" /\ task'[h].pc = "run"
                    \/ task[h].pc \in {"gate", "run"} /\ task'[h].pc = "refund"
                    \/ AskRefund(h) /\ task[h].pc = "settle" /\ task'[h].pc = "settling"
                    \/ AskRefund(h) /\ task[h].pc = "refund" /\ task'[h].pc = "refunding"
<1>1. CASE HandlerStep(h)
  <2>1. /\ UNCHANGED <<sends, served, due>> /\ task[h] \in Tasks
        /\ \/ Reply(h)
           \/ task[h].pc = "gate" /\ Go(h, "run")
           \/ task[h].pc \in {"gate", "run"} /\ Go(h, "refund")
    BY <1>1, HandlerStepIs
  <2> QED
    BY <2>1, ReplyRecord, GoRecord DEF TaskInv, Statements
<1>2. CASE AskRefund(h)
  BY <1>2, AskRefundIs DEF story
<1>3. CASE HandlerDies(h)
  BY <1>3, HandlerDiesIs
<1> QED
  BY <1>1, <1>2, <1>3

LEMMA PaymentStepRests ==
    ASSUME \/ Payments /\ UNCHANGED <<receipts, task, story>>
           \/ \E t \in Transfers : Pay(t) \/ AutoStep(t)
           \/ \E h \in Callers : Lapse(h)
           \/ UNCHANGED taskVars
    PROVE  UNCHANGED <<task, sends, served, due>>
  BY DEF Pay, AutoStep, AutoDebit, AutoCredit, AutoOutRow, AutoInRow, AutoDies,
         Lapse, story, taskVars

LEMMA CountNext ==
    ASSUME TaskInv, CountInv, [TaskNext]_taskVars
    PROVE  CountInv'
<1>1. TaskInv'
  BY TaskNextInv
<1>2. ASSUME NEW h \in Callers, HandlerStep(h) \/ AskRefund(h) \/ HandlerDies(h)
      PROVE  CountInv'
  <2>1. /\ UNCHANGED <<sends, served>> /\ \A g \in Callers \ {h} : task'[g] = task[g]
        /\ \/ task'[h] = NoTask
           \/ task'[h].t = task[h].t /\ task[h].pc = "gate" /\ task'[h].pc = "run"
           \/ task'[h].pc \in {"settling", "refund", "refunding"}
    BY <1>2, HandlerStepRecord
  <2>2. \A t \in Transfers : h \in Ahead(t)' => h \in Ahead(t)
    BY <2>1 DEF Ahead, NoTask
  <2> QED
    BY <1>1, <2>1, <2>2, CountKept
<1>3. CASE \E h \in Callers : Handle(h)
  BY <1>1, <1>2, <1>3, CountComplete DEF Handle, HandlerStep
<1>4. CASE \E h \in Callers, t \in Transfers : Send(h, t)
  BY <1>1, <1>4, CountSend
<1> QED
  BY <1>3, <1>4, PaymentStepRests, CountUntouched DEF TaskNext

LEMMA CountInit == TaskInit => CountInv
<1> SUFFICES ASSUME TaskInit, NEW t \in Transfers
             PROVE  served[t] + Cardinality(Ahead(t)) <= sends[t]
  BY DEF CountInv
<1>1. Ahead(t) = {}
  BY DEF TaskInit, NoTask, Ahead
<1>2. Cardinality(Ahead(t)) = 0
  BY <1>1, FS_EmptySet
<1> QED
  BY <1>2 DEF TaskInit

(* Type correctness of the two ways to pay and of SendMessage; no receipt  *)
(* serves more tasks than requests carried it.                             *)
THEOREM TasksTypeCorrect == TaskSpec => []TaskTypeOK
<1>1. TaskInv /\ CountInv => TaskTypeOK
  <2> SUFFICES ASSUME TaskInv, CountInv PROVE TaskTypeOK
    OBVIOUS
  <2>1. ASSUME NEW t \in Transfers
        PROVE  served[t] \in 0..MaxSends
    <3>1. IsFiniteSet(Ahead(t))
      BY FS_Subset, TaskAssumption DEF Ahead
    <3>2. Cardinality(Ahead(t)) \in Nat
      BY <3>1, FS_CardinalityType
    <3>3. served[t] + Cardinality(Ahead(t)) <= sends[t]
      BY DEF CountInv
    <3> QED
      BY <3>2, <3>3, TaskAssumption DEF TaskInv, TaskType
  <2>2. served \in [Transfers -> 0..MaxSends]
    BY <2>1 DEF TaskInv, TaskType
  <2> QED
    BY <2>2 DEF TaskInv, IInv, TaskType, CallerInv, TaskTypeOK
<1>2. TaskInv /\ CountInv /\ [TaskNext]_taskVars => CountInv'
  BY CountNext
<1> QED
  BY <1>1, <1>2, CountInit, TaskInvariant, PTL DEF TaskSpec

-----------------------------------------------------------------------------
(* The inductive form of ServedKeepsPrice.  A receipt sent once has one    *)
(* handler at most.  Nothing is refunded before its refund or settlement   *)
(* ends; a handler that would give back the price has not served it; and a *)
(* settlement asks for what is due, and moves no more.                     *)
Has(h, t) == task[h] # NoTask /\ task[h].t = t

SentOnce(t) ==
    /\ sends[t] = 0 => served[t] = 0 /\ refunded[t] = 0 /\ \A h \in Callers : ~Has(h, t)
    /\ \A h, g \in Callers : Has(h, t) /\ Has(g, t) => h = g
    /\ \A h \in Callers : Has(h, t) =>
          /\ task[h].pc \in {"gate", "run", "refund", "refunding"} => served[t] = 0
          /\ task[h].pc \in {"gate", "run", "settle", "refund"} \/ call[h] # Idle =>
                refunded[t] = 0
          /\ task[h].pc \in {"settle", "settling"} => task[h].over = due[t]
          /\ call[h].pc = "drain" => t \in stale \/ call[h].available <= call[h].amt
    /\ t \notin stale /\ served[t] > 0 => refunded[t] <= due[t]

KeepInv == \A t \in Transfers : sends[t] <= 1 => SentOnce(t)

LEMMA KeepRests ==
    ASSUME KeepInv, UNCHANGED <<call, task, sends, served, due, refunded>>,
           stale \subseteq stale'
    PROVE  KeepInv'
  BY DEF KeepInv, SentOnce, Has

(* A step of a handler that changes neither calls nor refunds.             *)
LEMMA KeepMoves ==
    ASSUME TaskInv, KeepInv, NEW h \in Callers, task[h] \in Tasks,
           UNCHANGED <<sends, served, due, refunded, stale>>,
           \A g \in Callers \ {h} : task'[g] = task[g] /\ call'[g] = call[g],
           call'[h].pc # "drain", call'[h] # Idle => task'[h].pc = "settling"
                                                     \/ task'[h].pc = "refunding",
           \/ task'[h] = NoTask
           \/ /\ task'[h].t = task[h].t /\ task'[h].over = task[h].over
              /\ \/ task[h].pc = "gate" /\ task'[h].pc = "run" /\ call'[h] = Idle
                 \/ task[h].pc \in {"gate", "run"} /\ task'[h].pc = "refund"
                 \/ task[h].pc = "settle" /\ task'[h].pc = "settling"
                 \/ task[h].pc = "refund" /\ task'[h].pc = "refunding"
    PROVE  KeepInv'
<1> SUFFICES ASSUME NEW t \in Transfers, sends[t] <= 1
             PROVE  SentOnce(t)'
  BY DEF KeepInv
<1>1. SentOnce(t)
  BY DEF KeepInv
<1>2. \A g \in Callers : Has(g, t)' => Has(g, t)
  BY TaskRecord DEF Has, TaskInv
<1>3. \A g \in Callers \ {h} : task'[g] = task[g] /\ call'[g] = call[g]
  OBVIOUS
<1>4. Has(h, t)' =>
        /\ task'[h].pc \in {"gate", "run", "refund", "refunding"} => served[t] = 0
        /\ task'[h].pc \in {"gate", "run", "settle", "refund"} \/ call'[h] # Idle =>
              refunded[t] = 0
        /\ task'[h].pc \in {"settle", "settling"} => task'[h].over = due[t]
        /\ call'[h].pc # "drain"
  BY <1>1, <1>2 DEF SentOnce, Has
<1> QED
  BY <1>1, <1>2, <1>3, <1>4 DEF SentOnce, Has

LEMMA KeepSend ==
    ASSUME TaskInv, KeepInv, NEW h \in Callers, NEW u \in Transfers, Send(h, u)
    PROVE  KeepInv'
<1>1. /\ task[h] = NoTask /\ sends' = [sends EXCEPT ![u] = @ + 1]
      /\ UNCHANGED <<call, served, due, refunded, stale>>
  BY DEF Send, vars, history
<1>2. /\ task'[h].pc \in {"gate", "run"} /\ task'[h].t = u /\ call[h] = Idle
      /\ \A g \in Callers \ {h} : task'[g] = task[g]
  BY <1>1, SendRecord DEF TaskInv, CallerInv, NoTask
<1> SUFFICES ASSUME NEW t \in Transfers, sends'[t] <= 1
             PROVE  SentOnce(t)'
  BY DEF KeepInv
<1>3. CASE t = u
  <2>1. sends[t] \in Nat /\ sends'[t] = sends[t] + 1
    BY <1>1, <1>3, TaskAssumption DEF TaskInv, TaskType
  <2>2. sends[t] = 0 /\ sends'[t] = 1
    BY <2>1
  <2>3. served[t] = 0 /\ refunded[t] = 0 /\ \A g \in Callers : ~Has(g, t)
    BY <2>2 DEF KeepInv, SentOnce
  <2>4. \A g \in Callers : Has(g, t)' => g = h
    BY <1>2, <2>3 DEF Has
  <2>5. call'[h] = Idle /\ call'[h].pc # "drain"
    BY <1>1, <1>2 DEF Idle
  <2> QED
    BY <1>1, <1>2, <2>2, <2>3, <2>4, <2>5 DEF SentOnce
<1>4. CASE t # u
  <2>1. sends'[t] = sends[t] /\ SentOnce(t)
    BY <1>1, <1>4 DEF KeepInv, TaskInv, TaskType
  <2>2. \A g \in Callers : Has(g, t)' => Has(g, t) /\ task'[g] = task[g]
    BY <1>2, <1>4 DEF Has
  <2>3. \A g \in Callers : Has(g, t) => Has(g, t)'
    BY <1>1, <1>2 DEF Has
  <2> QED
    BY <1>1, <2>1, <2>2, <2>3 DEF SentOnce
<1> QED
  BY <1>3, <1>4

LEMMA KeepComplete ==
    ASSUME TaskInv, KeepInv, NEW h \in Callers, NEW over \in Overages, Complete(h, over)
    PROVE  KeepInv'
<1>1. task[h].pc = "run" /\ UNCHANGED <<call, sends, refunded, stale>>
      /\ served' = [served EXCEPT ![task[h].t] = @ + 1]
      /\ due' = [due EXCEPT ![task[h].t] = over]
  BY CompleteIs DEF vars, history
<1>2. task[h].t \in Transfers /\ call[h] = Idle /\ task[h] # NoTask /\ over \in Nat
  BY <1>1, CompleteIs, PriceFacts DEF NoTask
<1>3. /\ task'[h].pc = "settle" /\ task'[h].t = task[h].t /\ task'[h].over = over
      /\ \A g \in Callers \ {h} : task'[g] = task[g]
  BY CompleteIs
<1> SUFFICES ASSUME NEW t \in Transfers, sends[t] <= 1
             PROVE  SentOnce(t)'
  BY <1>1 DEF KeepInv
<1>4. SentOnce(t)
  BY DEF KeepInv
<1>5. \A g \in Callers : Has(g, t)' => Has(g, t)
  BY <1>2, <1>3 DEF Has
<1>6. CASE t = task[h].t
  <2>1. Has(h, t) /\ refunded[t] = 0 /\ sends[t] # 0
    BY <1>1, <1>2, <1>4, <1>6 DEF SentOnce, Has
  <2>2. \A g \in Callers : Has(g, t)' => g = h
    BY <1>4, <1>5, <2>1 DEF SentOnce
  <2>3. due'[t] = over /\ refunded[t] <= due'[t]
    BY <1>1, <1>2, <1>6, <2>1 DEF TaskInv, TaskType
  <2>4. call'[h].pc # "drain"
    BY <1>1, <1>2 DEF Idle
  <2> QED
    BY <1>1, <1>3, <2>1, <2>2, <2>3, <2>4 DEF SentOnce
<1>7. CASE t # task[h].t
  <2>1. served'[t] = served[t] /\ due'[t] = due[t]
    BY <1>1, <1>7 DEF TaskInv, TaskType
  <2>2. \A g \in Callers : Has(g, t)' => task'[g] = task[g]
    BY <1>3, <1>7 DEF Has
  <2> QED
    BY <1>1, <1>4, <1>5, <2>1, <2>2 DEF SentOnce
<1> QED
  BY <1>6, <1>7

(* refundTransfer itself: a call that ends, one that waits for its drain,  *)
(* and one that moves its amount.                                          *)
LEMMA KeepReturn ==
    ASSUME TaskInv, KeepInv, NEW c \in Callers,
           \A g \in Callers \ {c} : call'[g] = call[g],
           call'[c].pc # "drain", call'[c] # Idle => call[c] # Idle,
           UNCHANGED <<task, sends, served, due, refunded>>, stale \subseteq stale'
    PROVE  KeepInv'
  BY DEF KeepInv, SentOnce, Has

LEMMA KeepDrains ==
    ASSUME TaskInv, KeepInv, NEW c \in Callers, call[c] # Idle,
           \A g \in Callers \ {c} : call'[g] = call[g],
           call[c].t \in stale' \/ call'[c].available <= call'[c].amt,
           UNCHANGED <<task, sends, served, due, refunded>>, stale \subseteq stale'
    PROVE  KeepInv'
<1>1. call[c].t = task[c].t
  BY DEF TaskInv, CallerInv
<1> SUFFICES ASSUME NEW t \in Transfers, sends[t] <= 1
             PROVE  SentOnce(t)'
  BY DEF KeepInv
<1>2. SentOnce(t)
  BY DEF KeepInv
<1>3. \A g \in Callers : Has(g, t)' <=> Has(g, t)
  BY DEF Has
<1>4. Has(c, t) => refunded[t] = 0
                   /\ (t \in stale' \/ call'[c].available <= call'[c].amt)
  BY <1>1, <1>2 DEF SentOnce, Has
<1> QED
  BY <1>2, <1>3, <1>4 DEF SentOnce

LEMMA KeepMoved ==
    ASSUME TaskInv, KeepInv, NEW c \in Callers, call[c] # Idle, NEW a \in Nat,
           MoveBack(c, a), UNCHANGED <<task, sends, served, due>>, stale \subseteq stale',
           sends[call[c].t] <= 1 /\ call[c].t \notin stale' => a <= call[c].amt
    PROVE  KeepInv'
<1>1. /\ call[c].t = task[c].t /\ call[c].t \in Transfers /\ call[c].amt \in Nat
      /\ task[c].pc \in {"settling", "refunding"}
      /\ task[c].pc = "settling" => call[c].amt = task[c].over
  BY CallRecord DEF TaskInv, IInv, CallerInv
<1>2. task[c] # NoTask
  BY <1>1, TaskRecord DEF TaskInv, Statements
<1> DEFINE r == GivenBack(c, a)
<1>r. r \in Nat /\ r <= a
  BY GivenBackIs
<1>3. /\ call'[c] = Idle /\ \A g \in Callers \ {c} : call'[g] = call[g]
      /\ refunded' = [refunded EXCEPT ![call[c].t] = @ + r]
  BY DEF MoveBack, RefundReturn, TaskInv, IInv, TypeOK
<1> HIDE DEF r
<1> SUFFICES ASSUME NEW t \in Transfers, sends[t] <= 1
             PROVE  SentOnce(t)'
  BY DEF KeepInv
<1>4. SentOnce(t)
  BY DEF KeepInv
<1>5. \A g \in Callers : Has(g, t)' <=> Has(g, t)
  BY DEF Has
<1>6. CASE t = call[c].t
  <2>1. Has(c, t) /\ refunded[t] = 0 /\ sends[t] # 0
    BY <1>1, <1>2, <1>4, <1>6 DEF SentOnce, Has
  <2>2. \A g \in Callers : Has(g, t)' => g = c
    BY <1>4, <1>5, <2>1 DEF SentOnce
  <2>3. refunded'[t] = r
    <3>1. refunded \in [Transfers -> Nat]
      BY DEF TaskInv, IInv, TypeOK
    <3> QED
      BY <1>3, <1>r, <1>6, <2>1, <3>1
  <2>4. task[c].pc = "refunding" => served[t] = 0
    BY <1>4, <2>1 DEF SentOnce
  <2>5. t \notin stale' /\ served[t] > 0 => refunded'[t] <= due[t]
    <3> SUFFICES ASSUME t \notin stale', served[t] > 0
                 PROVE  refunded'[t] <= due[t]
      OBVIOUS
    <3>1. task[c].pc = "settling"
      BY <1>1, <2>4
    <3>2. task[c].over = due[t] /\ call[c].amt = due[t]
      BY <1>1, <1>4, <2>1, <3>1 DEF SentOnce
    <3>3. a <= call[c].amt
      BY <1>6
    <3>4. PICK d \in Nat : d = due[t] /\ a <= d
      BY <1>1, <3>2, <3>3
    <3>5. r <= d
      BY <1>r, <3>4
    <3> QED
      BY <2>3, <3>4, <3>5
  <2>6. call'[c].pc # "drain"
    BY <1>3 DEF Idle
  <2>7. task[c].pc \in {"settle", "settling"} => task[c].over = due[t]
    BY <1>4, <2>1 DEF SentOnce
  <2>8. Has(c, t)' /\ call'[c] = Idle
        /\ task[c].pc \notin {"gate", "run", "settle", "refund"}
    BY <1>1, <1>3, <1>5, <2>1
  <2> QED
    BY <1>1, <2>1, <2>2, <2>4, <2>5, <2>6, <2>7, <2>8 DEF SentOnce
<1>7. CASE t # call[c].t
  <2>1. refunded'[t] = refunded[t] /\ ~Has(c, t)
    BY <1>1, <1>3, <1>7 DEF Has, TaskInv, IInv, TypeOK
  <2> QED
    BY <1>3, <1>4, <1>5, <2>1 DEF SentOnce
<1> QED
  BY <1>6, <1>7

LEMMA KeepRefundStep ==
    ASSUME TaskInv, KeepInv, NEW c \in Callers, RefundStep(c) \/ RefundDies(c),
           UNCHANGED <<task, sends, served, due>>
    PROVE  KeepInv'
<1>1. call[c] # Idle
  <2>1. RefundStep(c) => call[c].pc \in {"begin", "peek", "drain"}
    BY DEF RefundStep, RefundFull, RefundMiss, RefundPeek, RefundDrain
  <2>2. RefundDies(c) => call[c] # Idle
    BY DEF RefundDies
  <2>3. Idle.pc = "idle"
    BY DEF Idle
  <2> QED
    BY <2>1, <2>2, <2>3
<1>2. /\ call[c] \in Refunding /\ call[c].t \in Transfers
      /\ call[c].amt \in Nat /\ call[c].available \in Nat
      /\ xfer[call[c].t] # Unused
  BY <1>1, CallRecord DEF TaskInv, IInv
<1>3. ASSUME RefundReturn(c), UNCHANGED refunded, stale \subseteq stale'
      PROVE  KeepInv'
  <2>1. call'[c] = Idle /\ \A g \in Callers \ {c} : call'[g] = call[g]
    BY <1>3 DEF RefundReturn, TaskInv, IInv, TypeOK
  <2>2. call'[c].pc # "drain"
    BY <2>1 DEF Idle
  <2> QED
    BY <1>3, <2>1, <2>2, KeepReturn
<1>4. CASE RefundFull(c)
  <2>1. PICK a : a = call[c].amt
    OBVIOUS
  <2>2. MoveBack(c, a) /\ stale' = stale
    BY <1>4, <2>1 DEF RefundFull
  <2>3. a \in Nat /\ a <= call[c].amt
    BY <1>2, <2>1
  <2> QED
    BY <1>1, <2>2, <2>3, KeepMoved
<1>5. CASE RefundMiss(c)
  <2>1. call' = [call EXCEPT ![c].pc = "peek"] /\ UNCHANGED <<refunded, stale>>
    BY <1>5 DEF RefundMiss, history
  <2>2. call'[c].pc = "peek" /\ \A g \in Callers \ {c} : call'[g] = call[g]
    BY <1>2, <2>1 DEF TaskInv, IInv, TypeOK, Refunding
  <2> QED
    BY <1>1, <2>1, <2>2, KeepReturn
<1>6. CASE RefundPeek(c)
  <2> DEFINE has == balance[call[c].to]
  <2>1. CASE RefundReturn(c) /\ UNCHANGED stale
    BY <1>3, <1>6, <2>1 DEF RefundPeek
  <2>2. CASE /\ call' = [call EXCEPT ![c].pc = "drain", ![c].available = has]
             /\ stale' = IF has >= call[c].amt THEN stale \cup {call[c].t} ELSE stale
    <3>1. has \in Int
      BY <1>1, CallRecord DEF TaskInv, IInv, TypeOK
    <3> HIDE DEF has
    <3>2. /\ call'[c].amt = call[c].amt /\ call'[c].available = has
          /\ \A g \in Callers \ {c} : call'[g] = call[g]
      BY <1>2, <2>2 DEF TaskInv, IInv, TypeOK, Refunding
    <3>3. stale \subseteq stale' /\ (call[c].t \in stale' \/ has <= call[c].amt)
      BY <1>2, <2>2, <3>1
    <3>4. refunded' = refunded
      BY <1>6 DEF RefundPeek
    <3> QED
      BY <1>1, <3>2, <3>3, <3>4, KeepDrains
  <2> QED
    BY <1>6, <2>1, <2>2 DEF RefundPeek
<1>7. CASE RefundDrain(c)
  <2>1. PICK a : a = call[c].available
    OBVIOUS
  <2>2. MoveBack(c, a) /\ stale \subseteq stale' /\ call[c].pc = "drain"
    BY <1>7, <2>1 DEF RefundDrain
  <2>3. sends[call[c].t] <= 1 /\ call[c].t \notin stale' => a <= call[c].amt
    <3>1. call[c].t = task[c].t /\ task[c] # NoTask
      BY <1>1 DEF TaskInv, CallerInv, NoTask
    <3> QED
      BY <1>2, <2>1, <2>2, <3>1 DEF KeepInv, SentOnce, Has
  <2>4. a \in Nat
    BY <1>2, <2>1
  <2> QED
    BY <1>1, <2>2, <2>3, <2>4, KeepMoved
<1>8. CASE RefundDies(c)
  BY <1>3, <1>8 DEF RefundDies, history
<1> QED
  BY <1>4, <1>5, <1>6, <1>7, <1>8 DEF RefundStep

LEMMA KeepUnseen ==
    ASSUME TaskInv, KeepInv, Unseen, UNCHANGED <<task, sends, served, due>>
    PROVE  KeepInv'
<1>1. CASE \E a \in OtherAmounts, o \in {Buyer, Seller} : Purchase(o, a) \/ Spend(o, a)
  BY <1>1, KeepRests DEF Purchase, Spend
<1>2. CASE \E t \in Transfers : TransferStep(t) \/ TransferDies(t)
  BY <1>2, TransferStepStays, KeepRests DEF TaskInv, history
<1>3. CASE \E h \in Callers : RefundStep(h) \/ RefundDies(h)
  BY <1>3, KeepRefundStep
<1> QED
  BY <1>1, <1>2, <1>3 DEF Unseen, Payments, RefundStep

LEMMA KeepHandle ==
    ASSUME TaskInv, KeepInv, NEW h \in Callers, Handle(h)
    PROVE  KeepInv'
<1>1. ASSUME HandlerStep(h) \/ AskRefund(h) \/ HandlerDies(h)
      PROVE  KeepInv'
  <2>1. /\ UNCHANGED <<sends, served, due>> /\ task[h] \in Tasks
        /\ \A g \in Callers \ {h} : task'[g] = task[g]
        /\ \/ task'[h] = NoTask
           \/ /\ task'[h].t = task[h].t /\ task'[h].over = task[h].over
              /\ \/ task[h].pc = "gate" /\ task'[h].pc = "run"
                 \/ task[h].pc \in {"gate", "run"} /\ task'[h].pc = "refund"
                 \/ AskRefund(h) /\ task[h].pc = "settle" /\ task'[h].pc = "settling"
                 \/ AskRefund(h) /\ task[h].pc = "refund" /\ task'[h].pc = "refunding"
    BY <1>1, HandlerStepRecord
  <2>2. CASE HandlerStep(h)
    <3>1. UNCHANGED <<call, refunded, stale>> /\ call[h] = Idle
      BY <2>2, HandlerStepIs DEF vars, history
    <3>2. call'[h].pc # "drain"
      BY <3>1 DEF Idle
    <3> QED
      BY <2>1, <3>1, <3>2, KeepMoves
  <2>3. CASE AskRefund(h)
    <3>1. UNCHANGED <<refunded, stale>>
      BY <2>3, AskRefundIs DEF RefundCheck
    <3>2. /\ call'[h].pc = "begin" /\ \A g \in Callers \ {h} : call'[g] = call[g]
          /\ task'[h].pc \in {"settling", "refunding"} /\ task'[h] # NoTask
      BY <2>3, AskRefundIs DEF NoTask
    <3> QED
      BY <2>1, <3>1, <3>2, KeepMoves
  <2>4. CASE HandlerDies(h)
    <3>1. /\ task'[h] = NoTask /\ call'[h] = Idle
          /\ \A g \in Callers \ {h} : call'[g] = call[g]
          /\ UNCHANGED <<refunded, stale>>
      BY <2>4, HandlerDiesIs DEF history
    <3>2. call'[h].pc # "drain"
      BY <3>1 DEF Idle
    <3> QED
      BY <2>1, <3>1, <3>2, KeepMoves
  <2> QED
    BY <1>1, <2>2, <2>3, <2>4
<1> QED
  BY <1>1, KeepComplete DEF Handle, HandlerStep

LEMMA KeepNext ==
    ASSUME TaskInv, KeepInv, [TaskNext]_taskVars
    PROVE  KeepInv'
<1>1. CASE Payments /\ UNCHANGED <<receipts, task, story>>
  BY <1>1, KeepUnseen DEF Unseen, story
<1>2. CASE \E t \in Transfers : Pay(t) \/ AutoStep(t)
  <2>1. UNCHANGED <<call, task, sends, served, due, refunded, stale>>
    BY <1>2 DEF Pay, Transfer, AutoStep, AutoDebit, AutoCredit, AutoOutRow, AutoInRow,
       AutoDies, vars, history, story
  <2> QED
    BY <2>1, KeepRests
<1>3. CASE \E h \in Callers, t \in Transfers : Send(h, t)
  BY <1>3, KeepSend
<1>4. CASE \E h \in Callers : Handle(h)
  BY <1>4, KeepHandle
<1>5. CASE \E h \in Callers : Lapse(h)
  BY <1>5, LapseIs, KeepUnseen
<1>6. CASE UNCHANGED taskVars
  BY <1>6, KeepRests DEF taskVars, vars, history, story
<1> QED
  BY <1>1, <1>2, <1>3, <1>4, <1>5, <1>6 DEF TaskNext

LEMMA KeepInit == TaskInit => KeepInv
  BY DEF TaskInit, Init, KeepInv, SentOnce, Has

(* A receipt sent once, whose task was completed, keeps its price up to    *)
(* what its settlement found to be too much: SendMessage settles or        *)
(* refunds, never both, whatever throws, fails or dies on its way.         *)
THEOREM ServedTasksKeepTheirPrice == TaskSpec => []ServedKeepsPrice
<1>1. KeepInv => ServedKeepsPrice
  BY DEF KeepInv, SentOnce, ServedKeepsPrice
<1>2. TaskInv /\ KeepInv /\ [TaskNext]_taskVars => KeepInv'
  BY KeepNext
<1> QED
  BY <1>1, <1>2, KeepInit, TaskInvariant, PTL DEF TaskSpec

-----------------------------------------------------------------------------
(* The inductive form of FailedIsRefunded.  A receipt that failed, was not *)
(* served and whose refunds did not lapse has its price back, or a handler *)
(* that owes it: before the refund, or inside a refundTransfer that asks   *)
(* the seller for the price and has not yet missed its cover.  A refund    *)
(* row of such a receipt stands for the whole price.                       *)
Owing(h) ==
    \/ task[h].pc = "refund"
    \/ task[h].pc = "refunding" /\ call[h] # Idle

Repaid(t) ==
    t \in lapsed \/ served[t] > 0 \/
        /\ refundRows[t] > 0 => refunded[t] >= Price
        /\ t \in failed => \/ refunded[t] >= Price
                           \/ \E h \in Callers : Has(h, t) /\ Owing(h)

Repaying(h) ==
    /\ call[h] # Idle /\ task[h].pc = "refunding" =>
          call[h].amt = Price /\ call[h].to = Seller
    /\ call[h].pc \in {"peek", "drain"} => call[h].t \in lapsed
    /\ task[h].pc \in {"settle", "settling"} => served[task[h].t] > 0

FailInv == (\A t \in Transfers : Repaid(t)) /\ \A h \in Callers : Repaying(h)

LEMMA FailRests ==
    ASSUME FailInv, UNCHANGED <<call, task, served, refundRows, refunded, failed, lapsed>>
    PROVE  FailInv'
  BY DEF FailInv, Repaid, Repaying, Has, Owing

(* A step of one handler is about one receipt.                             *)
LEMMA FailOne ==
    ASSUME TaskInv, TaskInv', FailInv, NEW h \in Callers, NEW u \in Transfers,
           \A g \in Callers \ {h} : task'[g] = task[g] /\ call'[g] = call[g],
           task[h] = NoTask \/ task[h].t = u,
           \A t \in Transfers \ {u} : /\ served'[t] = served[t]
                                      /\ refundRows'[t] = refundRows[t]
                                      /\ refunded'[t] = refunded[t],
           served'[u] >= served[u], lapsed \subseteq lapsed', failed' \subseteq failed \cup {u},
           Repaid(u)', Repaying(h)'
    PROVE  FailInv'
<1>1. ASSUME NEW t \in Transfers
      PROVE  Repaid(t)'
  <2>1. CASE t = u
    BY <2>1
  <2>2. CASE t # u
    <3>1. Repaid(t) /\ \A g \in Callers : Has(g, t) => g # h
      BY <2>2 DEF FailInv, Has
    <3>2. \A g \in Callers : Has(g, t) /\ Owing(g) => Has(g, t)' /\ Owing(g)'
      BY <3>1 DEF Has, Owing
    <3> QED
      BY <2>2, <3>1, <3>2 DEF Repaid
  <2> QED
    BY <2>1, <2>2
<1>2. ASSUME NEW g \in Callers
      PROVE  Repaying(g)'
  <2>1. CASE g = h
    BY <2>1
  <2>2. CASE g # h
    <3>1. task'[g] = task[g] /\ call'[g] = call[g] /\ Repaying(g)
      BY <2>2 DEF FailInv
    <3>2. ASSUME task[g].pc \in {"settle", "settling"}
          PROVE  served'[task[g].t] > 0
      <4>1. task[g].t \in Transfers /\ served[task[g].t] > 0
        BY <3>1, <3>2, TaskRecord DEF Repaying, TaskInv, Statements
      <4>2. /\ served[task[g].t] \in Nat /\ served'[task[g].t] \in Nat
            /\ served'[task[g].t] >= served[task[g].t]
        BY <4>1 DEF TaskInv, TaskType
      <4> QED
        BY <4>1, <4>2
    <3> QED
      BY <3>1, <3>2 DEF Repaying
  <2> QED
    BY <2>1, <2>2
<1> QED
  BY <1>1, <1>2 DEF FailInv

LEMMA FailSend ==
    ASSUME TaskInv, TaskInv', FailInv, NEW h \in Callers, NEW t \in Transfers, Send(h, t)
    PROVE  FailInv'
<1>a. /\ task[h] = NoTask /\ task'[h].pc \in {"gate", "run"} /\ task'[h].t = t
      /\ \A g \in Callers \ {h} : task'[g] = task[g]
  BY SendRecord DEF TaskInv
<1>b. task[h].pc = "idle" /\ call[h] = Idle
  BY <1>a DEF NoTask, TaskInv, CallerInv
<1>c. UNCHANGED <<call, served, refundRows, refunded, failed, lapsed>>
  BY DEF Send, vars, history
<1>1. /\ task[h] = NoTask /\ task[h].pc = "idle" /\ call[h] = Idle
      /\ task'[h].pc \in {"gate", "run"} /\ task'[h].t = t
      /\ \A g \in Callers \ {h} : task'[g] = task[g]
      /\ UNCHANGED <<call, served, refundRows, refunded, failed, lapsed>>
  BY <1>a, <1>b, <1>c
<1>2. \A g \in Callers : Has(g, t) /\ Owing(g) => Has(g, t)' /\ Owing(g)'
  BY <1>1 DEF Has, Owing
<1>3. Repaid(t)'
  BY <1>1, <1>2 DEF FailInv, Repaid
<1>4. Repaying(h)'
  BY <1>1 DEF Repaying, Idle
<1>5. served'[t] >= served[t]
  BY <1>1 DEF TaskInv, TaskType
<1> QED
  BY <1>1, <1>3, <1>4, <1>5, FailOne

LEMMA FailComplete ==
    ASSUME TaskInv, TaskInv', FailInv, NEW h \in Callers, NEW over \in Overages,
           Complete(h, over)
    PROVE  FailInv'
<1>1. /\ task[h].t \in Transfers /\ call'[h] = Idle
      /\ task'[h].pc = "settle" /\ task'[h].t = task[h].t
      /\ \A g \in Callers \ {h} : task'[g] = task[g]
      /\ served' = [served EXCEPT ![task[h].t] = @ + 1]
      /\ UNCHANGED <<call, refundRows, refunded, failed, lapsed>>
  BY CompleteIs DEF vars, history
<1>2. /\ served'[task[h].t] > 0 /\ served'[task[h].t] >= served[task[h].t]
      /\ \A t \in Transfers \ {task[h].t} : served'[t] = served[t]
  BY <1>1 DEF TaskInv, TaskType
<1>3. Repaid(task[h].t)'
  BY <1>1, <1>2 DEF Repaid
<1>4. Repaying(h)'
  BY <1>1, <1>2 DEF Repaying, Idle
<1> QED
  BY <1>1, <1>2, <1>3, <1>4, FailOne

(* A handler that is done without owing its receipt anything.              *)
LEMMA FailLeaves ==
    ASSUME TaskInv, TaskInv', FailInv, NEW h \in Callers, task[h] \in Tasks,
           task'[h] = NoTask, call'[h] = Idle,
           \A g \in Callers \ {h} : task'[g] = task[g] /\ call'[g] = call[g],
           UNCHANGED <<served, refundRows, refunded, failed>>, lapsed \subseteq lapsed',
           \/ task[h].t \in lapsed'
           \/ ~Owing(h)
           \/ refundRows[task[h].t] > 0
    PROVE  FailInv'
<1>1. PICK u \in Transfers : u = task[h].t
  BY TaskRecord DEF TaskInv
<1>2. \A g \in Callers \ {h} : Has(g, u) /\ Owing(g) => Has(g, u)' /\ Owing(g)'
  BY DEF Has, Owing
<1>3. Repaid(u)
  BY DEF FailInv
<1>4. Repaid(u)'
  <2>1. CASE task[h].t \in lapsed' \/ refundRows[task[h].t] > 0
    BY <1>1, <1>3, <2>1 DEF Repaid
  <2>2. CASE ~Owing(h)
    BY <1>1, <1>2, <1>3, <2>2 DEF Repaid
  <2> QED
    BY <2>1, <2>2
<1>5. Repaying(h)'
  BY DEF Repaying, Idle, NoTask
<1>6. served'[u] >= served[u]
  BY DEF TaskInv, TaskType
<1> QED
  BY <1>1, <1>4, <1>5, <1>6, FailOne

LEMMA FailHandlerStep ==
    ASSUME TaskInv, TaskInv', FailInv, NEW h \in Callers, HandlerStep(h)
    PROVE  FailInv'
<1>1. /\ task[h] \in Tasks /\ task[h].t \in Transfers /\ call[h] = Idle
      /\ UNCHANGED <<call, served, refundRows, refunded>>
  BY HandlerStepIs, TaskRecord DEF vars, history, TaskInv
<1>2. served'[task[h].t] >= served[task[h].t]
  BY <1>1 DEF TaskInv, TaskType
<1>3. CASE Reply(h)
  <2>1. /\ task'[h] = NoTask /\ \A g \in Callers \ {h} : task'[g] = task[g]
        /\ failed' = failed
    BY <1>3, ReplyRecord, HandlerStepIs, GoRecord DEF TaskInv, Statements, NoTask
  <2>2. lapsed \subseteq lapsed'
    BY DEF HandlerStep, Gate, RuntimeError, Throw, NoRefund, Lapses, Finish, story
  <2>3. \/ task[h].t \in lapsed'
        \/ ~Owing(h)
        \/ refundRows[task[h].t] > 0
    <3>1. CASE NoRefund(h)
      BY <1>1, <3>1 DEF NoRefund, Lapses, RefundExists, Owing, In
    <3>2. CASE ~NoRefund(h)
      <4>1. task[h].pc # "refund"
        BY <1>3, <3>2 DEF HandlerStep, Gate, RuntimeError, Throw, Finish, In, MayThrow
      <4> QED
        BY <1>1, <4>1 DEF Owing
    <3> QED
      BY <3>1, <3>2
  <2> QED
    BY <1>1, <2>1, <2>2, <2>3, FailLeaves
<1>4. CASE task[h].pc = "gate" /\ Go(h, "run") /\ UNCHANGED <<failed, lapsed>>
  <2>1. PICK u \in Transfers : u = task[h].t
    BY <1>1
  <2>2. /\ task'[h].pc = "run" /\ task'[h].t = u
        /\ \A g \in Callers \ {h} : task'[g] = task[g]
    BY <1>1, <1>4, <2>1, GoRecord DEF TaskInv, Statements
  <2>3. \A g \in Callers : Has(g, u) /\ Owing(g) => Has(g, u)' /\ Owing(g)'
    BY <1>1, <1>4, <2>2 DEF Has, Owing
  <2>4. Repaid(u)'
    BY <1>1, <1>4, <2>3 DEF FailInv, Repaid
  <2>5. Repaying(h)'
    BY <1>1, <2>2 DEF Repaying, Idle
  <2>6. failed' \subseteq failed \cup {u}
    BY <1>4
  <2> QED
    BY <1>1, <1>2, <1>4, <2>1, <2>2, <2>4, <2>5, <2>6, FailOne
<1>5. CASE /\ task[h].pc \in {"gate", "run"} /\ Go(h, "refund")
           /\ failed' = failed \cup {task[h].t} /\ lapsed' = lapsed
  <2>1. PICK u \in Transfers : u = task[h].t
    BY <1>1
  <2>2. /\ task'[h].pc = "refund" /\ task'[h].t = u /\ task'[h] # NoTask
        /\ \A g \in Callers \ {h} : task'[g] = task[g]
    BY <1>1, <1>5, <2>1, GoRecord DEF TaskInv, Statements, NoTask
  <2>3. Has(h, u)' /\ Owing(h)'
    BY <2>2 DEF Has, Owing
  <2>4. Repaid(u)'
    BY <1>1, <1>5, <2>3 DEF FailInv, Repaid
  <2>5. Repaying(h)'
    BY <1>1, <2>2 DEF Repaying, Idle
  <2> QED
    BY <1>1, <1>2, <1>5, <2>1, <2>2, <2>4, <2>5, FailOne
<1> QED
  BY <1>3, <1>4, <1>5, HandlerStepIs

LEMMA FailAskRefund ==
    ASSUME TaskInv, TaskInv', FailInv, NEW h \in Callers, AskRefund(h)
    PROVE  FailInv'
<1>1. PICK u \in Transfers : u = task[h].t
  BY AskRefundIs
<1>2. /\ UNCHANGED <<served, refundRows, refunded, failed, lapsed>>
      /\ task'[h].t = u /\ call'[h] # Idle /\ call'[h].pc = "begin"
      /\ \A g \in Callers \ {h} : task'[g] = task[g] /\ call'[g] = call[g]
  BY <1>1, AskRefundIs DEF story, RefundCheck
<1>3. \/ task[h].pc = "settle" /\ task'[h].pc = "settling"
      \/ /\ task[h].pc = "refund" /\ task'[h].pc = "refunding"
         /\ call'[h].amt = Price /\ call'[h].to = Seller
  BY AskRefundIs
<1>4. task'[h] # NoTask
  BY <1>3 DEF NoTask
<1>5. \A g \in Callers : Has(g, u) /\ Owing(g) => Has(g, u)' /\ Owing(g)'
  BY <1>2, <1>3, <1>4 DEF Has, Owing
<1>6. Repaid(u)'
  BY <1>2, <1>5 DEF FailInv, Repaid
<1>7. Repaying(h)'
  BY <1>1, <1>2, <1>3 DEF FailInv, Repaying
<1>8. served'[u] >= served[u]
  BY <1>2 DEF TaskInv, TaskType
<1> QED
  BY <1>1, <1>2, <1>6, <1>7, <1>8, FailOne

LEMMA FailDies ==
    ASSUME TaskInv, TaskInv', FailInv, NEW h \in Callers, HandlerDies(h)
    PROVE  FailInv'
<1>1. /\ task[h] \in Tasks /\ task'[h] = NoTask /\ call'[h] = Idle
      /\ \A g \in Callers \ {h} : task'[g] = task[g] /\ call'[g] = call[g]
      /\ UNCHANGED <<served, refundRows, refunded, failed>>
  BY HandlerDiesIs DEF history
<1>2. lapsed \subseteq lapsed' /\ (task[h].t \in lapsed' \/ ~Owing(h))
  BY HandlerDiesIs DEF Owing
<1> QED
  BY <1>1, <1>2, FailLeaves

(* The seller's whole cover moves back, or what was left of it.            *)
LEMMA FailMoved ==
    ASSUME TaskInv, TaskInv', FailInv, NEW c \in Callers, call[c] # Idle, NEW a \in Nat,
           MoveBack(c, a), UNCHANGED <<xfer, task, served, failed, lapsed>>,
           call[c].t \in lapsed \/ a = call[c].amt
    PROVE  FailInv'
<1>1. PICK u \in Transfers : u = call[c].t
  BY CallRecord DEF TaskInv, IInv
<1>2. /\ u = task[c].t /\ task[c].pc \in {"settling", "refunding"}
  BY <1>1 DEF TaskInv, CallerInv
<1> DEFINE r == GivenBack(c, a)
<1>3. r \in Nat
  BY GivenBackIs
<1>4. r = a \/ call[c].to = Buyer
  <2>1. xfer[u] # Unused
    BY <1>1, CallRecord DEF TaskInv, IInv
  <2>2. xfer[u].from = Buyer
    BY <2>1 DEF TaskInv, RowInv, RowOf
  <2> QED
    BY <1>1, <2>2 DEF GivenBack
<1>5. /\ call'[c] = Idle /\ \A g \in Callers \ {c} : call'[g] = call[g]
      /\ refunded' = [refunded EXCEPT ![u] = @ + r]
      /\ refundRows' = [refundRows EXCEPT ![u] = @ + 1]
  BY <1>1 DEF MoveBack, RefundReturn, TaskInv, IInv, TypeOK
<1> HIDE DEF r
<1>6. /\ refunded'[u] = refunded[u] + r /\ refunded[u] \in Nat
      /\ \A t \in Transfers \ {u} : refunded'[t] = refunded[t]
                                    /\ refundRows'[t] = refundRows[t]
  BY <1>5 DEF TaskInv, IInv, TypeOK
<1>7. Repaying(c) /\ Repaid(u)
  BY DEF FailInv
<1>8. Repaid(u)'
  <2>1. CASE u \in lapsed \/ served[u] > 0
    BY <2>1 DEF Repaid
  <2>2. CASE u \notin lapsed /\ ~(served[u] > 0)
    <3>1. task[c].pc = "refunding"
      BY <1>2, <1>7, <2>2 DEF Repaying
    <3>2. call[c].amt = Price /\ call[c].to = Seller /\ a = Price
      BY <1>1, <1>7, <2>2, <3>1 DEF Repaying
    <3>3. r = Price
      BY <1>4, <3>2, TaskAssumption
    <3>4. refunded'[u] >= Price
      BY <1>6, <3>3, PriceFacts
    <3> QED
      BY <3>4 DEF Repaid
  <2> QED
    BY <2>1, <2>2
<1>9. Repaying(c)'
  BY <1>5, <1>7 DEF Repaying, Idle
<1>10. served'[u] >= served[u]
  BY DEF TaskInv, TaskType
<1> QED
  BY <1>2, <1>5, <1>6, <1>8, <1>9, <1>10, FailOne

(* A call that stays where it is, ends, or goes on, its receipt lapsed.    *)
LEMMA FailGoesOn ==
    ASSUME TaskInv, TaskInv', FailInv, NEW c \in Callers, call[c] # Idle,
           \A g \in Callers \ {c} : call'[g] = call[g],
           UNCHANGED <<task, served, refundRows, refunded, failed>>,
           lapsed \subseteq lapsed', call[c].t \in lapsed',
           \/ call'[c] = Idle
           \/ /\ call'[c].t = call[c].t /\ call'[c].to = call[c].to
              /\ call'[c].amt = call[c].amt
    PROVE  FailInv'
<1>1. PICK u \in Transfers : u = call[c].t
  BY CallRecord DEF TaskInv, IInv
<1>2. u = task[c].t
  BY <1>1 DEF TaskInv, CallerInv
<1>3. Repaid(u)'
  BY <1>1 DEF Repaid
<1>4. Repaying(c)'
  BY DEF FailInv, Repaying, Idle
<1>5. served'[u] >= served[u]
  BY DEF TaskInv, TaskType
<1>6. /\ \A g \in Callers \ {c} : task'[g] = task[g] /\ call'[g] = call[g]
      /\ \A t \in Transfers \ {u} : /\ served'[t] = served[t]
                                     /\ refundRows'[t] = refundRows[t]
                                     /\ refunded'[t] = refunded[t]
      /\ failed' \subseteq failed \cup {u}
  OBVIOUS
<1>7. task[c] = NoTask \/ task[c].t = u
  BY <1>2
<1> QED
  BY <1>3, <1>4, <1>5, <1>6, <1>7, FailOne

LEMMA FailRefund ==
    ASSUME TaskInv, TaskInv', FailInv, NEW c \in Callers,
           RefundFull(c) \/ RefundPeek(c) \/ RefundDrain(c),
           UNCHANGED <<task, served, failed, lapsed>>
    PROVE  FailInv'
<1>1. call[c] # Idle
  <2>1. call[c].pc \in {"begin", "peek", "drain"}
    BY DEF RefundFull, RefundPeek, RefundDrain
  <2> QED
    BY <2>1 DEF Idle
<1>2. /\ call[c] \in Refunding /\ call[c].t \in Transfers /\ Repaying(c)
      /\ call[c].amt \in Nat /\ call[c].available \in Nat
  BY <1>1, CallRecord DEF TaskInv, IInv, FailInv
<1>3. CASE RefundFull(c)
  <2>1. PICK a \in Nat : a = call[c].amt
    BY <1>2
  <2>2. MoveBack(c, a) /\ xfer' = xfer
    BY <1>3, <2>1 DEF RefundFull
  <2> QED
    BY <1>1, <2>1, <2>2, FailMoved
<1>4. CASE RefundPeek(c)
  <2>1. call[c].t \in lapsed /\ UNCHANGED <<refundRows, refunded>>
    BY <1>2, <1>4 DEF RefundPeek, Repaying
  <2>2. /\ \A g \in Callers \ {c} : call'[g] = call[g]
        /\ \/ call'[c] = Idle
           \/ /\ call'[c].t = call[c].t /\ call'[c].to = call[c].to
              /\ call'[c].amt = call[c].amt
    BY <1>2, <1>4 DEF RefundPeek, RefundReturn, TaskInv, IInv, TypeOK, Refunding
  <2> QED
    BY <1>1, <2>1, <2>2, FailGoesOn
<1>5. CASE RefundDrain(c)
  <2>1. PICK a \in Nat : a = call[c].available
    BY <1>2
  <2>2. MoveBack(c, a) /\ xfer' = xfer /\ call[c].t \in lapsed
    BY <1>2, <1>5, <2>1 DEF RefundDrain, Repaying
  <2> QED
    BY <1>1, <2>2, FailMoved
<1> QED
  BY <1>3, <1>4, <1>5

LEMMA FailLapse ==
    ASSUME TaskInv, TaskInv', FailInv, NEW h \in Callers, Lapse(h)
    PROVE  FailInv'
<1>1. /\ call[h] # Idle /\ lapsed' = lapsed \cup {call[h].t}
      /\ UNCHANGED <<task, served, failed>>
  BY LapseIs
<1>2. call[h] \in Refunding /\ UNCHANGED <<refundRows, refunded>>
  BY <1>1, CallRecord DEF Lapse, RefundMiss, RefundDies, history, TaskInv, IInv
<1>3. /\ \A g \in Callers \ {h} : call'[g] = call[g]
      /\ \/ call'[h] = Idle
         \/ /\ call'[h].t = call[h].t /\ call'[h].to = call[h].to
            /\ call'[h].amt = call[h].amt
  BY <1>2 DEF Lapse, RefundMiss, RefundDies, RefundReturn, TaskInv, IInv, TypeOK, Refunding
<1> QED
  BY <1>1, <1>2, <1>3, FailGoesOn

LEMMA FailNext ==
    ASSUME TaskInv, FailInv, [TaskNext]_taskVars
    PROVE  FailInv'
<1>1. TaskInv'
  BY TaskNextInv
<1>2. CASE Payments /\ UNCHANGED <<receipts, task, story>>
  <2>1. UNCHANGED <<task, served, failed, lapsed>>
    BY <1>2 DEF story
  <2>2. CASE \E a \in OtherAmounts, o \in {Buyer, Seller} : Purchase(o, a) \/ Spend(o, a)
    BY <2>1, <2>2, FailRests DEF Purchase, Spend
  <2>3. CASE \E t \in Transfers : TransferStep(t) \/ TransferDies(t)
    BY <2>1, <2>3, TransferStepStays, FailRests DEF TaskInv, history
  <2>4. CASE \E h \in Callers : RefundFull(h) \/ RefundPeek(h) \/ RefundDrain(h)
    BY <1>1, <2>1, <2>4, FailRefund
  <2> QED
    BY <1>2, <2>2, <2>3, <2>4 DEF Payments
<1>3. CASE \E t \in Transfers : Pay(t) \/ AutoStep(t)
  <2>1. UNCHANGED <<call, task, served, refundRows, refunded, failed, lapsed>>
    BY <1>3 DEF Pay, Transfer, AutoStep, AutoDebit, AutoCredit, AutoOutRow, AutoInRow,
       AutoDies, vars, history, story
  <2> QED
    BY <2>1, FailRests
<1>4. CASE \E h \in Callers, t \in Transfers : Send(h, t)
  BY <1>1, <1>4, FailSend
<1>5. CASE \E h \in Callers : Handle(h)
  BY <1>1, <1>5, FailComplete, FailHandlerStep, FailAskRefund, FailDies DEF Handle, HandlerStep
<1>6. CASE \E h \in Callers : Lapse(h)
  BY <1>1, <1>6, FailLapse
<1>7. CASE UNCHANGED taskVars
  BY <1>7, FailRests DEF taskVars, vars, history, story
<1> QED
  BY <1>2, <1>3, <1>4, <1>5, <1>6, <1>7 DEF TaskNext

LEMMA FailInit == TaskInit => FailInv
  BY DEF TaskInit, Init, FailInv, Repaid, Repaying, Idle, NoTask

(* A receipt whose handler threw, that was never served and that no        *)
(* handler holds any more has its price back (a2a.ts, the outer catch of   *)
(* SendMessage), unless a refund of it lapsed: for any number of requests  *)
(* with the receipt, of retries, and of transfers that share the seller's  *)
(* balance.                                                                *)
THEOREM FailedTasksAreRefunded == TaskSpec => []FailedIsRefunded
<1>1. TaskInv /\ FailInv => FailedIsRefunded
  <2> SUFFICES ASSUME TaskInv, FailInv, NEW t \in failed \ lapsed,
                      served[t] = 0, ~Handled(t)
               PROVE  refunded[t] >= Price
    BY DEF FailedIsRefunded
  <2>1. t \in Transfers /\ \A h \in Callers : ~Has(h, t)
    BY DEF TaskInv, TaskType, Handled, Has
  <2> QED
    BY <2>1 DEF FailInv, Repaid
<1>2. TaskInv /\ FailInv /\ [TaskNext]_taskVars => FailInv'
  BY FailNext
<1> QED
  BY <1>1, <1>2, FailInit, TaskInvariant, PTL DEF TaskSpec

-----------------------------------------------------------------------------
(* No credit is made or lost but by a stale refund, counting what the      *)
(* automatic payments have on its way: LeakInv with InFlight as its gap.   *)
OnTheWay == {t \in Transfers : auto[t] \in {"credit", "lost"}}

LEMMA WayIsFinite ==
    ASSUME TaskInv, IsFiniteSet(Made)
    PROVE  /\ IsFiniteSet(OnTheWay) /\ OnTheWay \subseteq Made
           /\ Cardinality(OnTheWay) \in Nat
           /\ InFlight = ReceiverAmount(Price) * Cardinality(OnTheWay)
           /\ InFlight \in Nat
<1>1. OnTheWay \subseteq Made
  BY DEF OnTheWay, Made, TaskInv, RowInv, RowOf
<1>2. IsFiniteSet(OnTheWay)
  BY <1>1, FS_Subset
<1>3. Cardinality(OnTheWay) \in Nat
  BY <1>2, FS_CardinalityType
<1>4. InFlight = ReceiverAmount(Price) * Cardinality(OnTheWay)
  BY DEF InFlight, OnTheWay
<1>5. \A n, m \in Nat : n * m \in Nat
  OBVIOUS
<1>6. ReceiverAmount(Price) \in Nat
  BY PriceFacts
<1> QED
  BY <1>1, <1>2, <1>3, <1>4, <1>5, <1>6

LEMMA WaySame ==
    ASSUME OnTheWay' = OnTheWay
    PROVE  InFlight' = InFlight
  BY DEF InFlight, OnTheWay

(* The amount on its way after one transfer is added or taken off.         *)
LEMMA WayChanged ==
    ASSUME TaskInv, IsFiniteSet(Made), NEW t \in Transfers, t \notin OnTheWay
    PROVE  /\ OnTheWay' = OnTheWay \cup {t} => InFlight' = InFlight + ReceiverAmount(Price)
           /\ InFlight \in Int
<1>1. PICK S : S = OnTheWay
  OBVIOUS
<1>2. IsFiniteSet(S) /\ t \notin S /\ InFlight = ReceiverAmount(Price) * Cardinality(S)
  BY <1>1, WayIsFinite
<1>3. Cardinality(S \cup {t}) = Cardinality(S) + 1 /\ Cardinality(S) \in Nat
  BY <1>2, FS_AddElement, FS_CardinalityType
<1>4. OnTheWay' = S \cup {t} => InFlight' = ReceiverAmount(Price) * Cardinality(S \cup {t})
  BY DEF InFlight, OnTheWay
<1>5. \A r, n \in Nat : r * (n + 1) = r * n + r
  OBVIOUS
<1>6. ReceiverAmount(Price) \in Nat
  BY PriceFacts
<1> QED
  BY <1>1, <1>2, <1>3, <1>4, <1>5, <1>6, WayIsFinite

LEMMA WayTaken ==
    ASSUME TaskInv, IsFiniteSet(Made), NEW t \in OnTheWay
    PROVE  OnTheWay' = OnTheWay \ {t} => InFlight' = InFlight - ReceiverAmount(Price)
<1>1. PICK S : S = OnTheWay
  OBVIOUS
<1>2. /\ IsFiniteSet(S) /\ t \in S /\ Cardinality(S) \in Nat
      /\ InFlight = ReceiverAmount(Price) * Cardinality(S)
  BY <1>1, WayIsFinite
<1>3. IsFiniteSet(S \ {t}) /\ Cardinality(S \ {t}) = Cardinality(S) - 1
      /\ Cardinality(S \ {t}) \in Nat
  BY <1>2, FS_RemoveElement, FS_CardinalityType
<1>4. OnTheWay' = S \ {t} => InFlight' = ReceiverAmount(Price) * Cardinality(S \ {t})
  BY DEF InFlight, OnTheWay
<1>5. \A r, n, m \in Nat : m = n - 1 => r * m = r * n - r
  OBVIOUS
<1>6. ReceiverAmount(Price) \in Nat
  BY PriceFacts
<1> QED
  BY <1>1, <1>2, <1>3, <1>4, <1>5, <1>6

AccountInv ==
    /\ IsFiniteSet(Made)
    /\ PaymentsAccounted

LEMMA AccountIs ==
    ASSUME TaskInv
    PROVE  AccountInv <=> LeakInv(InFlight)
<1>1. \A t \in Made : xfer[t].from # xfer[t].to
  BY TaskAssumption DEF Made, TaskInv, RowInv, RowOf
<1>2. PICK gap : gap = InFlight
  OBVIOUS
<1> QED
  BY <1>1, <1>2 DEF AccountInv, PaymentsAccounted, LeakInv, Leaks

(* The steps of AgentPayments keep what is on its way as it is.            *)
LEMMA AccountBase ==
    ASSUME TaskInv, TaskInv', AccountInv, [Next]_vars, OnTheWay' = OnTheWay
    PROVE  AccountInv'
<1>1. PICK gap : gap = InFlight
  OBVIOUS
<1>2. gap \in Int /\ InFlight' = gap
  BY <1>1, WaySame, WayIsFinite DEF AccountInv
<1>3. LeakInv(gap)
  BY <1>1, AccountIs DEF LeakInv, Leaks
<1>4. LeakInv(gap)'
  BY <1>2, <1>3, LeakNext DEF TaskInv
<1> QED
  BY <1>2, <1>4 DEF LeakInv, Leaks, AccountInv, PaymentsAccounted

(* Credit that moves between what orgs hold, what the platform keeps and   *)
(* what is on its way.                                                     *)
LEMMA AccountMoves ==
    ASSUME TaskInv, AccountInv, IsFiniteSet(Made'),
           UNCHANGED <<supply, stale>>, NEW a \in Int, NEW b \in Int, NEW c \in Int,
           a + b + c = 0, Held' = Held + a, Retained' = Retained + b,
           InFlight' = InFlight + c
    PROVE  AccountInv'
<1>1. Held \in Int /\ Retained \in Int /\ InFlight \in Int
  BY HeldType, RetainedType, WayIsFinite DEF TaskInv, AccountInv
<1>2. Held' + Retained' + InFlight' = Held + Retained + InFlight
  BY <1>1
<1> QED
  BY <1>2 DEF AccountInv, PaymentsAccounted

LEMMA AccountAutoDebit ==
    ASSUME TaskInv, AccountInv, NEW t \in Transfers, AutoDebit(t)
    PROVE  AccountInv'
<1> DEFINE x == [pc |-> "dead", from |-> Buyer, to |-> Seller, amt |-> Price,
                 paid |-> 0, known |-> 0, kept |-> 0]
<1>1. /\ xfer[t] = Unused /\ xfer' = [xfer EXCEPT ![t] = x]
      /\ balance' = [balance EXCEPT ![Buyer] = @ - Price]
      /\ auto' = [auto EXCEPT ![t] = "credit"]
      /\ UNCHANGED <<supply, stale>>
  BY DEF AutoDebit, history
<1>2. x # Unused /\ x.amt = Price /\ x.paid = 0
  BY DEF Unused
<1> HIDE DEF x
<1>3. xfer'[t] = x /\ \A u \in Transfers \ {t} : xfer'[u] = xfer[u]
  BY <1>1 DEF TaskInv, IInv, TypeOK
<1>4. t \notin Made /\ Made' = Made \cup {t} /\ \A u \in Made : xfer'[u] = xfer[u]
  BY <1>1, <1>2, <1>3 DEF Made
<1>5. IsFiniteSet(Made') /\ Retained' = Retained + PlatformFee(Price)
  <2>1. xfer'[t].amt = Price /\ xfer'[t].amt \in Nat /\ xfer'[t].paid = 0
    BY <1>2, <1>3, PriceFacts
  <2>2. IsFiniteSet(Made') /\ Retained' = Retained + PlatformFee(xfer'[t].amt)
    BY <1>4, <2>1, RetainedMade DEF TaskInv, AccountInv
  <2> QED
    BY <2>1, <2>2
<1>6. Held' = Held + (0 - Price)
  <2>1. Buyer \in Orgs /\ balance[Buyer] \in Int
    BY TaskAssumption DEF TaskInv, IInv, TypeOK
  <2>2. PICK v \in Int : v = balance[Buyer] - Price
    BY <2>1, PriceFacts
  <2>3. balance' = Changed(balance, Buyer, v)
    BY <1>1, <2>2 DEF Changed
  <2>4. Held \in Int /\ Held' = Held + (v - balance[Buyer])
    BY <2>1, <2>3, HeldOne DEF TaskInv
  <2> QED
    BY <2>1, <2>2, <2>4, PriceFacts
<1>7. InFlight' = InFlight + ReceiverAmount(Price)
  <2>1. auto[t] = "no"
    BY <1>1 DEF TaskInv, RowInv, RowOf
  <2>2. t \notin OnTheWay /\ OnTheWay' = OnTheWay \cup {t}
    BY <1>1, <2>1 DEF OnTheWay, TaskInv, TaskType
  <2> QED
    BY <2>2, WayChanged DEF AccountInv
<1>8. (0 - Price) + PlatformFee(Price) + ReceiverAmount(Price) = 0
      /\ 0 - Price \in Int /\ PlatformFee(Price) \in Int /\ ReceiverAmount(Price) \in Int
  BY PriceFacts
<1>9. PICK a, b, c \in Int : a = 0 - Price /\ b = PlatformFee(Price) /\ c = ReceiverAmount(Price)
  BY <1>8
<1> QED
  BY <1>1, <1>5, <1>6, <1>7, <1>8, <1>9, AccountMoves

LEMMA AccountAutoCredit ==
    ASSUME TaskInv, AccountInv, NEW t \in Transfers, AutoCredit(t)
    PROVE  AccountInv'
<1>1. /\ auto[t] = "credit" /\ auto' = [auto EXCEPT ![t] = "out"]
      /\ balance' = [balance EXCEPT ![Seller] = @ + ReceiverAmount(Price)]
      /\ UNCHANGED <<xfer, supply, stale>>
  BY DEF AutoCredit, Credited, Received, history
<1>2. Made' = Made
  BY <1>1 DEF Made
<1>3. IsFiniteSet(Made') /\ Retained' = Retained
  BY <1>1, <1>2, RetainedSame DEF TaskInv, AccountInv
<1>4. Held' = Held + ReceiverAmount(Price)
  <2>1. Seller \in Orgs /\ balance[Seller] \in Int
    BY TaskAssumption DEF TaskInv, IInv, TypeOK
  <2>2. PICK v \in Int : v = balance[Seller] + ReceiverAmount(Price)
    BY <2>1, PriceFacts
  <2>3. balance' = Changed(balance, Seller, v)
    BY <1>1, <2>2 DEF Changed
  <2>4. Held \in Int /\ Held' = Held + (v - balance[Seller])
    BY <2>1, <2>3, HeldOne DEF TaskInv
  <2> QED
    BY <2>1, <2>2, <2>4, PriceFacts
<1>5. InFlight' = InFlight - ReceiverAmount(Price)
  <2>1. t \in OnTheWay /\ OnTheWay' = OnTheWay \ {t}
    BY <1>1 DEF OnTheWay, TaskInv, TaskType
  <2> QED
    BY <2>1, WayTaken DEF AccountInv
<1>6. PICK r \in Nat : r = ReceiverAmount(Price)
  BY PriceFacts
<1>7. PICK s \in Int : s = 0 - r
  OBVIOUS
<1>8. Retained \in Int /\ InFlight \in Int
  BY RetainedType, WayIsFinite DEF TaskInv, AccountInv
<1>9. /\ r + 0 + s = 0 /\ Held' = Held + r /\ Retained' = Retained + 0
      /\ InFlight' = InFlight + s
  BY <1>3, <1>4, <1>5, <1>6, <1>7, <1>8
<1> QED
  BY <1>1, <1>3, <1>9, AccountMoves

LEMMA AccountAutoInRow ==
    ASSUME TaskInv, AccountInv, NEW t \in Transfers, AutoInRow(t)
    PROVE  AccountInv'
<1>1. PICK fee : xfer' = [xfer EXCEPT ![t].kept = fee]
  BY DEF AutoInRow
<1>2. /\ auto[t] = "in" /\ auto' = [auto EXCEPT ![t] = "sent"]
      /\ UNCHANGED <<balance, supply, stale>>
  BY DEF AutoInRow, history
<1>3. xfer[t] # Unused
  BY <1>2 DEF TaskInv, RowInv, RowOf
<1>4. xfer[t] \in Committed
  BY <1>3, TransferRecord DEF TaskInv, IInv
<1>5. /\ xfer'[t] # Unused /\ xfer'[t].amt = xfer[t].amt /\ xfer'[t].paid = xfer[t].paid
      /\ \A u \in Transfers \ {t} : xfer'[u] = xfer[u]
  BY <1>1, <1>4 DEF TaskInv, IInv, TypeOK, Committed, Unused
<1>6. Made' = Made
  BY <1>3, <1>5 DEF Made
<1>7. \A u \in Made : xfer'[u].amt = xfer[u].amt /\ xfer'[u].paid = xfer[u].paid
  BY <1>5 DEF Made
<1>8. IsFiniteSet(Made') /\ Retained' = Retained /\ Held' = Held
  BY <1>2, <1>6, <1>7, RetainedSame, HeldSame DEF TaskInv, AccountInv
<1>9. OnTheWay' = OnTheWay
  BY <1>2 DEF OnTheWay, TaskInv, TaskType
<1>10. InFlight' = InFlight
  BY <1>9, WaySame
<1> QED
  BY <1>2, <1>8, <1>10 DEF AccountInv, PaymentsAccounted

LEMMA AccountHandle ==
    ASSUME TaskInv, NEW h \in Callers, Handle(h)
    PROVE  [Next]_vars /\ auto' = auto
<1>1. CASE HandlerStep(h) \/ \E over \in Overages : Complete(h, over)
  BY <1>1, HandlerStepIs DEF Complete, receipts
<1>2. CASE AskRefund(h)
  <2>1. /\ task[h].t \in Transfers /\ task[h].org \in Orgs /\ Owed(h) \in Amounts
        /\ RefundCheck(h, task[h].t, task[h].org, Owed(h)) /\ auto' = auto
    BY <1>2, AskRefundIs DEF receipts
  <2> QED
    BY <2>1 DEF Next
<1>3. CASE HandlerDies(h)
  <2>1. RefundReturn(h) /\ UNCHANGED <<balance, xfer, refundRows, history>> /\ auto' = auto
    BY <1>3 DEF HandlerDies, receipts
  <2>2. CASE call[h] = Idle
    <3>1. call' = call
      BY <2>1, <2>2 DEF RefundReturn, TaskInv, IInv, TypeOK
    <3> QED
      BY <2>1, <3>1 DEF vars
  <2>3. CASE call[h] # Idle
    BY <2>1, <2>3 DEF RefundDies, Next
  <2> QED
    BY <2>2, <2>3
<1> QED
  BY <1>1, <1>2, <1>3 DEF Handle, HandlerStep

LEMMA AccountNext ==
    ASSUME TaskInv, AccountInv, [TaskNext]_taskVars
    PROVE  AccountInv'
<1>1. TaskInv'
  BY TaskNextInv
<1>2. ASSUME [Next]_vars, auto' = auto
      PROVE  AccountInv'
  <2>1. OnTheWay' = OnTheWay
    BY <1>2 DEF OnTheWay
  <2> QED
    BY <1>1, <1>2, <2>1, AccountBase
<1>3. CASE Payments /\ UNCHANGED <<receipts, task, story>>
  BY <1>2, <1>3, UnseenAreSteps DEF TaskInv, Unseen, receipts
<1>4. ASSUME NEW t \in Transfers, Pay(t)
      PROVE  AccountInv'
  <2>1. Transfer(t, Buyer, Seller, Price) /\ auto' = auto
    BY <1>4 DEF Pay
  <2>2. Next
    BY <2>1, TaskAssumption DEF Next
  <2> QED
    BY <1>2, <2>1, <2>2
<1>5. ASSUME NEW t \in Transfers, AutoOutRow(t) \/ AutoDies(t)
      PROVE  AccountInv'
  <2>1. UNCHANGED vars /\ OnTheWay' = OnTheWay
    BY <1>5 DEF AutoOutRow, AutoDies, OnTheWay, TaskInv, TaskType
  <2> QED
    BY <1>1, <2>1, AccountBase
<1>6. CASE \E t \in Transfers : Pay(t) \/ AutoStep(t)
  BY <1>4, <1>5, <1>6, AccountAutoDebit, AccountAutoCredit, AccountAutoInRow DEF AutoStep
<1>7. CASE \E h \in Callers, t \in Transfers : Send(h, t)
  BY <1>2, <1>7 DEF Send, receipts
<1>8. CASE \E h \in Callers : Handle(h)
  BY <1>2, <1>8, AccountHandle
<1>9. CASE \E h \in Callers : Lapse(h)
  BY <1>2, <1>9, LapseIs, UnseenAreSteps DEF TaskInv, receipts
<1>10. CASE UNCHANGED taskVars
  BY <1>2, <1>10 DEF taskVars, receipts
<1> QED
  BY <1>3, <1>6, <1>7, <1>8, <1>9, <1>10 DEF TaskNext

LEMMA AccountInit == TaskInit => AccountInv
<1> SUFFICES ASSUME TaskInit PROVE AccountInv
  OBVIOUS
<1>1. TaskInv /\ LeakInv(0)
  BY TaskInitInv, LeakInit DEF TaskInit
<1>2. OnTheWay = {}
  BY DEF TaskInit, OnTheWay
<1>3. InFlight = 0
  <2>1. Cardinality(OnTheWay) = 0 /\ InFlight = ReceiverAmount(Price) * Cardinality(OnTheWay)
    BY <1>2, FS_EmptySet DEF InFlight, OnTheWay
  <2> QED
    BY <2>1, PriceFacts
<1> QED
  BY <1>1, <1>3 DEF LeakInv, Leaks, AccountInv, PaymentsAccounted

(* Through both ways to pay, refunds and settlements, no credit is made or *)
(* lost but by a stale refund and by an automatic payment interrupted      *)
(* between the debit and the credit (a2a-send), for any number of          *)
(* transfers and handlers.                                                 *)
THEOREM TaskPaymentsAddUp == TaskSpec => []PaymentsAccounted
<1>1. AccountInv => PaymentsAccounted
  BY DEF AccountInv
<1>2. TaskInv /\ AccountInv /\ [TaskNext]_taskVars => AccountInv'
  BY AccountNext
<1> QED
  BY <1>1, <1>2, AccountInit, TaskInvariant, PTL DEF TaskSpec
=============================================================================
