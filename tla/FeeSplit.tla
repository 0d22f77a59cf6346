------------------------------ MODULE FeeSplit ------------------------------
(***************************************************************************)
(* How one agent-to-agent transfer is split (logic/agent-payments.ts and   *)
(* logic/referrals.ts).  Amounts are micro-dollars, the six decimals the   *)
(* code rounds to; Math.round(x) is floor(x + 1/2).                        *)
(***************************************************************************)
EXTENDS Integers

(* Math.round(amount * percent/100), exact where the code uses doubles.    *)
RoundedPercent(a, percent) == (a * percent + 50) \div 100

(* The 10% platform fee, and what is left for the receiver.                *)
PlatformFee(a) == RoundedPercent(a, 10)
ReceiverAmount(a) == a - PlatformFee(a)

L1_CAP_THRESHOLD == 50

(* The direct referrer's share, lower once it has more than 50 active      *)
(* referrals; the second level gets 1%, and only where the first level got *)
(* something.                                                              *)
L1Payout(a, active) ==
    RoundedPercent(a, IF active > L1_CAP_THRESHOLD THEN 2 ELSE 3)
L2Payout(a, active) ==
    IF L1Payout(a, active) > 0 THEN RoundedPercent(a, 1) ELSE 0
=============================================================================
