-------------------------- MODULE MCBillingRecords --------------------------
EXTENDS BillingRecords

CONSTANTS c1, c2, c3, s1, s2

(* Two calls for one session (a poller's and a recovery's), one for another. *)
MCCalls == {c1, c2, c3}
MCSessionOf == [c \in MCCalls |-> IF c = c3 THEN s2 ELSE s1]
=============================================================================
