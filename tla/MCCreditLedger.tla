--------------------------- MODULE MCCreditLedger ---------------------------
EXTENDS CreditLedger, TLC

Symmetry == Permutations(Requests)
=============================================================================
