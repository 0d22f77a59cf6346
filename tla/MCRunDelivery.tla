--------------------------- MODULE MCRunDelivery ---------------------------
EXTENDS RunDelivery, TLC

Symmetry == Permutations(Clients) \cup Permutations(Runs)
=============================================================================
