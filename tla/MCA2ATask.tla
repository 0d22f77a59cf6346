----------------------------- MODULE MCA2ATask -----------------------------
EXTENDS A2ATask, TLC

MCReferrer == [o \in Orgs |-> NoOrg]
MCActive == [o \in Orgs |-> 0]

Symmetry == Permutations(Transfers) \cup Permutations(Callers)
=============================================================================
