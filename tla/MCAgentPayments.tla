-------------------------- MODULE MCAgentPayments --------------------------
EXTENDS AgentPayments, TLC

CONSTANTS buyer, seller, agency

(* The agency referred the seller, and the buyer referred the agency.      *)
MCReferrer == (seller :> agency) @@ (agency :> buyer) @@ (buyer :> NoOrg)
MCActive == [o \in Orgs |-> 1]

Symmetry == Permutations(Transfers) \cup Permutations(Callers)
=============================================================================
