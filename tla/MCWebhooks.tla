----------------------------- MODULE MCWebhooks -----------------------------
EXTENDS Webhooks

CONSTANTS org, checkout, invoice, call

MCPayer == [e \in {checkout, invoice, call} |-> org]
MCWorth == [e \in {checkout, invoice, call} |-> 1]
=============================================================================
