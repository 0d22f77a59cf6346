----------------------------- MODULE MCBatchRun -----------------------------
EXTENDS BatchRun
=============================================================================
