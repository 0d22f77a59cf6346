----------------------------- MODULE MCTraining -----------------------------
EXTENDS Training, TLC

Symmetry == Permutations(Jobs) \cup Permutations(Steps)
=============================================================================
