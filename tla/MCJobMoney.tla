----------------------------- MODULE MCJobMoney -----------------------------
EXTENDS JobMoney, TLC

Symmetry == Permutations(Jobs)
=============================================================================
