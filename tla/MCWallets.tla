----------------------------- MODULE MCWallets -----------------------------
EXTENDS Wallets, TLC

Symmetry == Permutations(Procs)
=============================================================================
