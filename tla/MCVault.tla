------------------------------ MODULE MCVault ------------------------------
(* Vault, with finite values for TLC.                                      *)
EXTENDS Vault, TLC

\* The owner is the only account the contract tells apart.
Symmetry == Permutations(Accounts \ {Owner})
=============================================================================
