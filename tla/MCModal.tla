------------------------------ MODULE MCModal ------------------------------
(***************************************************************************)
(* The deposit dialog with accounts that do not own the same.              *)
(***************************************************************************)
EXTENDS VaultModal

CONSTANT Alice

MCPurse == [a \in Accounts \union {MockAccount} |-> IF a = Alice THEN 1 ELSE 2]
=============================================================================
