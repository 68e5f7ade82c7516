------------------------------ MODULE MCAccounts ------------------------------
(* Accounts for TLC: the browsers are alike. *)
EXTENDS Accounts, TLC

Symmetry == Permutations(Browsers)
=============================================================================
