------------------------------ MODULE MCDashboard ------------------------------
(* Dashboard for TLC: accounts and codes are interchangeable. *)
EXTENDS Dashboard, TLC

Symmetry == Permutations(Accounts) \cup Permutations(Codes)
=============================================================================
