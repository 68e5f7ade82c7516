------------------------- MODULE MCWorkspaceResources -------------------------
(* WorkspaceResources for TLC: two plans, the larger with room for more.    *)
EXTENDS WorkspaceResources, TLC

CONSTANTS small, large

MCPlans == {small, large}
MCLinkLimit == [p \in MCPlans |-> IF p = large THEN 2 ELSE 1]
MCDomainLimit == [p \in MCPlans |-> IF p = large THEN 2 ELSE 0]

Symmetry == Permutations(Requests) \cup Permutations(Codes) \cup Permutations(ManagedHosts)
=============================================================================
