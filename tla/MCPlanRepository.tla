-------------------------- MODULE MCPlanRepository --------------------------
(* Small instances of PlanRepository for TLC. *)
EXTENDS PlanRepository, TLC

\* Tokens are only compared for equality.
Symmetry == Permutations(Tokens)
=============================================================================
