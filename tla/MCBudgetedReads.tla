-------------------------- MODULE MCBudgetedReads --------------------------
(* Two processes that read from one provider, one of them within a project. *)
EXTENDS BudgetedReads, TLC

MCAxes == {"provider", "project"}
MCAxesOf == "p" :> {"provider", "project"} @@ "q" :> {"provider"}
MCCapacity == "provider" :> 2 @@ "project" :> 1
MCPeriod == "provider" :> 2 @@ "project" :> 3
=============================================================================
