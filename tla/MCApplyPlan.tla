---------------------------- MODULE MCApplyPlan ----------------------------
(* Small instances of ApplyPlan for TLC. *)
EXTENDS ApplyPlan, TLC

\* Processes and tokens are only compared for equality.
ApplySymmetry == Permutations(Procs) \cup Permutations(Tokens)
=============================================================================
