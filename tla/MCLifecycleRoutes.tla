-------------------------- MODULE MCLifecycleRoutes --------------------------
(* Three Apply requests of plans with the same contact, and two watches. *)
EXTENDS LifecycleRoutes, TLC

Alike == Permutations(Requests) \cup Permutations(Watches)
=============================================================================
