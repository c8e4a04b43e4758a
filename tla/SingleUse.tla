------------------------------ MODULE SingleUse ------------------------------
(***************************************************************************)
(* What the plan repository promises the rest of the program, without      *)
(* files, deadlines or failures: a plan has at most one live lease, a      *)
(* barrier is crossed once, no lease is granted behind it, and the right   *)
(* to dispatch belongs for ever to the lease that crossed it.              *)
(***************************************************************************)
CONSTANTS Tokens, NoToken

VARIABLES
  holder,   \* the live lease, or NoToken
  barred,   \* has the barrier been crossed?
  winner    \* the lease that was told to dispatch, or NoToken

suVars == <<holder, barred, winner>>

Init == holder = NoToken /\ barred = FALSE /\ winner = NoToken

\* Leases lapse on their own, so a new one may replace an old one.
Lease(t) ==
  /\ ~barred /\ holder' = t
  /\ UNCHANGED <<barred, winner>>

\* A lease lapses, is completed, invalidated or quarantined.
End ==
  /\ holder' = NoToken
  /\ UNCHANGED <<barred, winner>>

\* The barrier is crossed, and the crossing is or is not heard of.
Cross ==
  /\ ~barred /\ holder # NoToken
  /\ barred' = TRUE /\ winner' \in {NoToken, holder}
  /\ UNCHANGED holder

\* The holder learns later that its lease had crossed.
Learn ==
  /\ barred /\ holder # NoToken /\ winner \in {NoToken, holder}
  /\ winner' = holder
  /\ UNCHANGED <<holder, barred>>

Next == (\E t \in Tokens : Lease(t)) \/ End \/ Cross \/ Learn

Spec == Init /\ [][Next]_suVars
=============================================================================
