------------------------------ MODULE AuditLog ------------------------------
(***************************************************************************)
(* What the audit journal promises its writers: one total order of drafts  *)
(* that only grows, one draft at a time; a draft that is to be retained    *)
(* once appears once; nothing is confirmed that is not retained.  The      *)
(* promise ends when a file of the journal is lost.                        *)
(***************************************************************************)
EXTENDS Sequences, Integers

CONSTANTS Drafts, Once

VARIABLES
  intact,     \* has no file been lost?
  log,        \* the drafts retained, in their order
  confirmed   \* positions that a caller has been told of

logVars == <<intact, log, confirmed>>

Init == intact = TRUE /\ log = <<>> /\ confirmed = {}

Retained(d) == \E i \in DOMAIN log : log[i] = d

\* A draft is retained, and its writer may or may not learn it.
Add(d) ==
  /\ intact /\ UNCHANGED intact
  /\ d \in Once => ~Retained(d)
  /\ log' = Append(log, d)
  /\ confirmed' \in {confirmed, confirmed \cup {Len(log')}}

\* A writer learns where its draft has been retained before.
Confirm(i) ==
  /\ intact /\ i \in DOMAIN log
  /\ confirmed' = confirmed \cup {i} /\ UNCHANGED <<intact, log>>

\* A file is lost, and with it what the promise was about.
Ruin == intact' = FALSE /\ log' = <<>> /\ confirmed' = {}

Next == (\E d \in Drafts : Add(d)) \/ (\E i \in DOMAIN log : Confirm(i)) \/ Ruin

Spec == Init /\ [][Next]_logVars
=============================================================================
