---------------------------- MODULE ApplyContacts ----------------------------
(***************************************************************************)
(* ProtectedContactResolver._apply_contexts: what one process retains of   *)
(* the protected quota contacts of prepared Apply requests, for one        *)
(* contact binding.  Requests of the same plan, or of plans with the same  *)
(* contact, share the binding: an Apply takes the oldest context, whoever  *)
(* left it, and an abandoned request drops its own.                        *)
(***************************************************************************)
EXTENDS Sequences, Integers

CONSTANTS Requests  \* the Apply requests that may be prepared

VARIABLES contexts  \* the deque: the requests whose contexts are retained

Retained == {contexts[i] : i \in DOMAIN contexts}


\* A faulty discard: it drops what the Apply would have taken.
WithoutOldest(r) == IF contexts = <<>> THEN <<>> ELSE Tail(contexts)

\* discard_apply: the context of this request, if no Apply has taken it.
Without(r) ==
  IF r \notin Retained THEN contexts
  ELSE LET k == CHOOSE i \in DOMAIN contexts : contexts[i] = r IN
       [i \in 1..(Len(contexts) - 1) |-> contexts[IF i < k THEN i ELSE i + 1]]

\* prepare_apply: appended once the bound source was resolved, to the contexts kept.
Retain(kept, r) == contexts' = Append(kept, r)

\* refresh_contact: there must be a context; the oldest is consumed.
Take == contexts # <<>> /\ contexts' = Tail(contexts)
=============================================================================
