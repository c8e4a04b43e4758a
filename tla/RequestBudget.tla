--------------------------- MODULE RequestBudget ---------------------------
(***************************************************************************)
(* The accounting of SharedBudgetCoordinator: fixed windows on several     *)
(* axes, charged together or not at all, with a wall clock that may be     *)
(* behind what an entry has seen.                                          *)
(*                                                                         *)
(* A budget is a function from the axes to their entries.                  *)
(***************************************************************************)
EXTENDS FiniteSetsExt, Integers

CONSTANTS
  Axes,      \* the identities of a provider, of projects, of quota projects
  Capacity,  \* BudgetLimit.capacity of each axis
  Period     \* BudgetLimit.period_seconds of each axis

ASSUME BudgetAssumption ==
  /\ IsFiniteSet(Axes)
  /\ Capacity \in [Axes -> Nat \ {0}] /\ Period \in [Axes -> Nat \ {0}]

NoEntry == [start |-> 0, seen |-> 0, used |-> 0 - 1]

\* _validate_budget_entry: what the coordinator agrees to read back.
Readable(a, entry) ==
  /\ entry.start \in Nat /\ entry.seen \in Nat /\ entry.used \in Nat
  /\ entry.seen >= entry.start /\ entry.used <= Capacity[a]

Opened(now) == [start |-> now, seen |-> now, used |-> 0]

\* A faulty entry: it follows a clock that was set back.
EntryFollowsClock(entries, a, now) ==
  LET entry == entries[a] IN
  IF entry = NoEntry \/ now - entry.start >= Period[a]
    THEN Opened(now) ELSE [entry EXCEPT !.seen = now]

\* A faulty entry: a clock set back opens a new window.
EntryAfterRollback(entries, a, now) ==
  LET entry == entries[a] IN
  IF entry = NoEntry \/ now < entry.seen \/ now - entry.start >= Period[a]
    THEN Opened(now) ELSE [entry EXCEPT !.seen = now]

\* A faulty entry: every reading restarts the window and keeps its use.
EntrySlides(entries, a, now) ==
  LET entry == entries[a] IN
  IF entry = NoEntry \/ now - entry.start >= Period[a]
    THEN Opened(now) ELSE [start |-> Max({now, entry.start}), seen |-> Max({now, entry.seen}),
                           used |-> entry.used]

\* The entry of an axis as a request made now finds it.
EntryAt(entries, a, now) ==
  LET entry == entries[a] IN
  IF \/ entry = NoEntry
     \/ now >= entry.seen /\ now - entry.start >= Period[a]
    THEN Opened(now) ELSE [entry EXCEPT !.seen = Max({now, @})]

Exhausted(entries, axes, now) ==
  {a \in axes : EntryAt(entries, a, now).used + 1 > Capacity[a]}

\* How long a request has to wait for the axes that are exhausted.
WaitFor(entries, axes, now) ==
  Max(UNION {LET entry == EntryAt(entries, a, now) IN
             {entry.start + Period[a] - now, IF now < entry.seen THEN Period[a] ELSE 0} :
             a \in Exhausted(entries, axes, now)})

\* One unit on every axis of the request.
Charged(entries, axes, now) ==
  [a \in Axes |-> IF a \in axes
                    THEN [EntryAt(entries, a, now) EXCEPT !.used = @ + 1] ELSE entries[a]]
=============================================================================
