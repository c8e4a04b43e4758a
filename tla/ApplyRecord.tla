---------------------------- MODULE ApplyRecord ----------------------------
(***************************************************************************)
(* The durable record of one Apply, domain/apply_records.py: for each      *)
(* child of the plan, in the plan's order, whether its dispatch was        *)
(* intended and what became of it, and the state and the revision of the   *)
(* whole.  Pure transitions; each adds one to the revision.                *)
(***************************************************************************)
EXTENDS FiniteSetsExt, Sequences

CONSTANT NChildren

ASSUME ChildrenAssumption == NChildren \in Nat \ {0}

Children == 1..NChildren

\* disp "none" is a disposition not yet given, state "missing" no record at all.
Dispositions == {"none", "accepted", "failed", "unknown", "unattempted"}
RecordStates == {"missing", "in-progress", "accepted", "failed", "unknown",
                 "critical-unknown"}
Records == [state: RecordStates, rev: Int,
            kids: [Children -> [intent: BOOLEAN, disp: Dispositions]]]

Untouched == [c \in Children |-> [intent |-> FALSE, disp |-> "none"]]
NoRecord == [state |-> "missing", kids |-> Untouched, rev |-> -1]
NewRecord == [state |-> "in-progress", kids |-> Untouched, rev |-> 0]

With(r, disp) == {c \in Children : r.kids[c].disp = disp}
Intended(r) == {c \in Children : r.kids[c].intent}
Unresolved(r) == Intended(r) \cap With(r, "none")
Stopping(r) == With(r, "failed") \cup With(r, "unknown")
Pending(r) == Children \ With(r, "accepted")

\* ApplyChildRecord.__post_init__: what a child may have gone through.
Coherent(r) ==
  /\ With(r, "unattempted") \cap Intended(r) = {}
  /\ With(r, "accepted") \cup Stopping(r) \subseteq Intended(r)

Revised(r, state, kids) == [state |-> state, kids |-> kids, rev |-> r.rev + 1]
Disposed(r, cs, disp) ==
  [c \in Children |-> IF c \in cs THEN [r.kids[c] EXCEPT !.disp = disp] ELSE r.kids[c]]

\* record_dispatch_intent: the next child, all earlier ones accepted.
MayIntend(r, c) ==
  /\ r.state = "in-progress" /\ c \notin Intended(r) /\ c \in With(r, "none")
  /\ 1..(c - 1) \subseteq With(r, "accepted")
Intend(r, c) == Revised(r, r.state, [r.kids EXCEPT ![c].intent = TRUE])

\* record_outcome: for an intent that has no outcome.
Outcome(r, c, disp) == Revised(r, r.state, Disposed(r, {c}, disp))

\* finalize: the first stopping child names the state and stops the later ones.
Finalize(r) ==
  LET stop == Min(Stopping(r)) IN
  IF r.state # "in-progress" THEN r
  ELSE IF Stopping(r) = {} THEN Revised(r, "accepted", r.kids)
  ELSE Revised(r, r.kids[stop].disp,
         Disposed(r, With(r, "none") \cap (stop + 1)..NChildren, "unattempted"))

\* A faulty guard: whatever was dispatched, the Apply stops as wholly unattempted.
MayStopAllAlways(r) == TRUE

\* stop_unattempted: nothing has been dispatched.
MayStopAll(r) == Intended(r) = {}
StopAll(r) == Revised(r, "failed", Disposed(r, Children, "unattempted"))

\* stop_remaining_unattempted: what was dispatched has its outcome.
MayStopPending(r) ==
  r.state = "in-progress" /\ Unresolved(r) = {} /\ With(r, "none") # {}
StopPending(r) == Revised(r, "failed", Disposed(r, With(r, "none"), "unattempted"))

\* mark_critical_unknown leaves the children as they are.
MarkCritical(r) == Revised(r, "critical-unknown", r.kids)

\* A faulty evidence: a child that has its outcome is taken for an open one.
EvidenceOfAnyIntent(r) ==
  LET unknown == Outcome(r, Min(Intended(r)), "unknown")
      ended == Finalize(unknown) IN
  IF Intended(r) # {} THEN <<unknown, ended, MarkCritical(ended)>>
  ELSE <<StopAll(r), MarkCritical(StopAll(r))>>

\* _record_critical_evidence: the records it saves, one after the other.
EvidenceWrites(r) ==
  LET unknown == Outcome(r, Min(Unresolved(r)), "unknown")
      ended == Finalize(unknown) IN
  IF Unresolved(r) # {} THEN <<unknown, ended, MarkCritical(ended)>>
  ELSE IF r.state = "in-progress" /\ MayStopAll(r)
    THEN <<StopAll(r), MarkCritical(StopAll(r))>>
  ELSE <<MarkCritical(r)>>
=============================================================================
