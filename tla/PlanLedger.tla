----------------------------- MODULE PlanLedger -----------------------------
(***************************************************************************)
(* The pure single-use ledger of one quota request plan: the authenticated *)
(* record the plan repository keeps per digest and the transitions of      *)
(* domain/plan_consumption.py.  A transition is a decision together with   *)
(* the record it leaves; nothing here reads a file or a keyring.           *)
(***************************************************************************)
EXTENDS Integers

CONSTANTS
  Tokens,         \* lease tokens (secrets.token_urlsafe: never drawn twice)
  NoToken,        \* lease_token is None
  CallerReasons   \* reasons the callers of quarantine and invalidate give

NoTime == -1      \* lease_expires_at is None
NoReason == "none"

ASSUME LedgerAssumption == NoToken \notin Tokens /\ NoReason \notin CallerReasons

\* Reasons the ledger and its repository give themselves.
OwnReasons == {"missing-consumption-ledger", "ambiguous-dispatch",
               "plan-expired-after-preintent", "consumption-marker-missing"}

States == {"missing", "available", "leased", "dispatched", "consumed",
           "quarantined", "invalidated"}

\* "missing" is the absent ledger file, every other state a record on disk.
Record == [state: States, token: Tokens \cup {NoToken},
           deadline: Int,
           reason: OwnReasons \cup CallerReasons \cup {NoReason}]

Plain(state) == [state |-> state, token |-> NoToken, deadline |-> NoTime,
                 reason |-> NoReason]
NoLedger == Plain("missing")
Available == Plain("available")
Live(state, t, deadline) ==
  [state |-> state, token |-> t, deadline |-> deadline, reason |-> NoReason]
Consumed(t) == Live("consumed", t, NoTime)
Blocked(state, t, why) ==
  [state |-> state, token |-> t, deadline |-> NoTime, reason |-> why]

LiveStates == {"leased", "dispatched"}
Terminal == {"consumed", "quarantined", "invalidated"}
Spent == {"dispatched", "consumed", "quarantined"}

\* PlanLedgerRecord.__post_init__: the shapes a record may have.
WellFormed(r) ==
  /\ r.state \in {"missing", "available"} => r = Plain(r.state)
  /\ r.state \in LiveStates =>
       r.token \in Tokens /\ r.deadline \in Nat /\ r.reason = NoReason
  /\ r.state = "consumed" => r.token \in Tokens /\ r = Consumed(r.token)
  /\ r.state \in {"quarantined", "invalidated"} =>
       r.deadline = NoTime /\ r.reason # NoReason

Transition(decision, r) == [decision |-> decision, record |-> r]

Expired(r, now) == now >= r.deadline

\* A faulty recover: an abandoned dispatch is released like a stale lease.
RecoverReleasesDispatch(r, now) ==
  IF r.state \in LiveStates /\ Expired(r, now) THEN Transition("expired", Available)
  ELSE Transition("idempotent", r)

\* A faulty recover: the released record keeps its lease.
RecoverKeepsLease(r, now) ==
  IF r.state = "leased" /\ Expired(r, now)
    THEN Transition("expired", [r EXCEPT !.state = "available"])
  ELSE IF r.state = "dispatched" /\ Expired(r, now)
    THEN Transition("accepted", Blocked("quarantined", r.token, "ambiguous-dispatch"))
  ELSE Transition("idempotent", r)

\* recover: stale pre-dispatch work is released, an abandoned dispatch blocked.
Recover(r, now) ==
  IF r.state = "leased" /\ Expired(r, now) THEN Transition("expired", Available)
  ELSE IF r.state = "dispatched" /\ Expired(r, now)
    THEN Transition("accepted",
                    Blocked("quarantined", r.token, "ambiguous-dispatch"))
  ELSE Transition("idempotent", r)

Dispatch(r, t, now) ==
  IF r.state = "dispatched" /\ r.token = t THEN Transition("idempotent", r)
  ELSE IF ~(r.state = "leased" /\ r.token = t) THEN Transition("conflict", r)
  ELSE IF Expired(r, now) THEN Transition("expired", Available)
  ELSE Transition("accepted", Live("dispatched", t, r.deadline))

\* A faulty complete: a quarantined plan is completed too.
CompleteByTokenOnly(r, t) ==
  IF r.token = t THEN Transition("accepted", Consumed(t)) ELSE Transition("conflict", r)

\* complete asks for the token only: a deadline that has passed does not stop it.
Complete(r, t) ==
  IF r.state = "consumed" /\ r.token = t THEN Transition("idempotent", r)
  ELSE IF r.state = "dispatched" /\ r.token = t
    THEN Transition("accepted", Consumed(t))
  ELSE Transition("conflict", r)

Quarantine(r, t, why) ==
  IF r.state = "quarantined" /\ r.token = t THEN Transition("idempotent", r)
  ELSE IF r.state \in LiveStates /\ r.token = t
    THEN Transition("accepted", Blocked("quarantined", t, why))
  ELSE Transition("conflict", r)

Invalidate(r, t, why) ==
  IF r.state = "leased" /\ r.token = t
    THEN Transition("accepted", Blocked("invalidated", t, why))
    ELSE Transition("conflict", r)
=============================================================================
