--------------------------- MODULE PlanRepository ---------------------------
(***************************************************************************)
(* LocalPlanRepository for one plan: the plan file, the ledger file beside *)
(* it and the consumption marker in the native keyring.                    *)
(*                                                                         *)
(* Every operation runs under one interprocess lock that the kernel drops  *)
(* when its holder dies, so an operation is one action.  What a failure or *)
(* a crash inside it leaves behind is a prefix of its durable effects,     *)
(* answered "failed": a crash differs only in that nobody hears it.        *)
(*                                                                         *)
(* "now" is an argument of every operation.  Apply samples it once, so any *)
(* instant up to the real clock may be presented.                          *)
(***************************************************************************)
EXTENDS PlanLedger

CONSTANTS
  LeaseDuration,   \* one minute in the code
  PlanExpiry,      \* Plan.expires_at, fifteen minutes after issue
  MaxClock,        \* bound of the model: the clock stops here
  Threats          \* what the environment may do: each is a set of "replay", an older
                   \* authentic copy of the files comes back, and "keyring", the
                   \* keyring loses the marker

ASSUME RepositoryAssumption ==
  /\ LeaseDuration \in Nat \ {0} /\ PlanExpiry \in Nat /\ MaxClock \in Nat
  /\ Threats \subseteq SUBSET {"replay", "keyring"}

VARIABLES
  plan,       \* is the plan file present?
  ledger,     \* the ledger file
  marker,     \* is the consumption marker in the keyring?
  clock,
  issued,     \* tokens of the leases handed to callers
  reply,      \* the last operation's answer
  grants,     \* history: times mark_dispatched answered "dispatched"
  authority,  \* history: tokens under which a caller was told "dispatched"
  threat,     \* the threat of this behaviour
  backup      \* the last copy made of the two files

vars == <<plan, ledger, marker, clock, issued, reply, grants, authority, threat, backup>>

Ops == {"none", "store", "load", "acquire", "mark", "resume", "complete",
        "quarantine", "invalidate"}
Statuses == States \cup {"stored", "expired", "conflict", "failed"}
Answer(op, status, t) == [op |-> op, status |-> status, token |-> t]
Says(op, status) == Answer(op, status, NoToken)

Earlier(a, b) == IF a <= b THEN a ELSE b
Instants == 0..clock
PlanExpired(now) == now >= PlanExpiry

TypeOK ==
  /\ plan \in BOOLEAN /\ marker \in BOOLEAN
  /\ ledger \in Record /\ WellFormed(ledger)
  /\ clock \in Nat /\ grants \in Nat
  /\ issued \subseteq Tokens /\ authority \subseteq Tokens
  /\ reply \in [op: Ops, status: Statuses, token: Tokens \cup {NoToken}]
  /\ threat \in Threats
  /\ backup \in [plan: BOOLEAN, ledger: Record] /\ WellFormed(backup.ledger)

Init ==
  /\ plan = FALSE /\ ledger = NoLedger /\ marker = FALSE
  /\ clock = 0 /\ issued = {} /\ grants = 0 /\ authority = {}
  /\ reply = Says("none", "missing")
  /\ threat \in Threats /\ backup = [plan |-> FALSE, ledger |-> NoLedger]

-----------------------------------------------------------------------------
(* How an operation ends. *)

\* What a caller learns from the answer, and what the history notes of it.
Learn ==
  /\ issued' = IF reply'.op \in {"acquire", "resume"} /\ reply'.token # NoToken
                 THEN issued \cup {reply'.token} ELSE issued
  /\ grants' = IF reply'.op = "mark" /\ reply'.status = "dispatched"
                 THEN grants + 1 ELSE grants
  /\ authority' = IF reply'.status = "dispatched" /\ reply'.token # NoToken
                    THEN authority \cup {reply'.token} ELSE authority
  /\ UNCHANGED threat

\* The records in mids are written on the way to final.  Each write replaces the
\* file whole, and may be in force although it was reported as failed.
Commit(mids, final, answer) ==
  /\ \/ ledger' = final /\ reply' = answer
     \/ ledger' \in mids \cup {ledger, final} /\ reply' = Says(answer.op, "failed")
  /\ UNCHANGED <<clock, backup>>
  /\ Learn

KeepFiles == UNCHANGED <<plan, marker>>
Refuse(op, status) == KeepFiles /\ Commit({}, ledger, Says(op, status))

\* _recover_record: a ledger that vanished beside a plan is ambiguous.
Recovered(now) ==
  IF ledger = NoLedger
    THEN Blocked("quarantined", NoToken, "missing-consumption-ledger")
    ELSE Recover(ledger, now).record

\* A token that no record or caller has seen.
Fresh(t) == t \notin issued \cup {ledger.token, backup.ledger.token}

LeaseUntil(now) == Earlier(now + LeaseDuration, PlanExpiry)

-----------------------------------------------------------------------------
(* Operations. *)

Store ==
  LET rec == IF ledger = NoLedger THEN Available ELSE ledger IN
  IF plan /\ ledger = NoLedger
    THEN /\ KeepFiles
         /\ Commit({}, Recovered(clock), Says("store", "quarantined"))
    ELSE /\ UNCHANGED marker
         /\ IF marker
              THEN /\ UNCHANGED plan
                   /\ Commit({}, rec, Says("store",
                        IF rec.state \in Spent THEN rec.state ELSE "quarantined"))
              ELSE /\ Commit({}, rec, Says("store",
                        IF rec = Available THEN "stored" ELSE rec.state))
                   /\ IF reply'.status = "failed"
                        THEN plan' \in {plan, plan \/ ledger' = rec}
                        ELSE plan' = TRUE

Load(now) ==
  IF ~plan /\ ledger = NoLedger
    THEN Refuse("load", "missing")
    ELSE LET rec == Recovered(now) IN
         /\ KeepFiles
         /\ Commit({}, rec, Says("load",
              IF rec.state \in Spent THEN rec.state
              ELSE IF ~plan THEN "missing"
              ELSE IF marker THEN "quarantined" ELSE rec.state))

AcquireLease(now) ==
  IF ~plan
    THEN Refuse("acquire", "missing")
    ELSE LET rec == Recovered(now) IN
         /\ KeepFiles
         /\ IF ~marker /\ rec = Available /\ ~PlanExpired(now)
              THEN \E t \in Tokens :
                     /\ Fresh(t)
                     /\ Commit({rec}, Live("leased", t, LeaseUntil(now)),
                               Answer("acquire", "leased", t))
              ELSE Commit({}, rec, Says("acquire",
                     IF marker THEN IF rec.state \in Spent THEN rec.state
                                    ELSE "quarantined"
                     ELSE IF PlanExpired(now) THEN "expired"
                     ELSE IF rec.state \in LiveStates THEN "conflict"
                     ELSE rec.state))

\* Faulty barriers: the ledger goes first; an existing marker is replaced.
LedgerBeforeMarker(final, answer) ==
  \/ marker /\ Refuse(answer.op, "conflict")
  \/ ~marker /\ marker' \in BOOLEAN /\ UNCHANGED plan /\ Commit({}, final, answer)
MarkerReplaced(final, answer) ==
  marker' = TRUE /\ UNCHANGED plan /\ Commit({}, final, answer)

\* The keyring answers "created" only for a marker that was absent and reads back;
\* a marker whose creation is reported as failed may exist all the same.
CreateMarkerThen(final, answer) ==
  \/ marker /\ Refuse(answer.op, "conflict")
  \/ /\ ~marker /\ marker' \in BOOLEAN /\ UNCHANGED <<plan, ledger, clock, backup>>
     /\ reply' = Says(answer.op, "failed") /\ Learn
  \/ ~marker /\ marker' = TRUE /\ UNCHANGED plan /\ Commit({}, final, answer)

MarkDispatched(t, now) ==
  LET step == Dispatch(ledger, t, now)
      expired == /\ ledger.state = "leased" /\ ledger.token = t
                 /\ PlanExpired(now) \/ step.decision = "expired" IN
  IF Recover(ledger, now).record.state = "quarantined"
    THEN KeepFiles /\ Commit({}, Recovered(now), Says("mark", "quarantined"))
  ELSE IF ~plan \/ ledger = NoLedger
    THEN Refuse("mark", "failed")
  ELSE IF expired
    THEN KeepFiles /\ Commit({}, Available, Says("mark", "expired"))
  ELSE IF step.decision = "accepted"
    THEN CreateMarkerThen(step.record, Answer("mark", "dispatched", t))
  ELSE Refuse("mark", "conflict")

CompletePlan(t) ==
  LET step == Complete(ledger, t) IN
  IF ~plan \/ ledger = NoLedger \/ (step.decision = "accepted" /\ ~marker)
    THEN Refuse("complete", "failed")
  ELSE IF step.decision = "conflict"
    THEN Refuse("complete", "conflict")
  ELSE KeepFiles /\ Commit({}, step.record, Says("complete", "consumed"))

\* A lease whose dispatch reached the keyring but not the ledger is promoted.
Promoted ==
  IF ledger.state = "leased" /\ marker
    THEN Live("dispatched", ledger.token, ledger.deadline) ELSE ledger

\* A faulty resume: it leases again although the keyring holds the marker.
LeasesBehindMarker(rec, now) == rec = Available /\ ~PlanExpired(now)

\* An abandoned preparation is leased again while the plan is valid.
LeasesAgain(rec, now) == rec = Available /\ ~marker /\ ~PlanExpired(now)

\* What a resumed plan settles on: a dispatch without its marker is ambiguous.
Settled(rec, now, t) ==
  IF LeasesAgain(rec, now) THEN Live("leased", t, LeaseUntil(now))
  ELSE IF rec = Available /\ ~marker
    THEN Blocked("quarantined", NoToken, "plan-expired-after-preintent")
  ELSE IF rec.state = "dispatched" /\ ~marker
    THEN Blocked("quarantined", rec.token, "consumption-marker-missing")
  ELSE rec

ResumeDispatched(now) ==
  IF ~plan \/ ledger = NoLedger
    THEN Refuse("resume", "failed")
    ELSE LET rec == Recover(Promoted, now).record IN
         /\ KeepFiles
         /\ \E t \in Tokens :
              LET final == Settled(rec, now, t) IN
              /\ LeasesAgain(rec, now) => Fresh(t)
              /\ Commit({Promoted, rec}, final,
                   Answer("resume", final.state,
                     IF final.state \in LiveStates THEN final.token ELSE NoToken))

QuarantinePlan(t, why) ==
  LET step == Quarantine(ledger, t, why) IN
  /\ KeepFiles
  /\ Commit({}, step.record, Says("quarantine",
       IF ledger = NoLedger THEN "failed"
       ELSE IF step.decision = "conflict" THEN "conflict" ELSE "quarantined"))

InvalidatePlan(t, why) ==
  LET step == Invalidate(ledger, t, why) IN
  /\ KeepFiles
  /\ Commit({}, step.record, Says("invalidate",
       IF ledger = NoLedger THEN "failed"
       ELSE IF step.decision = "conflict" THEN "conflict" ELSE "invalidated"))

-----------------------------------------------------------------------------
(* The environment. *)

Tick ==
  /\ clock < MaxClock /\ clock' = clock + 1
  /\ UNCHANGED <<plan, ledger, marker, issued, reply, grants, authority, threat, backup>>

TakeSnapshot ==
  /\ "replay" \in threat /\ backup' = [plan |-> plan, ledger |-> ledger]
  /\ UNCHANGED <<plan, ledger, marker, clock, issued, reply, grants, authority, threat>>

\* The ledger file, or both files, come back from the copy; the keyring does not.
ReplaySnapshot ==
  /\ "replay" \in threat /\ ledger' = backup.ledger /\ plan' \in {plan, backup.plan}
  /\ UNCHANGED <<marker, clock, issued, reply, grants, authority, threat, backup>>

LoseMarker ==
  /\ "keyring" \in threat /\ marker /\ marker' = FALSE
  /\ UNCHANGED <<plan, ledger, clock, issued, reply, grants, authority, threat, backup>>

Next ==
  \/ Store
  \/ \E now \in Instants : Load(now)
  \/ \E now \in Instants : AcquireLease(now)
  \/ \E now \in Instants : ResumeDispatched(now)
  \/ \E now \in Instants, t \in issued : MarkDispatched(t, now)
  \/ \E t \in issued : CompletePlan(t)
  \/ \E t \in issued, why \in CallerReasons : QuarantinePlan(t, why)
  \/ \E t \in issued, why \in CallerReasons : InvalidatePlan(t, why)
  \/ Tick \/ TakeSnapshot \/ ReplaySnapshot \/ LoseMarker

Spec == Init /\ [][Next]_vars

-----------------------------------------------------------------------------
(* Properties. *)

\* A plan is dispatched at most once, whatever crashes, failed writes and races
\* happen, and although either the files may be rolled back or the keyring may
\* lose the marker: each of the two anchors is enough on its own.
SingleDispatch == grants <= 1

\* After a dispatch no operation hands out a lease that has yet to be dispatched.
NoLeaseAfterDispatch == [][grants > 0 => reply'.status # "leased"]_vars

\* With neither rollback nor keyring loss only one lease ever carries the right
\* to dispatch, and what the ledger says of a dispatch is about that lease.
OneWinner ==
  \A t \in authority :
    /\ authority = {t} /\ marker
    /\ ledger.state \in Spent /\ ledger.token = t

\* The ledger never says that a plan was dispatched or consumed before the keyring
\* holds the marker: the order of the two writes of the barrier.
LedgerFollowsMarker == ledger.state \in {"dispatched", "consumed"} => marker

\* A terminal record stays, whatever is called later and with whatever instant.
TerminalIsFinal == [][ledger.state \in Terminal => ledger' = ledger]_vars

\* The repository implements the promise of SingleUse.
Promise ==
  INSTANCE SingleUse WITH
    holder <- IF ledger.state \in LiveStates THEN ledger.token ELSE NoToken,
    barred <- marker,
    winner <- IF authority = {} THEN NoToken ELSE CHOOSE t \in authority : TRUE

\* Seen from outside, files, deadlines, failed writes and crashes change nothing
\* in the order lease, barrier, dispatch, and the barrier is crossed once.
ImplementsSingleUse == Promise!Spec
=============================================================================
