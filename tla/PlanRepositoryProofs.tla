------------------------ MODULE PlanRepositoryProofs ------------------------
(***************************************************************************)
(* Theorems of PlanRepository, for any tokens, durations and horizon.      *)
(***************************************************************************)
EXTENDS PlanRepository, TLAPS

Good(r) == r \in Record /\ WellFormed(r)

\* Every transition of the ledger maps a well-formed record to a well-formed one.
LEMMA TransitionsGood ==
  ASSUME NEW r, Good(r), NEW t \in Tokens \cup {NoToken}, NEW now \in Nat,
         NEW why \in OwnReasons \cup CallerReasons
  PROVE  /\ Good(Recover(r, now).record)
         /\ Good(Dispatch(r, t, now).record)
         /\ Good(Complete(r, t).record)
         /\ Good(Quarantine(r, t, why).record)
         /\ Good(Invalidate(r, t, why).record)
<1> USE LedgerAssumption
<1>1. Good(Recover(r, now).record)
  BY DEF Good, Recover, Transition, Record, WellFormed, Blocked, Available, Plain,
         States, OwnReasons, LiveStates, Consumed, Live, NoTime, NoReason, Expired
<1>2. Good(Dispatch(r, t, now).record)
  BY DEF Good, Dispatch, Transition, Record, WellFormed, Available, Plain,
         States, OwnReasons, LiveStates, Consumed, Live, NoTime, NoReason, Expired
<1>3. Good(Complete(r, t).record)
  BY DEF Good, Complete, Transition, Record, WellFormed, Plain,
         States, OwnReasons, LiveStates, Consumed, Live, NoTime, NoReason
<1>4. Good(Quarantine(r, t, why).record)
  BY DEF Good, Quarantine, Transition, Record, WellFormed, Blocked, Plain,
         States, OwnReasons, LiveStates, Consumed, Live, NoTime, NoReason
<1>5. Good(Invalidate(r, t, why).record)
  BY DEF Good, Invalidate, Transition, Record, WellFormed, Blocked, Plain,
         States, OwnReasons, LiveStates, Consumed, Live, NoTime, NoReason
<1> QED BY <1>1, <1>2, <1>3, <1>4, <1>5

\* The records the repository writes of its own accord are well formed.
LEMMA OwnRecordsGood ==
  /\ Good(Available) /\ Good(NoLedger)
  /\ \A why \in OwnReasons : Good(Blocked("quarantined", NoToken, why))
  /\ \A t \in Tokens, d \in Nat : Good(Live("leased", t, d)) /\ Good(Live("dispatched", t, d))
BY LedgerAssumption
   DEF Good, Record, WellFormed, Blocked, Available, NoLedger, Plain, States,
       OwnReasons, LiveStates, Live, Consumed, NoTime, NoReason

-----------------------------------------------------------------------------
(* Types. *)

Replies == [op: Ops, status: Statuses, token: Tokens \cup {NoToken}]

\* However an operation ends, the state it leaves is well typed.
LEMMA CommitTyped ==
  ASSUME TypeOK, NEW mids, NEW final, NEW answer \in Replies,
         \A r \in mids \cup {final} : Good(r),
         Commit(mids, final, answer), plan' \in BOOLEAN, marker' \in BOOLEAN
  PROVE  TypeOK'
<1>1. reply' \in Replies
  BY DEF Commit, Replies, Says, Answer, Statuses
<1>2. Good(ledger')
  BY DEF Commit, Good, TypeOK
<1>3. clock' \in Nat /\ backup' = backup
  BY DEF Commit, TypeOK
<1>4. /\ grants' \in Nat /\ threat' \in Threats
      /\ issued' \subseteq Tokens /\ authority' \subseteq Tokens
  <2>1. Learn BY DEF Commit
  <2> QED BY <2>1, <1>1, LedgerAssumption DEF Learn, TypeOK, Replies
<1> QED BY <1>1, <1>2, <1>3, <1>4 DEF TypeOK, Good, Replies

\* A refused call changes nothing but the answer.
LEMMA RefuseTyped ==
  ASSUME TypeOK, NEW op \in Ops, NEW status \in Statuses, Refuse(op, status)
  PROVE  TypeOK'
<1>1. Says(op, status) \in Replies /\ Good(ledger)
  BY DEF Says, Answer, Replies, TypeOK, Good
<1> QED BY <1>1, CommitTyped DEF Refuse, KeepFiles, TypeOK

\* The record an operation finds after recovery is well formed.
LEMMA RecoveredGood ==
  ASSUME TypeOK, NEW now \in Instants
  PROVE  Good(Recovered(now)) /\ Good(Recover(ledger, now).record)
         /\ Good(Promoted) /\ Good(Recover(Promoted, now).record)
<1>1. now \in Nat BY DEF Instants, TypeOK
<1>2. Good(ledger) BY DEF TypeOK, Good
<1>3. Good(Promoted)
  BY <1>2, OwnRecordsGood DEF Promoted, Good, WellFormed, LiveStates
<1>4. \A r : Good(r) => Good(Recover(r, now).record)
  BY <1>1, LedgerAssumption
     DEF Good, Recover, Transition, Record, WellFormed, Blocked, Available, Plain,
         States, OwnReasons, LiveStates, Consumed, Live, NoTime, NoReason, Expired
<1>5. "missing-consumption-ledger" \in OwnReasons BY DEF OwnReasons
<1> QED BY <1>2, <1>3, <1>4, <1>5, OwnRecordsGood DEF Recovered

\* Every status is one an answer may carry.
LEMMA StatusesKnown ==
  /\ States \subseteq Statuses /\ Spent \subseteq States /\ Terminal \subseteq States
  /\ {"stored", "expired", "conflict", "failed", "missing", "leased", "dispatched",
      "available", "consumed", "quarantined", "invalidated"} \subseteq Statuses
BY DEF States, Statuses, Spent, Terminal

LEMMA InitTyped == Init => TypeOK
<1> SUFFICES ASSUME Init PROVE TypeOK OBVIOUS
<1>1. Good(NoLedger) BY OwnRecordsGood
<1>2. reply \in Replies
  BY StatusesKnown DEF Init, Says, Answer, Ops, Replies
<1> QED BY <1>1, <1>2 DEF Init, TypeOK, Good, Replies

LEMMA StoreTyped == TypeOK /\ Store => TypeOK'
<1> SUFFICES ASSUME TypeOK, Store PROVE TypeOK' OBVIOUS
<1> DEFINE rec == IF ledger = NoLedger THEN Available ELSE ledger
<1>1. Good(ledger) /\ Good(rec) BY OwnRecordsGood DEF TypeOK, Good
<1>2. plan' \in BOOLEAN /\ marker' \in BOOLEAN
  BY DEF Store, KeepFiles, TypeOK
<1>3. CASE plan /\ ledger = NoLedger
  <2>1. Commit({}, Recovered(clock), Says("store", "quarantined"))
    BY <1>3 DEF Store
  <2>2. Good(Recovered(clock)) BY RecoveredGood DEF Instants, TypeOK
  <2>3. Says("store", "quarantined") \in Replies
    BY StatusesKnown DEF Says, Answer, Replies, Ops
  <2> QED BY <2>1, <2>2, <2>3, <1>2, CommitTyped
<1>4. CASE ~(plan /\ ledger = NoLedger)
  <2>1. PICK status \in Statuses : Commit({}, rec, Says("store", status))
    <3>1. rec.state \in Statuses BY <1>1, StatusesKnown DEF Good, Record
    <3>2. CASE marker BY <3>1, <3>2, <1>4, StatusesKnown DEF Store
    <3>3. CASE ~marker BY <3>1, <3>3, <1>4, StatusesKnown DEF Store
    <3> QED BY <3>2, <3>3
  <2>2. Says("store", status) \in Replies BY DEF Says, Answer, Replies, Ops
  <2> HIDE DEF rec
  <2> QED BY <2>1, <2>2, <1>1, <1>2, CommitTyped
<1> QED BY <1>3, <1>4

LEMMA LoadTyped ==
  ASSUME TypeOK, NEW now \in Instants, Load(now) PROVE TypeOK'
<1>1. CASE ~plan /\ ledger = NoLedger
  BY <1>1, RefuseTyped, StatusesKnown DEF Load, Ops
<1>2. CASE ~(~plan /\ ledger = NoLedger)
  <2>1. Good(Recovered(now)) BY RecoveredGood
  <2>2. PICK status \in Statuses : Commit({}, Recovered(now), Says("load", status))
    <3>1. Recovered(now).state \in Statuses BY <2>1, StatusesKnown DEF Good, Record
    <3> QED BY <3>1, <1>2, StatusesKnown DEF Load
  <2>3. Says("load", status) \in Replies BY DEF Says, Answer, Replies, Ops
  <2> QED BY <2>1, <2>2, <2>3, <1>2, CommitTyped DEF Load, KeepFiles, TypeOK
<1> QED BY <1>1, <1>2

LEMMA LeaseUntilNat == \A now \in Nat : LeaseUntil(now) \in Nat
BY RepositoryAssumption DEF LeaseUntil, Earlier

LEMMA AcquireTyped ==
  ASSUME TypeOK, NEW now \in Instants, AcquireLease(now) PROVE TypeOK'
<1> DEFINE rec == Recovered(now)
<1>1. CASE ~plan
  BY <1>1, RefuseTyped, StatusesKnown DEF AcquireLease, Ops
<1>2. CASE plan
  <2>1. Good(rec) BY RecoveredGood
  <2>2. plan' \in BOOLEAN /\ marker' \in BOOLEAN
    BY <1>2 DEF AcquireLease, KeepFiles, TypeOK
  <2>3. CASE ~marker /\ rec = Available /\ ~PlanExpired(now)
    <3>1. PICK t \in Tokens :
            Commit({rec}, Live("leased", t, LeaseUntil(now)), Answer("acquire", "leased", t))
      BY <1>2, <2>3 DEF AcquireLease
    <3>2. Good(Live("leased", t, LeaseUntil(now)))
      BY OwnRecordsGood, LeaseUntilNat DEF Instants, TypeOK
    <3>3. Answer("acquire", "leased", t) \in Replies
      BY StatusesKnown DEF Answer, Replies, Ops
    <3> HIDE DEF rec
    <3> QED BY <3>1, <3>2, <3>3, <2>1, <2>2, CommitTyped
  <2>4. CASE ~(~marker /\ rec = Available /\ ~PlanExpired(now))
    <3>1. rec.state \in Statuses BY <2>1, StatusesKnown DEF Good, Record
    <3>2. PICK status \in Statuses : Commit({}, rec, Says("acquire", status))
      BY <3>1, <1>2, <2>4, StatusesKnown DEF AcquireLease
    <3>3. Says("acquire", status) \in Replies BY DEF Says, Answer, Replies, Ops
    <3> HIDE DEF rec
    <3> QED BY <3>2, <3>3, <2>1, <2>2, CommitTyped
  <2> QED BY <2>3, <2>4
<1> QED BY <1>1, <1>2

LEMMA MarkTyped ==
  ASSUME TypeOK, NEW now \in Instants, NEW t \in Tokens \cup {NoToken}, MarkDispatched(t, now)
  PROVE  TypeOK'
<1> DEFINE step == Dispatch(ledger, t, now)
<1>1. Good(ledger) /\ Good(Recovered(now)) /\ Good(Available) /\ Good(step.record)
  <2>1. now \in Nat BY DEF Instants, TypeOK
  <2>2. Good(ledger) BY DEF TypeOK, Good
  <2>3. "ambiguous-dispatch" \in OwnReasons \cup CallerReasons BY DEF OwnReasons
  <2> QED BY <2>1, <2>2, <2>3, RecoveredGood, OwnRecordsGood, TransitionsGood
<1>2. \A s \in {"quarantined", "expired", "failed", "conflict", "dispatched"} :
        Says("mark", s) \in Replies /\ Answer("mark", s, t) \in Replies
  BY StatusesKnown DEF Says, Answer, Replies, Ops
<1>3. CASE KeepFiles /\ Commit({}, Recovered(now), Says("mark", "quarantined"))
  BY <1>1, <1>2, <1>3, CommitTyped DEF KeepFiles, TypeOK
<1>4. CASE KeepFiles /\ Commit({}, Available, Says("mark", "expired"))
  BY <1>1, <1>2, <1>4, CommitTyped DEF KeepFiles, TypeOK
<1>5. CASE Refuse("mark", "failed") \/ Refuse("mark", "conflict")
  BY <1>5, RefuseTyped, StatusesKnown DEF Ops
<1>6. CASE CreateMarkerThen(step.record, Answer("mark", "dispatched", t))
  <2> DEFINE answer == Answer("mark", "dispatched", t)
  <2>1. answer.op = "mark" BY DEF Answer
  <2>2. CASE Refuse(answer.op, "conflict")
    BY <2>1, <2>2, RefuseTyped, StatusesKnown DEF Ops
  <2>3. CASE /\ marker' \in BOOLEAN /\ UNCHANGED <<plan, ledger, clock, backup>>
             /\ reply' = Says(answer.op, "failed") /\ Learn
    <3>1. Commit({}, ledger, Says("mark", "failed"))
      BY <2>1, <2>3 DEF Commit
    <3> QED BY <3>1, <1>1, <1>2, <2>3, CommitTyped DEF TypeOK
  <2>4. CASE marker' = TRUE /\ UNCHANGED plan /\ Commit({}, step.record, answer)
    <3> HIDE DEF step
    <3> QED BY <1>1, <1>2, <2>4, CommitTyped DEF TypeOK
  <2> QED BY <1>6, <2>2, <2>3, <2>4 DEF CreateMarkerThen
<1> QED BY <1>3, <1>4, <1>5, <1>6 DEF MarkDispatched

LEMMA CompleteTyped ==
  ASSUME TypeOK, NEW t \in Tokens \cup {NoToken}, CompletePlan(t) PROVE TypeOK'
<1> DEFINE step == Complete(ledger, t)
<1>1. CASE Refuse("complete", "failed") \/ Refuse("complete", "conflict")
  BY <1>1, RefuseTyped, StatusesKnown DEF Ops
<1>2. CASE KeepFiles /\ Commit({}, step.record, Says("complete", "consumed"))
  <2>1. Good(step.record)
    <3>1. Good(ledger) BY DEF TypeOK, Good
    <3> QED BY <3>1 DEF Good, Complete, Transition, Record, WellFormed, Plain, States,
         OwnReasons, LiveStates, Consumed, Live, NoTime, NoReason
  <2>2. Says("complete", "consumed") \in Replies
    BY StatusesKnown DEF Says, Answer, Replies, Ops
  <2> HIDE DEF step
  <2> QED BY <2>1, <2>2, <1>2, CommitTyped DEF KeepFiles, TypeOK
<1> QED BY <1>1, <1>2 DEF CompletePlan

LEMMA ResumeTyped ==
  ASSUME TypeOK, NEW now \in Instants, ResumeDispatched(now) PROVE TypeOK'
<1> DEFINE rec == Recover(Promoted, now).record
<1>1. CASE ~plan \/ ledger = NoLedger
  BY <1>1, RefuseTyped, StatusesKnown DEF ResumeDispatched, Ops
<1>2. CASE ~(~plan \/ ledger = NoLedger)
  <2>1. Good(Promoted) /\ Good(rec) BY RecoveredGood
  <2>2. PICK t \in Tokens :
          LET final == Settled(rec, now, t) IN
          Commit({Promoted, rec}, final,
                 Answer("resume", final.state,
                   IF final.state \in LiveStates THEN final.token ELSE NoToken))
    BY <1>2 DEF ResumeDispatched
  <2> DEFINE final == Settled(rec, now, t)
  <2>3. Good(final)
    <3>1. Good(Live("leased", t, LeaseUntil(now)))
      BY OwnRecordsGood, LeaseUntilNat DEF Instants, TypeOK
    <3>2. Good(Blocked("quarantined", NoToken, "plan-expired-after-preintent"))
      BY OwnRecordsGood DEF OwnReasons
    <3>3. Good(Blocked("quarantined", rec.token, "consumption-marker-missing"))
      BY <2>1 DEF Good, Record, WellFormed, Blocked, Plain, States, OwnReasons,
                  LiveStates, NoTime, NoReason, Consumed, Live
    <3> HIDE DEF rec
    <3> QED BY <2>1, <3>1, <3>2, <3>3 DEF Settled
  <2>4. Answer("resume", final.state,
               IF final.state \in LiveStates THEN final.token ELSE NoToken) \in Replies
    BY <2>3, StatusesKnown DEF Answer, Replies, Ops, Good, Record
  <2> HIDE DEF final, rec
  <2>5. plan' \in BOOLEAN /\ marker' \in BOOLEAN
    BY <1>2 DEF ResumeDispatched, KeepFiles, TypeOK
  <2>6. \A r \in {Promoted, rec} \cup {final} : Good(r) BY <2>1, <2>3
  <2>7. Commit({Promoted, rec}, final,
          Answer("resume", final.state,
                 IF final.state \in LiveStates THEN final.token ELSE NoToken))
    BY <2>2 DEF final, rec
  <2> QED BY <2>4, <2>5, <2>6, <2>7, CommitTyped
<1> QED BY <1>1, <1>2

LEMMA BlockTyped ==
  ASSUME TypeOK, NEW t \in Tokens \cup {NoToken}, NEW why \in CallerReasons,
         QuarantinePlan(t, why) \/ InvalidatePlan(t, why)
  PROVE  TypeOK'
<1>1. Good(Quarantine(ledger, t, why).record) /\ Good(Invalidate(ledger, t, why).record)
  BY TransitionsGood, RepositoryAssumption DEF TypeOK, Good
<1>2. plan' \in BOOLEAN /\ marker' \in BOOLEAN
  BY DEF QuarantinePlan, InvalidatePlan, KeepFiles, TypeOK
<1>3. \A op \in {"quarantine", "invalidate"} :
        \A s \in {"failed", "conflict", "quarantined", "invalidated"} :
          Says(op, s) \in Replies
  BY StatusesKnown DEF Says, Answer, Replies, Ops
<1>4. CASE QuarantinePlan(t, why)
  <2>1. PICK s \in {"failed", "conflict", "quarantined", "invalidated"} :
          Commit({}, Quarantine(ledger, t, why).record, Says("quarantine", s))
    BY <1>4 DEF QuarantinePlan
  <2> QED BY <2>1, <1>1, <1>2, <1>3, CommitTyped
<1>5. CASE InvalidatePlan(t, why)
  <2>1. PICK s \in {"failed", "conflict", "quarantined", "invalidated"} :
          Commit({}, Invalidate(ledger, t, why).record, Says("invalidate", s))
    BY <1>5 DEF InvalidatePlan
  <2> QED BY <2>1, <1>1, <1>2, <1>3, CommitTyped
<1> QED BY <1>4, <1>5

\* The environment only moves the clock, copies the files or loses the marker.
LEMMA EnvironmentTyped ==
  ASSUME TypeOK, Tick \/ TakeSnapshot \/ ReplaySnapshot \/ LoseMarker
  PROVE  TypeOK'
<1>1. CASE Tick BY <1>1 DEF TypeOK, Tick
<1>2. CASE TakeSnapshot BY <1>2 DEF TypeOK, TakeSnapshot
<1>3. CASE ReplaySnapshot
  <2>1. backup.ledger \in Record /\ WellFormed(backup.ledger) /\ backup.plan \in BOOLEAN
    BY DEF TypeOK
  <2>2. plan' \in BOOLEAN BY <1>3, <2>1 DEF ReplaySnapshot, TypeOK
  <2> QED BY <2>1, <2>2, <1>3 DEF TypeOK, ReplaySnapshot
<1>4. CASE LoseMarker BY <1>4 DEF TypeOK, LoseMarker
<1> QED BY <1>1, <1>2, <1>3, <1>4

\* Type correctness: every record that reaches the disk has one of the shapes that
\* PlanLedgerRecord accepts when it is read back.
THEOREM TypeCorrect == Spec => []TypeOK
<1>1. Init => TypeOK BY InitTyped
<1>2. TypeOK /\ [Next]_vars => TypeOK'
  <2> SUFFICES ASSUME TypeOK, [Next]_vars PROVE TypeOK' OBVIOUS
  <2>1. issued \subseteq Tokens BY DEF TypeOK
  <2>2. CASE Next
    BY <2>1, <2>2, StoreTyped, LoadTyped, AcquireTyped, ResumeTyped, MarkTyped,
       CompleteTyped, BlockTyped, EnvironmentTyped DEF Next
  <2>3. CASE UNCHANGED vars BY <2>3 DEF vars, TypeOK
  <2> QED BY <2>2, <2>3
<1> QED BY <1>1, <1>2, PTL DEF Spec

-----------------------------------------------------------------------------
(* A plan is dispatched once. *)

\* The two anchors of a dispatch.  Whichever of them the environment may not
\* touch still stands after the first dispatch, and either of them makes
\* mark_dispatched refuse.
Anchored ==
  grants > 0 =>
    /\ "keyring" \notin threat => marker
    /\ "replay" \notin threat => ledger.state \in Spent

DispatchInv == TypeOK /\ SingleDispatch /\ Anchored

\* Every operation keeps a spent record spent: this is what blocks a second
\* dispatch when the keyring has lost the marker.
LEMMA SpentStaysSpent ==
  ASSUME NEW r, r.state \in Spent, NEW now, NEW t, NEW why, NEW k
  PROVE  /\ Recover(r, now).record.state \in Spent
         /\ Dispatch(r, t, now).decision # "accepted"
         /\ Complete(r, t).record.state \in Spent
         /\ Quarantine(r, t, why).record.state \in Spent
         /\ Invalidate(r, t, why).record.state \in Spent
         /\ Settled(r, now, k).state \in Spent
BY DEF Spent, Recover, Dispatch, Complete, Quarantine, Invalidate, Settled, Transition,
       Available, Plain, Blocked, Consumed, Live, LiveStates, LeasesAgain

\* An operation that is not mark_dispatched and keeps a spent record spent.
LEMMA CommitKeepsDispatch ==
  ASSUME DispatchInv, NEW mids, NEW final, NEW answer \in Replies,
         Commit(mids, final, answer), answer.op # "mark", marker' = marker,
         ledger.state \in Spent => \A r \in mids \cup {final} : r.state \in Spent
  PROVE  SingleDispatch' /\ Anchored'
<1>1. reply'.op = answer.op
  BY DEF Commit, Says, Answer
<1>2. grants' = grants /\ threat' = threat
  BY <1>1 DEF Commit, Learn
<1>3. ledger.state \in Spent => ledger'.state \in Spent
  BY DEF Commit
<1> QED BY <1>2, <1>3 DEF DispatchInv, SingleDispatch, Anchored

\* The single-dispatch invariant is preserved by each operation.
LEMMA DispatchStep ==
  ASSUME {"replay", "keyring"} \notin Threats, DispatchInv, Next
  PROVE  SingleDispatch' /\ Anchored'
<1> USE StatusesKnown
<1>a. TypeOK /\ issued \subseteq Tokens BY DEF DispatchInv, TypeOK
<1>b. ledger = NoLedger => ledger.state \notin Spent
  BY DEF NoLedger, Plain, Spent
<1>c. ~("replay" \in threat /\ "keyring" \in threat)
  <2>1. threat \in Threats /\ threat \subseteq {"replay", "keyring"}
    BY <1>a, RepositoryAssumption DEF TypeOK
  <2>2. "replay" \in threat /\ "keyring" \in threat => threat = {"replay", "keyring"}
    BY <2>1
  <2> QED BY <2>1, <2>2
<1>1. CASE Store
  <2> DEFINE rec == IF ledger = NoLedger THEN Available ELSE ledger
  <2>1. CASE plan /\ ledger = NoLedger
    BY <1>1, <2>1, <1>b, CommitKeepsDispatch
       DEF Store, KeepFiles, Says, Answer, Replies, Ops
  <2>2. CASE ~(plan /\ ledger = NoLedger)
    <3>1. rec.state \in Statuses
      BY <1>a DEF TypeOK, Record, Available, Plain, States
    <3>2. PICK status \in Statuses : Commit({}, rec, Says("store", status))
      BY <1>1, <2>2, <3>1 DEF Store
    <3>3. ledger.state \in Spent => rec.state \in Spent BY <1>b
    <3>4. Says("store", status) \in Replies /\ Says("store", status).op = "store"
      BY DEF Says, Answer, Replies, Ops
    <3>5. marker' = marker BY <1>1, <2>2 DEF Store
    <3> HIDE DEF rec
    <3> QED BY <3>2, <3>3, <3>4, <3>5, CommitKeepsDispatch
  <2> QED BY <2>1, <2>2
<1>2. ASSUME NEW now \in Instants, Load(now) \/ AcquireLease(now)
      PROVE SingleDispatch' /\ Anchored'
  <2> DEFINE rec == Recovered(now)
  <2>1. ledger.state \in Spent => rec.state \in Spent
    BY <1>b, SpentStaysSpent DEF Recovered
  <2>2. marker' = marker
    BY <1>2 DEF Load, AcquireLease, Refuse, KeepFiles
  <2>3. rec.state \in Statuses /\ ledger \in Record
    BY <1>a, RecoveredGood DEF Good, Record, TypeOK
  <2>4. \E op \in {"load", "acquire"}, s \in Statuses, t \in Tokens \cup {NoToken},
           mids \in SUBSET {rec}, final \in Record :
          /\ Commit(mids, final, Answer(op, s, t))
          /\ ledger.state \in Spent => final.state \in Spent
    <3>1. rec \in Record BY <1>a, RecoveredGood DEF Good
    <3>2. CASE Load(now)
      BY <3>1, <3>2, <2>1, <2>3 DEF Load, Refuse, Says
    <3>3. CASE AcquireLease(now)
      <4>1. CASE ~plan BY <3>3, <4>1, <2>3 DEF AcquireLease, Refuse, Says
      <4>2. CASE plan /\ ~marker /\ rec = Available /\ ~PlanExpired(now)
        <5>1. PICK t \in Tokens :
                Commit({rec}, Live("leased", t, LeaseUntil(now)), Answer("acquire", "leased", t))
          BY <3>3, <4>2 DEF AcquireLease
        <5>2. Live("leased", t, LeaseUntil(now)) \in Record
          BY <1>a, OwnRecordsGood, LeaseUntilNat DEF Instants, TypeOK, Good
        <5>3. ledger.state \notin Spent
          BY <2>1, <4>2 DEF Available, Plain, Spent
        <5> HIDE DEF rec
        <5> QED BY <5>1, <5>2, <5>3
      <4>3. CASE plan /\ ~(~marker /\ rec = Available /\ ~PlanExpired(now))
        BY <3>1, <3>3, <4>3, <2>1, <2>3 DEF AcquireLease, Says
      <4> QED BY <4>1, <4>2, <4>3
    <3> QED BY <1>2, <3>2, <3>3
  <2>5. PICK op \in {"load", "acquire"}, s \in Statuses, t \in Tokens \cup {NoToken},
           mids \in SUBSET {rec}, final \in Record :
          /\ Commit(mids, final, Answer(op, s, t))
          /\ ledger.state \in Spent => final.state \in Spent
    BY <2>4
  <2>6. Answer(op, s, t) \in Replies /\ Answer(op, s, t).op # "mark"
    BY DEF Answer, Replies, Ops
  <2> HIDE DEF rec
  <2> QED BY <2>1, <2>2, <2>5, <2>6, CommitKeepsDispatch
<1>3. ASSUME NEW now \in Instants, ResumeDispatched(now)
      PROVE SingleDispatch' /\ Anchored'
  <2> DEFINE rec == Recover(Promoted, now).record
  <2>1. CASE ~plan \/ ledger = NoLedger
    BY <2>1, <1>3, CommitKeepsDispatch
       DEF ResumeDispatched, Refuse, KeepFiles, Says, Answer, Replies, Ops
  <2>2. CASE ~(~plan \/ ledger = NoLedger)
    <3>1. PICK t \in Tokens :
            LET final == Settled(rec, now, t) IN
            Commit({Promoted, rec}, final,
                   Answer("resume", final.state,
                     IF final.state \in LiveStates THEN final.token ELSE NoToken))
      BY <1>3, <2>2 DEF ResumeDispatched
    <3> DEFINE final == Settled(rec, now, t)
               answer == Answer("resume", final.state,
                           IF final.state \in LiveStates THEN final.token ELSE NoToken)
    <3>2. ledger.state \in Spent => Promoted = ledger
      BY DEF Promoted, Spent
    <3>3. ledger.state \in Spent => rec.state \in Spent /\ final.state \in Spent
      BY <3>2, SpentStaysSpent
    <3>4. marker' = marker BY <1>3, <2>2 DEF ResumeDispatched, KeepFiles
    <3>5. reply'.op = "resume" BY <3>1 DEF Commit, Says, Answer
    <3>6. grants' = grants /\ threat' = threat BY <3>1, <3>5 DEF Commit, Learn
    <3>7. ledger.state \in Spent => ledger'.state \in Spent
      <4> HIDE DEF rec, final
      <4>1. ledger' \in {Promoted, rec} \cup {ledger, final}
        BY <3>1 DEF Commit, final
      <4> QED BY <4>1, <3>2, <3>3
    <3> QED BY <3>4, <3>6, <3>7 DEF DispatchInv, SingleDispatch, Anchored
  <2> QED BY <2>1, <2>2
<1>4. ASSUME NEW t \in issued, NEW why \in CallerReasons,
             QuarantinePlan(t, why) \/ InvalidatePlan(t, why)
      PROVE SingleDispatch' /\ Anchored'
  <2>1. ledger.state \in Spent =>
          /\ Quarantine(ledger, t, why).record.state \in Spent
          /\ Invalidate(ledger, t, why).record.state \in Spent
    BY SpentStaysSpent
  <2>2. CASE QuarantinePlan(t, why)
    BY <2>1, <2>2, CommitKeepsDispatch
       DEF QuarantinePlan, KeepFiles, Says, Answer, Replies, Ops
  <2>3. CASE InvalidatePlan(t, why)
    BY <2>1, <2>3, CommitKeepsDispatch
       DEF InvalidatePlan, KeepFiles, Says, Answer, Replies, Ops
  <2> QED BY <1>4, <2>2, <2>3
<1>5. ASSUME NEW t \in issued, CompletePlan(t)
      PROVE SingleDispatch' /\ Anchored'
  <2>1. ledger.state \in Spent => Complete(ledger, t).record.state \in Spent
    BY SpentStaysSpent
  <2> QED BY <2>1, <1>5, CommitKeepsDispatch
          DEF CompletePlan, Refuse, KeepFiles, Says, Answer, Replies, Ops

<1>6. ASSUME NEW now \in Instants, NEW t \in issued, MarkDispatched(t, now)
      PROVE SingleDispatch' /\ Anchored'
  <2> DEFINE step == Dispatch(ledger, t, now)
  <2>1. CASE KeepFiles /\ Commit({}, Recovered(now), Says("mark", "quarantined"))
    <3>1. ledger.state \in Spent => Recovered(now).state \in Spent
      BY <1>b, SpentStaysSpent DEF Recovered
    <3>2. grants' = grants /\ threat' = threat
      BY <2>1 DEF Commit, Learn, Says, Answer
    <3> QED BY <2>1, <3>1, <3>2
            DEF KeepFiles, Commit, DispatchInv, SingleDispatch, Anchored
  <2>2. CASE /\ KeepFiles /\ Commit({}, Available, Says("mark", "expired"))
             /\ ledger.state = "leased"
    <3>1. ledger.state \notin Spent BY <2>2 DEF Spent
    <3>2. grants' = grants /\ threat' = threat
      BY <2>2 DEF Commit, Learn, Says, Answer
    <3> QED BY <2>2, <3>1, <3>2 DEF KeepFiles, DispatchInv, SingleDispatch, Anchored
  <2>3. CASE Refuse("mark", "failed") \/ Refuse("mark", "conflict")
    <3>1. grants' = grants /\ threat' = threat /\ ledger' = ledger /\ marker' = marker
      BY <2>3 DEF Refuse, KeepFiles, Commit, Learn, Says, Answer
    <3> QED BY <3>1 DEF DispatchInv, SingleDispatch, Anchored
  <2>4. CASE /\ CreateMarkerThen(step.record, Answer("mark", "dispatched", t))
             /\ step.decision = "accepted"
    <3>1. ledger.state \notin Spent
      BY <2>4, SpentStaysSpent
    <3>2. CASE marker /\ Refuse("mark", "conflict")
      <4>1. grants' = grants /\ threat' = threat /\ ledger' = ledger /\ marker' = marker
        BY <3>2 DEF Refuse, KeepFiles, Commit, Learn, Says, Answer
      <4> QED BY <4>1 DEF DispatchInv, SingleDispatch, Anchored
    <3>3. CASE ~marker
      \* Neither anchor stands: nothing has been dispatched yet.
      <4>1. grants = 0
        <5>1. ~("replay" \in threat /\ "keyring" \in threat) BY <1>c
        <5> QED BY <5>1, <3>1, <3>3, <1>a DEF DispatchInv, Anchored, TypeOK
      <4>2. CASE grants' = 0 BY <4>2 DEF SingleDispatch, Anchored
      <4>3. CASE grants' # 0
        <5>1. reply'.status = "dispatched" /\ grants' = 1
          BY <4>1, <4>3, <2>4
             DEF CreateMarkerThen, Refuse, Commit, Learn, Says, Answer
        <5>2. marker' = TRUE /\ ledger' = step.record
          <6> HIDE DEF step
          <6> QED BY <5>1, <3>3, <2>4 DEF CreateMarkerThen, Commit, Says, Answer
        <5>3. step.record.state \in Spent
          BY <2>4 DEF Dispatch, Transition, Live, Spent
        <5> QED BY <5>1, <5>2, <5>3 DEF SingleDispatch, Anchored
      <4> QED BY <4>2, <4>3
    <3> QED BY <2>4, <3>2, <3>3 DEF CreateMarkerThen, Answer
  <2> QED BY <1>6, <2>1, <2>2, <2>3, <2>4 DEF MarkDispatched
<1>7. CASE Tick \/ TakeSnapshot
  BY <1>7 DEF Tick, TakeSnapshot, DispatchInv, SingleDispatch, Anchored
<1>8. CASE ReplaySnapshot
  BY <1>8 DEF ReplaySnapshot, DispatchInv, SingleDispatch, Anchored
<1>9. CASE LoseMarker
  BY <1>9 DEF LoseMarker, DispatchInv, SingleDispatch, Anchored
<1> QED BY <1>1, <1>2, <1>3, <1>4, <1>5, <1>6, <1>7, <1>8, <1>9 DEF Next

\* A plan is dispatched at most once as long as the environment leaves one of the
\* two anchors alone: it may roll the files back or lose the keyring's marker.
THEOREM DispatchedOnce ==
  ASSUME {"replay", "keyring"} \notin Threats
  PROVE  Spec => []SingleDispatch
<1>1. Init => DispatchInv
  BY InitTyped DEF Init, DispatchInv, SingleDispatch, Anchored
<1>2. DispatchInv /\ [Next]_vars /\ TypeOK' => DispatchInv'
  <2>1. DispatchInv /\ Next /\ TypeOK' => DispatchInv'
    BY DispatchStep DEF DispatchInv
  <2>2. DispatchInv /\ UNCHANGED vars /\ TypeOK' => DispatchInv'
    BY DEF DispatchInv, SingleDispatch, Anchored, vars
  <2> QED BY <2>1, <2>2
<1>3. DispatchInv => SingleDispatch BY DEF DispatchInv
<1> QED BY <1>1, <1>2, <1>3, TypeCorrect, PTL DEF Spec

-----------------------------------------------------------------------------
(* What is final, what comes first and who holds the right to dispatch. *)

\* Where the environment leaves the files alone, a threat does not bring them back.
LEMMA NoReplay ==
  ASSUME TypeOK, \A h \in Threats : "replay" \notin h
  PROVE  ~ReplaySnapshot
BY DEF TypeOK, ReplaySnapshot

-----------------------------------------------------------------------------
(* Terminal records. *)

\* No transition moves a terminal record.
LEMMA TerminalStays ==
  ASSUME NEW r, r.state \in Terminal, NEW now, NEW t, NEW why
  PROVE  /\ Recover(r, now).record = r
         /\ Dispatch(r, t, now).decision = "conflict"
         /\ Complete(r, t).record = r
         /\ Quarantine(r, t, why).record = r
         /\ Invalidate(r, t, why).record = r
         /\ Settled(r, now, t) = r
BY DEF Terminal, Recover, Dispatch, Complete, Quarantine, Invalidate, Settled, Transition,
       Available, Plain, LiveStates, LeasesAgain

\* The operations on a plan that is stored already, with any arguments.
Called(t, now, why) ==
  \/ Load(now) \/ AcquireLease(now) \/ ResumeDispatched(now) \/ MarkDispatched(t, now)
  \/ CompletePlan(t) \/ QuarantinePlan(t, why) \/ InvalidatePlan(t, why)

\* No operation moves one either, whatever it is called with.
LEMMA TerminalCall ==
  ASSUME NEW t, NEW now, NEW why, Called(t, now, why), ledger.state \in Terminal
  PROVE  ledger' = ledger
<1>1. ledger # NoLedger /\ Promoted = ledger /\ Recovered(now) = ledger
  BY TerminalStays DEF NoLedger, Plain, Terminal, Promoted, Recovered
<1>2. CASE Load(now) \/ AcquireLease(now)
  BY <1>1, <1>2 DEF Load, AcquireLease, Refuse, Commit, Available, Plain, Terminal
<1>3. CASE ResumeDispatched(now)
  BY <1>1, <1>3, TerminalStays DEF ResumeDispatched, Refuse, Commit
<1>4. CASE MarkDispatched(t, now)
  BY <1>1, <1>4, TerminalStays DEF MarkDispatched, Refuse, Commit, Terminal
<1>5. CASE CompletePlan(t)
  BY <1>5, TerminalStays DEF CompletePlan, Refuse, Commit
<1>6. CASE QuarantinePlan(t, why) \/ InvalidatePlan(t, why)
  BY <1>6, TerminalStays DEF QuarantinePlan, InvalidatePlan, Commit
<1> QED BY <1>2, <1>3, <1>4, <1>5, <1>6 DEF Called

LEMMA TerminalStep ==
  ASSUME Next, ~ReplaySnapshot, ledger.state \in Terminal
  PROVE  ledger' = ledger
<1>1. CASE Store
  BY <1>1 DEF Store, Commit, NoLedger, Plain, Terminal
<1>2. CASE Tick \/ TakeSnapshot \/ LoseMarker
  BY <1>2 DEF Tick, TakeSnapshot, LoseMarker
<1>3. ASSUME NEW t, NEW now, NEW why, Called(t, now, why) PROVE ledger' = ledger
  BY <1>3, TerminalCall
<1> QED BY <1>1, <1>2, <1>3 DEF Next, Called

\* As long as the files are not rolled back, a record that is consumed, quarantined or
\* invalidated is never written again, whatever call comes with whatever instant.
THEOREM TerminalForGood ==
  ASSUME \A h \in Threats : "replay" \notin h
  PROVE  Spec => TerminalIsFinal
<1>1. TypeOK /\ [Next]_vars => [ledger.state \in Terminal => ledger' = ledger]_vars
  BY TerminalStep, NoReplay
<1> QED BY <1>1, TypeCorrect, PTL DEF Spec, TerminalIsFinal

-----------------------------------------------------------------------------
(* The marker comes first. *)

Claims(r) == r.state \in {"dispatched", "consumed"}

\* The copy of the files that may come back claims no more than the files did.
FollowInv == Claims(ledger) \/ Claims(backup.ledger) => marker

\* Only dispatch and complete make a record claim what it did not claim before.
LEMMA ClaimsOnlyByBarrier ==
  ASSUME NEW r, NEW now, NEW t, NEW why
  PROVE  /\ Claims(Recover(r, now).record) => Claims(r)
         /\ Claims(Complete(r, t).record) =>
              Claims(r) \/ Complete(r, t).decision = "accepted"
         /\ Claims(Quarantine(r, t, why).record) => Claims(r)
         /\ Claims(Invalidate(r, t, why).record) => Claims(r)
         /\ Claims(Settled(r, now, t)) => Claims(r)
         /\ ~Claims(Available)
         /\ ~Claims(Live("leased", t, now))
BY DEF Claims, Recover, Complete, Quarantine, Invalidate, Settled, Transition, Available,
       Plain, Blocked, Consumed, Live, LiveStates

\* An operation that writes no claim without the marker keeps the order.
LEMMA CommitFollows ==
  ASSUME FollowInv, NEW mids, NEW final, NEW answer, Commit(mids, final, answer),
         marker => marker', \A r \in mids \cup {final} : Claims(r) => marker'
  PROVE  FollowInv'
BY DEF FollowInv, Commit

\* Every operation keeps the order; so does a rollback, for its copy claimed no more.
LEMMA FollowStep ==
  ASSUME FollowInv, Next, ~LoseMarker
  PROVE  FollowInv'
<1>0. /\ \A now : Claims(Recovered(now)) => marker
      /\ Claims(Promoted) => marker
      /\ Claims(ledger) => marker
  <2>1. ~Claims(Blocked("quarantined", NoToken, "missing-consumption-ledger"))
    BY DEF Claims, Blocked
  <2> QED BY <2>1, ClaimsOnlyByBarrier DEF FollowInv, Recovered, Promoted, Claims, Live
<1>1. CASE Store
  <2>1. ~Claims(Available) BY ClaimsOnlyByBarrier
  <2> QED BY <1>0, <1>1, <2>1, CommitFollows DEF Store, KeepFiles
<1>2. ASSUME NEW now \in Instants, Load(now) PROVE FollowInv'
  BY <1>0, <1>2, CommitFollows DEF Load, Refuse, KeepFiles
<1>3. ASSUME NEW now \in Instants, AcquireLease(now) PROVE FollowInv'
  <2>1. \A t : ~Claims(Live("leased", t, LeaseUntil(now))) BY DEF Claims, Live
  <2> QED BY <1>0, <1>3, <2>1, CommitFollows DEF AcquireLease, Refuse, KeepFiles
<1>4. ASSUME NEW now \in Instants, ResumeDispatched(now) PROVE FollowInv'
  <2> DEFINE rec == Recover(Promoted, now).record
  <2>1. Claims(rec) => marker BY <1>0, ClaimsOnlyByBarrier
  <2>2. \A t : Claims(Settled(rec, now, t)) => marker BY <2>1, ClaimsOnlyByBarrier
  <2> QED BY <1>0, <1>4, <2>1, <2>2, CommitFollows DEF ResumeDispatched, Refuse, KeepFiles
<1>5. ASSUME NEW t \in issued, NEW now \in Instants, MarkDispatched(t, now) PROVE FollowInv'
  <2>1. ~Claims(Available) BY ClaimsOnlyByBarrier
  <2>2. CASE CreateMarkerThen(Dispatch(ledger, t, now).record, Answer("mark", "dispatched", t))
    <3>1. CASE marker' = TRUE
      BY <2>2, <3>1 DEF FollowInv
    <3>2. CASE marker' # TRUE /\ ~marker
      BY <2>2, <3>2, <1>0 DEF CreateMarkerThen, FollowInv
    <3> QED BY <2>2, <3>1, <3>2, CommitFollows, <1>0 DEF CreateMarkerThen, Refuse, KeepFiles
  <2> QED BY <1>0, <1>5, <2>1, <2>2, CommitFollows DEF MarkDispatched, Refuse, KeepFiles
<1>6. ASSUME NEW t \in issued, CompletePlan(t) PROVE FollowInv'
  BY <1>0, <1>6, CommitFollows, ClaimsOnlyByBarrier DEF CompletePlan, Refuse, KeepFiles
<1>7. ASSUME NEW t \in issued, NEW why \in CallerReasons,
             QuarantinePlan(t, why) \/ InvalidatePlan(t, why)
      PROVE FollowInv'
  BY <1>0, <1>7, CommitFollows, ClaimsOnlyByBarrier DEF QuarantinePlan, InvalidatePlan, KeepFiles
<1>8. CASE Tick \/ TakeSnapshot \/ ReplaySnapshot
  BY <1>8 DEF Tick, TakeSnapshot, ReplaySnapshot, FollowInv
<1> QED BY <1>1, <1>2, <1>3, <1>4, <1>5, <1>6, <1>7, <1>8 DEF Next

\* As long as the keyring keeps the marker, the ledger claims a dispatch only behind it,
\* also after older files came back.
THEOREM MarkerFirst ==
  ASSUME \A h \in Threats : "keyring" \notin h
  PROVE  Spec => []LedgerFollowsMarker
<1>1. Init => FollowInv
  BY DEF Init, FollowInv, Claims, NoLedger, Plain
<1>2. TypeOK /\ FollowInv /\ [Next]_vars => FollowInv'
  <2>1. TypeOK => ~LoseMarker BY DEF TypeOK, LoseMarker
  <2>2. FollowInv /\ UNCHANGED vars => FollowInv' BY DEF FollowInv, vars
  <2> QED BY <2>1, <2>2, FollowStep
<1>3. FollowInv => LedgerFollowsMarker BY DEF FollowInv, Claims, LedgerFollowsMarker
<1> QED BY <1>1, <1>2, <1>3, TypeCorrect, PTL DEF Spec

-----------------------------------------------------------------------------
(* One winner. *)

\* The record r says of the holder t that it went through the barrier.
Won(r, t) == r.state \in Spent /\ r.token = t

\* What went through the barrier stays the holder's, whatever transition comes next.
LEMMA WinnerStays ==
  ASSUME NEW r, NEW u, Won(r, u), NEW now, NEW t, NEW why
  PROVE  /\ Won(Recover(r, now).record, u)
         /\ Dispatch(r, t, now).decision # "accepted"
         /\ Won(Complete(r, t).record, u)
         /\ Won(Quarantine(r, t, why).record, u)
         /\ Won(Invalidate(r, t, why).record, u)
         /\ Won(Settled(r, now, t), u)
         /\ r # Available /\ r # NoLedger /\ r.state # "leased"
BY DEF Won, Spent, Recover, Dispatch, Complete, Quarantine, Invalidate, Settled, Transition,
       Available, NoLedger, Plain, Blocked, Consumed, Live, LiveStates, LeasesAgain

\* An operation that gives nobody the right and keeps what the winner has.
LEMMA CommitKeepsWinner ==
  ASSUME OneWinner, NEW mids, NEW final, NEW answer, Commit(mids, final, answer),
         marker' = marker, answer.status # "dispatched" \/ answer.token = NoToken,
         \A u \in authority : \A r \in mids \cup {final} : Won(r, u)
  PROVE  OneWinner'
<1>1. authority' = authority
  BY DEF Commit, Learn, Says, Answer
<1>2. \A u \in authority : Won(ledger, u) BY DEF OneWinner, Won
<1>3. \A u \in authority : Won(ledger', u) BY <1>2 DEF Commit
<1> QED BY <1>1, <1>3 DEF OneWinner, Won

\* Every operation keeps the winner, as long as the anchors stay where they are.
LEMMA WinnerStep ==
  ASSUME TypeOK, OneWinner, Next, ~ReplaySnapshot, ~LoseMarker
  PROVE  OneWinner'
<1>0. \A u \in authority :
        /\ Won(ledger, u) /\ ledger # NoLedger /\ Promoted = ledger
        /\ \A now : Won(Recovered(now), u) /\ Won(Recover(ledger, now).record, u)
  <2>1. \A u \in authority : Won(ledger, u) BY DEF OneWinner, Won
  <2> QED BY <2>1, WinnerStays DEF Recovered, Promoted
<1>1. CASE Store
  <2>1. authority # {} => marker BY DEF OneWinner
  <2>2. CASE plan /\ ledger = NoLedger
    BY <1>0, <1>1, <2>2, CommitKeepsWinner DEF Store, KeepFiles, Says, Answer
  <2>3. CASE ~(plan /\ ledger = NoLedger)
    <3> DEFINE rec == IF ledger = NoLedger THEN Available ELSE ledger
    <3>1. PICK status : Commit({}, rec, Says("store", status))
      BY <1>1, <2>3 DEF Store
    <3>2. \A u \in authority : Won(rec, u) BY <1>0
    <3>3. marker' = marker BY <1>1, <2>3 DEF Store
    <3> HIDE DEF rec
    <3> QED BY <3>1, <3>2, <3>3, CommitKeepsWinner DEF Says, Answer
  <2> QED BY <2>2, <2>3
<1>2. ASSUME NEW now \in Instants, Load(now) PROVE OneWinner'
  BY <1>0, <1>2, CommitKeepsWinner DEF Load, Refuse, KeepFiles, Says, Answer
<1>3. ASSUME NEW now \in Instants, AcquireLease(now) PROVE OneWinner'
  <2>1. CASE plan /\ ~marker /\ Recovered(now) = Available /\ ~PlanExpired(now)
    <3>1. authority = {} BY <2>1 DEF OneWinner
    <3> QED BY <1>3, <2>1, <3>1, CommitKeepsWinner DEF AcquireLease, KeepFiles, Answer
  <2>2. CASE ~(plan /\ ~marker /\ Recovered(now) = Available /\ ~PlanExpired(now))
    BY <1>0, <1>3, <2>2, CommitKeepsWinner DEF AcquireLease, Refuse, KeepFiles, Says, Answer
  <2> QED BY <2>1, <2>2
<1>4. ASSUME NEW now \in Instants, ResumeDispatched(now) PROVE OneWinner'
  <2> DEFINE rec == Recover(Promoted, now).record
  <2>1. CASE ~plan \/ ledger = NoLedger
    BY <1>0, <1>4, <2>1, CommitKeepsWinner DEF ResumeDispatched, Refuse, KeepFiles, Says, Answer
  <2>2. CASE ~(~plan \/ ledger = NoLedger)
    <3>1. PICK t \in Tokens :
            LET final == Settled(rec, now, t) IN
            Commit({Promoted, rec}, final,
                   Answer("resume", final.state,
                     IF final.state \in LiveStates THEN final.token ELSE NoToken))
      BY <1>4, <2>2 DEF ResumeDispatched
    <3> DEFINE final == Settled(rec, now, t)
               answer == Answer("resume", final.state,
                           IF final.state \in LiveStates THEN final.token ELSE NoToken)
    <3>2. marker' = marker BY <1>4, <2>2 DEF ResumeDispatched, KeepFiles
    <3>3. \A u \in authority : Won(rec, u) /\ Won(final, u)
      BY <1>0, WinnerStays
    <3>4. CASE final.state # "dispatched" \/ reply' # answer
      <4>1. authority' = authority
        BY <3>1, <3>4 DEF Commit, Learn, Says, Answer
      <4>2. \A u \in authority : Won(ledger', u)
        <5> HIDE DEF rec, final
        <5>1. ledger' \in {Promoted, rec, ledger, final} BY <3>1 DEF Commit, final
        <5> QED BY <5>1, <3>3, <1>0
      <4> QED BY <3>2, <4>1, <4>2 DEF OneWinner, Won
    <3>5. CASE final.state = "dispatched" /\ reply' = answer
      \* The ledger says dispatched, and so does the marker: its holder may go on.
      <4>1. rec = final /\ marker
        BY <3>5 DEF Settled, Blocked, Live
      <4>2. ledger' = final
        <5> HIDE DEF rec, final
        <5>1. answer.status # "failed" /\ answer.status = "dispatched"
          BY <3>5 DEF Answer
        <5> QED BY <3>1, <3>5, <5>1 DEF Commit, Says, Answer, answer, final
      <4>3. authority' \subseteq authority \cup {final.token}
        <5> HIDE DEF rec, final
        <5>1. reply'.token = final.token
          BY <3>5 DEF answer, Answer, LiveStates
        <5> QED BY <3>1, <5>1 DEF Commit, Learn, final
      <4>4. \A u \in authority : final.token = u /\ authority = {u}
        BY <3>3 DEF Won, OneWinner
      <4> HIDE DEF rec, final
      <4>5. \A u \in authority' : u = final.token BY <4>3, <4>4
      <4> QED BY <3>2, <3>5, <4>1, <4>2, <4>5 DEF OneWinner, Spent
    <3> QED BY <3>4, <3>5
  <2> QED BY <2>1, <2>2
<1>5. ASSUME NEW t \in issued, NEW now \in Instants, MarkDispatched(t, now) PROVE OneWinner'
  <2> DEFINE step == Dispatch(ledger, t, now)
  <2>1. CASE step.decision = "accepted" /\ CreateMarkerThen(step.record, Answer("mark", "dispatched", t))
    <3>1. authority = {} BY <1>0, <2>1, WinnerStays
    <3>2. step.record.state \in Spent /\ step.record.token = t
      BY <2>1 DEF Dispatch, Transition, Live, Spent
    <3>3. CASE authority' = {} BY <3>3 DEF OneWinner
    <3>4. CASE authority' # {}
      <4> HIDE DEF step
      <4>1. reply'.status = "dispatched" /\ authority' = {reply'.token}
        BY <2>1, <3>1, <3>4 DEF CreateMarkerThen, Refuse, Commit, Learn
      <4>2. reply' = Answer("mark", "dispatched", t) /\ ledger' = step.record /\ marker' = TRUE
        BY <2>1, <4>1 DEF CreateMarkerThen, Refuse, Commit, Says, Answer
      <4> QED BY <3>2, <4>1, <4>2 DEF OneWinner, Answer
    <3> QED BY <3>3, <3>4
  <2>2. CASE /\ KeepFiles /\ Commit({}, Available, Says("mark", "expired"))
             /\ ledger.state = "leased"
    <3>1. authority = {} BY <2>2, <1>0, WinnerStays
    <3> QED BY <2>2, <3>1, CommitKeepsWinner DEF KeepFiles, Says, Answer
  <2>3. CASE \/ KeepFiles /\ Commit({}, Recovered(now), Says("mark", "quarantined"))
             \/ Refuse("mark", "failed") \/ Refuse("mark", "conflict")
    BY <1>0, <2>3, CommitKeepsWinner DEF Refuse, KeepFiles, Says, Answer
  <2> QED BY <1>5, <2>1, <2>2, <2>3 DEF MarkDispatched
<1>6. ASSUME NEW t \in issued, CompletePlan(t) PROVE OneWinner'
  <2>1. \A u \in authority : Won(Complete(ledger, t).record, u) BY <1>0, WinnerStays
  <2> QED BY <1>0, <1>6, <2>1, CommitKeepsWinner DEF CompletePlan, Refuse, KeepFiles, Says, Answer
<1>7. ASSUME NEW t \in issued, NEW why \in CallerReasons,
             QuarantinePlan(t, why) \/ InvalidatePlan(t, why)
      PROVE OneWinner'
  <2>1. \A u \in authority : /\ Won(Quarantine(ledger, t, why).record, u)
                             /\ Won(Invalidate(ledger, t, why).record, u)
    BY <1>0, WinnerStays
  <2> QED BY <1>7, <2>1, CommitKeepsWinner
          DEF QuarantinePlan, InvalidatePlan, KeepFiles, Says, Answer
<1>8. CASE Tick \/ TakeSnapshot
  BY <1>8 DEF Tick, TakeSnapshot, OneWinner
<1> QED BY <1>1, <1>2, <1>3, <1>4, <1>5, <1>6, <1>7, <1>8 DEF Next

\* Without rollback and loss only one lease is ever told to dispatch, and what the
\* ledger says of a dispatch is about that lease.
THEOREM WinnerIsUnique ==
  ASSUME Threats \subseteq {{}}
  PROVE  Spec => []OneWinner
<1>1. Init => OneWinner BY DEF Init, OneWinner
<1>2. TypeOK /\ OneWinner /\ [Next]_vars => OneWinner'
  <2>1. TypeOK => ~ReplaySnapshot /\ ~LoseMarker BY DEF TypeOK, ReplaySnapshot, LoseMarker
  <2>2. OneWinner /\ UNCHANGED vars => OneWinner' BY DEF OneWinner, vars
  <2> QED BY <2>1, <2>2, WinnerStep
<1> QED BY <1>1, <1>2, TypeCorrect, PTL DEF Spec

-----------------------------------------------------------------------------
(* No lease behind the barrier. *)

Behind == marker \/ ledger.state \in Spent
NotLeased == grants > 0 => reply.status # "leased"

\* An operation answers with one of its own words or "failed".
LEMMA CommitSays ==
  ASSUME NEW mids, NEW final, NEW answer, Commit(mids, final, answer),
         answer.status # "leased"
  PROVE  reply'.status # "leased"
BY DEF Commit, Says, Answer

\* With the marker in place or a spent record, none of them says "leased".
LEMMA BehindNoLease ==
  ASSUME Behind, Next, reply.status # "leased"
  PROVE  reply'.status # "leased"
<1>0. ASSUME NEW now
      PROVE  /\ Recovered(now).state = "leased" => marker
             /\ Recovered(now) = Available => marker
  BY SpentStaysSpent
     DEF Behind, Recovered, Recover, Transition, Blocked, Available, Plain, Spent, NoLedger
<1>1. CASE Store
  <2> DEFINE rec == IF ledger = NoLedger THEN Available ELSE ledger
  <2>1. CASE plan /\ ledger = NoLedger
    BY <1>1, <2>1, CommitSays DEF Store, Says, Answer
  <2>2. CASE ~(plan /\ ledger = NoLedger) /\ marker
    BY <1>1, <2>2, CommitSays DEF Store, Says, Answer, Spent
  <2>3. CASE ~(plan /\ ledger = NoLedger) /\ ~marker
    <3>1. rec.state \in Spent /\ rec # Available
      BY <2>3 DEF Behind, NoLedger, Available, Plain, Spent
    <3>2. Commit({}, rec, Says("store", rec.state))
      BY <1>1, <2>3, <3>1 DEF Store
    <3> HIDE DEF rec
    <3> QED BY <3>1, <3>2, CommitSays DEF Says, Answer, Spent
  <2> QED BY <2>1, <2>2, <2>3
<1>2. ASSUME NEW now \in Instants, Load(now) PROVE reply'.status # "leased"
  <2> DEFINE rec == Recovered(now)
  <2>1. CASE ~plan /\ ledger = NoLedger
    BY <1>2, <2>1, CommitSays DEF Load, Refuse, Says, Answer
  <2>2. CASE ~(~plan /\ ledger = NoLedger)
    <3>1. PICK status : Commit({}, rec, Says("load", status)) /\ status # "leased"
      <4>1. rec.state = "leased" => marker BY <1>0
      <4> HIDE DEF rec
      <4> QED BY <1>2, <2>2, <4>1 DEF Load, rec, Spent
    <3> HIDE DEF rec
    <3> QED BY <3>1, CommitSays DEF Says, Answer
  <2> QED BY <2>1, <2>2
<1>3. ASSUME NEW now \in Instants, AcquireLease(now) PROVE reply'.status # "leased"
  <2> DEFINE rec == Recovered(now)
  <2>1. CASE ~plan BY <1>3, <2>1, CommitSays DEF AcquireLease, Refuse, Says, Answer
  <2>2. CASE plan
    <3>1. rec = Available => marker BY <1>0
    <3>2. PICK status : Commit({}, rec, Says("acquire", status)) /\ status # "leased"
      <4> HIDE DEF rec
      <4> QED BY <1>3, <2>2, <3>1 DEF AcquireLease, rec, Spent, LiveStates
    <3> HIDE DEF rec
    <3> QED BY <3>2, CommitSays DEF Says, Answer
  <2> QED BY <2>1, <2>2
<1>4. ASSUME NEW now \in Instants, ResumeDispatched(now) PROVE reply'.status # "leased"
  <2> DEFINE rec == Recover(Promoted, now).record
  <2>1. CASE ~plan \/ ledger = NoLedger
    BY <1>4, <2>1, CommitSays DEF ResumeDispatched, Refuse, Says, Answer
  <2>2. CASE ~(~plan \/ ledger = NoLedger)
    <3>1. PICK t \in Tokens :
            LET final == Settled(rec, now, t) IN
            Commit({Promoted, rec}, final,
                   Answer("resume", final.state,
                     IF final.state \in LiveStates THEN final.token ELSE NoToken))
      BY <1>4, <2>2 DEF ResumeDispatched
    <3> DEFINE final == Settled(rec, now, t)
    <3>2. Promoted.state # "leased" BY DEF Behind, Promoted, Live, Spent
    <3>3. rec.state # "leased" BY <3>2 DEF Recover, Transition, Available, Plain, Blocked
    <3>4. ~LeasesAgain(rec, now)
      <4>1. ~marker => Promoted.state \in Spent BY DEF Behind, Promoted, Spent
      <4>2. ~marker => rec.state \in Spent BY <4>1, SpentStaysSpent
      <4> QED BY <4>2 DEF LeasesAgain, Available, Plain, Spent
    <3>5. final.state # "leased" BY <3>3, <3>4 DEF Settled, Blocked
    <3> HIDE DEF rec, final
    <3>6. Commit({Promoted, rec}, final,
                 Answer("resume", final.state,
                   IF final.state \in LiveStates THEN final.token ELSE NoToken))
      BY <3>1 DEF final
    <3> QED BY <3>5, <3>6, CommitSays DEF Answer
  <2> QED BY <2>1, <2>2
<1>5. ASSUME NEW t \in issued, NEW now \in Instants, MarkDispatched(t, now)
      PROVE  reply'.status # "leased"
  <2>1. CASE CreateMarkerThen(Dispatch(ledger, t, now).record, Answer("mark", "dispatched", t))
    BY <2>1, CommitSays DEF CreateMarkerThen, Refuse, Says, Answer
  <2> QED BY <1>5, <2>1, CommitSays DEF MarkDispatched, Refuse, Says, Answer
<1>6. ASSUME NEW t \in issued, CompletePlan(t) PROVE reply'.status # "leased"
  BY <1>6, CommitSays DEF CompletePlan, Refuse, Says, Answer
<1>7. ASSUME NEW t \in issued, NEW why \in CallerReasons,
             QuarantinePlan(t, why) \/ InvalidatePlan(t, why)
      PROVE  reply'.status # "leased"
  BY <1>7, CommitSays DEF QuarantinePlan, InvalidatePlan, Says, Answer
<1>8. CASE Tick \/ TakeSnapshot \/ ReplaySnapshot \/ LoseMarker
  BY <1>8 DEF Tick, TakeSnapshot, ReplaySnapshot, LoseMarker
<1> QED BY <1>1, <1>2, <1>3, <1>4, <1>5, <1>6, <1>7, <1>8 DEF Next

\* Once a dispatch was granted, no call is answered "leased" any more, as long as the
\* environment leaves one of the two anchors alone.
THEOREM NoLeaseBehindBarrier ==
  ASSUME {"replay", "keyring"} \notin Threats
  PROVE  Spec => NoLeaseAfterDispatch
<1>1. Init => DispatchInv /\ NotLeased
  BY InitTyped DEF Init, DispatchInv, SingleDispatch, Anchored, NotLeased
<1>2. DispatchInv /\ NotLeased /\ [Next]_vars => [grants > 0 => reply'.status # "leased"]_vars
  <2> SUFFICES ASSUME DispatchInv, NotLeased, Next, grants > 0 PROVE reply'.status # "leased"
    OBVIOUS
  <2>1. threat \in Threats /\ threat \subseteq {"replay", "keyring"}
    BY RepositoryAssumption DEF DispatchInv, TypeOK
  <2>2. ~("replay" \in threat /\ "keyring" \in threat)
    <3>1. "replay" \in threat /\ "keyring" \in threat => threat = {"replay", "keyring"}
      BY <2>1
    <3> QED BY <2>1, <3>1
  <2>3. Behind BY <2>2 DEF DispatchInv, Anchored, Behind
  <2> QED BY <2>3, BehindNoLease DEF NotLeased
<1>3. DispatchInv /\ NotLeased /\ [Next]_vars => NotLeased'
  <2>1. CASE grants > 0
    <3>1. DispatchInv /\ NotLeased /\ [Next]_vars => reply'.status # "leased"
      BY <1>2, <2>1 DEF NotLeased, vars
    <3> QED BY <3>1 DEF NotLeased
  <2>2. CASE ~(grants > 0)
    <3>1. SUFFICES ASSUME DispatchInv, Next, grants' > 0 PROVE reply'.status # "leased"
      BY <2>2 DEF NotLeased, vars
    <3>2. grants = 0 BY <2>2, <3>1 DEF DispatchInv, TypeOK
    <3>3. grants' # grants BY <3>1, <3>2
    <3>4. Learn
      BY <3>1, <3>3 DEF Next, Store, Load, AcquireLease, ResumeDispatched, MarkDispatched,
         CompletePlan, QuarantinePlan, InvalidatePlan, Tick, TakeSnapshot, ReplaySnapshot,
         LoseMarker, Refuse, Commit, CreateMarkerThen
    <3> QED BY <3>3, <3>4 DEF Learn
  <2> QED BY <2>1, <2>2
<1>4. DispatchInv /\ [Next]_vars /\ TypeOK' => DispatchInv'
  <2>1. DispatchInv /\ Next /\ TypeOK' => DispatchInv' BY DispatchStep DEF DispatchInv
  <2>2. DispatchInv /\ UNCHANGED vars /\ TypeOK' => DispatchInv'
    BY DEF DispatchInv, SingleDispatch, Anchored, vars
  <2> QED BY <2>1, <2>2
<1> QED BY <1>1, <1>2, <1>3, <1>4, TypeCorrect, PTL DEF Spec, NoLeaseAfterDispatch

-----------------------------------------------------------------------------
(* PlanRepository implements SingleUse, as long as files and keyring keep what they
   were given. *)

Holder(r) == IF r.state \in LiveStates THEN r.token ELSE NoToken
Winner == IF authority = {} THEN NoToken ELSE CHOOSE t \in authority : TRUE

\* The abstract next-state relation, spelled out over the mapped variables.
Promised ==
  \/ \E t \in Tokens :
       ~marker /\ Holder(ledger') = t /\ marker' = marker /\ Winner' = Winner
  \/ Holder(ledger') = NoToken /\ marker' = marker /\ Winner' = Winner
  \/ /\ ~marker /\ Holder(ledger) # NoToken /\ marker' = TRUE
     /\ Winner' \in {NoToken, Holder(ledger)} /\ Holder(ledger') = Holder(ledger)
  \/ /\ marker /\ Holder(ledger) # NoToken /\ Winner \in {NoToken, Holder(ledger)}
     /\ Winner' = Holder(ledger) /\ Holder(ledger') = Holder(ledger) /\ marker' = marker
  \/ Holder(ledger') = Holder(ledger) /\ marker' = marker /\ Winner' = Winner

\* It is the abstract relation of SingleUse under the mapping.
LEMMA PromisedIsPromise == Promised => [Promise!Next]_(Promise!suVars)
BY DEF Promised, Holder, Winner, Promise!Next, Promise!suVars, Promise!Lease, Promise!End,
       Promise!Cross, Promise!Learn

\* Transitions end a lease or leave it; only the right token gets it through the barrier.
LEMMA HolderStays ==
  ASSUME NEW r, NEW now, NEW t, NEW why
  PROVE  /\ Holder(Recover(r, now).record) \in {Holder(r), NoToken}
         /\ Holder(Complete(r, t).record) \in {Holder(r), NoToken}
         /\ Holder(Quarantine(r, t, why).record) \in {Holder(r), NoToken}
         /\ Holder(Invalidate(r, t, why).record) \in {Holder(r), NoToken}
         /\ ~LeasesAgain(r, now) => Holder(Settled(r, now, t)) \in {Holder(r), NoToken}
         /\ Holder(Available) = NoToken /\ Holder(NoLedger) = NoToken
         /\ Holder(Live("leased", t, now)) = t
         /\ Dispatch(r, t, now).decision = "accepted" =>
              Holder(r) = t /\ Holder(Dispatch(r, t, now).record) = t
BY DEF Holder, LiveStates, Recover, Complete, Quarantine, Invalidate, Dispatch, Settled,
       Transition, Available, NoLedger, Plain, Blocked, Consumed, Live, LeasesAgain

\* An operation that grants no right and ends, leaves or, before the barrier, opens a lease.
LEMMA CommitPromised ==
  ASSUME NEW mids, NEW final, NEW answer, Commit(mids, final, answer),
         marker' = marker, answer.status # "dispatched" \/ answer.token = NoToken,
         \A r \in mids \cup {final} :
           \/ Holder(r) \in {Holder(ledger), NoToken}
           \/ ~marker /\ Holder(r) \in Tokens
  PROVE  Promised
<1>1. authority' = authority BY DEF Commit, Learn, Says, Answer
<1>2. Winner' = Winner BY <1>1 DEF Winner
<1>3. \/ Holder(ledger') \in {Holder(ledger), NoToken}
      \/ ~marker /\ Holder(ledger') \in Tokens
  BY DEF Commit
<1> QED BY <1>2, <1>3 DEF Promised

\* Every operation of the repository, with or without a failed write, keeps the promise.
LEMMA PromisedStep ==
  ASSUME TypeOK, OneWinner, FollowInv, Next, ~ReplaySnapshot, ~LoseMarker
  PROVE  Promised
<1>0. /\ \A now : Holder(Recovered(now)) \in {Holder(ledger), NoToken}
      /\ Holder(Promoted) = Holder(ledger)
      /\ \A now : Holder(Recover(Promoted, now).record) \in {Holder(ledger), NoToken}
  <2>1. Holder(Blocked("quarantined", NoToken, "missing-consumption-ledger")) = NoToken
    BY DEF Holder, Blocked, LiveStates
  <2>2. Holder(Promoted) = Holder(ledger) BY DEF Promoted, Holder, Live, LiveStates
  <2> QED BY <2>1, <2>2, HolderStays DEF Recovered
<1>a. issued \subseteq Tokens /\ (\A u \in authority : Winner = u) /\ (authority = {} => Winner = NoToken)
  BY DEF TypeOK, OneWinner, Winner
<1>1. CASE Store
  <2>1. CASE plan /\ ledger = NoLedger
    BY <1>0, <1>1, <2>1, CommitPromised DEF Store, KeepFiles, Says, Answer
  <2>2. CASE ~(plan /\ ledger = NoLedger)
    <3> DEFINE rec == IF ledger = NoLedger THEN Available ELSE ledger
    <3>1. PICK status : Commit({}, rec, Says("store", status))
      BY <1>1, <2>2 DEF Store
    <3>2. Holder(rec) \in {Holder(ledger), NoToken} BY HolderStays
    <3>3. marker' = marker BY <1>1, <2>2 DEF Store
    <3> HIDE DEF rec
    <3> QED BY <3>1, <3>2, <3>3, CommitPromised DEF Says, Answer
  <2> QED BY <2>1, <2>2
<1>2. ASSUME NEW now \in Instants, Load(now) PROVE Promised
  BY <1>0, <1>2, CommitPromised DEF Load, Refuse, KeepFiles, Says, Answer
<1>3. ASSUME NEW now \in Instants, AcquireLease(now) PROVE Promised
  <2>1. CASE plan /\ ~marker /\ Recovered(now) = Available /\ ~PlanExpired(now)
    <3>1. PICK t \in Tokens :
            Commit({Recovered(now)}, Live("leased", t, LeaseUntil(now)), Answer("acquire", "leased", t))
      BY <1>3, <2>1 DEF AcquireLease
    <3>2. Holder(Live("leased", t, LeaseUntil(now))) = t BY HolderStays
    <3> QED BY <1>0, <1>3, <2>1, <3>1, <3>2, CommitPromised DEF AcquireLease, KeepFiles, Answer
  <2>2. CASE ~(plan /\ ~marker /\ Recovered(now) = Available /\ ~PlanExpired(now))
    BY <1>0, <1>3, <2>2, CommitPromised DEF AcquireLease, Refuse, KeepFiles, Says, Answer
  <2> QED BY <2>1, <2>2
<1>4. ASSUME NEW now \in Instants, ResumeDispatched(now) PROVE Promised
  <2> DEFINE rec == Recover(Promoted, now).record
  <2>1. CASE ~plan \/ ledger = NoLedger
    BY <1>0, <1>4, <2>1, CommitPromised DEF ResumeDispatched, Refuse, KeepFiles, Says, Answer
  <2>2. CASE ~(~plan \/ ledger = NoLedger)
    <3>1. PICK t \in Tokens :
            LET final == Settled(rec, now, t) IN
            Commit({Promoted, rec}, final,
                   Answer("resume", final.state,
                     IF final.state \in LiveStates THEN final.token ELSE NoToken))
      BY <1>4, <2>2 DEF ResumeDispatched
    <3> DEFINE final == Settled(rec, now, t)
               answer == Answer("resume", final.state,
                           IF final.state \in LiveStates THEN final.token ELSE NoToken)
    <3>2. marker' = marker BY <1>4, <2>2 DEF ResumeDispatched, KeepFiles
    <3>3. \/ Holder(final) \in {Holder(ledger), NoToken}
          \/ ~marker /\ Holder(final) \in Tokens
      <4>1. CASE LeasesAgain(rec, now)
        <5>1. final = Live("leased", t, LeaseUntil(now)) BY <4>1 DEF Settled
        <5>2. Holder(final) = t BY <5>1, HolderStays
        <5>3. ~marker BY <4>1 DEF LeasesAgain
        <5> QED BY <5>2, <5>3
      <4>2. CASE ~LeasesAgain(rec, now)
        <5>1. Holder(final) \in {Holder(rec), NoToken} BY <4>2, HolderStays
        <5> HIDE DEF rec, final
        <5>2. Holder(rec) \in {Holder(ledger), NoToken} BY <1>0 DEF rec
        <5> QED BY <5>1, <5>2
      <4> QED BY <4>1, <4>2
    <3>4. CASE final.state # "dispatched" \/ reply' # answer
      <4>1. authority' = authority
        BY <3>1, <3>4 DEF Commit, Learn, Says, Answer
      <4>2. \/ Holder(ledger') \in {Holder(ledger), NoToken}
            \/ ~marker /\ Holder(ledger') \in Tokens
        <5> HIDE DEF rec, final
        <5>1. ledger' \in {Promoted, rec, ledger, final} BY <3>1 DEF Commit, final
        <5>2. Holder(rec) \in {Holder(ledger), NoToken} BY <1>0 DEF rec
        <5> QED BY <5>1, <5>2, <3>3, <1>0
      <4>3. Winner' = Winner BY <4>1 DEF Winner
      <4> QED BY <3>2, <4>2, <4>3 DEF Promised
    <3>5. CASE final.state = "dispatched" /\ reply' = answer
      \* The holder learns that its lease went through the barrier.
      <4>1. rec = final /\ marker
        BY <3>5 DEF Settled, Blocked, Live
      <4>2. ledger' = final /\ authority' \subseteq authority \cup {final.token}
        <5> HIDE DEF rec, final
        <5>1. answer.status # "failed" BY <3>5 DEF Answer
        <5>2. reply'.token = final.token BY <3>5 DEF answer, Answer, LiveStates
        <5> QED BY <3>1, <3>5, <5>1, <5>2 DEF Commit, Learn, Says, Answer, answer, final
      <4>3. Holder(final) = final.token /\ final.token # NoToken
        <5>1. Good(final) BY <4>1, RecoveredGood, StatusesKnown
        <5> HIDE DEF rec, final
        <5> QED BY <5>1, <3>5, LedgerAssumption DEF Good, WellFormed, Holder, LiveStates
      <4>4. Holder(ledger) = final.token
        <5> HIDE DEF rec, final
        <5> QED BY <4>1, <4>3, <1>0 DEF rec
      <4>5. \A u \in authority : u = final.token
        <5>1. \A u \in authority : Won(ledger, u) BY DEF OneWinner, Won
        <5> HIDE DEF rec, final
        <5> QED BY <5>1, <4>3, <4>4 DEF Won, Holder
      <4>6. authority' = {final.token}
        <5> HIDE DEF rec, final
        <5>1. reply'.status = "dispatched" /\ reply'.token = final.token
          BY <3>5 DEF answer, Answer, LiveStates
        <5>2. authority' = authority \cup {final.token}
          BY <3>1, <4>3, <5>1 DEF Commit, Learn
        <5> QED BY <4>5, <5>2
      <4>7. Winner' = final.token
        <5> HIDE DEF rec, final
        <5> QED BY <4>6 DEF Winner
      <4>8. Winner \in {NoToken, final.token}
        <5> HIDE DEF rec, final
        <5> QED BY <1>a, <4>5
      <4> HIDE DEF rec, final
      <4> QED BY <3>2, <4>1, <4>2, <4>3, <4>4, <4>7, <4>8 DEF Promised
    <3> QED BY <3>4, <3>5
  <2> QED BY <2>1, <2>2
<1>5. ASSUME NEW t \in issued, NEW now \in Instants, MarkDispatched(t, now) PROVE Promised
  <2> DEFINE step == Dispatch(ledger, t, now)
  <2>1. CASE step.decision = "accepted" /\ CreateMarkerThen(step.record, Answer("mark", "dispatched", t))
    <3>1. Holder(ledger) = t /\ Holder(step.record) = t BY <2>1, HolderStays
    <3>2. t # NoToken BY <1>a, LedgerAssumption
    <3>3. authority = {}
      BY <2>1, WinnerStays DEF OneWinner, Won
    <3> HIDE DEF step
    <3>4. CASE marker
      BY <2>1, <3>4, <1>0, CommitPromised DEF CreateMarkerThen, Refuse, KeepFiles, Says, Answer
    <3>5. CASE ~marker /\ marker' # TRUE
      <4>0. /\ UNCHANGED <<plan, ledger, clock, backup>> /\ Learn
            /\ reply' = Says(Answer("mark", "dispatched", t).op, "failed")
        BY <2>1, <3>5 DEF CreateMarkerThen
      <4>1. ledger' = ledger /\ authority' = authority
        BY <4>0 DEF Learn, Says, Answer
      <4>2. marker' \in BOOLEAN /\ marker \in BOOLEAN
        BY <2>1, <3>5 DEF CreateMarkerThen, TypeOK
      <4>3. marker' = marker BY <3>5, <4>2
      <4>4. Winner' = Winner BY <4>1 DEF Winner
      <4> QED BY <4>1, <4>3, <4>4 DEF Promised
    <3>6. CASE ~marker /\ marker' = TRUE
      <4>1. Holder(ledger') = t
        BY <2>1, <3>6, <3>1 DEF CreateMarkerThen, Commit, Refuse
      <4>2. authority' \in {{}, {t}}
        BY <2>1, <3>6, <3>3 DEF CreateMarkerThen, Commit, Learn, Says, Answer
      <4>3. Winner' \in {NoToken, t} BY <4>2 DEF Winner
      <4> QED BY <3>1, <3>2, <3>6, <4>1, <4>3 DEF Promised
    <3>7. marker' \in BOOLEAN \/ marker
      BY <2>1 DEF CreateMarkerThen
    <3> QED BY <3>4, <3>5, <3>6, <3>7
  <2>2. CASE KeepFiles /\ Commit({}, Available, Says("mark", "expired"))
    BY <2>2, HolderStays, CommitPromised DEF KeepFiles, Says, Answer
  <2>3. CASE \/ KeepFiles /\ Commit({}, Recovered(now), Says("mark", "quarantined"))
             \/ Refuse("mark", "failed") \/ Refuse("mark", "conflict")
    BY <1>0, <2>3, CommitPromised DEF Refuse, KeepFiles, Says, Answer
  <2> QED BY <1>5, <2>1, <2>2, <2>3 DEF MarkDispatched
<1>6. ASSUME NEW t \in issued, CompletePlan(t) PROVE Promised
  <2>1. Holder(Complete(ledger, t).record) \in {Holder(ledger), NoToken} BY HolderStays
  <2> QED BY <1>6, <2>1, CommitPromised DEF CompletePlan, Refuse, KeepFiles, Says, Answer
<1>7. ASSUME NEW t \in issued, NEW why \in CallerReasons,
             QuarantinePlan(t, why) \/ InvalidatePlan(t, why)
      PROVE Promised
  <2>1. /\ Holder(Quarantine(ledger, t, why).record) \in {Holder(ledger), NoToken}
        /\ Holder(Invalidate(ledger, t, why).record) \in {Holder(ledger), NoToken}
    BY HolderStays
  <2> QED BY <1>7, <2>1, CommitPromised
          DEF QuarantinePlan, InvalidatePlan, KeepFiles, Says, Answer
<1>8. CASE Tick \/ TakeSnapshot
  <2>1. UNCHANGED <<ledger, marker, authority>> BY <1>8 DEF Tick, TakeSnapshot
  <2>2. Winner' = Winner BY <2>1 DEF Winner
  <2> QED BY <2>1, <2>2 DEF Promised
<1> QED BY <1>1, <1>2, <1>3, <1>4, <1>5, <1>6, <1>7, <1>8 DEF Next

\* The repository implements SingleUse: seen through the mapping of Promise every step,
\* whatever fails or crashes in it, is a step of SingleUse or none.
THEOREM RepositoryIsSingleUse ==
  ASSUME Threats \subseteq {{}}
  PROVE  Spec => ImplementsSingleUse
<1>1. Init => Promise!Init /\ FollowInv /\ OneWinner
  BY DEF Init, Promise!Init, FollowInv, OneWinner, Claims, NoLedger, Plain, LiveStates
<1>2. TypeOK => ~ReplaySnapshot /\ ~LoseMarker BY DEF TypeOK, ReplaySnapshot, LoseMarker
<1>3. TypeOK /\ FollowInv /\ OneWinner /\ [Next]_vars => FollowInv' /\ OneWinner'
  <2>1. FollowInv /\ OneWinner /\ UNCHANGED vars => FollowInv' /\ OneWinner'
    BY DEF FollowInv, OneWinner, vars
  <2> QED BY <1>2, <2>1, FollowStep, WinnerStep
<1>4. TypeOK /\ FollowInv /\ OneWinner /\ [Next]_vars => [Promise!Next]_(Promise!suVars)
  <2>1. UNCHANGED vars => Promised BY DEF vars, Promised, Winner
  <2> QED BY <1>2, <2>1, PromisedStep, PromisedIsPromise
<1> QED BY <1>1, <1>3, <1>4, TypeCorrect, PTL DEF Spec, ImplementsSingleUse, Promise!Spec

-----------------------------------------------------------------------------
(* What a caller of the repository may rely on. *)

LEMMA CalledTyped ==
  ASSUME TypeOK, NEW t \in Tokens \cup {NoToken}, NEW now \in Instants,
         NEW why \in CallerReasons, Called(t, now, why)
  PROVE  TypeOK'
BY LoadTyped, AcquireTyped, ResumeTyped, MarkTyped, CompleteTyped, BlockTyped DEF Called

\* No operation moves the clock or takes the marker away, and a consumed ledger stays.
LEMMA CalledKeeps ==
  ASSUME NEW t, NEW now, NEW why, Called(t, now, why)
  PROVE  /\ clock' = clock /\ (marker => marker')
         /\ ledger.state = "consumed" => ledger'.state = "consumed"
<1>1. ledger.state = "consumed" => ledger'.state = "consumed"
  BY TerminalCall DEF Terminal
<1>2. CASE \/ Load(now) \/ AcquireLease(now) \/ ResumeDispatched(now) \/ CompletePlan(t)
           \/ QuarantinePlan(t, why) \/ InvalidatePlan(t, why)
  BY <1>1, <1>2 DEF Load, AcquireLease, ResumeDispatched, CompletePlan, QuarantinePlan,
     InvalidatePlan, Refuse, KeepFiles, Commit
<1>3. CASE MarkDispatched(t, now)
  <2>1. CASE CreateMarkerThen(Dispatch(ledger, t, now).record, Answer("mark", "dispatched", t))
    BY <1>1, <2>1 DEF CreateMarkerThen, Refuse, KeepFiles, Commit
  <2>2. CASE ~CreateMarkerThen(Dispatch(ledger, t, now).record, Answer("mark", "dispatched", t))
    BY <1>1, <1>3, <2>2 DEF MarkDispatched, Refuse, KeepFiles, Commit
  <2> QED BY <2>1, <2>2
<1> QED BY <1>2, <1>3 DEF Called

\* Who is told "dispatched" has the marker behind him, and "consumed" is what the ledger is.
LEMMA AnswersAreSo ==
  ASSUME NEW t, NEW now
  PROVE  /\ MarkDispatched(t, now) /\ reply'.status = "dispatched" => marker'
         /\ CompletePlan(t) /\ reply'.status = "consumed" => ledger'.state = "consumed"
         /\ ResumeDispatched(now) /\ reply'.status = "dispatched" => marker'
         /\ ResumeDispatched(now) /\ reply'.status = "consumed" => ledger'.state = "consumed"
<1>1. ASSUME MarkDispatched(t, now), reply'.status = "dispatched" PROVE marker'
  BY <1>1 DEF MarkDispatched, CreateMarkerThen, Refuse, Commit, Says, Answer
<1>2. ASSUME CompletePlan(t), reply'.status = "consumed" PROVE ledger'.state = "consumed"
  <2>1. ledger' = Complete(ledger, t).record /\ Complete(ledger, t).decision # "conflict"
    BY <1>2 DEF CompletePlan, Refuse, Commit, Says, Answer
  <2> QED BY <2>1 DEF Complete, Transition, Consumed, Live
<1>3. ASSUME ResumeDispatched(now), reply'.status \in {"dispatched", "consumed"}
      PROVE  /\ reply'.status = "dispatched" => marker'
             /\ reply'.status = "consumed" => ledger'.state = "consumed"
  <2> DEFINE rec == Recover(Promoted, now).record
  <2>1. plan /\ ledger # NoLedger /\ marker' = marker
    BY <1>3 DEF ResumeDispatched, Refuse, KeepFiles, Commit, Says, Answer
  <2>2. PICK k \in Tokens :
          LET final == Settled(rec, now, k) IN
          Commit({Promoted, rec}, final,
                 Answer("resume", final.state,
                   IF final.state \in LiveStates THEN final.token ELSE NoToken))
    BY <1>3, <2>1 DEF ResumeDispatched
  <2> DEFINE final == Settled(rec, now, k)
  <2>3. ledger' = final /\ reply'.status = final.state
    <3> HIDE DEF rec
    <3> QED BY <1>3, <2>2 DEF Commit, Says, Answer
  <2>4. final.state = "dispatched" => marker
    BY DEF Settled, Live, Blocked
  <2> HIDE DEF final
  <2> QED BY <1>3, <2>1, <2>3, <2>4
<1> QED BY <1>1, <1>2, <1>3
=============================================================================
