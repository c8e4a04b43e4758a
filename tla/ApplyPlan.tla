----------------------------- MODULE ApplyPlan -----------------------------
(***************************************************************************)
(* Apply: several processes (command line, terminal interface) apply the   *)
(* same stored plan.  A call reviews the plan, crosses the repository's    *)
(* barrier and sends one provider write per child, in order; a later call  *)
(* resumes from the durable Apply record.                                  *)
(*                                                                         *)
(* A step is one call of a store or of the provider: calls of different    *)
(* processes interleave wherever the code gives up a lock or awaits.  A    *)
(* fault is a call of a store that is reported as failed, although its     *)
(* effect may be in force.  A process may crash between any two steps.     *)
(***************************************************************************)
EXTENDS PlanRepository, ApplyRecord

CONSTANTS
  Procs,
  MaxCalls,    \* bound of the model: calls of apply
  MaxFaults    \* bound of the model: faulty calls of the stores

ASSUME ApplyAssumption ==
  /\ MaxCalls \in Nat /\ MaxFaults \in Nat
  /\ {"unknown-dispatch", "critical-unknown", "child-evidence-drift",
      "dispatch-intent-persistence-failed"} \subseteq CallerReasons

VARIABLES
  record,     \* the durable Apply record
  audit,      \* facts retained in the audit journal
  resolved,   \* children whose unknown write was recorded as accepted afterwards
  sent,       \* writes sent to the provider, per child
  truth,      \* what became of them there ("conflicting": taken, with an echo that differs)
  loc,        \* each process: control point and local variables
  told,       \* what the last call to finish answered
  calls, faults

durable == <<record, audit, resolved>>
provider == <<sent, truth>>
allVars == <<vars, durable, provider, loc, told, calls, faults>>

Truths == {"none", "inflight", "applied", "conflicting", "rejected"}
Points == {"idle", "load", "plan", "lease", "preaudit", "create", "mark", "child",
           "intent", "write", "outcome", "result", "close", "finish", "complete",
           "closeunknown", "unknownaudit", "contain", "resolve", "append",
           "resolvedaudit", "predispatch", "prequarantine", "preauditfail",
           "critical", "evidence", "evidencesave", "evidenceaudit", "resume",
           "project", "reaudit", "revalidate", "stopall", "invalidate",
           "invalidaudit"}

\* rec is the process's copy of the record, mode the status a resume found, todo
\* the critical evidence still to be saved.
Idle == [pc |-> "idle", now |-> 0, rec |-> NoRecord, lease |-> NoToken,
         mode |-> "none", todo |-> <<>>]

ApplyTypeOK ==
  /\ TypeOK
  /\ record \in Records /\ Coherent(record) /\ resolved \subseteq Children
  /\ sent \in [Children -> Nat] /\ truth \in [Children -> Truths]
  /\ \A p \in Procs :
       /\ loc[p].pc \in Points /\ loc[p].now \in Instants
       /\ loc[p].rec \in Records /\ Coherent(loc[p].rec)
       /\ loc[p].lease \in Tokens \cup {NoToken}

\* Apply begins with a plan that Preview has stored.
ApplyInit ==
  /\ plan = TRUE /\ ledger = Available /\ marker = FALSE
  /\ clock = 0 /\ issued = {} /\ grants = 0 /\ authority = {}
  /\ reply = Says("none", "missing") /\ threat \in Threats
  /\ backup = [plan |-> FALSE, ledger |-> NoLedger]
  /\ record = NoRecord /\ audit = {} /\ resolved = {}
  /\ sent = [c \in Children |-> 0] /\ truth = [c \in Children |-> "none"]
  /\ loc = [p \in Procs |-> Idle] /\ told = "none" /\ calls = 0 /\ faults = 0

-----------------------------------------------------------------------------
(* How a step calls a store and where it goes from there. *)

At(p, pc) == loc[p].pc = pc
Jump(p, pc, r) == loc' = [loc EXCEPT ![p].pc = pc, ![p].rec = r] /\ UNCHANGED told
Goto(p, pc) == Jump(p, pc, loc[p].rec)
Return(p, answer) == loc' = [loc EXCEPT ![p] = Idle] /\ told' = answer

\* _critical_unknown: with a lease the plan is quarantined first.
Critical(p, r) == Jump(p, IF loc[p].lease = NoToken THEN "evidence" ELSE "critical", r)

Charge(n) == faults' = faults + n /\ faults' <= MaxFaults
Quiet ==
  /\ UNCHANGED <<plan, ledger, marker, clock, issued, grants, authority, threat, backup>>
  /\ reply' = Says("none", "missing") /\ UNCHANGED calls

\* A call of the plan repository; Ok is what the caller does with the answer.
AskRepository(Call, Ok) ==
  /\ Call /\ Ok /\ UNCHANGED <<durable, provider, calls>>
  /\ Charge(IF reply'.status = "failed" THEN 1 ELSE 0)

\* Appends to the audit journal, up to the first that fails.
Journal(facts, Ok, Failed) ==
  /\ Quiet /\ UNCHANGED <<record, resolved, provider>>
  /\ \/ audit' = audit \cup facts /\ Ok /\ UNCHANGED faults
     \/ \E kept \in SUBSET facts : audit' = audit \cup kept /\ Failed /\ Charge(1)

\* A faulty save: the revision is not compared.
SaveAnyRevision(r, Ok, Failed) ==
  /\ Quiet /\ UNCHANGED <<audit, resolved, provider>>
  /\ \/ record' = r /\ Ok /\ UNCHANGED faults
     \/ record' \in {record, r} /\ Failed /\ Charge(1)

\* Only the successor of the durable revision is stored.
Save(r, Ok, Failed) ==
  /\ Quiet /\ UNCHANGED <<audit, resolved, provider>>
  /\ IF r.rev = record.rev + 1
       THEN \/ record' = r /\ Ok /\ UNCHANGED faults
            \/ record' \in {record, r} /\ Failed /\ Charge(1)
       ELSE Failed /\ UNCHANGED <<record, faults>>

Local == Quiet /\ UNCHANGED <<durable, provider, faults>>

-----------------------------------------------------------------------------
(* apply: from the stored plan to the barrier. *)

Begin(p) ==
  /\ At(p, "idle") /\ calls < MaxCalls /\ calls' = calls + 1
  /\ loc' = [loc EXCEPT ![p] = [Idle EXCEPT !.pc = "load", !.now = clock]]
  /\ told' = "none" /\ UNCHANGED <<vars, durable, provider, faults>>

LoadRecord(p) ==
  /\ At(p, "load") /\ Quiet /\ UNCHANGED <<durable, provider>>
  /\ \/ Jump(p, IF record = NoRecord THEN "plan" ELSE "resume", record) /\ UNCHANGED faults
     \/ Return(p, "refused") /\ Charge(1)

\* The request is for another scope, principal, contact or installation.
Reject(p) == loc[p].pc \in {"resume", "lease"} /\ Local /\ Return(p, "refused")

LoadPlan(p) ==
  /\ At(p, "plan")
  /\ AskRepository(Load(loc[p].now),
       IF reply'.status = "available" THEN Goto(p, "lease") ELSE Return(p, "refused"))

\* The lease is taken to apply the plan or, after drift, to invalidate it.
Lease(p) ==
  /\ At(p, "lease")
  /\ \E goal \in {"preaudit", "invalidate"} :
       AskRepository(AcquireLease(loc[p].now),
         IF reply'.status = "leased"
           THEN /\ loc' = [loc EXCEPT ![p].pc = goal, ![p].lease = reply'.token]
                /\ UNCHANGED told
           ELSE Return(p, "refused"))

PreAudit(p) ==
  At(p, "preaudit") /\ Journal({<<"apply", "intent">>}, Goto(p, "create"), Return(p, "refused"))

\* A record of another call has another created_at: it conflicts.
Create(p) ==
  /\ At(p, "create") /\ Save(NewRecord, Jump(p, "mark", NewRecord), Return(p, "refused"))

\* The first child that is not accepted is next, if nothing has stopped it.
NextPoint(r) ==
  IF Pending(r) = {} THEN "close"
  ELSE IF Min(Pending(r)) \in With(r, "none") THEN "child" ELSE "critical"

Mark(p) ==
  /\ At(p, "mark")
  /\ AskRepository(MarkDispatched(loc[p].lease, loc[p].now),
       IF reply'.status = "dispatched" THEN Goto(p, NextPoint(loc[p].rec))
       ELSE Return(p, "refused"))

-----------------------------------------------------------------------------
(* _dispatch_children: intent, write, outcome, one child after the other. *)

\* A faulty intent: the write does not wait for the journal.
IntendUnaudited(p) ==
  LET r == loc[p].rec  c == Min(Pending(r))
      On == Goto(p, IF MayIntend(r, c) THEN "intent" ELSE "predispatch") IN
  At(p, "child") /\ Journal({<<"intent", c>>}, On, On)

IntendAudit(p) ==
  LET r == loc[p].rec  c == Min(Pending(r)) IN
  /\ At(p, "child")
  /\ Journal({<<"intent", c>>},
       Goto(p, IF MayIntend(r, c) THEN "intent" ELSE "predispatch"), Goto(p, "predispatch"))

\* A faulty intent: the write is sent although the intent was not saved.
SaveIntentUnchecked(p) ==
  LET next == Intend(loc[p].rec, Min(Pending(loc[p].rec))) IN
  At(p, "intent") /\ Save(next, Jump(p, "write", next), Jump(p, "write", next))

SaveIntent(p) ==
  LET next == Intend(loc[p].rec, Min(Pending(loc[p].rec))) IN
  /\ At(p, "intent") /\ Save(next, Jump(p, "write", next), Goto(p, "predispatch"))

\* A faulty write: a lost answer is recorded as a rejection.
WriteLostIsFailed(p) ==
  LET r == loc[p].rec  c == Max(Intended(r)) IN
  /\ At(p, "write")
  /\ Quiet /\ UNCHANGED <<durable, faults>>
  /\ sent' = [sent EXCEPT ![c] = @ + 1]
  /\ \E what \in Truths : truth' = [truth EXCEPT ![c] = what]
  /\ \E answer \in {"accepted", "failed"} :
       /\ answer = "accepted" => truth'[c] = "applied"
       /\ Jump(p, "outcome", Outcome(r, c, answer))

\* An echo that is not of the request counts as a failure, although the provider has
\* taken the write.  A lost answer says nothing: the write may be applied, or arrive later.
Write(p) ==
  LET r == loc[p].rec  c == Max(Intended(r)) IN
  /\ At(p, "write")
  /\ Quiet /\ UNCHANGED <<durable, faults>>
  /\ sent' = [sent EXCEPT ![c] = @ + 1]
  /\ \E answer \in {<<"accepted", "applied">>}
                   \cup ({"failed"} \X {"rejected", "conflicting"})
                   \cup ({"unknown"} \X {"none", "inflight", "applied"}) :
       /\ truth' = [truth EXCEPT ![c] = answer[2]]
       /\ Jump(p, "outcome", Outcome(r, c, answer[1]))

SaveOutcome(p) ==
  LET r == loc[p].rec IN
  /\ At(p, "outcome")
  /\ Save(r, Goto(p, IF With(r, "unknown") # {} THEN "closeunknown" ELSE "result"),
          Critical(p, r))

\* A faulty result: the next child starts although the journal failed.
ResultUnaudited(p) ==
  LET r == loc[p].rec  c == Max(Intended(r))
      On == Goto(p, IF c \in With(r, "failed") THEN "close" ELSE NextPoint(r)) IN
  At(p, "result") /\ Journal({<<r.kids[c].disp, c>>}, On, On)

ResultAudit(p) ==
  LET r == loc[p].rec  c == Max(Intended(r)) IN
  /\ At(p, "result")
  /\ Journal({<<r.kids[c].disp, c>>},
       Goto(p, IF c \in With(r, "failed") THEN "close" ELSE NextPoint(r)), Critical(p, r))

\* finalize raises when no child stopped and one is undecided: NextPoint and
\* resume come here with neither.
Close(p) ==
  LET r == Finalize(loc[p].rec) IN
  At(p, "close") /\ Save(r, Jump(p, "finish", r), Critical(p, r))

Finish(p) ==
  LET r == loc[p].rec IN
  /\ At(p, "finish")
  /\ Journal({<<"failed", c>> : c \in With(r, "failed")} \cup {<<"apply", r.state>>},
            Goto(p, "complete"), Critical(p, r))

CompleteLedger(p) ==
  /\ At(p, "complete")
  /\ AskRepository(CompletePlan(loc[p].lease),
       IF reply'.status = "consumed"
         THEN Return(p, IF loc[p].rec.state = "accepted" THEN "applied" ELSE "failed")
         ELSE Critical(p, loc[p].rec))

-----------------------------------------------------------------------------
(* _finish_unknown: close, contain, and read what became of the write. *)

UnknownPoint(r) == IF r.state = "in-progress" THEN "closeunknown" ELSE "unknownaudit"
UnknownChild(r) == Min(Stopping(r))

CloseUnknown(p) ==
  LET r == Finalize(loc[p].rec) IN
  At(p, "closeunknown") /\ Save(r, Jump(p, "unknownaudit", r), Critical(p, r))

\* Without a lease the ledger is quarantined already.
UnknownAudit(p) ==
  LET r == loc[p].rec IN
  /\ At(p, "unknownaudit")
  /\ Journal({<<r.kids[UnknownChild(r)].disp, UnknownChild(r)>>, <<"apply", "unknown">>},
            Goto(p, IF loc[p].lease = NoToken THEN "resolve" ELSE "contain"),
            Critical(p, r))

Contain(p) ==
  /\ At(p, "contain")
  /\ AskRepository(QuarantinePlan(loc[p].lease, "unknown-dispatch"),
       IF reply'.status = "quarantined" THEN Goto(p, "resolve")
       ELSE Critical(p, loc[p].rec))

\* Retained evidence is not read again.  A read compares the identity, the slice and the
\* preferred value, never an etag or a trace: whoever asked for that value, the write
\* counts as accepted, and whether the value is there the model leaves open.
Resolve(p) ==
  LET c == UnknownChild(loc[p].rec) IN
  /\ At(p, "resolve") /\ Quiet /\ UNCHANGED <<durable, provider>>
  /\ \/ /\ UNCHANGED faults
        /\ IF c \in resolved THEN Goto(p, "resolvedaudit")
           ELSE Goto(p, "append") \/ Return(p, "unknown")
     \/ Critical(p, loc[p].rec) /\ Charge(1)

\* Evidence recorded meanwhile by another call conflicts, unless it is the same.
AppendResolution(p) ==
  LET c == UnknownChild(loc[p].rec) IN
  /\ At(p, "append") /\ Quiet /\ UNCHANGED <<record, audit, provider>>
  /\ \/ Goto(p, "resolvedaudit") /\ resolved' = resolved \cup {c} /\ UNCHANGED faults
     \/ c \in resolved /\ Critical(p, loc[p].rec) /\ UNCHANGED <<resolved, faults>>
     \/ resolved' \in {resolved, resolved \cup {c}} /\ Critical(p, loc[p].rec) /\ Charge(1)

ResolvedAudit(p) ==
  /\ At(p, "resolvedaudit")
  /\ Journal({<<"resolved", UnknownChild(loc[p].rec)>>},
            Return(p, "unknown"), Critical(p, loc[p].rec))

-----------------------------------------------------------------------------
(* _pre_dispatch_failure: nothing was sent for the child at hand. *)

StopRemaining(p) ==
  LET r == StopPending(loc[p].rec) IN
  /\ At(p, "predispatch")
  /\ IF MayStopPending(loc[p].rec)
       THEN Save(r, Jump(p, "prequarantine", r), Critical(p, loc[p].rec))
       ELSE Local /\ Return(p, "raised")

PreQuarantine(p) ==
  /\ At(p, "prequarantine")
  /\ AskRepository(QuarantinePlan(loc[p].lease, "dispatch-intent-persistence-failed"),
       IF reply'.status = "quarantined" THEN Goto(p, "preauditfail")
       ELSE Critical(p, loc[p].rec))

PreAuditFail(p) ==
  /\ At(p, "preauditfail")
  /\ Journal({<<"apply", "prewrite">>}, Return(p, "stopped"), Critical(p, loc[p].rec))

-----------------------------------------------------------------------------
(* _critical_unknown: quarantine and record evidence, as far as it goes. *)

CriticalQuarantine(p) ==
  /\ At(p, "critical")
  /\ AskRepository(QuarantinePlan(loc[p].lease, "critical-unknown"), Goto(p, "evidence"))

\* The evidence starts from the durable record, or from the copy at hand.
Evidence(p) ==
  LET Begun(r) == /\ loc' = [loc EXCEPT ![p].pc = "evidencesave",
                                        ![p].todo = EvidenceWrites(r)]
                  /\ UNCHANGED told IN
  /\ At(p, "evidence") /\ Quiet /\ UNCHANGED <<durable, provider>>
  /\ \/ Begun(record) /\ UNCHANGED faults
     \/ Begun(loc[p].rec) /\ Charge(1)

\* The next write is tried whether or not this one was stored.
EvidenceSave(p) ==
  LET rest == Tail(loc[p].todo)
      Done == /\ loc' = [loc EXCEPT ![p].todo = rest,
                           ![p].pc = IF rest = <<>> THEN "evidenceaudit" ELSE @]
              /\ UNCHANGED told IN
  At(p, "evidencesave") /\ Save(Head(loc[p].todo), Done, Done)

EvidenceAudit(p) ==
  /\ At(p, "evidenceaudit")
  /\ Journal({<<"apply", "critical">>}, Return(p, "critical"), Return(p, "critical"))

-----------------------------------------------------------------------------
(* _resume: continue from a record that an earlier call left. *)

\* A faulty resume: an unknown Apply is finished like one that ended.
ResumeFinishesUnknown(r, status, why, drift) ==
  IF status = "consumed" /\ r.state = "accepted" /\ ~drift THEN "project"
  ELSE IF status \notin LiveStates THEN "idle"
  ELSE IF drift THEN "critical"
  ELSE IF r.state # "in-progress" /\ status = "dispatched" THEN "finish" ELSE "reaudit"

\* Where a resume goes with the record it loaded and the repository's answer.
ResumePoint(r, status, why, drift) ==
  LET prewrite == /\ status = "quarantined" /\ r.state = "failed"
                  /\ why = "dispatch-intent-persistence-failed"
                  /\ With(r, "failed") = {}
      ended == r.state \in {"accepted", "failed"} IN
  IF status = "consumed" /\ ended /\ ~drift THEN "project"
  ELSE IF /\ status \notin LiveStates /\ ~prewrite
          /\ ~(status = "quarantined" /\ r.state = "unknown") THEN "idle"
  ELSE IF drift THEN "critical"
  ELSE IF prewrite THEN "preauditfail"
  ELSE IF ended THEN IF status = "dispatched" THEN "finish" ELSE "critical"
  ELSE "reaudit"

Resume(p) ==
  LET r == loc[p].rec IN
  /\ At(p, "resume")
  /\ \E drift \in BOOLEAN :
       AskRepository(ResumeDispatched(loc[p].now),
         LET pc == ResumePoint(r, reply'.status, ledger'.reason, drift)
             lease == reply'.token IN
         IF pc = "idle" THEN Return(p, "unavailable")
         ELSE /\ loc' = [loc EXCEPT ![p].lease = lease, ![p].mode = reply'.status,
                  ![p].pc = IF pc = "critical" /\ lease = NoToken THEN "evidence" ELSE pc]
              /\ UNCHANGED told)

\* _project_consumed_terminal: repeat the audit of a finished Apply.
Project(p) ==
  LET r == loc[p].rec IN
  /\ At(p, "project")
  /\ Journal({<<r.kids[c].disp, c>> : c \in With(r, "accepted") \cup With(r, "failed")}
              \cup {<<"apply", r.state>>},
            Return(p, IF r.state = "accepted" THEN "applied" ELSE "failed"),
            Critical(p, r))

\* After the accepted children are audited: settle a child that stopped or was
\* left open, or go on with the children.
Reaudit(p) ==
  LET r == loc[p].rec  mode == loc[p].mode
      stopped == Stopping(r) # {}
      open == Unresolved(r) IN
  /\ At(p, "reaudit")
  /\ Journal({<<"accepted", c>> : c \in With(r, "accepted")},
       IF ~stopped /\ open = {} THEN Goto(p, "revalidate")
       ELSE IF mode = "leased" \/ (mode = "quarantined" /\ ~stopped) THEN Critical(p, r)
       ELSE IF ~stopped THEN Jump(p, "outcome", Outcome(r, Min(open), "unknown"))
       ELSE IF UnknownChild(r) \in With(r, "failed") THEN Goto(p, "close")
       ELSE Goto(p, UnknownPoint(r)),
       Critical(p, r))

Revalidate(p) ==
  LET r == loc[p].rec  leased == loc[p].mode = "leased" IN
  /\ At(p, "revalidate") /\ Local
  /\ \/ Goto(p, IF leased THEN "mark" ELSE NextPoint(r))
     \/ IF ~leased THEN Critical(p, r)
        ELSE IF MayStopAll(r) THEN Goto(p, "stopall") ELSE Return(p, "raised")

StopUnattempted(p) ==
  LET r == StopAll(loc[p].rec) IN
  At(p, "stopall") /\ Save(r, Jump(p, "invalidate", r), Critical(p, loc[p].rec))

InvalidateLedger(p) ==
  /\ At(p, "invalidate")
  /\ AskRepository(InvalidatePlan(loc[p].lease, "child-evidence-drift"),
       IF reply'.status = "invalidated" THEN Goto(p, "invalidaudit")
       ELSE Return(p, "refused"))

InvalidAudit(p) ==
  /\ At(p, "invalidaudit")
  /\ Journal({<<"apply", "invalidated">>}, Return(p, "refused"), Return(p, "refused"))

-----------------------------------------------------------------------------
(* The environment. *)

Crash(p) == ~At(p, "idle") /\ Local /\ Return(p, "none")

\* A write whose answer was lost arrives after all.
Land(c) ==
  /\ truth[c] = "inflight" /\ truth' = [truth EXCEPT ![c] = "applied"]
  /\ UNCHANGED <<vars, durable, sent, loc, told, calls, faults>>

TimePasses == Tick /\ UNCHANGED <<durable, provider, loc, told, calls, faults>>

Rest ==
  /\ calls = MaxCalls /\ \A p \in Procs : At(p, "idle")
  /\ UNCHANGED allVars

Step(p) ==
  \/ LoadRecord(p) \/ Reject(p) \/ LoadPlan(p) \/ Lease(p) \/ PreAudit(p)
  \/ Create(p) \/ Mark(p) \/ IntendAudit(p) \/ SaveIntent(p) \/ Write(p)
  \/ SaveOutcome(p) \/ ResultAudit(p) \/ Close(p) \/ Finish(p)
  \/ CompleteLedger(p) \/ CloseUnknown(p) \/ UnknownAudit(p) \/ Contain(p)
  \/ Resolve(p) \/ AppendResolution(p) \/ ResolvedAudit(p) \/ StopRemaining(p)
  \/ PreQuarantine(p) \/ PreAuditFail(p) \/ CriticalQuarantine(p) \/ Evidence(p)
  \/ EvidenceSave(p) \/ EvidenceAudit(p) \/ Resume(p) \/ Project(p) \/ Reaudit(p)
  \/ Revalidate(p) \/ StopUnattempted(p) \/ InvalidateLedger(p) \/ InvalidAudit(p)

ApplyNext ==
  \/ \E p \in Procs : Begin(p) \/ Step(p) \/ Crash(p)
  \/ \E c \in Children : Land(c)
  \/ TimePasses \/ Rest

ApplySpec == ApplyInit /\ [][ApplyNext]_allVars

-----------------------------------------------------------------------------
(* Properties. *)

\* No child is written twice, whatever calls race, fail, crash or resume.
AtMostOneWrite == \A c \in Children : sent[c] <= 1

\* When a write leaves, the marker is in the keyring and the journal holds the intent
\* and the acceptance of every earlier child, also when calls race.  When a resolution is
\* recorded, the journal holds the unknown outcome that it resolves.
WriteBehindJournal ==
  [][\A c \in Children :
       /\ sent'[c] # sent[c] =>
            /\ marker /\ <<"intent", c>> \in audit
            /\ \A d \in 1..(c - 1) : <<"accepted", d>> \in audit
       /\ c \in resolved' \ resolved => <<"unknown", c>> \in audit]_allVars

\* What the record says of a finished write is what the provider answered, however calls
\* race, fail and resume: an accepted child is applied there, and a failed one was
\* refused or answered with another echo.  A write whose answer was lost is neither.
EvidenceIsTrue ==
  \A c \in Children :
    /\ c \in With(record, "accepted") => truth[c] = "applied"
    /\ c \in With(record, "failed") => truth[c] \in {"rejected", "conflicting"}

\* docs/verification-distribution-contract.md: every dispatched child has one durable
\* intent.  The record never forgets a write that was sent.
DispatchIsOnRecord == \A c \in Children : sent[c] > 0 => c \in Intended(record)

\* Neither a disposition nor the intent of a write that was sent is ever taken back or
\* changed, although a call works on from a copy of the record that a save reported as
\* failed has overtaken.  The intent of a write that was not sent may be lost.
DispositionsAreFinal ==
  [][/\ {c \in Intended(record) : sent[c] > 0} \subseteq Intended(record')
     /\ \A disp \in Dispositions \ {"none"} : With(record, disp) \subseteq With(record', disp)]_allVars

\* "applied" is only answered when the provider has applied every child, the journal
\* says so of each and of the whole, and the ledger is closed, also when calls race.
AppliedMeansAll ==
  told = "applied" =>
    /\ \A c \in Children : truth[c] = "applied" /\ <<"accepted", c>> \in audit
    /\ <<"apply", "accepted">> \in audit /\ ledger.state = "consumed"

\* A consumed ledger belongs to an Apply that is settled in record and journal.
ConsumedIsSettled ==
  ledger.state = "consumed" =>
    /\ Unresolved(record) = {} /\ With(record, "none") = {}
    /\ With(record, "unknown") = {}
    /\ \E s \in {"accepted", "failed"} : <<"apply", s>> \in audit

\* docs/adr/0005: a dispatch intent without a terminal outcome becomes a durable
\* unknown.  A call that finished without crashing leaves no such intent.
InterruptedBecomesUnknown == told = "unavailable" => Unresolved(record) = {}
=============================================================================
