-------------------------- MODULE ApplyPlanProofs --------------------------
(***************************************************************************)
(* Theorems of ApplyPlan, for any number of children, processes, calls and *)
(* faults, and whatever the plan repository answers.                       *)
(***************************************************************************)
EXTENDS ApplyPlan, TLAPS

-----------------------------------------------------------------------------
(* The inductive invariant. *)

InProgress(r) == r.state = "in-progress"

\* While an Apply is in progress its children are written in their order, and only what
\* was intended has an outcome.
Ordered(r) ==
  /\ \A c \in Intended(r), d \in Children : d < c => d \in With(r, "accepted")
  /\ \A c \in Children \ Intended(r) : c \in With(r, "none")

\* What a record says of a finished write is so.
Truthful(r, t) ==
  \A c \in Children :
    /\ c \in With(r, "accepted") => t[c] = "applied"
    /\ c \in With(r, "failed") => t[c] \in {"rejected", "conflicting"}

Sound(r, t) == r \in Records /\ (InProgress(r) => Ordered(r)) /\ Truthful(r, t)
RecordOk(r) == Sound(r, truth)

\* A copy of a record that was durable: the durable one, or an older one.
Saved(r) == r.rev <= record.rev /\ (r.rev = record.rev => r = record)

\* A record to be saved.  If it still succeeds the durable one, nobody has begun another
\* child since.
Ahead(r) ==
  /\ r.rev <= record.rev + 1
  /\ r.rev = record.rev + 1 => InProgress(record) /\ Intended(r) = Intended(record)

\* An Apply in progress that waits for no outcome: evidence is recorded by ending it.
Decided(r) == InProgress(r) => Unresolved(r) = {}

\* The durable record knows that the child was begun, or begins no child any more.
Claimed(c) == record.rev >= 0 /\ (InProgress(record) => c \in Intended(record))

Current(l) == Max(Intended(l.rec))
Writing(l) ==
  /\ InProgress(l.rec) /\ Current(l) \in Unresolved(l.rec)
  /\ sent[Current(l)] = 0 /\ Claimed(Current(l))

Unsaved == {"outcome", "critical", "evidence", "evidencesave", "evidenceaudit"}

ProcOk(l) ==
  /\ l.pc \in Points /\ RecordOk(l.rec)
  /\ l.pc \notin Unsaved => Saved(l.rec)
  /\ l.pc = "outcome" => Decided(l.rec) /\ (InProgress(l.rec) => Ahead(l.rec))
  /\ l.pc \in {"critical", "evidence"} => Saved(l.rec) \/ Decided(l.rec)
  /\ l.pc = "evidencesave" =>
       /\ l.todo \in Seq(Records) /\ l.todo # <<>>
       /\ \A i \in DOMAIN l.todo :
            RecordOk(l.todo[i]) /\ (InProgress(l.todo[i]) => Ahead(l.todo[i]))
  /\ l.pc = "intent" => MayIntend(l.rec, Min(Pending(l.rec)))
  /\ l.pc = "write" => Writing(l)

StoreInv ==
  /\ RecordOk(record) /\ record.rev >= -1 /\ (record.rev = -1 => record = NoRecord)
  /\ sent \in [Children -> Nat] /\ truth \in [Children -> Truths]
  /\ \A c \in Children :
       /\ sent[c] <= 1 /\ (sent[c] > 0 => Claimed(c))
       /\ sent[c] = 0 => truth[c] = "none"

Shaped ==
  loc = [p \in Procs |->
          [pc |-> loc[p].pc, now |-> loc[p].now, rec |-> loc[p].rec,
           lease |-> loc[p].lease, mode |-> loc[p].mode, todo |-> loc[p].todo]]

WriteInv ==
  /\ StoreInv /\ Shaped /\ \A p \in Procs : ProcOk(loc[p])
  /\ \A p, q \in Procs : At(p, "write") /\ At(q, "write") /\ p # q =>
       Current(loc[p]) # Current(loc[q])

-----------------------------------------------------------------------------
(* The transitions of a record. *)

LEMMA EarlierIsOurs ==
  /\ Children \subseteq Int
  /\ \A c \in Children : \A d \in 1..(c - 1) : d \in Children /\ d < c
  /\ \A c, d \in Children : d < c => d \in 1..(c - 1)
BY ChildrenAssumption DEF Children

LEMMA RevisedFields ==
  ASSUME NEW r, NEW state, NEW kids
  PROVE  /\ Revised(r, state, kids).state = state /\ Revised(r, state, kids).kids = kids
         /\ Revised(r, state, kids).rev = r.rev + 1
BY DEF Revised

LEMMA RevisedTyped ==
  ASSUME NEW r \in Records, NEW state \in RecordStates,
         NEW kids \in [Children -> [intent: BOOLEAN, disp: Dispositions]]
  PROVE  Revised(r, state, kids) \in Records
BY DEF Revised, Records

LEMMA DisposedKids ==
  ASSUME NEW r \in Records, NEW cs, NEW disp \in Dispositions
  PROVE  /\ Disposed(r, cs, disp) \in [Children -> [intent: BOOLEAN, disp: Dispositions]]
         /\ \A c \in Children :
              /\ Disposed(r, cs, disp)[c].intent = r.kids[c].intent
              /\ Disposed(r, cs, disp)[c].disp = IF c \in cs THEN disp ELSE r.kids[c].disp
<1>1. \A c \in Children : r.kids[c] \in [intent: BOOLEAN, disp: Dispositions]
  BY DEF Records
<1>2. \A c \in Children : Disposed(r, cs, disp)[c] =
        IF c \in cs THEN [r.kids[c] EXCEPT !.disp = disp] ELSE r.kids[c]
  BY DEF Disposed
<1>3. \A c \in Children : [r.kids[c] EXCEPT !.disp = disp] =
        [intent |-> r.kids[c].intent, disp |-> disp]
  BY <1>1
<1> QED BY <1>1, <1>2, <1>3 DEF Disposed

LEMMA IntendOk ==
  ASSUME NEW r, NEW t, Sound(r, t), NEW c, MayIntend(r, c)
  PROVE  LET n == Intend(r, c) IN
         /\ Sound(n, t) /\ InProgress(n) /\ n.rev = r.rev + 1 /\ c \in Children
         /\ Intended(n) = Intended(r) \cup {c}
         /\ c \in Unresolved(n) /\ Max(Intended(n)) = c
<1> DEFINE kids == [r.kids EXCEPT ![c].intent = TRUE]
           n == Intend(r, c)
<1>1. c \in Children /\ r \in Records /\ InProgress(r) /\ Ordered(r) /\ Truthful(r, t)
      /\ c \notin Intended(r) /\ c \in With(r, "none") /\ 1..(c - 1) \subseteq With(r, "accepted")
  BY DEF MayIntend, Sound, InProgress, With
<1>2. /\ kids \in [Children -> [intent: BOOLEAN, disp: Dispositions]]
      /\ \A d \in Children : kids[d].disp = r.kids[d].disp
                             /\ kids[d].intent = (IF d = c THEN TRUE ELSE r.kids[d].intent)
  BY <1>1 DEF Records
<1>3. n.kids = kids /\ n.state = "in-progress" /\ n.rev = r.rev + 1 /\ n \in Records
  <2>1. r.state = "in-progress" /\ "in-progress" \in RecordStates
    BY <1>1 DEF InProgress, RecordStates
  <2>2. n = Revised(r, r.state, kids)
    BY DEF Intend
  <2> HIDE DEF kids, n
  <2> QED BY <1>1, <1>2, <2>1, <2>2, RevisedFields, RevisedTyped
<1> HIDE DEF n, kids
<1>4. Intended(n) = Intended(r) \cup {c} /\ \A disp : With(n, disp) = With(r, disp)
  <2>1. ASSUME NEW d \in Children PROVE d \in Intended(n) <=> d = c \/ d \in Intended(r)
    BY <1>2, <1>3, <2>1 DEF Intended
  <2>2. Intended(n) = Intended(r) \cup {c}
    BY <1>1, <2>1 DEF Intended
  <2>3. \A disp : With(n, disp) = With(r, disp)
    BY <1>2, <1>3 DEF With
  <2> QED BY <2>2, <2>3
<1>5. Ordered(n)
  BY <1>1, <1>4, EarlierIsOurs DEF Ordered
<1>6. Truthful(n, t)
  BY <1>1, <1>4 DEF Truthful
<1>7. \A d \in Intended(r) : d < c
  <2> SUFFICES ASSUME NEW d \in Intended(r), ~(d < c) PROVE FALSE
    OBVIOUS
  <2>1. d \in Children /\ d # c /\ c < d
    BY <1>1, EarlierIsOurs DEF Intended
  <2>2. c \in With(r, "accepted")
    BY <1>1, <2>1 DEF Ordered
  <2> QED BY <1>1, <2>2 DEF With
<1>8. Max(Intended(n)) = c
  <2>1. c \in Intended(n) /\ \A d \in Intended(n) : c >= d
    BY <1>1, <1>4, <1>7, EarlierIsOurs DEF Intended
  <2>2. \A d \in Intended(n) : (\A e \in Intended(n) : d >= e) => d = c
    BY <2>1, <1>1, EarlierIsOurs DEF Intended
  <2> QED BY <2>1, <2>2 DEF Max
<1> QED BY <1>1, <1>3, <1>4, <1>5, <1>6, <1>8 DEF n, Sound, InProgress, Unresolved

\* At most one child of an Apply in progress is open, and at most one has stopped it.
LEMMA OneOpen ==
  ASSUME NEW r, NEW t, Sound(r, t), InProgress(r)
  PROVE  /\ Unresolved(r) # {} => Min(Unresolved(r)) \in Unresolved(r)
         /\ Stopping(r) # {} => Min(Stopping(r)) \in Stopping(r)
         /\ \A c, d \in Unresolved(r) \cup Stopping(r) : c = d
<1>1. \A c \in Unresolved(r) \cup Stopping(r) :
        c \in Children /\ c \in Intended(r) /\ c \notin With(r, "accepted")
  BY DEF Unresolved, Stopping, With, Intended, Sound, Ordered
<1>2. ASSUME NEW c \in Unresolved(r) \cup Stopping(r), NEW d \in Unresolved(r) \cup Stopping(r)
      PROVE  c = d
  <2>1. ~(c < d) /\ ~(d < c)
    BY <1>1, <1>2 DEF Sound, Ordered
  <2>2. c \in Int /\ d \in Int
    BY <1>1, <1>2, EarlierIsOurs
  <2> QED BY <2>1, <2>2
<1>3. ASSUME NEW S, S \subseteq Unresolved(r) \cup Stopping(r), S # {}
      PROVE  Min(S) \in S
  <2>1. PICK c \in S : TRUE
    BY <1>3
  <2>2. c \in Int /\ \A d \in S : d = c
    BY <1>1, <1>2, <1>3, <2>1, EarlierIsOurs
  <2>3. \E m \in S : \A y \in S : m =< y
    BY <2>1, <2>2
  <2> QED BY <2>3 DEF Min
<1> QED BY <1>2, <1>3

LEMMA OutcomeOk ==
  ASSUME NEW r, NEW t, Sound(r, t), NEW c, NEW disp \in Dispositions \ {"none"},
         InProgress(r) => c \in Unresolved(r),
         c \in Children =>
           /\ disp = "accepted" => t[c] = "applied"
           /\ disp = "failed" => t[c] \in {"rejected", "conflicting"}
  PROVE  LET n == Outcome(r, c, disp) IN
         /\ Sound(n, t) /\ n.state = r.state /\ n.rev = r.rev + 1
         /\ Intended(n) = Intended(r) /\ Decided(n)
<1> DEFINE n == Outcome(r, c, disp)
           kids == Disposed(r, {c}, disp)
<1>1. r \in Records /\ r.state \in RecordStates /\ Truthful(r, t)
  BY DEF Sound, Records
<1>2. /\ kids \in [Children -> [intent: BOOLEAN, disp: Dispositions]]
      /\ \A d \in Children : kids[d].intent = r.kids[d].intent
           /\ kids[d].disp = IF d = c THEN disp ELSE r.kids[d].disp
  BY <1>1, DisposedKids
<1>3. n = Revised(r, r.state, kids)
  BY DEF Outcome
<1> HIDE DEF n, kids
<1>4. n \in Records /\ n.kids = kids /\ n.state = r.state /\ n.rev = r.rev + 1
  BY <1>1, <1>2, <1>3, RevisedFields, RevisedTyped
<1>5. Intended(n) = Intended(r)
  BY <1>2, <1>4 DEF Intended
<1>6. /\ \A x : \A d \in Children \ {c} : d \in With(n, x) <=> d \in With(r, x)
      /\ \A x : c \in With(n, x) => x = disp
  BY <1>2, <1>4 DEF With
<1>7. Truthful(n, t)
  BY <1>1, <1>6 DEF Truthful
<1>8. ASSUME InProgress(n) PROVE Ordered(n) /\ Unresolved(n) = {}
  <2>1. InProgress(r) /\ Ordered(r) /\ c \in Unresolved(r)
    BY <1>4, <1>8 DEF InProgress, Sound
  <2>2. c \in Children /\ c \in Intended(r) /\ c \notin With(r, "accepted")
    BY <2>1 DEF Unresolved, With, Intended
  <2>3. \A d, e \in Children : d \in Intended(r) /\ e < d => e # c
    BY <2>1, <2>2 DEF Ordered
  <2>4. Ordered(n)
    BY <1>5, <1>6, <2>1, <2>2, <2>3 DEF Ordered, Intended
  <2>5. Unresolved(n) = {}
    <3> SUFFICES ASSUME NEW d \in Unresolved(n) PROVE FALSE
      OBVIOUS
    <3>1. d \in Children /\ d \in Intended(r) /\ d \in With(n, "none")
      BY <1>5 DEF Unresolved, Intended
    <3>2. d # c
      BY <1>6, <3>1
    <3>3. d \in Unresolved(r)
      BY <1>6, <3>1, <3>2 DEF Unresolved
    <3> QED BY <2>1, <3>2, <3>3, OneOpen
  <2> QED BY <2>4, <2>5
<1> QED BY <1>4, <1>5, <1>7, <1>8 DEF n, Sound, Decided

LEMMA EndedOk ==
  ASSUME NEW r, NEW t, Sound(r, t), NEW state \in RecordStates \ {"in-progress"}, NEW cs,
         NEW disp \in {"unattempted", "unknown"}
  PROVE  /\ Sound(Revised(r, state, Disposed(r, cs, disp)), t)
         /\ Sound(Revised(r, state, r.kids), t)
<1>1. r \in Records /\ Truthful(r, t) /\ disp \in Dispositions
      /\ r.kids \in [Children -> [intent: BOOLEAN, disp: Dispositions]]
  BY DEF Sound, Records, Dispositions
<1> DEFINE kids == Disposed(r, cs, disp)
           n == Revised(r, state, kids)
           m == Revised(r, state, r.kids)
<1>2. /\ kids \in [Children -> [intent: BOOLEAN, disp: Dispositions]]
      /\ \A d \in Children : kids[d].disp = IF d \in cs THEN disp ELSE r.kids[d].disp
  BY <1>1, DisposedKids
<1> HIDE DEF kids
<1>3. n \in Records /\ m \in Records /\ n.kids = kids /\ m.kids = r.kids
      /\ n.state = state /\ m.state = state
  BY <1>1, <1>2, RevisedFields, RevisedTyped
<1> HIDE DEF n, m
<1>4. Truthful(n, t) /\ Truthful(m, t)
  BY <1>1, <1>2, <1>3 DEF Truthful, With
<1> QED BY <1>3, <1>4 DEF n, m, kids, Sound, InProgress

\* What ends an Apply, and the evidence of a critical unknown.
LEMMA EndsOk ==
  ASSUME NEW r, NEW t, Sound(r, t)
  PROVE  /\ Sound(Finalize(r), t) /\ ~InProgress(Finalize(r))
         /\ Finalize(r) = r \/ Finalize(r).rev = r.rev + 1
         /\ Sound(StopAll(r), t) /\ ~InProgress(StopAll(r)) /\ StopAll(r).rev = r.rev + 1
         /\ Sound(StopPending(r), t) /\ ~InProgress(StopPending(r))
         /\ StopPending(r).rev = r.rev + 1
         /\ Sound(MarkCritical(r), t) /\ ~InProgress(MarkCritical(r))
         /\ MarkCritical(r).rev = r.rev + 1
<1>1. /\ "accepted" \in RecordStates \ {"in-progress"} /\ "failed" \in RecordStates \ {"in-progress"}
      /\ "critical-unknown" \in RecordStates \ {"in-progress"}
      /\ {"failed", "unknown"} \subseteq RecordStates \ {"in-progress"}
  BY DEF RecordStates
<1>2. Sound(StopAll(r), t) /\ Sound(StopPending(r), t) /\ Sound(MarkCritical(r), t)
  BY <1>1, EndedOk DEF StopAll, StopPending, MarkCritical
<1>3. /\ ~InProgress(StopAll(r)) /\ StopAll(r).rev = r.rev + 1
      /\ ~InProgress(StopPending(r)) /\ StopPending(r).rev = r.rev + 1
      /\ ~InProgress(MarkCritical(r)) /\ MarkCritical(r).rev = r.rev + 1
  BY RevisedFields DEF StopAll, StopPending, MarkCritical, InProgress
<1>4. CASE ~InProgress(r)
  BY <1>2, <1>3, <1>4 DEF Finalize, InProgress
<1>5. CASE InProgress(r) /\ Stopping(r) = {}
  <2>1. Finalize(r) = Revised(r, "accepted", r.kids)
    BY <1>5 DEF Finalize, InProgress
  <2> QED BY <1>1, <1>2, <1>3, <2>1, EndedOk, RevisedFields DEF InProgress
<1>6. CASE InProgress(r) /\ Stopping(r) # {}
  <2> DEFINE stop == Min(Stopping(r))
             cs == With(r, "none") \cap (stop + 1)..NChildren
  <2>1. stop \in Stopping(r)
    BY <1>6, OneOpen
  <2>2. r.kids[stop].disp \in {"failed", "unknown"}
    BY <2>1 DEF Stopping, With
  <2>3. Finalize(r) = Revised(r, r.kids[stop].disp, Disposed(r, cs, "unattempted"))
    BY <1>6 DEF Finalize, InProgress
  <2> HIDE DEF stop, cs
  <2>4. Sound(Finalize(r), t) /\ Finalize(r).state = r.kids[stop].disp
        /\ Finalize(r).rev = r.rev + 1
    BY <1>1, <2>2, <2>3, EndedOk, RevisedFields
  <2> QED BY <1>2, <1>3, <2>2, <2>4 DEF InProgress
<1> QED BY <1>4, <1>5, <1>6

\* The records of critical evidence, from the durable record or from the copy at hand.
LEMMA EvidenceOk ==
  ASSUME NEW r, RecordOk(r), Saved(r) \/ Decided(r), record.rev \in Int, r.rev \in Int
  PROVE  LET w == EvidenceWrites(r) IN
         /\ w \in Seq(Records) /\ w # <<>>
         /\ \A i \in DOMAIN w : RecordOk(w[i]) /\ (InProgress(w[i]) => Ahead(w[i]))
<1>1. CASE Unresolved(r) # {}
  <2> DEFINE open == Min(Unresolved(r))
             u == Outcome(r, open, "unknown")
             e == Finalize(u)
  <2>1. /\ RecordOk(u) /\ u.state = r.state /\ u.rev = r.rev + 1 /\ Intended(u) = Intended(r)
    <3>1. InProgress(r) => open \in Unresolved(r)
      BY <1>1, OneOpen DEF RecordOk
    <3>2. "unknown" \in Dispositions \ {"none"}
      BY DEF Dispositions
    <3> HIDE DEF open
    <3> QED BY <3>1, <3>2, OutcomeOk DEF RecordOk
  <2>2. EvidenceWrites(r) = <<u, e, MarkCritical(e)>>
    BY <1>1 DEF EvidenceWrites
  <2>3. InProgress(u) => Ahead(u)
    BY <1>1, <2>1 DEF Ahead, Saved, Decided, InProgress
  <2> HIDE DEF u
  <2>4. RecordOk(e) /\ ~InProgress(e) /\ RecordOk(MarkCritical(e)) /\ ~InProgress(MarkCritical(e))
    BY <2>1, EndsOk DEF RecordOk
  <2> HIDE DEF e
  <2>5. u \in Records /\ e \in Records /\ MarkCritical(e) \in Records
    BY <2>1, <2>4 DEF RecordOk, Sound
  <2> QED BY <2>1, <2>2, <2>3, <2>4, <2>5
<1>2. CASE Unresolved(r) = {}
  <2>1. RecordOk(StopAll(r)) /\ ~InProgress(StopAll(r))
        /\ RecordOk(MarkCritical(r)) /\ ~InProgress(MarkCritical(r))
    BY EndsOk DEF RecordOk
  <2>2. RecordOk(MarkCritical(StopAll(r))) /\ ~InProgress(MarkCritical(StopAll(r)))
    BY <2>1, EndsOk DEF RecordOk
  <2>3. EvidenceWrites(r) \in {<<StopAll(r), MarkCritical(StopAll(r))>>, <<MarkCritical(r)>>}
    BY <1>2 DEF EvidenceWrites
  <2>4. {StopAll(r), MarkCritical(r), MarkCritical(StopAll(r))} \subseteq Records
    BY <2>1, <2>2 DEF RecordOk, Sound
  <2>5. CASE EvidenceWrites(r) = <<StopAll(r), MarkCritical(StopAll(r))>>
    BY <2>1, <2>2, <2>4, <2>5
  <2>6. CASE EvidenceWrites(r) = <<MarkCritical(r)>>
    BY <2>1, <2>4, <2>6
  <2> QED BY <2>3, <2>5, <2>6
<1> QED BY <1>1, <1>2

-----------------------------------------------------------------------------
(* How a process goes on. *)

\* What a step leaves of the stores and of the provider.
Undisturbed == UNCHANGED <<record, sent, truth>>

\* The step of p ends with the local state l; the other processes are where they were.
Moves(p, l) ==
  /\ loc' = [q \in Procs |-> IF q = p THEN l ELSE loc[q]]
  /\ l = [pc |-> l.pc, now |-> l.now, rec |-> l.rec, lease |-> l.lease, mode |-> l.mode,
          todo |-> l.todo]

\* The local variables of m besides its control point and its copy.
Carries(l, m) == l.now = m.now /\ l.lease = m.lease /\ l.mode = m.mode /\ l.todo = m.todo

LEMMA LocalsShaped ==
  ASSUME WriteInv
  PROVE  /\ DOMAIN loc = Procs /\ loc = [q \in Procs |-> loc[q]]
         /\ \A q \in Procs :
              loc[q] = [pc |-> loc[q].pc, now |-> loc[q].now, rec |-> loc[q].rec,
                        lease |-> loc[q].lease, mode |-> loc[q].mode, todo |-> loc[q].todo]
BY DEF WriteInv, Shaped

LEMMA JumpMoves ==
  ASSUME WriteInv, NEW p \in Procs, NEW pc, NEW r, Jump(p, pc, r)
  PROVE  \E l : Moves(p, l) /\ l.pc = pc /\ l.rec = r /\ Carries(l, loc[p])
<1>1. PICK l : l = [pc |-> pc, now |-> loc[p].now, rec |-> r, lease |-> loc[p].lease,
                    mode |-> loc[p].mode, todo |-> loc[p].todo]
  OBVIOUS
<1>2. loc' = [q \in Procs |-> IF q = p THEN l ELSE loc[q]]
  <2>1. loc' = [[loc EXCEPT ![p].pc = pc] EXCEPT ![p].rec = r]
    BY DEF Jump
  <2>2. DOMAIN loc = Procs /\ loc = [q \in Procs |-> loc[q]] /\ loc' = [q \in Procs |-> loc'[q]]
    BY <2>1, LocalsShaped
  <2>3. loc[p] = [pc |-> loc[p].pc, now |-> loc[p].now, rec |-> loc[p].rec,
                  lease |-> loc[p].lease, mode |-> loc[p].mode, todo |-> loc[p].todo]
    BY LocalsShaped
  <2>4. loc'[p] = [[loc[p] EXCEPT !.pc = pc] EXCEPT !.rec = r]
    BY <2>1, <2>2
  <2>5. loc'[p] = l
    BY <1>1, <2>3, <2>4
  <2>6. \A q \in Procs \ {p} : loc'[q] = loc[q]
    BY <2>1, <2>2
  <2> QED BY <2>2, <2>5, <2>6
<1>3. Moves(p, l) /\ l.pc = pc /\ l.rec = r /\ Carries(l, loc[p])
  BY <1>1, <1>2 DEF Moves, Carries
<1> QED BY <1>3

LEMMA ReturnMoves ==
  ASSUME WriteInv, NEW p \in Procs, NEW answer, Return(p, answer)
  PROVE  Moves(p, Idle)
<1>1. loc' = [q \in Procs |-> IF q = p THEN Idle ELSE loc[q]]
  BY DEF Return, WriteInv, Shaped
<1> QED BY <1>1 DEF Moves, Idle

LEMMA IdleIsOk ==
  ASSUME StoreInv
  PROVE  ProcOk(Idle) /\ RecordOk(NoRecord) /\ NoRecord.rev = -1 /\ Idle.pc = "idle"
         /\ ~InProgress(NoRecord)
<1>1. /\ NoRecord \in Records /\ ~InProgress(NoRecord) /\ NoRecord.rev = -1
      /\ \A d \in {"accepted", "failed"} : With(NoRecord, d) = {}
  BY DEF NoRecord, Untouched, Records, Dispositions, RecordStates, InProgress, With
<1>2. RecordOk(NoRecord)
  BY <1>1 DEF RecordOk, Sound, Truthful
<1>3. Saved(NoRecord)
  BY <1>1 DEF Saved, StoreInv, RecordOk, Sound, Records
<1>4. Idle.pc = "idle" /\ Idle.rec = NoRecord
  BY DEF Idle
<1> QED BY <1>1, <1>2, <1>3, <1>4 DEF ProcOk, Points, Unsaved

\* A process moves and the stores stay as they are.
LEMMA MovesKeep ==
  ASSUME WriteInv, NEW p \in Procs, NEW l, Moves(p, l), ProcOk(l), l.pc # "write", Undisturbed
  PROVE  WriteInv'
<1>1. /\ StoreInv /\ Shaped /\ \A q \in Procs : ProcOk(loc[q])
      /\ \A q1, q2 \in Procs : At(q1, "write") /\ At(q2, "write") /\ q1 # q2 =>
           Current(loc[q1]) # Current(loc[q2])
  BY DEF WriteInv
<1>2. \A m : ProcOk(m) => ProcOk(m)'
  BY DEF Undisturbed, ProcOk, RecordOk, Saved, Ahead, Writing, Claimed
<1>3. StoreInv'
  BY <1>1 DEF Undisturbed, StoreInv, RecordOk, Claimed
<1>4. \A q \in Procs : loc'[q] = IF q = p THEN l ELSE loc[q]
  BY DEF Moves
<1>5. Shaped'
  BY <1>1 DEF Moves, Shaped
<1>6. \A q \in Procs : ProcOk(loc[q])'
  <2> SUFFICES ASSUME NEW q \in Procs PROVE ProcOk(loc[q])'
    OBVIOUS
  <2>1. PICK m : m = IF q = p THEN l ELSE loc[q]
    OBVIOUS
  <2>2. ProcOk(m)'
    BY <1>1, <1>2, <2>1
  <2>3. loc'[q] = m
    BY <1>4, <2>1
  <2> QED BY <2>2, <2>3 DEF ProcOk, RecordOk, Writing, Current
<1>7. \A q1, q2 \in Procs : At(q1, "write")' /\ At(q2, "write")' /\ q1 # q2 =>
        Current(loc'[q1]) # Current(loc'[q2])
  BY <1>1, <1>4 DEF At
<1> QED BY <1>3, <1>5, <1>6, <1>7 DEF WriteInv, Current, Intended

\* Where a process may go with no more to be known than that its copy was durable.
Plainly == Points \ {"intent", "write", "outcome", "evidencesave"}

LEMMA JumpKeeps ==
  ASSUME WriteInv, NEW p \in Procs, NEW pc \in Plainly, NEW r, RecordOk(r),
         pc \notin Unsaved => Saved(r),
         pc \in {"critical", "evidence"} => Saved(r) \/ Decided(r),
         Jump(p, pc, r), Undisturbed
  PROVE  WriteInv'
<1>1. PICK l : Moves(p, l) /\ l.pc = pc /\ l.rec = r
  BY JumpMoves
<1>2. ProcOk(l)
  BY <1>1 DEF ProcOk, Plainly, Unsaved
<1> QED BY <1>1, <1>2, MovesKeep DEF Plainly

LEMMA GotoKeeps ==
  ASSUME WriteInv, NEW p \in Procs, loc[p].pc \notin Unsaved,
         NEW pc \in Plainly, Goto(p, pc), Undisturbed
  PROVE  WriteInv'
BY JumpKeeps DEF Goto, WriteInv, ProcOk

LEMMA CriticalKeeps ==
  ASSUME WriteInv, NEW p \in Procs, NEW r, RecordOk(r), Saved(r) \/ Decided(r),
         Critical(p, r), Undisturbed
  PROVE  WriteInv'
BY JumpKeeps DEF Critical, Plainly, Points, Unsaved

\* Critical with the copy at hand.
LEMMA CriticalCopyKeeps ==
  ASSUME WriteInv, NEW p \in Procs, loc[p].pc \notin Unsaved, Critical(p, loc[p].rec), Undisturbed
  PROVE  WriteInv'
BY CriticalKeeps DEF WriteInv, ProcOk

LEMMA ReturnKeeps ==
  ASSUME WriteInv, NEW p \in Procs, NEW answer, Return(p, answer), Undisturbed
  PROVE  WriteInv'
BY ReturnMoves, IdleIsOk, MovesKeep DEF WriteInv

LEMMA RecordIsSaved ==
  ASSUME WriteInv
  PROVE  RecordOk(record) /\ Saved(record) /\ record.rev \in Int
         /\ \A p \in Procs : RecordOk(loc[p].rec) /\ loc[p].rec.rev \in Int
BY DEF WriteInv, StoreInv, ProcOk, Saved, RecordOk, Sound, Records

-----------------------------------------------------------------------------
(* The steps that leave the record and the provider alone. *)

LEMMA PreparingKeeps ==
  ASSUME WriteInv, NEW p \in Procs,
         \/ LoadRecord(p) \/ Reject(p) \/ LoadPlan(p) \/ PreAudit(p) \/ Mark(p)
  PROVE  WriteInv'
<1> USE DEF Plainly, Points, Unsaved, At, durable, provider
<1>1. CASE LoadRecord(p)
  <2>1. Undisturbed
    BY <1>1 DEF LoadRecord, Undisturbed
  <2> QED BY <1>1, <2>1, JumpKeeps, ReturnKeeps, RecordIsSaved DEF LoadRecord
<1>2. CASE Reject(p)
  BY <1>2, ReturnKeeps DEF Reject, Local, Undisturbed
<1>3. CASE LoadPlan(p)
  <2>1. Undisturbed /\ loc[p].pc = "plan" /\ (Goto(p, "lease") \/ Return(p, "refused"))
    BY <1>3 DEF LoadPlan, AskRepository, Undisturbed
  <2> QED BY <2>1, GotoKeeps, ReturnKeeps
<1>4. CASE PreAudit(p)
  BY <1>4, GotoKeeps, ReturnKeeps DEF PreAudit, Journal, Undisturbed
<1>5. CASE Mark(p)
  <2>1. Undisturbed /\ loc[p].pc = "mark"
        /\ (Goto(p, NextPoint(loc[p].rec)) \/ Return(p, "refused"))
    BY <1>5 DEF Mark, AskRepository, Undisturbed
  <2>2. NextPoint(loc[p].rec) \in {"close", "child", "critical"}
    BY DEF NextPoint
  <2> QED BY <2>1, <2>2, GotoKeeps, ReturnKeeps
<1> QED BY <1>1, <1>2, <1>3, <1>4, <1>5

LEMMA FinishingKeeps ==
  ASSUME WriteInv, NEW p \in Procs,
         \/ ResultAudit(p) \/ Finish(p) \/ CompleteLedger(p) \/ UnknownAudit(p) \/ Contain(p)
         \/ ResolvedAudit(p) \/ PreQuarantine(p) \/ PreAuditFail(p) \/ Project(p)
         \/ Revalidate(p) \/ InvalidateLedger(p) \/ InvalidAudit(p)
  PROVE  WriteInv'
<1> USE DEF Plainly, Points, Unsaved, At, durable, provider
<1> DEFINE r == loc[p].rec
<1>1. CASE ResultAudit(p)
  <2>1. NextPoint(r) \in {"close", "child", "critical"}
    BY DEF NextPoint
  <2>2. Undisturbed /\ loc[p].pc = "result"
        /\ (Goto(p, "close") \/ Goto(p, NextPoint(r)) \/ Critical(p, r))
    BY <1>1 DEF ResultAudit, Journal, Undisturbed
  <2> QED BY <2>1, <2>2, GotoKeeps, CriticalCopyKeeps
<1>2. CASE Finish(p)
  BY <1>2, GotoKeeps, CriticalCopyKeeps DEF Finish, Journal, Undisturbed
<1>3. CASE CompleteLedger(p)
  <2>1. Undisturbed /\ loc[p].pc = "complete"
        /\ (Return(p, "applied") \/ Return(p, "failed") \/ Critical(p, r))
    BY <1>3 DEF CompleteLedger, AskRepository, Undisturbed
  <2> QED BY <2>1, ReturnKeeps, CriticalCopyKeeps
<1>4. CASE UnknownAudit(p)
  <2>1. Undisturbed /\ loc[p].pc = "unknownaudit"
        /\ (Goto(p, "resolve") \/ Goto(p, "contain") \/ Critical(p, r))
    BY <1>4 DEF UnknownAudit, Journal, Undisturbed
  <2> QED BY <2>1, GotoKeeps, CriticalCopyKeeps
<1>5. CASE Contain(p)
  <2>1. Undisturbed /\ loc[p].pc = "contain" /\ (Goto(p, "resolve") \/ Critical(p, r))
    BY <1>5 DEF Contain, AskRepository, Undisturbed
  <2> QED BY <2>1, GotoKeeps, CriticalCopyKeeps
<1>6. CASE ResolvedAudit(p)
  BY <1>6, ReturnKeeps, CriticalCopyKeeps DEF ResolvedAudit, Journal, Undisturbed
<1>7. CASE PreQuarantine(p)
  <2>1. Undisturbed /\ loc[p].pc = "prequarantine"
        /\ (Goto(p, "preauditfail") \/ Critical(p, r))
    BY <1>7 DEF PreQuarantine, AskRepository, Undisturbed
  <2> QED BY <2>1, GotoKeeps, CriticalCopyKeeps
<1>8. CASE PreAuditFail(p)
  BY <1>8, ReturnKeeps, CriticalCopyKeeps DEF PreAuditFail, Journal, Undisturbed
<1>9. CASE Project(p)
  <2>1. Undisturbed /\ loc[p].pc = "project"
        /\ (Return(p, "applied") \/ Return(p, "failed") \/ Critical(p, r))
    BY <1>9 DEF Project, Journal, Undisturbed
  <2> QED BY <2>1, ReturnKeeps, CriticalCopyKeeps
<1>10. CASE Revalidate(p)
  <2>1. Undisturbed /\ loc[p].pc = "revalidate"
        /\ \/ Goto(p, "mark") \/ Goto(p, NextPoint(r)) \/ Critical(p, r) \/ Goto(p, "stopall")
           \/ Return(p, "raised")
    BY <1>10 DEF Revalidate, Local, Undisturbed
  <2>2. NextPoint(r) \in {"close", "child", "critical"}
    BY DEF NextPoint
  <2> QED BY <2>1, <2>2, GotoKeeps, ReturnKeeps, CriticalCopyKeeps
<1>11. CASE InvalidateLedger(p)
  <2>1. Undisturbed /\ loc[p].pc = "invalidate"
        /\ (Goto(p, "invalidaudit") \/ Return(p, "refused"))
    BY <1>11 DEF InvalidateLedger, AskRepository, Undisturbed
  <2> QED BY <2>1, GotoKeeps, ReturnKeeps
<1>12. CASE InvalidAudit(p)
  BY <1>12, ReturnKeeps DEF InvalidAudit, Journal, Undisturbed
<1> QED BY <1>1, <1>2, <1>3, <1>4, <1>5, <1>6, <1>7, <1>8, <1>9, <1>10, <1>11, <1>12

\* A step that writes other fields of the local state, too.
LEMMA SetMoves ==
  ASSUME NEW p \in Procs, NEW l, loc' = [q \in Procs |-> loc'[q]],
         \A q \in Procs \ {p} : loc'[q] = loc[q], loc'[p] = l,
         l = [pc |-> l.pc, now |-> l.now, rec |-> l.rec, lease |-> l.lease, mode |-> l.mode,
              todo |-> l.todo]
  PROVE  Moves(p, l)
<1>1. loc' = [q \in Procs |-> IF q = p THEN l ELSE loc[q]]
  OBVIOUS
<1> QED BY <1>1 DEF Moves

\* Where a step that leaves the copy and the instant of p ends.
SetsTo(l, p, pc, t, mode, todo) ==
  /\ Moves(p, l) /\ l.pc = pc /\ l.rec = loc[p].rec /\ l.now = loc[p].now
  /\ l.lease = t /\ l.mode = mode /\ l.todo = todo

LEMMA SettingMoves ==
  ASSUME WriteInv, NEW p \in Procs, NEW pc, NEW t, NEW mode, NEW todo,
         loc' = [q \in Procs |-> loc'[q]], \A q \in Procs \ {p} : loc'[q] = loc[q],
         loc'[p] = [pc |-> pc, now |-> loc[p].now, rec |-> loc[p].rec, lease |-> t,
                    mode |-> mode, todo |-> todo]
  PROVE  \E l : SetsTo(l, p, pc, t, mode, todo)
<1>1. PICK l : l = [pc |-> pc, now |-> loc[p].now, rec |-> loc[p].rec, lease |-> t,
                    mode |-> mode, todo |-> todo]
  OBVIOUS
<1>2. /\ l.pc = pc /\ l.rec = loc[p].rec /\ l.now = loc[p].now
      /\ l.lease = t /\ l.mode = mode /\ l.todo = todo
      /\ l = [pc |-> l.pc, now |-> l.now, rec |-> l.rec, lease |-> l.lease, mode |-> l.mode,
              todo |-> l.todo]
  BY <1>1
<1>3. Moves(p, l)
  BY <1>1, <1>2, SetMoves
<1> QED BY <1>2, <1>3 DEF SetsTo

LEMMA LeaseMoves ==
  ASSUME WriteInv, NEW p \in Procs, Lease(p)
  PROVE  \/ Return(p, "refused")
         \/ \E l : \E pc \in {"preaudit", "invalidate"} :
              SetsTo(l, p, pc, reply'.token, loc[p].mode, loc[p].todo)
<1>1. PICK pc \in {"preaudit", "invalidate"} :
        \/ loc' = [loc EXCEPT ![p].pc = pc, ![p].lease = reply'.token]
        \/ Return(p, "refused")
  BY DEF Lease, AskRepository
<1>2. CASE loc' = [loc EXCEPT ![p].pc = pc, ![p].lease = reply'.token]
  <2>1. PICK t : t = reply'.token
    OBVIOUS
  <2>2. loc' = [[loc EXCEPT ![p].pc = pc] EXCEPT ![p].lease = t]
    BY <1>2, <2>1
  <2>3. /\ loc' = [q \in Procs |-> loc'[q]]
        /\ \A q \in Procs \ {p} : loc'[q] = loc[q]
        /\ loc'[p] = [[loc[p] EXCEPT !.pc = pc] EXCEPT !.lease = t]
    BY <2>2, LocalsShaped
  <2>4. loc'[p] = [pc |-> pc, now |-> loc[p].now, rec |-> loc[p].rec, lease |-> t,
                   mode |-> loc[p].mode, todo |-> loc[p].todo]
    BY <2>3, LocalsShaped
  <2>5. PICK l : SetsTo(l, p, pc, t, loc[p].mode, loc[p].todo)
    BY <2>3, <2>4, SettingMoves
  <2> QED BY <2>1, <2>5
<1> QED BY <1>1, <1>2

LEMMA LeaseKeeps ==
  ASSUME WriteInv, NEW p \in Procs, Lease(p)
  PROVE  WriteInv'
<1>1. Undisturbed /\ loc[p].pc = "lease"
  BY DEF Lease, AskRepository, Undisturbed, At, durable, provider
<1>2. ASSUME NEW l, NEW pc \in {"preaudit", "invalidate"}, NEW t,
             SetsTo(l, p, pc, t, loc[p].mode, loc[p].todo)
      PROVE  WriteInv'
  <2>1. Moves(p, l) /\ ProcOk(l) /\ l.pc # "write"
    BY <1>1, <1>2 DEF SetsTo, WriteInv, ProcOk, Points, Unsaved
  <2> QED BY <1>1, <2>1, MovesKeep
<1> QED BY <1>1, <1>2, LeaseMoves, ReturnKeeps

\* Where a resume goes, and what of the answer it keeps.
LEMMA ResumeMoves ==
  ASSUME WriteInv, NEW p \in Procs, Resume(p)
  PROVE  \/ Return(p, "unavailable")
         \/ \E drift \in BOOLEAN : \E l, pc :
              /\ SetsTo(l, p, pc, reply'.token, reply'.status, loc[p].todo)
              /\ LET at == ResumePoint(loc[p].rec, reply'.status, ledger'.reason, drift) IN
                 at # "idle" /\ pc \in (IF at = "critical" THEN {"critical", "evidence"} ELSE {at})
<1>1. PICK drift \in BOOLEAN :
        LET pc == ResumePoint(loc[p].rec, reply'.status, ledger'.reason, drift)
            lease == reply'.token IN
        IF pc = "idle" THEN Return(p, "unavailable")
        ELSE loc' = [loc EXCEPT ![p].lease = lease, ![p].mode = reply'.status,
               ![p].pc = IF pc = "critical" /\ lease = NoToken THEN "evidence" ELSE pc]
  BY DEF Resume, AskRepository
<1>2. PICK at, t, mode : /\ at = ResumePoint(loc[p].rec, reply'.status, ledger'.reason, drift)
                         /\ t = reply'.token /\ mode = reply'.status
  OBVIOUS
<1>3. PICK pc : pc = IF at = "critical" /\ t = NoToken THEN "evidence" ELSE at
  OBVIOUS
<1>4. CASE at # "idle"
  <2>1. loc' = [loc EXCEPT ![p].lease = t, ![p].mode = mode, ![p].pc = pc]
    BY <1>1, <1>2, <1>3, <1>4
  <2>2. loc' = [[[loc EXCEPT ![p].lease = t] EXCEPT ![p].mode = mode] EXCEPT ![p].pc = pc]
    BY <2>1
  <2>3. /\ loc' = [q \in Procs |-> loc'[q]]
        /\ \A q \in Procs \ {p} : loc'[q] = loc[q]
        /\ loc'[p] = [[[loc[p] EXCEPT !.lease = t] EXCEPT !.mode = mode] EXCEPT !.pc = pc]
    BY <2>2, LocalsShaped
  <2>4. loc'[p] = [pc |-> pc, now |-> loc[p].now, rec |-> loc[p].rec, lease |-> t,
                   mode |-> mode, todo |-> loc[p].todo]
    BY <2>3, LocalsShaped
  <2>5. PICK l : SetsTo(l, p, pc, t, mode, loc[p].todo)
    BY <2>3, <2>4, SettingMoves
  <2>6. pc \in (IF at = "critical" THEN {"critical", "evidence"} ELSE {at})
    BY <1>3
  <2> QED BY <1>2, <1>4, <2>5, <2>6
<1> QED BY <1>1, <1>2, <1>4

LEMMA ResumeKeeps ==
  ASSUME WriteInv, NEW p \in Procs, Resume(p)
  PROVE  WriteInv'
<1>1. Undisturbed /\ loc[p].pc = "resume"
  BY DEF Resume, AskRepository, Undisturbed, At, durable, provider
<1>2. ASSUME NEW l, NEW drift \in BOOLEAN, NEW pc, NEW t, NEW mode, NEW status, NEW why,
             SetsTo(l, p, pc, t, mode, loc[p].todo),
             LET at == ResumePoint(loc[p].rec, status, why, drift) IN
             at # "idle" /\ pc \in (IF at = "critical" THEN {"critical", "evidence"} ELSE {at})
      PROVE  WriteInv'
  <2>1. pc \in {"project", "critical", "evidence", "preauditfail", "finish", "reaudit"}
    BY <1>2 DEF ResumePoint
  <2>2. Moves(p, l) /\ ProcOk(l) /\ l.pc # "write"
    BY <1>1, <1>2, <2>1 DEF SetsTo, WriteInv, ProcOk, Points, Unsaved
  <2> QED BY <1>1, <2>2, MovesKeep
<1> QED BY <1>1, <1>2, ResumeMoves, ReturnKeeps

LEMMA IntendAuditKeeps ==
  ASSUME WriteInv, NEW p \in Procs, IntendAudit(p)
  PROVE  WriteInv'
<1> DEFINE r == loc[p].rec
           c == Min(Pending(r))
<1>1. /\ Undisturbed /\ loc[p].pc = "child"
      /\ \/ MayIntend(r, c) /\ Goto(p, "intent")
         \/ Goto(p, "predispatch")
  BY DEF IntendAudit, Journal, Undisturbed, At, durable, provider
<1>2. CASE MayIntend(r, c) /\ Goto(p, "intent")
  <2>1. PICK l : Moves(p, l) /\ l.pc = "intent" /\ l.rec = r
    BY <1>2, JumpMoves DEF Goto
  <2>2. ProcOk(l)
    BY <1>1, <1>2, <2>1 DEF WriteInv, ProcOk, Points, Unsaved
  <2> QED BY <1>1, <2>1, <2>2, MovesKeep
<1>3. CASE Goto(p, "predispatch")
  BY <1>1, <1>3, GotoKeeps DEF Plainly, Points, Unsaved
<1> QED BY <1>1, <1>2, <1>3

LEMMA ResolveKeeps ==
  ASSUME WriteInv, NEW p \in Procs, Resolve(p)
  PROVE  WriteInv'
<1> DEFINE r == loc[p].rec
<1>1. /\ Undisturbed /\ loc[p].pc = "resolve"
      /\ \/ Goto(p, "resolvedaudit")
         \/ Goto(p, "append")
         \/ Return(p, "unknown")
         \/ Critical(p, r)
  BY DEF Resolve, Undisturbed, At, durable, provider
<1>2. CASE Goto(p, "resolvedaudit") \/ Goto(p, "append") \/ Return(p, "unknown") \/ Critical(p, r)
  BY <1>1, <1>2, GotoKeeps, ReturnKeeps, CriticalCopyKeeps DEF Plainly, Points, Unsaved
<1> QED BY <1>1, <1>2

LEMMA AppendKeeps ==
  ASSUME WriteInv, NEW p \in Procs, AppendResolution(p)
  PROVE  WriteInv'
<1>1. /\ Undisturbed /\ loc[p].pc = "append"
      /\ Goto(p, "resolvedaudit") \/ Critical(p, loc[p].rec)
  BY DEF AppendResolution, Undisturbed, At, provider
<1> QED BY <1>1, GotoKeeps, CriticalCopyKeeps DEF Plainly, Points, Unsaved

\* A copy that was durable, with the outcome of its open child, may be saved.
LEMMA OutcomeIsAhead ==
  ASSUME NEW r, RecordOk(r), Saved(r), NEW n, n.state = r.state, n.rev = r.rev + 1,
         Intended(n) = Intended(r), record.rev \in Int, r.rev \in Int
  PROVE  InProgress(n) => Ahead(n)
<1>1. r.rev <= record.rev /\ (r.rev + 1 = record.rev + 1 => r = record)
  BY DEF Saved
<1>2. n.rev <= record.rev + 1 /\ (n.rev = record.rev + 1 => r = record)
  BY <1>1
<1>3. InProgress(n) = InProgress(r)
  BY DEF InProgress
<1> QED BY <1>2, <1>3 DEF Ahead

LEMMA ReauditKeeps ==
  ASSUME WriteInv, NEW p \in Procs, Reaudit(p)
  PROVE  WriteInv'
<1> DEFINE r == loc[p].rec
           open == Unresolved(r)
           n == Outcome(r, Min(open), "unknown")
<1>1. /\ Undisturbed /\ loc[p].pc = "reaudit"
      /\ \/ Goto(p, "revalidate") \/ Critical(p, r) \/ Goto(p, "close") \/ Goto(p, UnknownPoint(r))
         \/ open # {} /\ Jump(p, "outcome", n)
  BY DEF Reaudit, Journal, Undisturbed, At, durable, provider
<1>2. UnknownPoint(r) \in {"closeunknown", "unknownaudit"}
  BY DEF UnknownPoint
<1>3. CASE open # {} /\ Jump(p, "outcome", n)
  <2>1. RecordOk(r) /\ Saved(r)
    BY <1>1 DEF WriteInv, ProcOk, Unsaved
  <2>2. "unknown" \in Dispositions \ {"none"} /\ (InProgress(r) => Min(open) \in Unresolved(r))
    BY <1>3, <2>1, OneOpen DEF Dispositions, RecordOk
  <2>3. RecordOk(n) /\ n.state = r.state /\ n.rev = r.rev + 1 /\ Intended(n) = Intended(r)
        /\ Decided(n)
    BY <2>1, <2>2, OutcomeOk DEF RecordOk
  <2> HIDE DEF n
  <2>4. InProgress(n) => Ahead(n)
    BY <2>1, <2>3, OutcomeIsAhead, RecordIsSaved
  <2>5. PICK l : Moves(p, l) /\ l.pc = "outcome" /\ l.rec = n
    BY <1>3, JumpMoves DEF n
  <2>6. ProcOk(l)
    BY <2>3, <2>4, <2>5 DEF ProcOk, Points, Unsaved
  <2> QED BY <1>1, <2>5, <2>6, MovesKeep
<1>4. CASE \/ Goto(p, "revalidate") \/ Critical(p, r) \/ Goto(p, "close")
           \/ Goto(p, UnknownPoint(r))
  BY <1>1, <1>2, <1>4, GotoKeeps, CriticalCopyKeeps DEF Plainly, Points, Unsaved
<1> QED BY <1>1, <1>3, <1>4

LEMMA EvidenceMoves ==
  ASSUME WriteInv, NEW p \in Procs, NEW w,
         loc' = [loc EXCEPT ![p].pc = "evidencesave", ![p].todo = w]
  PROVE  \E l : SetsTo(l, p, "evidencesave", loc[p].lease, loc[p].mode, w)
<1>1. loc' = [[loc EXCEPT ![p].pc = "evidencesave"] EXCEPT ![p].todo = w]
  OBVIOUS
<1>2. /\ loc' = [q \in Procs |-> loc'[q]]
      /\ \A q \in Procs \ {p} : loc'[q] = loc[q]
      /\ loc'[p] = [[loc[p] EXCEPT !.pc = "evidencesave"] EXCEPT !.todo = w]
  BY <1>1, LocalsShaped
<1>3. loc'[p] = [pc |-> "evidencesave", now |-> loc[p].now, rec |-> loc[p].rec,
                 lease |-> loc[p].lease, mode |-> loc[p].mode, todo |-> w]
  BY <1>2, LocalsShaped
<1> QED BY <1>2, <1>3, SettingMoves

LEMMA EvidenceKeeps ==
  ASSUME WriteInv, NEW p \in Procs,
         CriticalQuarantine(p) \/ Evidence(p) \/ EvidenceAudit(p)
  PROVE  WriteInv'
<1>1. CASE CriticalQuarantine(p)
  <2>1. Undisturbed /\ loc[p].pc = "critical" /\ Goto(p, "evidence")
    BY <1>1 DEF CriticalQuarantine, AskRepository, Undisturbed, At, durable, provider
  <2> QED BY <2>1, JumpKeeps DEF Goto, WriteInv, ProcOk, Plainly, Points, Unsaved
<1>2. CASE EvidenceAudit(p)
  BY <1>2, ReturnKeeps DEF EvidenceAudit, Journal, Undisturbed, durable, provider
<1>3. CASE Evidence(p)
  <2>1. Undisturbed /\ loc[p].pc = "evidence"
    BY <1>3 DEF Evidence, Undisturbed, At, durable, provider
  <2>2. PICK r \in {record, loc[p].rec} :
          loc' = [loc EXCEPT ![p].pc = "evidencesave", ![p].todo = EvidenceWrites(r)]
    BY <1>3 DEF Evidence
  <2>3. RecordOk(r) /\ (Saved(r) \/ Decided(r)) /\ RecordOk(loc[p].rec)
        /\ r.rev \in Int /\ record.rev \in Int
    BY <2>1, RecordIsSaved DEF WriteInv, ProcOk
  <2>4. PICK w : w = EvidenceWrites(r)
    OBVIOUS
  <2>5. /\ w \in Seq(Records) /\ w # <<>>
        /\ \A i \in DOMAIN w : RecordOk(w[i]) /\ (InProgress(w[i]) => Ahead(w[i]))
    BY <2>3, <2>4, EvidenceOk
  <2>6. PICK l : SetsTo(l, p, "evidencesave", loc[p].lease, loc[p].mode, w)
    BY <2>2, <2>4, EvidenceMoves
  <2>7. Moves(p, l) /\ ProcOk(l) /\ l.pc # "write"
    BY <2>3, <2>5, <2>6 DEF SetsTo, ProcOk, Points, Unsaved
  <2> QED BY <2>1, <2>7, MovesKeep
<1> QED BY <1>1, <1>2, <1>3

LEMMA BeginMoves ==
  ASSUME WriteInv, NEW p \in Procs, Begin(p)
  PROVE  \E l : /\ Moves(p, l) /\ l.pc = "load" /\ l.rec = NoRecord
               /\ l.now = clock /\ l.lease = NoToken
<1>1. PICK l : l = [pc |-> "load", now |-> clock, rec |-> NoRecord, lease |-> NoToken,
                    mode |-> "none", todo |-> <<>>]
  OBVIOUS
<1>2. [Idle EXCEPT !.pc = "load", !.now = clock] = l
  <2>1. PICK at, zero, start, no, free, mode, todo :
          /\ at = "load" /\ zero = 0 /\ start = clock /\ no = NoRecord /\ free = NoToken
          /\ mode = "none" /\ todo = <<>>
    OBVIOUS
  <2>2. PICK idle, idlepc : idle = [pc |-> idlepc, now |-> zero, rec |-> no, lease |-> free,
                                    mode |-> mode, todo |-> todo] /\ idlepc = "idle"
    OBVIOUS
  <2>3. idle = Idle
    BY <2>1, <2>2 DEF Idle
  <2>4. PICK m : m = [idle EXCEPT !.pc = at]
    OBVIOUS
  <2>5. m = [pc |-> at, now |-> zero, rec |-> no, lease |-> free, mode |-> mode, todo |-> todo]
    BY <2>2, <2>4
  <2>6. PICK n : n = [m EXCEPT !.now = start]
    OBVIOUS
  <2>7. n = [pc |-> at, now |-> start, rec |-> no, lease |-> free, mode |-> mode, todo |-> todo]
    BY <2>5, <2>6
  <2>8. [idle EXCEPT !.pc = at, !.now = start] = [[idle EXCEPT !.pc = at] EXCEPT !.now = start]
    OBVIOUS
  <2>9. l = [pc |-> at, now |-> start, rec |-> no, lease |-> free, mode |-> mode, todo |-> todo]
    BY <1>1, <2>1
  <2>10. [idle EXCEPT !.pc = at, !.now = start] = l
    BY <2>4, <2>6, <2>7, <2>8, <2>9
  <2> QED BY <2>1, <2>3, <2>10
<1>3. loc' = [q \in Procs |-> IF q = p THEN l ELSE loc[q]]
  BY <1>2, LocalsShaped DEF Begin
<1>4. /\ Moves(p, l) /\ l.pc = "load" /\ l.rec = NoRecord
      /\ l.now = clock /\ l.lease = NoToken
  BY <1>1, <1>3 DEF Moves
<1> QED BY <1>4

LEMMA BeginKeeps ==
  ASSUME WriteInv, NEW p \in Procs, Begin(p) \/ Crash(p)
  PROVE  WriteInv'
<1>1. CASE Crash(p)
  BY <1>1, ReturnKeeps DEF Crash, Local, Undisturbed, durable, provider
<1>2. CASE Begin(p)
  <2>1. Undisturbed
    BY <1>2 DEF Begin, Undisturbed, durable, provider
  <2>2. PICK l : Moves(p, l) /\ l.pc = "load" /\ l.rec = NoRecord
    BY <1>2, BeginMoves
  <2>3. RecordOk(NoRecord) /\ Saved(NoRecord)
    BY IdleIsOk DEF WriteInv, StoreInv, Saved, RecordOk, Sound, Records
  <2>4. ProcOk(l)
    BY <2>2, <2>3 DEF ProcOk, Points, Unsaved
  <2> QED BY <2>1, <2>2, <2>4, MovesKeep
<1> QED BY <1>1, <1>2

-----------------------------------------------------------------------------
(* The steps that save the record. *)

\* r is stored, as the successor of the durable record that forgets nothing.
Stored(r) ==
  /\ record' = r /\ r.rev = record.rev + 1 /\ UNCHANGED <<sent, truth>>
  /\ RecordOk(r)
  /\ record.rev >= 0 /\ InProgress(r) =>
       InProgress(record) /\ Intended(record) \subseteq Intended(r)

LEMMA StoredIsOk ==
  ASSUME WriteInv, NEW r, Stored(r)
  PROVE  /\ StoreInv' /\ Saved(r)' /\ RecordOk(r)'
         /\ \A c : Claimed(c) => Claimed(c)'
         /\ \A l : ProcOk(l) => ProcOk(l)'
<1>1. record.rev \in Int /\ r.rev \in Int /\ record.rev >= -1
  BY RecordIsSaved DEF WriteInv, StoreInv, Stored
<1>2. RecordOk(r)' /\ Saved(r)' /\ \A m : RecordOk(m) => RecordOk(m)'
  BY <1>1 DEF Stored, RecordOk, Saved
<1>3. ASSUME NEW c, Claimed(c) PROVE Claimed(c)'
  BY <1>1, <1>3 DEF Claimed, Stored
<1>4. StoreInv'
  <2>1. record' = r /\ r.rev >= 0
    BY <1>1 DEF Stored
  <2>2. /\ RecordOk(record)' /\ record'.rev >= -1 /\ (record'.rev = -1 => record' = NoRecord)
    BY <1>1, <1>2, <2>1
  <2>3. sent' = sent /\ truth' = truth
    BY DEF Stored
  <2>4. \A c \in Children :
          /\ sent[c] <= 1 /\ (sent[c] > 0 => Claimed(c)')
          /\ sent[c] = 0 => truth[c] = "none"
    BY <1>3 DEF WriteInv, StoreInv
  <2>5. sent \in [Children -> Nat] /\ truth \in [Children -> Truths]
    BY DEF WriteInv, StoreInv
  <2> QED BY <2>2, <2>3, <2>4, <2>5 DEF StoreInv
<1>5. ASSUME NEW m, RecordOk(m), Saved(m) PROVE Saved(m)'
  <2>1. m.rev \in Int
    BY <1>5 DEF RecordOk, Sound, Records
  <2> QED BY <1>1, <1>5, <2>1 DEF Saved, Stored
<1>6. ASSUME NEW m, RecordOk(m), Ahead(m) PROVE Ahead(m)'
  <2>1. m.rev \in Int
    BY <1>6 DEF RecordOk, Sound, Records
  <2> QED BY <1>1, <1>6, <2>1 DEF Ahead, Stored
<1>7. \A l : Writing(l) => Writing(l)'
  BY <1>3 DEF Writing, Stored
<1>8. truth' = truth
  BY DEF Stored
<1>9. ASSUME NEW l, ProcOk(l) PROVE ProcOk(l)'
  BY <1>2, <1>5, <1>6, <1>7, <1>8, <1>9 DEF ProcOk
<1> QED BY <1>2, <1>3, <1>4, <1>9

\* A process moves and the stores keep their invariant.
LEMMA MovesKeepAll ==
  ASSUME WriteInv, NEW p \in Procs, NEW l, Moves(p, l), StoreInv', ProcOk(l)',
         \A q \in Procs \ {p} : \A m : m = loc[q] => ProcOk(m)',
         l.pc = "write" =>
           \A q \in Procs \ {p} : At(q, "write") => Current(loc[q]) # Current(l)
  PROVE  WriteInv'
<1>1. /\ Shaped
      /\ \A q1, q2 \in Procs : At(q1, "write") /\ At(q2, "write") /\ q1 # q2 =>
           Current(loc[q1]) # Current(loc[q2])
  BY DEF WriteInv
<1>2. \A q \in Procs : loc'[q] = IF q = p THEN l ELSE loc[q]
  BY DEF Moves
<1>3. Shaped'
  BY <1>1 DEF Moves, Shaped
<1>4. \A q \in Procs : ProcOk(loc[q])'
  <2> SUFFICES ASSUME NEW q \in Procs PROVE ProcOk(loc[q])'
    OBVIOUS
  <2>1. PICK m : m = IF q = p THEN l ELSE loc[q]
    OBVIOUS
  <2>2. ProcOk(m)'
    BY <2>1
  <2>3. loc'[q] = m
    BY <1>2, <2>1
  <2> QED BY <2>2, <2>3 DEF ProcOk, RecordOk, Writing, Current
<1>5. \A q1, q2 \in Procs : At(q1, "write")' /\ At(q2, "write")' /\ q1 # q2 =>
        Current(loc'[q1]) # Current(loc'[q2])
  BY <1>1, <1>2 DEF At
<1> QED BY <1>3, <1>4, <1>5 DEF WriteInv, Current, Intended

\* A process moves when the record was stored.
LEMMA StoredKeeps ==
  ASSUME WriteInv, NEW p \in Procs, NEW r, Stored(r), NEW pc \in Plainly, NEW x, Jump(p, pc, x),
         RecordOk(x), pc \notin Unsaved => Saved(x) \/ x = r,
         pc \in {"critical", "evidence"} => Saved(x) \/ Decided(x) \/ x = r
  PROVE  WriteInv'
<1>1. PICK l : Moves(p, l) /\ l.pc = pc /\ l.rec = x
  BY JumpMoves
<1>2. StoreInv' /\ \A m : ProcOk(m) => ProcOk(m)'
  BY StoredIsOk
<1>3. RecordOk(x)'
  BY DEF Stored, RecordOk
<1>4. Saved(x) \/ x = r => Saved(x)'
  <2>1. x.rev \in Int /\ record.rev \in Int
    BY RecordIsSaved DEF RecordOk, Sound, Records
  <2> QED BY <2>1, StoredIsOk DEF Stored, Saved
<1>5. ProcOk(l)'
  BY <1>1, <1>3, <1>4 DEF ProcOk, Plainly, Unsaved
<1>6. \A q \in Procs \ {p} : \A m : m = loc[q] => ProcOk(m)'
  BY <1>2 DEF WriteInv
<1> QED BY <1>1, <1>2, <1>5, <1>6, MovesKeepAll DEF Plainly

LEMMA ReturnStored ==
  ASSUME WriteInv, NEW p \in Procs, NEW r, Stored(r), NEW answer, Return(p, answer)
  PROVE  WriteInv'
<1>1. StoreInv' /\ (\A m : ProcOk(m) => ProcOk(m)') /\ ProcOk(Idle)
  BY StoredIsOk, IdleIsOk DEF WriteInv
<1>2. PICK l : l = Idle
  OBVIOUS
<1>3. Moves(p, l) /\ ProcOk(l)' /\ l.pc # "write"
  BY <1>1, <1>2, ReturnMoves, IdleIsOk DEF WriteInv
<1>4. \A q \in Procs \ {p} : \A m : m = loc[q] => ProcOk(m)'
  BY <1>1 DEF WriteInv
<1> QED BY <1>1, <1>3, <1>4, MovesKeepAll

LEMMA CriticalStored ==
  ASSUME WriteInv, NEW p \in Procs, NEW r, Stored(r), NEW x, RecordOk(x),
         Saved(x) \/ Decided(x) \/ x = r, Critical(p, x)
  PROVE  WriteInv'
BY StoredKeeps DEF Critical, Plainly, Points, Unsaved

LEMMA CreateKeeps ==
  ASSUME WriteInv, NEW p \in Procs, Create(p)
  PROVE  WriteInv'
<1>1. PICK r : r = NewRecord
  OBVIOUS
<1>2. /\ At(p, "create") /\ UNCHANGED <<sent, truth>>
      /\ \/ r.rev = record.rev + 1 /\ record' = r /\ (Jump(p, "mark", r) \/ Return(p, "refused"))
         \/ record' = record /\ Return(p, "refused")
  BY <1>1 DEF Create, Save, provider
<1>3. RecordOk(r) /\ r.rev = 0
  <2>1. /\ r \in Records /\ r.rev = 0 /\ Intended(r) = {}
        /\ \A d \in Dispositions \ {"none"} : With(r, d) = {}
        /\ \A c \in Children : c \in With(r, "none")
    BY <1>1 DEF NewRecord, Untouched, Records, Dispositions, RecordStates, With, Intended
  <2> QED BY <2>1 DEF RecordOk, Sound, Ordered, Truthful, Dispositions
<1>4. CASE record' = record /\ Return(p, "refused")
  BY <1>2, <1>4, ReturnKeeps DEF Undisturbed
<1>5. CASE r.rev = record.rev + 1 /\ record' = r
  <2>1. Stored(r)
    BY <1>2, <1>3, <1>5, RecordIsSaved DEF Stored
  <2>2. CASE Jump(p, "mark", r)
    BY <1>3, <2>1, <2>2, StoredKeeps DEF Plainly, Points, Unsaved
  <2> QED BY <1>2, <1>4, <2>1, <2>2, ReturnStored
<1> QED BY <1>2, <1>4, <1>5

\* The copy of a process was durable; a successor that is stored succeeds the durable record.
LEMMA SuccessorOfDurable ==
  ASSUME WriteInv, NEW p \in Procs, loc[p].pc \notin Unsaved
  PROVE  /\ RecordOk(loc[p].rec) /\ Saved(loc[p].rec)
         /\ loc[p].rec.rev + 1 = record.rev + 1 => loc[p].rec = record
<1>1. RecordOk(loc[p].rec) /\ Saved(loc[p].rec)
  BY DEF WriteInv, ProcOk
<1> QED BY <1>1, RecordIsSaved DEF Saved

LEMMA SaveIntentKeeps ==
  ASSUME WriteInv, NEW p \in Procs, SaveIntent(p)
  PROVE  WriteInv'
<1>1. PICK r, c, n : r = loc[p].rec /\ c = Min(Pending(r)) /\ n = Intend(r, c)
  OBVIOUS
<1>2. /\ loc[p].pc = "intent" /\ UNCHANGED <<sent, truth>>
      /\ \/ n.rev = record.rev + 1 /\ record' = n /\ Jump(p, "write", n)
         \/ n.rev = record.rev + 1 /\ record' = n /\ Goto(p, "predispatch")
         \/ record' = record /\ Goto(p, "predispatch")
  BY <1>1 DEF SaveIntent, Save, provider, At
<1>3. RecordOk(r) /\ Saved(r) /\ MayIntend(r, c) /\ (r.rev + 1 = record.rev + 1 => r = record)
  BY <1>1, <1>2, SuccessorOfDurable DEF WriteInv, ProcOk, Unsaved
<1>4. /\ RecordOk(n) /\ InProgress(n) /\ n.rev = r.rev + 1 /\ c \in Children
      /\ Intended(n) = Intended(r) \cup {c} /\ c \in Unresolved(n) /\ Max(Intended(n)) = c
  BY <1>1, <1>3, IntendOk DEF RecordOk
<1>5. CASE record' = record /\ Goto(p, "predispatch")
  BY <1>2, <1>5, GotoKeeps DEF Undisturbed, Plainly, Points, Unsaved
<1>6. CASE n.rev = record.rev + 1 /\ record' = n
  <2>1. r = record /\ InProgress(r) /\ c \notin Intended(r)
    BY <1>3, <1>4, <1>6 DEF MayIntend, InProgress
  <2>2. Stored(n)
    BY <1>2, <1>4, <1>6, <2>1 DEF Stored
  <2>3. CASE Goto(p, "predispatch")
    BY <1>1, <1>3, <2>2, <2>3, StoredKeeps DEF Goto, Plainly, Points, Unsaved
  <2>4. CASE Jump(p, "write", n)
    <3>1. PICK l : Moves(p, l) /\ l.pc = "write" /\ l.rec = n
      BY <2>4, JumpMoves
    <3>2. ~Claimed(c) /\ sent[c] = 0
      BY <1>4, <2>1 DEF Claimed, WriteInv, StoreInv
    <3>3. Current(l) = c
      BY <1>4, <3>1 DEF Current
    <3>4. StoreInv' /\ Saved(n)' /\ RecordOk(n)' /\ \A m : ProcOk(m) => ProcOk(m)'
      BY <2>2, StoredIsOk
    <3>5. Claimed(c)'
      BY <1>4, <1>6, <2>1, RecordIsSaved DEF Claimed, WriteInv, StoreInv
    <3>6. Writing(l)'
      BY <1>2, <1>4, <3>1, <3>2, <3>3, <3>5 DEF Writing
    <3>7. ProcOk(l)'
      BY <3>1, <3>4, <3>6 DEF ProcOk, Points, Unsaved
    <3>8. \A q \in Procs \ {p} : \A m : m = loc[q] => ProcOk(m)'
      BY <3>4 DEF WriteInv
    <3>9. \A q \in Procs \ {p} : At(q, "write") => Current(loc[q]) # Current(l)
      BY <3>2, <3>3 DEF WriteInv, ProcOk, Writing, At
    <3> QED BY <3>1, <3>4, <3>7, <3>8, <3>9, MovesKeepAll
  <2> QED BY <1>2, <1>5, <2>3, <2>4
<1> QED BY <1>2, <1>5, <1>6

LEMMA SaveOutcomeKeeps ==
  ASSUME WriteInv, NEW p \in Procs, SaveOutcome(p)
  PROVE  WriteInv'
<1>1. PICK r : r = loc[p].rec
  OBVIOUS
<1>2. /\ loc[p].pc = "outcome" /\ UNCHANGED <<sent, truth>>
      /\ \/ /\ r.rev = record.rev + 1 /\ record' = r
            /\ Jump(p, "closeunknown", r) \/ Jump(p, "result", r) \/ Critical(p, r)
         \/ record' = record /\ Critical(p, r)
  BY <1>1 DEF SaveOutcome, Save, Goto, provider, At
<1>3. RecordOk(r) /\ Decided(r) /\ (InProgress(r) => Ahead(r))
  BY <1>1, <1>2 DEF WriteInv, ProcOk
<1>4. CASE record' = record /\ Critical(p, r)
  BY <1>2, <1>3, <1>4, CriticalKeeps DEF Undisturbed
<1>5. CASE r.rev = record.rev + 1 /\ record' = r
  <2>1. Stored(r)
    BY <1>2, <1>3, <1>5 DEF Stored, Ahead
  <2>2. CASE Jump(p, "closeunknown", r) \/ Jump(p, "result", r)
    BY <1>3, <2>1, <2>2, StoredKeeps DEF Plainly, Points, Unsaved
  <2> QED BY <1>2, <1>3, <1>4, <1>5, <2>1, <2>2, CriticalStored
<1> QED BY <1>2, <1>4, <1>5

LEMMA EndingKeeps ==
  ASSUME WriteInv, NEW p \in Procs,
         Close(p) \/ CloseUnknown(p) \/ StopRemaining(p) \/ StopUnattempted(p)
  PROVE  WriteInv'
<1>1. CASE StopRemaining(p) /\ ~MayStopPending(loc[p].rec)
  BY <1>1, ReturnKeeps DEF StopRemaining, Local, Undisturbed, durable, provider
<1>2. ASSUME ~(StopRemaining(p) /\ ~MayStopPending(loc[p].rec))
      PROVE  \E n : \E pc \in {"finish", "unknownaudit", "prequarantine", "invalidate"} :
               /\ loc[p].pc \notin Unsaved /\ UNCHANGED <<sent, truth>>
               /\ n \in {Finalize(loc[p].rec), StopPending(loc[p].rec), StopAll(loc[p].rec)}
               /\ \/ /\ n.rev = record.rev + 1 /\ record' = n
                     /\ Jump(p, pc, n) \/ Critical(p, n) \/ Critical(p, loc[p].rec)
                  \/ record' = record /\ (Critical(p, n) \/ Critical(p, loc[p].rec))
  <2> USE DEF Save, At, Unsaved, provider
  <2>1. CASE Close(p)
    BY <2>1 DEF Close
  <2>2. CASE CloseUnknown(p)
    BY <2>2 DEF CloseUnknown
  <2>3. CASE StopRemaining(p)
    BY <1>2, <2>3 DEF StopRemaining
  <2>4. CASE StopUnattempted(p)
    BY <2>4 DEF StopUnattempted
  <2> QED BY <2>1, <2>2, <2>3, <2>4
<1>3. ASSUME NEW n, NEW pc \in {"finish", "unknownaudit", "prequarantine", "invalidate"},
             loc[p].pc \notin Unsaved, UNCHANGED <<sent, truth>>,
             n \in {Finalize(loc[p].rec), StopPending(loc[p].rec), StopAll(loc[p].rec)},
             \/ /\ n.rev = record.rev + 1 /\ record' = n
                /\ Jump(p, pc, n) \/ Critical(p, n) \/ Critical(p, loc[p].rec)
             \/ record' = record /\ (Critical(p, n) \/ Critical(p, loc[p].rec))
      PROVE  WriteInv'
  <2>1. PICK r : r = loc[p].rec
    OBVIOUS
  <2>2. RecordOk(r) /\ Saved(r)
    BY <1>3, <2>1, SuccessorOfDurable
  <2>3. RecordOk(n) /\ ~InProgress(n)
    BY <1>3, <2>1, <2>2, EndsOk DEF RecordOk
  <2>4. CASE record' = record /\ (Critical(p, n) \/ Critical(p, r))
    BY <1>3, <2>2, <2>3, <2>4, CriticalKeeps DEF Undisturbed, Decided
  <2>5. CASE n.rev = record.rev + 1 /\ record' = n
    <3>1. Stored(n)
      BY <1>3, <2>3, <2>5 DEF Stored
    <3>2. CASE Jump(p, pc, n)
      BY <2>3, <3>1, <3>2, StoredKeeps DEF Plainly, Points, Unsaved
    <3>3. CASE Critical(p, n) \/ Critical(p, r)
      BY <2>2, <2>3, <3>1, <3>3, CriticalStored DEF Decided
    <3> QED BY <1>3, <2>1, <2>4, <3>2, <3>3
  <2> QED BY <1>3, <2>1, <2>4, <2>5
<1> QED BY <1>1, <1>2, <1>3

LEMMA EvidenceSaveMoves ==
  ASSUME WriteInv, NEW p \in Procs, EvidenceSave(p), NEW rest, rest = Tail(loc[p].todo), NEW pc,
         pc = IF rest = <<>> THEN "evidenceaudit" ELSE loc[p].pc
  PROVE  \E l : SetsTo(l, p, pc, loc[p].lease, loc[p].mode, rest)
<1>1. loc' = [loc EXCEPT ![p].todo = rest,
                         ![p].pc = IF rest = <<>> THEN "evidenceaudit" ELSE @]
  BY DEF EvidenceSave, Save
<1>2. loc' = [[loc EXCEPT ![p].todo = rest] EXCEPT ![p].pc = pc]
  BY <1>1, LocalsShaped
<1>3. /\ loc' = [q \in Procs |-> loc'[q]]
      /\ \A q \in Procs \ {p} : loc'[q] = loc[q]
      /\ loc'[p] = [[loc[p] EXCEPT !.todo = rest] EXCEPT !.pc = pc]
  BY <1>2, LocalsShaped
<1>4. loc'[p] = [pc |-> pc, now |-> loc[p].now, rec |-> loc[p].rec,
                 lease |-> loc[p].lease, mode |-> loc[p].mode, todo |-> rest]
  BY <1>3, LocalsShaped
<1> QED BY <1>3, <1>4, SettingMoves

LEMMA EvidenceSaveKeeps ==
  ASSUME WriteInv, NEW p \in Procs, EvidenceSave(p)
  PROVE  WriteInv'
<1>1. PICK r, rest, pc :
        /\ r = Head(loc[p].todo) /\ rest = Tail(loc[p].todo)
        /\ pc = IF rest = <<>> THEN "evidenceaudit" ELSE loc[p].pc
  OBVIOUS
<1>2. /\ loc[p].pc = "evidencesave" /\ UNCHANGED <<sent, truth>>
      /\ (r.rev = record.rev + 1 /\ record' = r) \/ record' = record
  BY <1>1 DEF EvidenceSave, Save, At, provider
<1>3. /\ RecordOk(r) /\ (InProgress(r) => Ahead(r)) /\ rest \in Seq(Records)
      /\ \A i \in DOMAIN rest : RecordOk(rest[i]) /\ (InProgress(rest[i]) => Ahead(rest[i]))
      /\ RecordOk(loc[p].rec)
  <2>1. PICK todo : todo = loc[p].todo
    OBVIOUS
  <2>2. /\ todo \in Seq(Records) /\ todo # <<>> /\ RecordOk(loc[p].rec)
        /\ \A i \in DOMAIN todo : RecordOk(todo[i]) /\ (InProgress(todo[i]) => Ahead(todo[i]))
    BY <1>2, <2>1 DEF WriteInv, ProcOk
  <2>3. /\ r = todo[1] /\ 1 \in DOMAIN todo /\ rest \in Seq(Records)
        /\ \A i \in DOMAIN rest : i + 1 \in DOMAIN todo /\ rest[i] = todo[i + 1]
    BY <1>1, <2>1, <2>2
  <2> QED BY <2>2, <2>3
<1>4. PICK l : SetsTo(l, p, pc, loc[p].lease, loc[p].mode, rest)
  BY <1>1, EvidenceSaveMoves
<1>5. Moves(p, l) /\ l.pc = pc /\ l.rec = loc[p].rec /\ l.todo = rest
  BY <1>4 DEF SetsTo
<1>6. ProcOk(l)
  BY <1>1, <1>2, <1>3, <1>5 DEF ProcOk, Points, Unsaved
<1>7. l.pc # "write"
  BY <1>1, <1>2, <1>5
<1>8. CASE record' = record
  BY <1>2, <1>5, <1>6, <1>7, <1>8, MovesKeep DEF Undisturbed
<1>9. CASE r.rev = record.rev + 1 /\ record' = r
  <2>1. Stored(r)
    BY <1>2, <1>3, <1>9 DEF Stored, Ahead
  <2>2. StoreInv' /\ \A m : ProcOk(m) => ProcOk(m)'
    BY <2>1, StoredIsOk
  <2>3. \A q \in Procs \ {p} : \A m : m = loc[q] => ProcOk(m)'
    BY <2>2 DEF WriteInv
  <2> QED BY <1>5, <1>6, <1>7, <2>2, <2>3, MovesKeepAll
<1> QED BY <1>2, <1>8, <1>9

-----------------------------------------------------------------------------
(* The steps that change what is true at the provider. *)

\* No record speaks of a write that was not sent or has not arrived.
LEMMA TruthMoves ==
  ASSUME StoreInv, NEW c \in Children, truth[c] \in {"none", "inflight"}, NEW v \in Truths,
         truth' = [truth EXCEPT ![c] = v], record' = record
  PROVE  /\ \A r : RecordOk(r) => RecordOk(r)'
         /\ \A r : (Saved(r) => Saved(r)') /\ (Ahead(r) => Ahead(r)')
         /\ \A d \in Children : truth[d] = "applied" => truth'[d] = "applied"
         /\ truth' \in [Children -> Truths]
<1>1. /\ truth \in [Children -> Truths] /\ truth' \in [Children -> Truths]
      /\ \A d \in Children : truth'[d] = IF d = c THEN v ELSE truth[d]
  BY DEF StoreInv
<1>2. ASSUME NEW r, Truthful(r, truth) PROVE Truthful(r, truth')
  BY <1>1, <1>2 DEF Truthful
<1>3. \A r : RecordOk(r) => RecordOk(r)'
  BY <1>2 DEF RecordOk, Sound
<1>4. \A r : (Saved(r) => Saved(r)') /\ (Ahead(r) => Ahead(r)')
  BY DEF Saved, Ahead
<1> QED BY <1>1, <1>3, <1>4

LEMMA LandKeeps ==
  ASSUME WriteInv, NEW c \in Children, Land(c)
  PROVE  WriteInv'
<1>1. /\ StoreInv /\ truth[c] = "inflight" /\ truth' = [truth EXCEPT ![c] = "applied"]
      /\ record' = record /\ sent' = sent /\ loc' = loc
  BY DEF Land, WriteInv, durable
<1>2. /\ \A r : RecordOk(r) => RecordOk(r)'
      /\ \A r : (Saved(r) => Saved(r)') /\ (Ahead(r) => Ahead(r)')
      /\ \A d \in Children : truth[d] = "applied" => truth'[d] = "applied"
      /\ truth' \in [Children -> Truths]
  BY <1>1, TruthMoves DEF Truths
<1>3. \A d : Claimed(d) => Claimed(d)'
  BY <1>1 DEF Claimed
<1>4. \A d \in Children : truth'[d] = IF d = c THEN "applied" ELSE truth[d]
  BY <1>1 DEF StoreInv
<1>5. StoreInv'
  <2>1. RecordOk(record)'
    BY <1>1, <1>2 DEF StoreInv
  <2>2. \A d \in Children :
          /\ sent[d] <= 1 /\ (sent[d] > 0 => Claimed(d)')
          /\ sent[d] = 0 => truth'[d] = "none"
    BY <1>1, <1>2, <1>3, <1>4 DEF StoreInv
  <2>3. /\ record.rev >= -1 /\ (record.rev = -1 => record = NoRecord)
        /\ sent \in [Children -> Nat]
    BY <1>1 DEF StoreInv
  <2> QED BY <1>1, <1>2, <2>1, <2>2, <2>3 DEF StoreInv
<1>6. \A l : Writing(l) => Writing(l)'
  BY <1>1, <1>3 DEF Writing
<1>7. \A l : ProcOk(l) => ProcOk(l)'
  BY <1>2, <1>6 DEF ProcOk
<1>8. \A p \in Procs : ProcOk(loc[p])'
  <2> SUFFICES ASSUME NEW p \in Procs PROVE ProcOk(loc[p])'
    OBVIOUS
  <2>1. PICK m : m = loc[p]
    OBVIOUS
  <2>2. ProcOk(m)'
    BY <1>7, <2>1 DEF WriteInv
  <2> QED BY <1>1, <2>1, <2>2 DEF ProcOk, RecordOk, Writing, Current
<1> QED BY <1>1, <1>5, <1>8 DEF WriteInv, Shaped, At, Current, Intended

LEMMA WriteKeeps ==
  ASSUME WriteInv, NEW p \in Procs, Write(p)
  PROVE  WriteInv'
<1>1. PICK r, c : r = loc[p].rec /\ c = Max(Intended(r))
  OBVIOUS
<1>2. PICK answer \in {<<"accepted", "applied">>}
                      \cup ({"failed"} \X {"rejected", "conflicting"})
                      \cup ({"unknown"} \X {"none", "inflight", "applied"}) :
        /\ truth' = [truth EXCEPT ![c] = answer[2]]
        /\ Jump(p, "outcome", Outcome(r, c, answer[1]))
  BY <1>1 DEF Write
<1>3. /\ loc[p].pc = "write" /\ record' = record
      /\ sent' = [sent EXCEPT ![c] = @ + 1]
  BY <1>1 DEF Write, At, durable
<1>4. PICK disp, v : disp = answer[1] /\ v = answer[2]
  OBVIOUS
<1>5. /\ disp \in Dispositions \ {"none"} /\ v \in Truths
      /\ disp = "accepted" => v = "applied"
      /\ disp = "failed" => v \in {"rejected", "conflicting"}
  BY <1>2, <1>4 DEF Dispositions, Truths
<1>6. /\ StoreInv /\ RecordOk(r) /\ Saved(r) /\ InProgress(r) /\ c \in Unresolved(r)
      /\ sent[c] = 0 /\ Claimed(c) /\ c = Current(loc[p])
  BY <1>1, <1>3 DEF WriteInv, ProcOk, Writing, Current, Unsaved
<1>7. c \in Children /\ truth[c] = "none"
  BY <1>6 DEF StoreInv, Unresolved, Intended
<1>8. /\ \A x : RecordOk(x) => RecordOk(x)'
      /\ \A x : (Saved(x) => Saved(x)') /\ (Ahead(x) => Ahead(x)')
      /\ \A d \in Children : truth[d] = "applied" => truth'[d] = "applied"
      /\ truth' \in [Children -> Truths] /\ truth'[c] = v
      /\ \A d \in Children \ {c} : truth'[d] = truth[d]
  <2>1. truth' = [truth EXCEPT ![c] = v] /\ truth \in [Children -> Truths]
    BY <1>2, <1>4, <1>6 DEF StoreInv
  <2>2. /\ \A x : RecordOk(x) => RecordOk(x)'
        /\ \A x : (Saved(x) => Saved(x)') /\ (Ahead(x) => Ahead(x)')
        /\ \A d \in Children : truth[d] = "applied" => truth'[d] = "applied"
        /\ truth' \in [Children -> Truths]
    BY <1>3, <1>5, <1>6, <1>7, <2>1, TruthMoves
  <2> QED BY <1>7, <2>1, <2>2
<1>9. /\ sent' \in [Children -> Nat] /\ sent'[c] = 1
      /\ \A d \in Children \ {c} : sent'[d] = sent[d]
  BY <1>3, <1>6, <1>7 DEF StoreInv
<1>10. \A d : Claimed(d) => Claimed(d)'
  BY <1>3 DEF Claimed
<1>11. StoreInv'
  <2>1. RecordOk(record)'
    <3>1. PICK x : x = record
      OBVIOUS
    <3>2. RecordOk(x)'
      BY <1>6, <1>8, <3>1 DEF StoreInv
    <3> QED BY <1>3, <3>1, <3>2 DEF RecordOk
  <2>2. \A d \in Children :
          /\ sent'[d] <= 1 /\ (sent'[d] > 0 => Claimed(d)')
          /\ sent'[d] = 0 => truth'[d] = "none"
    BY <1>6, <1>8, <1>9, <1>10 DEF StoreInv
  <2>3. record.rev >= -1 /\ (record.rev = -1 => record = NoRecord)
    BY <1>6 DEF StoreInv
  <2> QED BY <1>3, <1>8, <1>9, <2>1, <2>2, <2>3 DEF StoreInv
<1>12. PICK n : n = Outcome(r, c, disp)
  OBVIOUS
<1>13. /\ Sound(n, truth') /\ n.state = r.state /\ n.rev = r.rev + 1
       /\ Intended(n) = Intended(r) /\ Decided(n) /\ RecordOk(n)'
  <2>1. PICK t : t = truth'
    OBVIOUS
  <2>2. Sound(r, t)
    BY <1>6, <1>8, <2>1 DEF RecordOk
  <2>3. /\ disp = "accepted" => t[c] = "applied"
        /\ disp = "failed" => t[c] \in {"rejected", "conflicting"}
    BY <1>5, <1>8, <2>1
  <2>4. /\ Sound(n, t) /\ n.state = r.state /\ n.rev = r.rev + 1
        /\ Intended(n) = Intended(r) /\ Decided(n)
    BY <1>5, <1>6, <1>12, <2>2, <2>3, OutcomeOk
  <2> QED BY <2>1, <2>4 DEF RecordOk
<1>14. InProgress(n) => Ahead(n)'
  <2>1. record.rev \in Int /\ r.rev \in Int
    BY <1>6, RecordIsSaved DEF RecordOk, Sound, Records
  <2>2. InProgress(n) => Ahead(n)
    BY <1>6, <1>13, <2>1, OutcomeIsAhead
  <2> QED BY <1>8, <2>2
<1>15. PICK l : Moves(p, l) /\ l.pc = "outcome" /\ l.rec = n
  BY <1>2, <1>4, <1>12, JumpMoves
<1>16. ProcOk(l)'
  BY <1>13, <1>14, <1>15 DEF ProcOk, Points, Unsaved, Decided
<1>17. ASSUME NEW q \in Procs \ {p}, NEW m, m = loc[q] PROVE ProcOk(m)'
  <2>1. ProcOk(m) /\ (m.pc = "write" => Current(m) # c)
    BY <1>3, <1>6, <1>17 DEF WriteInv, At
  <2>2. m.pc = "write" => Writing(m)'
    <3> SUFFICES ASSUME m.pc = "write" PROVE Writing(m)'
      OBVIOUS
    <3>1. Writing(m) /\ Current(m) # c /\ Current(m) \in Children
      BY <2>1 DEF ProcOk, Writing, Unresolved, Intended
    <3> QED BY <1>9, <1>10, <3>1 DEF Writing
  <2> QED BY <1>8, <2>1, <2>2 DEF ProcOk
<1>18. \A q \in Procs \ {p} : \A m : m = loc[q] => ProcOk(m)'
  BY <1>17
<1> QED BY <1>11, <1>15, <1>16, <1>18, MovesKeepAll

LEMMA StayKeeps ==
  ASSUME WriteInv, Undisturbed, loc' = loc
  PROVE  WriteInv'
<1>1. /\ record' = record /\ sent' = sent /\ truth' = truth
      /\ loc' = loc
  BY DEF Undisturbed
<1>2. StoreInv'
  BY <1>1 DEF WriteInv, StoreInv, RecordOk, Claimed
<1>3. \A p \in Procs : ProcOk(loc[p])'
  BY <1>1 DEF WriteInv, ProcOk, RecordOk, Saved, Ahead, Writing, Claimed, Current
<1>4. Shaped'
  BY <1>1 DEF WriteInv, Shaped
<1>5. \A p, q \in Procs : At(p, "write")' /\ At(q, "write")' /\ p # q =>
        Current(loc'[p]) # Current(loc'[q])
  BY <1>1 DEF WriteInv, At
<1> QED BY <1>2, <1>3, <1>4, <1>5 DEF WriteInv, Current, Intended

-----------------------------------------------------------------------------
(* The theorems. *)

LEMMA WriteInvInit == ApplyInit => WriteInv
<1> SUFFICES ASSUME ApplyInit PROVE WriteInv
  OBVIOUS
<1>1. /\ record = NoRecord /\ loc = [p \in Procs |-> Idle]
      /\ sent = [c \in Children |-> 0] /\ truth = [c \in Children |-> "none"]
  BY DEF ApplyInit
<1>2. /\ NoRecord \in Records /\ ~InProgress(NoRecord) /\ NoRecord.rev = -1
      /\ \A d \in {"accepted", "failed"} : With(NoRecord, d) = {}
  BY DEF NoRecord, Untouched, Records, Dispositions, RecordStates, InProgress, With
<1>3. RecordOk(record)
  BY <1>1, <1>2 DEF RecordOk, Sound, Truthful
<1>4. StoreInv
  BY <1>1, <1>2, <1>3 DEF StoreInv, Truths
<1>5. PICK idle : idle = Idle
  OBVIOUS
<1>6. /\ idle.pc = "idle" /\ ProcOk(idle)
      /\ idle = [pc |-> idle.pc, now |-> idle.now, rec |-> idle.rec, lease |-> idle.lease,
                 mode |-> idle.mode, todo |-> idle.todo]
  BY <1>4, <1>5, IdleIsOk DEF Idle
<1>7. loc = [p \in Procs |-> idle]
  BY <1>1, <1>5
<1>8. Shaped
  BY <1>6, <1>7 DEF Shaped
<1>9. \A p \in Procs : ProcOk(loc[p]) /\ ~At(p, "write")
  BY <1>6, <1>7 DEF At
<1> QED BY <1>4, <1>8, <1>9 DEF WriteInv

LEMMA WriteInvSteps == WriteInv /\ [ApplyNext]_allVars => WriteInv'
<1> SUFFICES ASSUME WriteInv, [ApplyNext]_allVars PROVE WriteInv'
  OBVIOUS
<1>1. ASSUME NEW p \in Procs, Begin(p) \/ Step(p) \/ Crash(p) PROVE WriteInv'
  <2>1. CASE Begin(p) \/ Crash(p)
    BY <2>1, BeginKeeps
  <2>2. CASE Step(p)
    BY <2>2, PreparingKeeps, FinishingKeeps, LeaseKeeps, ResumeKeeps, IntendAuditKeeps,
       ResolveKeeps, ReauditKeeps, EvidenceKeeps, CreateKeeps, SaveIntentKeeps,
       SaveOutcomeKeeps, EndingKeeps, EvidenceSaveKeeps, WriteKeeps, AppendKeeps DEF Step
  <2> QED BY <1>1, <2>1, <2>2
<1>2. ASSUME NEW c \in Children, Land(c) PROVE WriteInv'
  BY <1>2, LandKeeps
<1>3. CASE TimePasses
  BY <1>3, StayKeeps DEF TimePasses, Undisturbed, durable, provider
<1>4. CASE Rest \/ UNCHANGED allVars
  BY <1>4, StayKeeps DEF Rest, Undisturbed, allVars, durable, provider
<1> QED BY <1>1, <1>2, <1>3, <1>4 DEF ApplyNext

\* The record, the copies of the processes and the provider agree, as WriteInv says,
\* whatever calls interleave, fail or crash.
THEOREM RecordAndWritesAgree == ApplySpec => []WriteInv
<1> QED BY WriteInvInit, WriteInvSteps, PTL DEF ApplySpec

\* No child is written twice: the intent of a child is stored before its write leaves, as
\* the successor of the durable record, and no later call begins a child with an intent.
THEOREM OneWritePerChild == ApplySpec => []AtMostOneWrite
<1>1. WriteInv => AtMostOneWrite
  BY DEF WriteInv, StoreInv, AtMostOneWrite
<1> QED BY <1>1, RecordAndWritesAgree, PTL

\* What the durable record says of a finished write is what the provider answered, whatever
\* becomes of answers, copies and saves: accepted children are applied, failed ones were
\* refused or answered with an echo of something else.  The resolution of an unknown write
\* is no such evidence: it only says what value was read.
THEOREM EvidenceIsSound == ApplySpec => []EvidenceIsTrue
<1>1. WriteInv => EvidenceIsTrue
  BY DEF WriteInv, StoreInv, RecordOk, Sound, Truthful, EvidenceIsTrue
<1> QED BY <1>1, RecordAndWritesAgree, PTL
=============================================================================
