------------------------ MODULE ApplySettlementProofs ------------------------
(***************************************************************************)
(* Further theorems of ApplyPlan: what a call may rely on at each of its   *)
(* points, and from it the types, the journal before every write and the   *)
(* answer "applied", for any number of children, processes, calls and      *)
(* faults.                                                                 *)
(***************************************************************************)
EXTENDS ApplyPlanProofs, PlanRepositoryProofs, WellFoundedInduction

-----------------------------------------------------------------------------
(* The inductive invariant. *)

\* The accepted children among cs are accepted in the journal, too.
Journalled(r, cs, a) == \A c \in With(r, "accepted") \cap cs : <<"accepted", c>> \in a

\* What the state of a record says of its children.
Settling(r) ==
  /\ Coherent(r)
  /\ r.state = "accepted" => Pending(r) = {}
  /\ r.state = "failed" => With(r, "none") = {} /\ With(r, "unknown") = {}
  /\ r.state = "unknown" => Stopping(r) # {}

Whole(r, a) == Settling(r) /\ (r.state = "accepted" => Journalled(r, Children, a))

\* The child that stopped r has an unknown outcome.
UnknownStopped(r) == UnknownChild(r) \in With(r, "unknown")

\* What a call relies on at the point pc with the copy r, after a resume that found mode:
\* a is the journal, m the marker, over whether the ledger is consumed.
PointOk(pc, r, mode, a, m, over) ==
  /\ pc \in {"mark", "child", "intent", "write", "revalidate", "close"} =>
       Journalled(r, Children, a)
  /\ pc \in {"outcome", "result"} => Journalled(r, Children \ {Max(Intended(r))}, a)
  /\ pc \in {"child", "intent", "write", "result"} => m
  /\ pc = "outcome" /\ With(r, "unknown") = {} => m
  /\ pc \in {"reaudit", "revalidate"} /\ mode = "dispatched" => m
  /\ pc = "reaudit" => mode \in LiveStates \/ (mode = "quarantined" /\ r.state = "unknown")
  /\ pc = "revalidate" => mode \in LiveStates
  /\ pc = "intent" => <<"intent", Min(Pending(r))>> \in a
  /\ pc = "write" => <<"intent", Max(Intended(r))>> \in a
  /\ pc \in {"child", "intent", "predispatch"} => Min(Pending(r)) \in With(r, "none")
  /\ pc \in {"result", "close"} /\ InProgress(r) => With(r, "unknown") = {}
  /\ pc = "close" => Stopping(r) # {} \/ Pending(r) = {}
  /\ pc = "outcome" => With(r, "unknown") = {} \/ UnknownStopped(r)
  /\ pc \in {"closeunknown", "unknownaudit", "contain", "resolve", "append",
             "resolvedaudit"} => UnknownStopped(r)
  /\ pc \in {"contain", "resolve", "append"} => <<"unknown", UnknownChild(r)>> \in a
  /\ pc = "stopall" => Intended(r) = {}
  /\ pc \in {"finish", "complete", "project"} => r.state \in {"accepted", "failed"}
  /\ pc = "complete" => <<"apply", r.state>> \in a
  /\ pc = "project" => over

LocalOk(l, a, m, over, t) ==
  /\ l.now \in 0..t /\ l.lease \in Tokens \cup {NoToken}
  /\ Whole(l.rec, a) /\ PointOk(l.pc, l.rec, l.mode, a, m, over)
  /\ l.pc = "evidencesave" => \A i \in DOMAIN l.todo : Whole(l.todo[i], a)

SettledInv ==
  /\ TypeOK /\ Whole(record, audit) /\ AppliedMeansAll
  /\ \A p \in Procs : LocalOk(loc[p], audit, marker, ledger.state = "consumed", clock)

-----------------------------------------------------------------------------
(* The transitions of a record. *)

\* The first of some children is one of them.
LEMMA FirstChild ==
  ASSUME NEW S \in SUBSET Children, S # {}
  PROVE  Min(S) \in S
<1>1. S \in SUBSET Nat
  BY ChildrenAssumption DEF Children
<1>2. PICK R : R = OpToRel(<, Nat)
  OBVIOUS
<1>3. IsWellFoundedOn(R, Nat)
  BY <1>2, NatLessThanWellFounded
<1>4. PICK m \in S : \A k \in S : <<k, m>> \notin R
  BY <1>1, <1>3, WFMin
<1>5. \A k, n \in Nat : k < n => <<k, n>> \in R
  BY <1>2 DEF OpToRel
<1>6. ASSUME NEW k \in S PROVE m =< k
  <2>1. m \in Nat /\ k \in Nat
    BY <1>1
  <2>2. ~(k < m)
    BY <1>4, <1>5, <2>1
  <2> QED BY <2>1, <2>2
<1> QED BY <1>6 DEF Min

\* What a transition that gives a disposition to the children in cs leaves.
LEMMA DisposedFields ==
  ASSUME NEW r \in Records, NEW state, NEW cs, NEW disp \in Dispositions
  PROVE  LET n == Revised(r, state, Disposed(r, cs, disp)) IN
         /\ n.state = state /\ n.rev = r.rev + 1 /\ Intended(n) = Intended(r)
         /\ With(n, disp) = With(r, disp) \cup (Children \cap cs)
         /\ \A x : x # disp => With(n, x) = With(r, x) \ cs
<1> DEFINE kids == Disposed(r, cs, disp)
           n == Revised(r, state, kids)
<1>1. \A c \in Children : /\ kids[c].intent = r.kids[c].intent
                          /\ kids[c].disp = IF c \in cs THEN disp ELSE r.kids[c].disp
  BY DisposedKids
<1>2. n.state = state /\ n.kids = kids /\ n.rev = r.rev + 1
  BY RevisedFields
<1> HIDE DEF kids, n
<1>3. Intended(n) = Intended(r)
  BY <1>1, <1>2 DEF Intended
<1>4. With(n, disp) = With(r, disp) \cup (Children \cap cs)
  BY <1>1, <1>2 DEF With
<1>5. \A x : x # disp => With(n, x) = With(r, x) \ cs
  BY <1>1, <1>2 DEF With
<1> QED BY <1>2, <1>3, <1>4, <1>5 DEF n, kids

\* A child has one disposition.
LEMMA OneDisposition ==
  ASSUME NEW r
  PROVE  /\ \A x, y : x # y => With(r, x) \cap With(r, y) = {}
         /\ \A x : With(r, x) \subseteq Children
         /\ r \in Records => \A c \in Children : \E x \in Dispositions : c \in With(r, x)
BY DEF With, Records

LEMMA OutcomeWhole ==
  ASSUME NEW r \in Records, NEW a, Whole(r, a), NEW c \in Unresolved(r),
         NEW disp \in {"accepted", "failed", "unknown"}
  PROVE  LET n == Outcome(r, c, disp) IN
         /\ Whole(n, a) /\ n.state = r.state /\ n.rev = r.rev + 1 /\ Intended(n) = Intended(r)
         /\ c \in With(n, disp)
         /\ \A s : Journalled(r, s, a) => Journalled(n, s \ {c}, a)
         /\ \A x : x # disp => With(n, x) = With(r, x) \ {c}
         /\ Stopping(r) \subseteq Stopping(n)
         /\ Stopping(r) = {} => With(n, "unknown") = {} \/ UnknownStopped(n)
<1> DEFINE n == Outcome(r, c, disp)
<1>1. c \in Children /\ c \in Intended(r) /\ c \in With(r, "none") /\ disp \in Dispositions
  BY DEF Unresolved, Intended, Dispositions
<1>2. /\ n.state = r.state /\ n.rev = r.rev + 1 /\ Intended(n) = Intended(r)
      /\ With(n, disp) = With(r, disp) \cup {c}
      /\ \A x : x # disp => With(n, x) = With(r, x) \ {c}
  <2>1. n = Revised(r, r.state, Disposed(r, {c}, disp))
    BY DEF Outcome
  <2> HIDE DEF n
  <2> QED BY <1>1, <2>1, DisposedFields
<1> HIDE DEF n
<1>3. Coherent(n) /\ Stopping(r) \subseteq Stopping(n)
  <2>1. With(n, "unattempted") = With(r, "unattempted") \ {c}
    BY <1>2
  <2>2. \A x \in {"accepted", "failed", "unknown"} :
          /\ With(n, x) \subseteq With(r, x) \cup {c}
          /\ With(r, x) \ {c} \subseteq With(n, x)
    BY <1>2
  <2>3. \A x \in {"accepted", "failed", "unknown"} : c \notin With(r, x)
    BY <1>1, OneDisposition
  <2> QED BY <1>1, <1>2, <2>1, <2>2, <2>3 DEF Coherent, Whole, Settling, Stopping
<1>4. r.state # "accepted" /\ r.state # "failed"
  <2>1. c \in Pending(r)
    BY <1>1, OneDisposition DEF Pending
  <2> QED BY <1>1, <2>1 DEF Whole, Settling
<1>5. Whole(n, a)
  BY <1>2, <1>3, <1>4 DEF Whole, Settling
<1>6. ASSUME NEW s, Journalled(r, s, a) PROVE Journalled(n, s \ {c}, a)
  <2>1. \A d \in With(n, "accepted") : d # c => d \in With(r, "accepted")
    BY <1>2
  <2> QED BY <1>6, <2>1 DEF Journalled
<1>7. ASSUME Stopping(r) = {}, With(n, "unknown") # {} PROVE UnknownStopped(n)
  <2>1. With(r, "failed") = {} /\ With(r, "unknown") = {}
    BY <1>7 DEF Stopping
  <2>2. disp = "unknown" /\ With(n, "failed") = {} /\ With(n, "unknown") = {c}
    BY <1>2, <1>7, <2>1
  <2>3. Stopping(n) = {c}
    BY <2>2 DEF Stopping
  <2>4. Min(Stopping(n)) = c
    BY <1>1, <2>3, FirstChild
  <2> QED BY <2>2, <2>4 DEF UnknownStopped, UnknownChild
<1> QED BY <1>2, <1>3, <1>5, <1>6, <1>7 DEF n

\* An Apply in progress that has stopped goes on with no child.
LEMMA StoppedIsLast ==
  ASSUME NEW r, NEW t, Sound(r, t), InProgress(r), NEW stop \in Stopping(r)
  PROVE  /\ stop \in Children /\ Stopping(r) = {stop} /\ Unresolved(r) = {}
         /\ Min(Stopping(r)) = stop
         /\ \A d \in Children : d < stop => d \in With(r, "accepted")
         /\ \A d \in Children : stop < d => d \in With(r, "none")
<1>1. Ordered(r) /\ stop \in Children /\ stop \in Intended(r)
  BY OneDisposition DEF Sound, Stopping, Ordered
<1>2. \A d \in Unresolved(r) \cup Stopping(r) : d = stop
  BY OneOpen
<1>3. stop \notin With(r, "none") /\ stop \notin With(r, "accepted")
  BY OneDisposition DEF Stopping
<1>4. Stopping(r) = {stop} /\ Unresolved(r) = {}
  <2>1. Stopping(r) = {stop}
    BY <1>2
  <2>2. \A d \in Unresolved(r) : FALSE
    BY <1>2, <1>3 DEF Unresolved
  <2> QED BY <2>1, <2>2
<1>5. Min(Stopping(r)) = stop
  BY <1>4, OneOpen
<1>6. \A d \in Children : stop < d => d \in With(r, "none")
  BY <1>1, <1>3 DEF Ordered
<1> QED BY <1>1, <1>4, <1>5, <1>6 DEF Ordered

\* finalize settles what it ends.
LEMMA FinalizeWhole ==
  ASSUME NEW r, NEW t, Sound(r, t), NEW a, Whole(r, a),
         InProgress(r) => Stopping(r) # {} \/ (Pending(r) = {} /\ Journalled(r, Children, a))
  PROVE  LET n == Finalize(r) IN
         /\ Whole(n, a) /\ Intended(n) = Intended(r)
         /\ InProgress(r) /\ With(r, "unknown") = {} => n.state \in {"accepted", "failed"}
         /\ \A x \in Dispositions \ {"none"} : With(r, x) \subseteq With(n, x)
         /\ Stopping(n) = Stopping(r) /\ With(n, "unknown") = With(r, "unknown")
<1>1. r \in Records /\ Coherent(r)
  BY DEF Sound, Whole, Settling
<1>2. CASE ~InProgress(r)
  BY <1>2 DEF Finalize, InProgress
<1>3. CASE InProgress(r) /\ Stopping(r) = {}
  <2> DEFINE n == Revised(r, "accepted", r.kids)
  <2>1. Finalize(r) = n
    BY <1>3 DEF Finalize, InProgress
  <2>2. n.state = "accepted" /\ n.kids = r.kids
    BY RevisedFields
  <2> HIDE DEF n
  <2>3. Intended(n) = Intended(r) /\ \A x : With(n, x) = With(r, x)
    BY <2>2 DEF Intended, With
  <2>4. Whole(n, a)
    BY <1>1, <1>3, <2>2, <2>3 DEF Whole, Settling, Coherent, Pending, Stopping, Journalled
  <2> QED BY <2>1, <2>2, <2>3, <2>4 DEF Stopping
<1>4. CASE InProgress(r) /\ Stopping(r) # {}
  <2>1. PICK stop : stop \in Stopping(r)
    BY <1>4
  <2>2. /\ stop \in Children /\ Stopping(r) = {stop} /\ Unresolved(r) = {}
        /\ Min(Stopping(r)) = stop
        /\ \A d \in Children : d < stop => d \in With(r, "accepted")
        /\ \A d \in Children : stop < d => d \in With(r, "none")
    BY <1>4, <2>1, StoppedIsLast
  <2> DEFINE cs == With(r, "none") \cap (stop + 1)..NChildren
             n == Revised(r, r.kids[stop].disp, Disposed(r, cs, "unattempted"))
  <2>3. Finalize(r) = n
    BY <1>4, <2>2 DEF Finalize, InProgress
  <2>4. r.kids[stop].disp \in {"failed", "unknown"} /\ stop \in With(r, r.kids[stop].disp)
    BY <2>2 DEF Stopping, With
  <2>5. cs = With(r, "none")
    <3> SUFFICES ASSUME NEW d \in With(r, "none") PROVE d \in (stop + 1)..NChildren
      OBVIOUS
    <3>1. d \in Children /\ d # stop /\ d \notin With(r, "accepted")
      BY <2>2, OneDisposition DEF Stopping
    <3>2. stop < d
      BY <2>2, <3>1, EarlierIsOurs
    <3> QED BY <2>2, <3>1, <3>2, ChildrenAssumption DEF Children
  <2>6. /\ n.state = r.kids[stop].disp /\ Intended(n) = Intended(r)
        /\ With(n, "unattempted") = With(r, "unattempted") \cup (Children \cap cs)
        /\ \A x : x # "unattempted" => With(n, x) = With(r, x) \ cs
    <3>1. "unattempted" \in Dispositions
      BY DEF Dispositions
    <3> HIDE DEF cs
    <3> QED BY <1>1, <3>1, DisposedFields
  <2> HIDE DEF cs, n
  <2>7. /\ With(n, "none") = {} /\ With(n, "unattempted") = With(r, "unattempted") \cup With(r, "none")
        /\ \A x : x # "unattempted" /\ x # "none" => With(n, x) = With(r, x)
    <3>1. With(n, "none") = {}
      BY <2>5, <2>6
    <3>2. With(n, "unattempted") = With(r, "unattempted") \cup With(r, "none")
      BY <2>5, <2>6, OneDisposition
    <3>3. \A x : x # "unattempted" /\ x # "none" => With(n, x) = With(r, x)
      BY <2>5, <2>6, OneDisposition
    <3> QED BY <3>1, <3>2, <3>3
  <2>8. Coherent(n) /\ Stopping(n) = {stop}
    BY <1>1, <2>2, <2>6, <2>7 DEF Coherent, Stopping, Unresolved
  <2>9. n.state = "failed" => With(n, "unknown") = {}
    <3>1. n.state = "failed" => stop \in With(n, "failed")
      BY <2>4, <2>6, <2>7
    <3>2. n.state = "failed" => stop \notin With(n, "unknown")
      BY <3>1, OneDisposition
    <3> QED BY <2>8, <3>2 DEF Stopping
  <2>10. Whole(n, a)
    BY <2>4, <2>6, <2>7, <2>8, <2>9 DEF Whole, Settling
  <2>11. With(r, "unknown") = {} => n.state = "failed"
    BY <2>4, <2>6
  <2> QED BY <2>2, <2>3, <2>6, <2>7, <2>8, <2>10, <2>11
<1> QED BY <1>2, <1>3, <1>4

LEMMA IntendWhole ==
  ASSUME NEW r, NEW t, Sound(r, t), NEW a, Whole(r, a), NEW c, MayIntend(r, c)
  PROVE  LET n == Intend(r, c) IN
         /\ Whole(n, a) /\ InProgress(n) /\ Max(Intended(n)) = c
         /\ n.rev = r.rev + 1 /\ Intended(n) = Intended(r) \cup {c}
         /\ \A x : With(n, x) = With(r, x)
<1> DEFINE n == Intend(r, c)
<1>1. /\ InProgress(n) /\ n.rev = r.rev + 1 /\ c \in Children /\ Max(Intended(n)) = c
      /\ Intended(n) = Intended(r) \cup {c}
  BY IntendOk
<1>2. \A x : With(n, x) = With(r, x)
  <2> DEFINE kids == [r.kids EXCEPT ![c].intent = TRUE]
  <2>1. \A d \in Children : kids[d].disp = r.kids[d].disp
    BY <1>1 DEF Sound, Records
  <2>2. n.kids = kids
    <3>1. n = Revised(r, r.state, kids)
      BY DEF Intend
    <3> HIDE DEF n, kids
    <3> QED BY <3>1, RevisedFields
  <2> HIDE DEF n, kids
  <2> QED BY <2>1, <2>2 DEF With
<1> HIDE DEF n
<1>3. c \in With(r, "none") /\ Coherent(r)
  BY DEF MayIntend, Whole, Settling
<1>4. c \notin With(r, "unattempted")
  BY <1>3, OneDisposition
<1>5. Whole(n, a)
  BY <1>1, <1>2, <1>3, <1>4 DEF Whole, Settling, Coherent, Stopping, InProgress
<1> QED BY <1>1, <1>2, <1>5 DEF n

LEMMA CriticalWhole ==
  ASSUME NEW r, NEW a, Whole(r, a)
  PROVE  LET n == MarkCritical(r) IN
         /\ Whole(n, a) /\ n.rev = r.rev + 1 /\ Intended(n) = Intended(r)
         /\ \A x : With(n, x) = With(r, x)
<1> DEFINE n == MarkCritical(r)
<1>1. n.state = "critical-unknown" /\ n.kids = r.kids /\ n.rev = r.rev + 1
  BY RevisedFields DEF MarkCritical
<1> HIDE DEF n
<1>2. Intended(n) = Intended(r) /\ \A x : With(n, x) = With(r, x)
  BY <1>1 DEF Intended, With
<1>3. Whole(n, a)
  BY <1>1, <1>2 DEF Whole, Settling, Coherent, Stopping
<1> QED BY <1>1, <1>2, <1>3 DEF n

LEMMA StopAllWhole ==
  ASSUME NEW r \in Records, NEW a, MayStopAll(r), Coherent(r)
  PROVE  LET n == StopAll(r) IN
         /\ Whole(n, a) /\ n.rev = r.rev + 1 /\ Intended(n) = {}
         /\ \A x \in Dispositions \ {"none"} : With(r, x) \subseteq With(n, x)
<1> DEFINE n == StopAll(r)
<1>1. /\ n.state = "failed" /\ n.rev = r.rev + 1 /\ Intended(n) = Intended(r)
      /\ With(n, "unattempted") = With(r, "unattempted") \cup (Children \cap Children)
      /\ \A x : x # "unattempted" => With(n, x) = With(r, x) \ Children
  <2>1. n = Revised(r, "failed", Disposed(r, Children, "unattempted"))
        /\ "unattempted" \in Dispositions
    BY DEF StopAll, Dispositions
  <2> HIDE DEF n
  <2> QED BY <2>1, DisposedFields
<1> HIDE DEF n
<1>2. Intended(r) = {}
  BY DEF MayStopAll
<1>3. \A x : x # "unattempted" => With(n, x) = {}
  BY <1>1, OneDisposition
<1>4. With(r, "accepted") = {} /\ With(r, "failed") = {} /\ With(r, "unknown") = {}
  BY <1>2 DEF Coherent, Stopping
<1>5. Whole(n, a)
  BY <1>1, <1>2, <1>3 DEF Whole, Settling, Coherent, Stopping
<1> QED BY <1>1, <1>2, <1>4, <1>5 DEF n, Dispositions

\* Nothing that was begun has an unknown outcome when the first open child has no intent.
LEMMA NoneUnknown ==
  ASSUME NEW r, NEW t, Sound(r, t), InProgress(r), Min(Pending(r)) \in With(r, "none")
  PROVE  With(r, "unknown") = {} /\ Stopping(r) = {}
<1> SUFFICES ASSUME NEW c \in Stopping(r) PROVE FALSE
  BY DEF Stopping
<1>1. c \in Children /\ Stopping(r) = {c} /\ \A d \in Children : d < c => d \in With(r, "accepted")
  BY StoppedIsLast
<1>2. c \in Pending(r) /\ Pending(r) \subseteq Int
  BY <1>1, OneDisposition, EarlierIsOurs DEF Pending, Stopping
<1>3. PICK m : m = Min(Pending(r))
  OBVIOUS
<1>4. \A d \in Pending(r) : c <= d
  BY <1>1, <1>2, EarlierIsOurs DEF Pending
<1>5. m = c
  <2>1. \E x \in Pending(r) : \A y \in Pending(r) : x =< y
    BY <1>2, <1>4
  <2>2. m \in Pending(r) /\ \A y \in Pending(r) : m =< y
    BY <1>3, <2>1 DEF Min
  <2> QED BY <1>2, <1>4, <2>2
<1> QED BY <1>3, <1>5, OneDisposition DEF Stopping

LEMMA StopPendingWhole ==
  ASSUME NEW r, NEW t, Sound(r, t), NEW a, Whole(r, a), MayStopPending(r),
         Min(Pending(r)) \in With(r, "none")
  PROVE  LET n == StopPending(r) IN
         /\ Whole(n, a) /\ n.rev = r.rev + 1 /\ Intended(n) = Intended(r)
         /\ \A x \in Dispositions \ {"none"} : With(r, x) \subseteq With(n, x)
         /\ With(n, "none") = {}
<1> DEFINE n == StopPending(r)
           cs == With(r, "none")
<1>1. r \in Records /\ InProgress(r) /\ Unresolved(r) = {} /\ Coherent(r)
  BY DEF Sound, MayStopPending, InProgress, Whole, Settling
<1>2. /\ n.state = "failed" /\ n.rev = r.rev + 1 /\ Intended(n) = Intended(r)
      /\ With(n, "unattempted") = With(r, "unattempted") \cup (Children \cap cs)
      /\ \A x : x # "unattempted" => With(n, x) = With(r, x) \ cs
  <2>1. n = Revised(r, "failed", Disposed(r, cs, "unattempted"))
        /\ "unattempted" \in Dispositions
    BY DEF StopPending, Dispositions
  <2> HIDE DEF n, cs
  <2> QED BY <1>1, <2>1, DisposedFields
<1> HIDE DEF n, cs
<1>3. With(r, "unknown") = {}
  BY <1>1, NoneUnknown
<1>4. /\ With(n, "none") = {}
      /\ \A x : x # "unattempted" /\ x # "none" => With(n, x) = With(r, x)
  <2>1. With(n, "none") = With(r, "none") \ cs
    BY <1>2
  <2>2. ASSUME NEW x, x # "unattempted", x # "none" PROVE With(n, x) = With(r, x)
    <3>1. With(n, x) = With(r, x) \ cs
      BY <1>2, <2>2
    <3>2. With(r, x) \cap cs = {}
      BY <2>2, OneDisposition DEF cs
    <3> QED BY <3>1, <3>2
  <2> QED BY <2>1, <2>2 DEF cs
<1>5. Coherent(n)
  <2>1. With(r, "none") \cap Intended(r) = {}
    BY <1>1 DEF Unresolved
  <2> QED BY <1>1, <1>2, <1>4, <2>1 DEF Coherent, Stopping, cs
<1>6. Whole(n, a)
  BY <1>2, <1>3, <1>4, <1>5 DEF Whole, Settling
<1>7. \A x \in Dispositions \ {"none"} : With(r, x) \subseteq With(n, x)
  BY <1>2, <1>4
<1> QED BY <1>2, <1>4, <1>6, <1>7 DEF n

LEMMA EvidenceWhole ==
  ASSUME NEW r, NEW t, Sound(r, t), NEW a, Whole(r, a)
  PROVE  LET w == EvidenceWrites(r) IN \A i \in DOMAIN w : Whole(w[i], a)
<1>1. r \in Records /\ Unresolved(r) \subseteq Children
  BY DEF Sound, Unresolved, Intended
<1>2. CASE Unresolved(r) # {}
  <2> DEFINE c == Min(Unresolved(r))
             u == Outcome(r, c, "unknown")
             e == Finalize(u)
  <2>1. c \in Unresolved(r)
    BY <1>1, <1>2, FirstChild
  <2>2. EvidenceWrites(r) = <<u, e, MarkCritical(e)>>
    BY <1>2 DEF EvidenceWrites
  <2>3. "unknown" \in Dispositions \ {"none"}
    BY DEF Dispositions
  <2> HIDE DEF c
  <2>4. Whole(u, a) /\ c \in With(u, "unknown")
    BY <1>1, <2>1, OutcomeWhole
  <2>5. Sound(u, t)
    BY <2>1, <2>3, OutcomeOk
  <2>6. Stopping(u) # {}
    BY <2>4 DEF Stopping
  <2> HIDE DEF u
  <2>7. Whole(e, a)
    BY <2>4, <2>5, <2>6, FinalizeWhole
  <2> HIDE DEF e
  <2>8. Whole(MarkCritical(e), a)
    BY <2>7, CriticalWhole
  <2> QED BY <2>2, <2>4, <2>7, <2>8
<1>3. CASE Unresolved(r) = {} /\ r.state = "in-progress" /\ MayStopAll(r)
  <2>1. EvidenceWrites(r) = <<StopAll(r), MarkCritical(StopAll(r))>>
    BY <1>3 DEF EvidenceWrites
  <2>2. Whole(StopAll(r), a)
    BY <1>1, <1>3, StopAllWhole DEF Whole, Settling
  <2>3. Whole(MarkCritical(StopAll(r)), a)
    BY <2>2, CriticalWhole
  <2> QED BY <2>1, <2>2, <2>3
<1>4. CASE Unresolved(r) = {} /\ ~(r.state = "in-progress" /\ MayStopAll(r))
  <2>1. EvidenceWrites(r) = <<MarkCritical(r)>>
    BY <1>4 DEF EvidenceWrites
  <2> QED BY <2>1, CriticalWhole
<1> QED BY <1>2, <1>3, <1>4

-----------------------------------------------------------------------------
(* What a step leaves as it is. *)

\* Facts are retained, the marker stays, a consumed ledger is final, time does not go
\* back and what was applied is applied.
Lasts ==
  /\ audit \subseteq audit' /\ (marker => marker')
  /\ ledger.state = "consumed" => ledger'.state = "consumed"
  /\ clock' \in Nat /\ clock <= clock'
  /\ \A c \in Children : truth[c] = "applied" => truth'[c] = "applied"

Kept == Lasts /\ TypeOK' /\ Whole(record', audit')

LEMMA WholeLasts ==
  ASSUME NEW a, NEW b, a \subseteq b
  PROVE  \A r : (Whole(r, a) => Whole(r, b)) /\ \A s : Journalled(r, s, a) => Journalled(r, s, b)
BY DEF Whole, Journalled

\* What a call relies on stays so, whatever the others do.
LEMMA LocalLasts ==
  ASSUME Lasts, clock \in Nat, NEW l,
         LocalOk(l, audit, marker, ledger.state = "consumed", clock)
  PROVE  LocalOk(l, audit', marker', ledger'.state = "consumed", clock')
<1>1. l.now \in 0..clock' /\ l.lease \in Tokens \cup {NoToken}
  BY DEF LocalOk, Lasts
<1>2. /\ \A r : Whole(r, audit) => Whole(r, audit')
      /\ \A r, s : Journalled(r, s, audit) => Journalled(r, s, audit')
  BY WholeLasts DEF Lasts
<1>3. PointOk(l.pc, l.rec, l.mode, audit', marker', ledger'.state = "consumed")
  <2>1. PointOk(l.pc, l.rec, l.mode, audit, marker, ledger.state = "consumed")
    BY DEF LocalOk
  <2> QED BY <1>2, <2>1 DEF PointOk, Lasts
<1> QED BY <1>1, <1>2, <1>3 DEF LocalOk

LEMMA SettledMoves ==
  ASSUME SettledInv, NEW p \in Procs, NEW l, Moves(p, l), Kept, AppliedMeansAll',
         LocalOk(l, audit', marker', ledger'.state = "consumed", clock')
  PROVE  SettledInv'
<1>1. clock \in Nat
  BY DEF SettledInv, TypeOK
<1>2. ASSUME NEW q \in Procs
      PROVE  LocalOk(loc'[q], audit', marker', ledger'.state = "consumed", clock')
  <2>1. PICK m : m = loc[q]
    OBVIOUS
  <2>2. LocalOk(m, audit', marker', ledger'.state = "consumed", clock')
    BY <1>1, <2>1, LocalLasts DEF SettledInv, Kept
  <2>3. loc'[q] = IF q = p THEN l ELSE m
    BY <2>1 DEF Moves
  <2> QED BY <2>2, <2>3
<1> QED BY <1>2 DEF SettledInv, Kept, Whole, Settling, Journalled

LEMMA AppliedLasts ==
  ASSUME SettledInv, Lasts, told' = told \/ told' # "applied"
  PROVE  AppliedMeansAll'
BY DEF SettledInv, Lasts, AppliedMeansAll

LEMMA JumpSettles ==
  ASSUME WriteInv, SettledInv, NEW p \in Procs, NEW pc, pc # "evidencesave", NEW r,
         Jump(p, pc, r), Kept, Whole(r, audit'),
         PointOk(pc, r, loc[p].mode, audit', marker', ledger'.state = "consumed")
  PROVE  SettledInv'
<1>1. PICK l : Moves(p, l) /\ l.pc = pc /\ l.rec = r /\ Carries(l, loc[p])
  BY JumpMoves
<1>2. loc[p].now \in 0..clock' /\ loc[p].lease \in Tokens \cup {NoToken}
  BY DEF SettledInv, LocalOk, Kept, Lasts, TypeOK
<1>3. LocalOk(l, audit', marker', ledger'.state = "consumed", clock')
  BY <1>1, <1>2 DEF LocalOk, Carries
<1>4. AppliedMeansAll'
  BY AppliedLasts DEF Kept, Jump
<1> QED BY <1>1, <1>3, <1>4, SettledMoves

LEMMA NoRecordWhole ==
  \A a : Whole(NoRecord, a) /\ Whole(NewRecord, a) /\ With(NewRecord, "accepted") = {}
<1>1. \A x \in {"accepted", "failed", "unknown", "unattempted"} :
        With(NoRecord, x) = {} /\ With(NewRecord, x) = {}
  BY DEF NoRecord, NewRecord, Untouched, With
<1>2. NoRecord.state = "missing" /\ NewRecord.state = "in-progress"
  BY DEF NoRecord, NewRecord
<1> QED BY <1>1, <1>2 DEF Whole, Settling, Coherent, Stopping

LEMMA ReturnSettles ==
  ASSUME WriteInv, SettledInv, NEW p \in Procs, NEW answer, Return(p, answer), Kept,
         answer = "applied" => AppliedMeansAll'
  PROVE  SettledInv'
<1>1. PICK l : l = Idle
  OBVIOUS
<1>2. l.pc = "idle" /\ l.now = 0 /\ l.rec = NoRecord /\ l.lease = NoToken
  BY <1>1 DEF Idle
<1>3. LocalOk(l, audit', marker', ledger'.state = "consumed", clock')
  <2>1. 0 \in 0..clock'
    BY DEF Kept, Lasts
  <2> QED BY <1>2, <2>1, NoRecordWhole DEF LocalOk, PointOk
<1>4. Moves(p, l)
  BY <1>1, ReturnMoves
<1>5. AppliedMeansAll'
  BY AppliedLasts DEF Kept, Return
<1> QED BY <1>3, <1>4, <1>5, SettledMoves

\* Points that rely on no more than a copy that is whole.
Free == Points \ {"mark", "child", "intent", "write", "revalidate", "close", "outcome",
                  "result", "reaudit", "predispatch", "closeunknown", "stopall", "finish",
                  "complete", "project", "evidencesave", "unknownaudit", "contain",
                  "resolve", "append", "resolvedaudit"}

LEMMA FreeSettles ==
  ASSUME WriteInv, SettledInv, NEW p \in Procs, NEW pc \in Free, NEW r, Jump(p, pc, r), Kept,
         Whole(r, audit')
  PROVE  SettledInv'
<1>1. PointOk(pc, r, loc[p].mode, audit', marker', ledger'.state = "consumed")
  BY DEF PointOk, Free, Points
<1> QED BY <1>1, JumpSettles DEF Free

LEMMA CriticalSettles ==
  ASSUME WriteInv, SettledInv, NEW p \in Procs, NEW r, Critical(p, r), Kept, Whole(r, audit')
  PROVE  SettledInv'
BY FreeSettles DEF Critical, Free, Points

LEMMA CopyWhole ==
  ASSUME SettledInv, Kept, NEW p \in Procs
  PROVE  /\ Whole(loc[p].rec, audit) /\ Whole(loc[p].rec, audit')
         /\ PointOk(loc[p].pc, loc[p].rec, loc[p].mode, audit, marker, ledger.state = "consumed")
         /\ PointOk(loc[p].pc, loc[p].rec, loc[p].mode, audit', marker',
                    ledger'.state = "consumed")
<1>1. PICK l : l = loc[p]
  OBVIOUS
<1>2. LocalOk(l, audit, marker, ledger.state = "consumed", clock) /\ clock \in Nat
  BY <1>1 DEF SettledInv, TypeOK
<1>3. LocalOk(l, audit', marker', ledger'.state = "consumed", clock')
  BY <1>2, LocalLasts DEF Kept
<1> QED BY <1>1, <1>2, <1>3 DEF LocalOk

LEMMA FreeCopySettles ==
  ASSUME WriteInv, SettledInv, NEW p \in Procs, Kept,
         (\E pc \in Free : Goto(p, pc)) \/ Critical(p, loc[p].rec)
  PROVE  SettledInv'
BY FreeSettles, CriticalSettles, CopyWhole DEF Goto

\* A step that leaves the plan repository alone.
LEMMA QuietKept ==
  ASSUME SettledInv, Quiet, audit \subseteq audit', Whole(record', audit), UNCHANGED truth
  PROVE  Kept /\ marker' = marker /\ ledger' = ledger
<1>1. /\ UNCHANGED <<plan, ledger, marker, clock, issued, grants, authority, threat, backup>>
      /\ reply' = Says("none", "missing") /\ TypeOK
  BY DEF Quiet, SettledInv
<1>2. reply' \in [op: Ops, status: Statuses, token: Tokens \cup {NoToken}]
  BY <1>1, StatusesKnown DEF Says, Answer, Ops
<1>3. TypeOK' /\ clock \in Nat
  BY <1>1, <1>2 DEF TypeOK
<1>4. Lasts
  BY <1>1, <1>3 DEF Lasts
<1>5. Whole(record', audit')
  BY WholeLasts
<1> QED BY <1>1, <1>3, <1>4, <1>5 DEF Kept

LEMMA StillKept ==
  ASSUME SettledInv, Quiet, audit \subseteq audit', record' = record, UNCHANGED truth
  PROVE  Kept /\ marker' = marker /\ ledger' = ledger
BY QuietKept DEF SettledInv

\* A step that calls the plan repository.
LEMMA AskedKept ==
  ASSUME SettledInv, NEW p \in Procs, NEW why \in CallerReasons,
         Called(loc[p].lease, loc[p].now, why), UNCHANGED <<durable, provider>>
  PROVE  Kept
<1>1. loc[p].lease \in Tokens \cup {NoToken} /\ loc[p].now \in Instants /\ TypeOK
  BY DEF SettledInv, LocalOk, Instants
<1>2. TypeOK'
  BY <1>1, CalledTyped
<1>3. /\ clock' = clock /\ (marker => marker')
      /\ ledger.state = "consumed" => ledger'.state = "consumed"
  BY CalledKeeps
<1>4. record' = record /\ audit' = audit /\ truth' = truth
  BY DEF durable, provider
<1>5. Lasts
  BY <1>1, <1>3, <1>4 DEF Lasts, TypeOK
<1>6. Whole(record', audit')
  BY <1>4 DEF SettledInv
<1> QED BY <1>2, <1>5, <1>6 DEF Kept

\* Points of a call that asks what became of an unknown write.
Pursuit == {"unknownaudit", "contain", "resolve", "append", "resolvedaudit"}

\* A call that asks goes on with the copy it began with, once the unknown outcome is in the
\* journal.
LEMMA PursuitSettles ==
  ASSUME WriteInv, SettledInv, NEW p \in Procs, Kept, loc[p].pc \in Pursuit,
         \/ loc[p].pc \in {"contain", "resolve", "append"}
         \/ <<"unknown", UnknownChild(loc[p].rec)>> \in audit',
         NEW pc \in Pursuit, Goto(p, pc)
  PROVE  SettledInv'
<1>1. PICK r : r = loc[p].rec
  OBVIOUS
<1>2. Whole(r, audit') /\ UnknownStopped(r) /\ <<"unknown", UnknownChild(r)>> \in audit'
  BY <1>1, CopyWhole DEF PointOk, Pursuit
<1>3. PointOk(pc, r, loc[p].mode, audit', marker', ledger'.state = "consumed")
  BY <1>2 DEF PointOk, Pursuit
<1>4. pc # "evidencesave" /\ Jump(p, pc, r)
  BY <1>1 DEF Pursuit, Goto
<1> QED BY <1>2, <1>3, <1>4, JumpSettles

-----------------------------------------------------------------------------
(* The steps. *)

LEMMA BeginSettles ==
  ASSUME WriteInv, SettledInv, NEW p \in Procs, Begin(p) \/ Crash(p)
  PROVE  SettledInv'
<1>1. CASE Crash(p)
  BY <1>1, StillKept, ReturnSettles DEF Crash, Local, durable, provider
<1>2. CASE Begin(p)
  <2>1. PICK l : Moves(p, l) /\ l.pc = "load" /\ l.rec = NoRecord /\ l.now = clock
                 /\ l.lease = NoToken
    BY <1>2, BeginMoves
  <2>2. Kept /\ clock' = clock
    BY <1>2 DEF Begin, Kept, Lasts, SettledInv, TypeOK, vars, durable, provider
  <2>3. LocalOk(l, audit', marker', ledger'.state = "consumed", clock')
    <3>1. clock \in 0..clock'
      BY <2>2 DEF SettledInv, TypeOK
    <3> QED BY <2>1, <3>1, NoRecordWhole DEF LocalOk, PointOk
  <2>4. AppliedMeansAll'
    BY <1>2, <2>2, AppliedLasts DEF Begin, Kept
  <2> QED BY <2>1, <2>2, <2>3, <2>4, SettledMoves
<1> QED BY <1>1, <1>2

LEMMA LandSettles ==
  ASSUME WriteInv, SettledInv, NEW c \in Children, Land(c)
  PROVE  SettledInv'
<1>1. /\ Lasts /\ loc' = loc /\ told' = told /\ Whole(record', audit')
      /\ TypeOK' /\ clock' = clock
  <2>1. UNCHANGED vars /\ audit' = audit /\ record' = record /\ told' = told /\ loc' = loc
    BY DEF Land, durable
  <2>2. \A d \in Children : truth[d] = "applied" => truth'[d] = "applied"
    BY DEF Land, WriteInv, StoreInv
  <2> QED BY <2>1, <2>2 DEF Lasts, SettledInv, TypeOK, vars
<1>2. \A p \in Procs : LocalOk(loc'[p], audit', marker', ledger'.state = "consumed", clock')
  BY <1>1, LocalLasts DEF SettledInv, TypeOK
<1>3. AppliedMeansAll'
  BY <1>1, AppliedLasts
<1> QED BY <1>1, <1>2, <1>3 DEF SettledInv, Whole, Settling, Journalled

LEMMA TickSettles ==
  ASSUME SettledInv, TimePasses \/ Rest \/ UNCHANGED allVars
  PROVE  SettledInv'
<1>1. /\ Lasts /\ loc' = loc /\ told' = told /\ Whole(record', audit') /\ TypeOK'
  <2>1. CASE TimePasses
    <3>1. TypeOK'
      BY <2>1, EnvironmentTyped DEF TimePasses, SettledInv
    <3>2. clock \in Nat /\ clock' = clock + 1
      BY <2>1 DEF TimePasses, Tick, SettledInv, TypeOK
    <3> QED BY <2>1, <3>1, <3>2 DEF TimePasses, Tick, Lasts, SettledInv, durable, provider
  <2>2. CASE Rest \/ UNCHANGED allVars
    BY <2>2 DEF Rest, allVars, vars, durable, provider, Lasts, SettledInv, TypeOK
  <2> QED BY <2>1, <2>2
<1>2. \A p \in Procs : LocalOk(loc'[p], audit', marker', ledger'.state = "consumed", clock')
  BY <1>1, LocalLasts DEF SettledInv, TypeOK
<1>3. AppliedMeansAll'
  BY <1>1, AppliedLasts
<1> QED BY <1>1, <1>2, <1>3 DEF SettledInv, Whole, Settling, Journalled

\* The steps of a call that go to a point it relies on nothing at, or end it.
LEMMA PlainSettles ==
  ASSUME WriteInv, SettledInv, NEW p \in Procs,
         \/ LoadRecord(p) \/ Reject(p) \/ PreAudit(p) \/ UnknownAudit(p) \/ Resolve(p)
         \/ AppendResolution(p) \/ ResolvedAudit(p) \/ PreAuditFail(p) \/ EvidenceAudit(p)
         \/ InvalidAudit(p)
  PROVE  SettledInv'
<1>1. Quiet /\ audit \subseteq audit' /\ record' = record /\ UNCHANGED truth
  BY DEF LoadRecord, Reject, PreAudit, UnknownAudit, Resolve, AppendResolution, ResolvedAudit,
         PreAuditFail, EvidenceAudit, InvalidAudit, Journal, Local, durable, provider
<1>2. Kept
  BY <1>1, StillKept
<1>3. CASE LoadRecord(p)
  <2>1. Whole(record, audit')
    BY <1>1, <1>2 DEF Kept
  <2>2. (\E pc \in Free : Jump(p, pc, record)) \/ Return(p, "refused")
    BY <1>3 DEF LoadRecord, Free, Points
  <2> QED BY <1>2, <2>1, <2>2, FreeSettles, ReturnSettles
<1>4. CASE \/ Reject(p) \/ PreAudit(p) \/ Resolve(p) \/ AppendResolution(p)
           \/ ResolvedAudit(p) \/ PreAuditFail(p) \/ EvidenceAudit(p) \/ InvalidAudit(p)
  <2>1. \/ \E pc \in Free : Goto(p, pc)
        \/ \E pc \in Pursuit : loc[p].pc \in {"resolve", "append"} /\ Goto(p, pc)
        \/ Critical(p, loc[p].rec)
        \/ \E answer : Return(p, answer) /\ answer # "applied"
    BY <1>4 DEF Reject, PreAudit, Resolve, AppendResolution, ResolvedAudit,
       PreAuditFail, EvidenceAudit, InvalidAudit, Journal, At, Pursuit, Free, Points
  <2>2. loc[p].pc \in {"resolve", "append"} => loc[p].pc \in Pursuit
    BY DEF Pursuit
  <2> QED BY <1>2, <2>1, <2>2, FreeCopySettles, PursuitSettles, ReturnSettles
<1>5. CASE UnknownAudit(p)
  <2>1. PICK r, c : r = loc[p].rec /\ c = UnknownChild(r)
    OBVIOUS
  <2>2. /\ loc[p].pc = "unknownaudit"
        /\ \/ \E pc \in Pursuit : <<r.kids[c].disp, c>> \in audit' /\ Goto(p, pc)
           \/ Critical(p, r)
    BY <1>5, <2>1 DEF UnknownAudit, Journal, At, Pursuit
  <2>3. r.kids[c].disp = "unknown"
    BY <1>2, <2>1, <2>2, CopyWhole DEF PointOk, UnknownStopped, With
  <2>4. "unknownaudit" \in Pursuit
    BY DEF Pursuit
  <2> QED BY <1>2, <2>1, <2>2, <2>3, <2>4, FreeCopySettles, PursuitSettles
<1> QED BY <1>3, <1>4, <1>5

LEMMA AskingSettles ==
  ASSUME WriteInv, SettledInv, NEW p \in Procs,
         \/ LoadPlan(p) \/ Contain(p) \/ PreQuarantine(p) \/ CriticalQuarantine(p)
         \/ InvalidateLedger(p)
  PROVE  SettledInv'
<1>1. PICK why \in CallerReasons :
        Called(loc[p].lease, loc[p].now, why) /\ UNCHANGED <<durable, provider>>
  BY ApplyAssumption
     DEF LoadPlan, Contain, PreQuarantine, CriticalQuarantine, InvalidateLedger,
         AskRepository, Called
<1>2. Kept
  BY <1>1, AskedKept
<1>3. \/ \E pc \in Free : Goto(p, pc)
      \/ /\ loc[p].pc = "contain" /\ Goto(p, "resolve")
         /\ "contain" \in Pursuit /\ "resolve" \in Pursuit
      \/ Critical(p, loc[p].rec)
      \/ \E answer : Return(p, answer) /\ answer # "applied"
  BY DEF LoadPlan, Contain, PreQuarantine, CriticalQuarantine, InvalidateLedger,
         AskRepository, At, Pursuit, Free, Points
<1> QED BY <1>2, <1>3, FreeCopySettles, PursuitSettles, ReturnSettles

\* Where a call is that has the record's next child, or has them all.
LEMMA NextSettles ==
  ASSUME NEW r, NEW mode, NEW a, NEW m, NEW over, Journalled(r, Children, a), m
  PROVE  PointOk(NextPoint(r), r, mode, a, m, over)
<1>1. CASE Pending(r) = {}
  <2>1. With(r, "unknown") = {}
    BY <1>1, OneDisposition DEF Pending
  <2> QED BY <1>1, <2>1 DEF NextPoint, PointOk
<1>2. CASE Pending(r) # {} /\ Min(Pending(r)) \in With(r, "none")
  BY <1>2 DEF NextPoint, PointOk
<1>3. CASE Pending(r) # {} /\ Min(Pending(r)) \notin With(r, "none")
  BY <1>3 DEF NextPoint, PointOk
<1> QED BY <1>1, <1>2, <1>3

\* Marking the dispatch, the first child follows.
LEMMA MarkSettles ==
  ASSUME WriteInv, SettledInv, NEW p \in Procs, Mark(p)
  PROVE  SettledInv'
<1>1. /\ loc[p].pc = "mark" /\ MarkDispatched(loc[p].lease, loc[p].now)
      /\ UNCHANGED <<durable, provider>>
      /\ IF reply'.status = "dispatched" THEN Goto(p, NextPoint(loc[p].rec))
         ELSE Return(p, "refused")
  BY DEF Mark, AskRepository, At
<1>2. PICK why \in CallerReasons : TRUE
  BY ApplyAssumption
<1>3. Kept
  BY <1>1, <1>2, AskedKept DEF Called
<1>4. CASE reply'.status = "dispatched"
  <2>1. marker'
    BY <1>1, <1>4, AnswersAreSo
  <2>2. Whole(loc[p].rec, audit') /\ Journalled(loc[p].rec, Children, audit')
    BY <1>1, <1>3, CopyWhole DEF PointOk
  <2>3. PointOk(NextPoint(loc[p].rec), loc[p].rec, loc[p].mode, audit', marker',
                ledger'.state = "consumed")
    BY <2>1, <2>2, NextSettles
  <2>4. NextPoint(loc[p].rec) # "evidencesave"
    BY DEF NextPoint
  <2> QED BY <1>1, <1>3, <1>4, <2>2, <2>3, <2>4, JumpSettles DEF Goto
<1> QED BY <1>1, <1>3, <1>4, ReturnSettles

LEMMA CreateSettles ==
  ASSUME WriteInv, SettledInv, NEW p \in Procs, Create(p)
  PROVE  SettledInv'
<1>1. PICK n : n = NewRecord
  OBVIOUS
<1>2. /\ Quiet /\ audit' = audit /\ truth' = truth /\ record' \in {record, n}
      /\ Jump(p, "mark", n) \/ Return(p, "refused")
  BY <1>1 DEF Create, Save, provider
<1>3. \A a : Whole(n, a) /\ Journalled(n, Children, a)
  BY <1>1, NoRecordWhole DEF Journalled
<1>4. Kept
  BY <1>2, <1>3, QuietKept DEF SettledInv
<1>5. PointOk("mark", n, loc[p].mode, audit', marker', ledger'.state = "consumed")
  BY <1>3 DEF PointOk
<1> QED BY <1>2, <1>3, <1>4, <1>5, JumpSettles, ReturnSettles

LEMMA IntendAuditSettles ==
  ASSUME WriteInv, SettledInv, NEW p \in Procs, IntendAudit(p)
  PROVE  SettledInv'
<1>1. PICK r, c : r = loc[p].rec /\ c = Min(Pending(r))
  OBVIOUS
<1>2. /\ loc[p].pc = "child" /\ Quiet /\ record' = record /\ truth' = truth
      /\ audit \subseteq audit'
      /\ \/ Goto(p, "intent") /\ <<"intent", c>> \in audit'
         \/ Goto(p, "predispatch")
  BY <1>1 DEF IntendAudit, Journal, provider, At
<1>3. Kept
  BY <1>2, StillKept
<1>4. /\ Whole(r, audit') /\ Journalled(r, Children, audit') /\ marker'
      /\ c \in With(r, "none")
  BY <1>1, <1>2, <1>3, CopyWhole DEF PointOk
<1>5. CASE Goto(p, "intent") /\ <<"intent", c>> \in audit'
  <2>1. PointOk("intent", r, loc[p].mode, audit', marker', ledger'.state = "consumed")
    BY <1>1, <1>4, <1>5 DEF PointOk
  <2> QED BY <1>1, <1>3, <1>4, <1>5, <2>1, JumpSettles DEF Goto
<1>6. CASE Goto(p, "predispatch")
  <2>1. PointOk("predispatch", r, loc[p].mode, audit', marker', ledger'.state = "consumed")
    BY <1>1, <1>4 DEF PointOk
  <2> QED BY <1>1, <1>3, <1>4, <1>6, <2>1, JumpSettles DEF Goto
<1> QED BY <1>2, <1>5, <1>6

LEMMA SaveIntentSettles ==
  ASSUME WriteInv, SettledInv, NEW p \in Procs, SaveIntent(p)
  PROVE  SettledInv'
<1>1. PICK r, c, n : r = loc[p].rec /\ c = Min(Pending(r)) /\ n = Intend(r, c)
  OBVIOUS
<1>2. /\ loc[p].pc = "intent" /\ Quiet /\ audit' = audit /\ truth' = truth
      /\ record' \in {record, n}
      /\ Jump(p, "write", n) \/ Goto(p, "predispatch")
  BY <1>1 DEF SaveIntent, Save, provider, At
<1>3. RecordOk(r) /\ MayIntend(r, c)
  BY <1>1, <1>2 DEF WriteInv, ProcOk
<1>4. /\ Whole(r, audit) /\ Journalled(r, Children, audit) /\ marker
      /\ <<"intent", c>> \in audit /\ c \in With(r, "none")
  BY <1>1, <1>2 DEF SettledInv, LocalOk, PointOk
<1>5. /\ Whole(n, audit) /\ Max(Intended(n)) = c /\ With(n, "accepted") = With(r, "accepted")
  BY <1>1, <1>3, <1>4, IntendWhole DEF RecordOk
<1>6. Kept /\ marker' = marker
  BY <1>2, <1>5, QuietKept DEF SettledInv
<1>7. CASE Jump(p, "write", n)
  <2>1. PointOk("write", n, loc[p].mode, audit', marker', ledger'.state = "consumed")
    BY <1>2, <1>4, <1>5, <1>6 DEF PointOk, Journalled
  <2> QED BY <1>2, <1>5, <1>6, <1>7, <2>1, JumpSettles
<1>8. CASE Goto(p, "predispatch")
  <2>1. PointOk("predispatch", r, loc[p].mode, audit', marker', ledger'.state = "consumed")
    BY <1>1, <1>4 DEF PointOk
  <2> QED BY <1>1, <1>2, <1>4, <1>6, <1>8, <2>1, JumpSettles DEF Goto
<1> QED BY <1>2, <1>7, <1>8

\* The write at hand is the first of its child: nobody counts on what becomes of it.
LEMMA WriteSettles ==
  ASSUME WriteInv, SettledInv, NEW p \in Procs, Write(p)
  PROVE  SettledInv'
<1>1. PICK r, c : r = loc[p].rec /\ c = Max(Intended(r))
  OBVIOUS
<1>2. PICK answer \in {<<"accepted", "applied">>}
                      \cup ({"failed"} \X {"rejected", "conflicting"})
                      \cup ({"unknown"} \X {"none", "inflight", "applied"}) :
        /\ truth' = [truth EXCEPT ![c] = answer[2]]
        /\ Jump(p, "outcome", Outcome(r, c, answer[1]))
  BY <1>1 DEF Write
<1>3. PICK disp, n : disp = answer[1] /\ n = Outcome(r, c, disp)
  OBVIOUS
<1>4. /\ loc[p].pc = "write" /\ record' = record /\ audit' = audit /\ Quiet
      /\ Jump(p, "outcome", n) /\ disp \in {"accepted", "failed", "unknown"}
  BY <1>1, <1>2, <1>3 DEF Write, At, durable
<1>5. /\ RecordOk(r) /\ c \in Unresolved(r) /\ sent[c] = 0 /\ StoreInv
  BY <1>1, <1>4 DEF WriteInv, ProcOk, Writing, Current
<1>6. c \in Children /\ truth[c] = "none"
  BY <1>5 DEF StoreInv, Unresolved, Intended
<1>7. \A d \in Children : truth[d] = "applied" => truth'[d] = "applied"
  BY <1>2, <1>5, <1>6 DEF StoreInv
<1>8. Whole(r, audit) /\ Journalled(r, Children, audit) /\ marker
  BY <1>1, <1>4 DEF SettledInv, LocalOk, PointOk
<1>9. /\ Whole(n, audit) /\ Journalled(n, Children \ {c}, audit) /\ Intended(n) = Intended(r)
      /\ With(n, "unknown") = {} \/ UnknownStopped(n)
  <2>1. InProgress(r) /\ c \notin Stopping(r)
    BY <1>1, <1>4, <1>5, OneDisposition DEF WriteInv, ProcOk, Writing, Unresolved, Stopping
  <2>2. Stopping(r) = {}
    BY <1>5, <2>1, StoppedIsLast DEF RecordOk
  <2> QED BY <1>3, <1>4, <1>5, <1>8, <2>2, OutcomeWhole DEF RecordOk, Sound
<1>10. Kept /\ marker' = marker
  <2>1. /\ UNCHANGED <<plan, ledger, marker, clock, issued, grants, authority, threat, backup>>
        /\ reply' = Says("none", "missing") /\ TypeOK
    BY <1>4 DEF Quiet, SettledInv
  <2>2. reply' \in [op: Ops, status: Statuses, token: Tokens \cup {NoToken}]
    BY <2>1, StatusesKnown DEF Says, Answer, Ops
  <2>3. TypeOK' /\ clock \in Nat
    BY <2>1, <2>2 DEF TypeOK
  <2> QED BY <1>4, <1>7, <2>1, <2>3 DEF Kept, Lasts, SettledInv
<1>11. PointOk("outcome", n, loc[p].mode, audit', marker', ledger'.state = "consumed")
  BY <1>1, <1>4, <1>8, <1>9, <1>10 DEF PointOk
<1> QED BY <1>4, <1>9, <1>10, <1>11, JumpSettles

LEMMA SaveOutcomeSettles ==
  ASSUME WriteInv, SettledInv, NEW p \in Procs, SaveOutcome(p)
  PROVE  SettledInv'
<1>1. PICK r : r = loc[p].rec
  OBVIOUS
<1>2. /\ loc[p].pc = "outcome" /\ Quiet /\ audit' = audit /\ truth' = truth
      /\ record' \in {record, r}
      /\ \/ With(r, "unknown") # {} /\ Jump(p, "closeunknown", r)
         \/ With(r, "unknown") = {} /\ Jump(p, "result", r)
         \/ Critical(p, r)
  BY <1>1 DEF SaveOutcome, Save, Goto, provider, At
<1>3. /\ Whole(r, audit) /\ Journalled(r, Children \ {Max(Intended(r))}, audit)
      /\ With(r, "unknown") = {} => marker
      /\ With(r, "unknown") = {} \/ UnknownStopped(r)
  BY <1>1, <1>2 DEF SettledInv, LocalOk, PointOk
<1>4. Kept /\ marker' = marker
  BY <1>2, <1>3, QuietKept DEF SettledInv
<1>5. CASE With(r, "unknown") # {} /\ Jump(p, "closeunknown", r)
  <2>1. PointOk("closeunknown", r, loc[p].mode, audit', marker', ledger'.state = "consumed")
    BY <1>3, <1>5 DEF PointOk
  <2> QED BY <1>2, <1>3, <1>4, <1>5, <2>1, JumpSettles
<1>6. CASE With(r, "unknown") = {} /\ Jump(p, "result", r)
  <2>1. PointOk("result", r, loc[p].mode, audit', marker', ledger'.state = "consumed")
    BY <1>2, <1>3, <1>4, <1>6 DEF PointOk
  <2> QED BY <1>2, <1>3, <1>4, <1>6, <2>1, JumpSettles
<1> QED BY <1>2, <1>3, <1>4, <1>5, <1>6, CriticalSettles

LEMMA ResultAuditSettles ==
  ASSUME WriteInv, SettledInv, NEW p \in Procs, ResultAudit(p)
  PROVE  SettledInv'
<1>1. PICK r, c : r = loc[p].rec /\ c = Max(Intended(r))
  OBVIOUS
<1>2. /\ loc[p].pc = "result" /\ Quiet /\ audit \subseteq audit' /\ truth' = truth
      /\ record' = record
      /\ \/ /\ audit' = audit \cup {<<r.kids[c].disp, c>>}
            /\ \/ c \in With(r, "failed") /\ Goto(p, "close")
               \/ Goto(p, NextPoint(r))
         \/ Critical(p, r)
  BY <1>1 DEF ResultAudit, Journal, provider, At
<1>3. Kept
  BY <1>2, StillKept
<1>4. /\ Whole(r, audit') /\ Journalled(r, Children \ {c}, audit') /\ marker'
      /\ InProgress(r) => With(r, "unknown") = {}
  BY <1>1, <1>2, <1>3, CopyWhole DEF PointOk
<1>5. CASE /\ audit' = audit \cup {<<r.kids[c].disp, c>>}
           /\ (c \in With(r, "failed") /\ Goto(p, "close")) \/ Goto(p, NextPoint(r))
  <2>1. Journalled(r, Children, audit')
    <3>1. c \in With(r, "accepted") => <<"accepted", c>> \in audit'
      BY <1>5 DEF With
    <3> QED BY <1>4, <3>1 DEF Journalled
  <2>2. CASE c \in With(r, "failed") /\ Goto(p, "close")
    <3>1. PointOk("close", r, loc[p].mode, audit', marker', ledger'.state = "consumed")
      BY <1>4, <2>1, <2>2 DEF PointOk, Stopping
    <3> QED BY <1>1, <1>3, <1>4, <2>2, <3>1, JumpSettles DEF Goto
  <2>3. CASE Goto(p, NextPoint(r))
    <3>1. PointOk(NextPoint(r), r, loc[p].mode, audit', marker', ledger'.state = "consumed")
      BY <1>4, <2>1, NextSettles
    <3>2. NextPoint(r) # "evidencesave"
      BY DEF NextPoint
    <3> QED BY <1>1, <1>3, <1>4, <2>3, <3>1, <3>2, JumpSettles DEF Goto
  <2> QED BY <1>5, <2>2, <2>3
<1> QED BY <1>2, <1>3, <1>4, <1>5, CriticalSettles

\* Only an Apply in progress can be ended: the copy was durable, and what ended is not revised.
LEMMA EndedIsNoSuccessor ==
  ASSUME WriteInv, NEW p \in Procs, loc[p].pc \notin Unsaved,
         Finalize(loc[p].rec).rev = record.rev + 1
  PROVE  InProgress(loc[p].rec)
<1> SUFFICES ASSUME ~InProgress(loc[p].rec) PROVE FALSE
  OBVIOUS
<1>1. Finalize(loc[p].rec) = loc[p].rec
  BY DEF Finalize, InProgress
<1>2. loc[p].rec.rev <= record.rev /\ loc[p].rec.rev \in Int /\ record.rev \in Int
  BY SuccessorOfDurable, RecordIsSaved DEF Saved
<1> QED BY <1>1, <1>2

LEMMA CloseSettles ==
  ASSUME WriteInv, SettledInv, NEW p \in Procs, Close(p) \/ CloseUnknown(p)
  PROVE  SettledInv'
<1>1. PICK r, n : r = loc[p].rec /\ n = Finalize(r)
  OBVIOUS
<1>2. /\ loc[p].pc \in {"close", "closeunknown"} /\ Quiet /\ audit' = audit /\ truth' = truth
      /\ record' \in {record, n}
      /\ \/ loc[p].pc = "close" /\ n.rev = record.rev + 1 /\ Jump(p, "finish", n)
         \/ loc[p].pc = "closeunknown" /\ Jump(p, "unknownaudit", n)
         \/ Critical(p, n)
  BY <1>1 DEF Close, CloseUnknown, Save, provider, At
<1>3. RecordOk(r) /\ Whole(r, audit)
      /\ (Stopping(r) # {} \/ (Pending(r) = {} /\ Journalled(r, Children, audit)))
      /\ (loc[p].pc = "close" /\ InProgress(r) => With(r, "unknown") = {})
  BY <1>1, <1>2 DEF SettledInv, LocalOk, PointOk, UnknownStopped, Stopping, WriteInv, ProcOk
<1>4. /\ Whole(n, audit)
      /\ InProgress(r) /\ With(r, "unknown") = {} => n.state \in {"accepted", "failed"}
  BY <1>1, <1>3, FinalizeWhole DEF RecordOk
<1>5. Kept
  BY <1>2, <1>4, QuietKept DEF SettledInv
<1>6. CASE loc[p].pc = "close" /\ n.rev = record.rev + 1 /\ Jump(p, "finish", n)
  <2>1. InProgress(r)
    BY <1>1, <1>6, EndedIsNoSuccessor DEF Unsaved
  <2>2. PointOk("finish", n, loc[p].mode, audit', marker', ledger'.state = "consumed")
    BY <1>3, <1>4, <1>6, <2>1 DEF PointOk
  <2> QED BY <1>2, <1>4, <1>5, <1>6, <2>2, JumpSettles
<1>7. CASE loc[p].pc = "closeunknown" /\ Jump(p, "unknownaudit", n)
  <2>1. UnknownStopped(n)
    <3>1. UnknownStopped(r)
      BY <1>1, <1>7 DEF SettledInv, LocalOk, PointOk
    <3>2. Stopping(n) = Stopping(r) /\ With(n, "unknown") = With(r, "unknown")
      BY <1>1, <1>3, FinalizeWhole DEF RecordOk
    <3> QED BY <3>1, <3>2 DEF UnknownStopped, UnknownChild
  <2>2. PointOk("unknownaudit", n, loc[p].mode, audit', marker', ledger'.state = "consumed")
    BY <2>1 DEF PointOk
  <2> QED BY <1>2, <1>4, <1>5, <1>7, <2>2, JumpSettles
<1> QED BY <1>2, <1>4, <1>5, <1>6, <1>7, CriticalSettles

LEMMA StopSettles ==
  ASSUME WriteInv, SettledInv, NEW p \in Procs, StopRemaining(p) \/ StopUnattempted(p)
  PROVE  SettledInv'
<1>1. CASE StopRemaining(p) /\ ~MayStopPending(loc[p].rec)
  BY <1>1, StillKept, ReturnSettles DEF StopRemaining, Local, durable, provider
<1>2. PICK r : r = loc[p].rec
  OBVIOUS
<1>3. RecordOk(r) /\ Whole(r, audit)
  BY <1>2 DEF SettledInv, LocalOk, WriteInv, ProcOk
<1>4. ASSUME NEW n, NEW pc \in Free, Whole(n, audit), Quiet, audit' = audit, truth' = truth,
             record' \in {record, n}, Jump(p, pc, n) \/ Critical(p, r)
      PROVE  SettledInv'
  <2>1. Kept
    BY <1>4, QuietKept DEF SettledInv
  <2> QED BY <1>2, <1>3, <1>4, <2>1, FreeSettles, CriticalSettles
<1>5. CASE StopRemaining(p) /\ MayStopPending(r)
  <2>1. PICK n : n = StopPending(r)
    OBVIOUS
  <2>2. /\ loc[p].pc = "predispatch" /\ Quiet /\ audit' = audit /\ truth' = truth
        /\ record' \in {record, n} /\ (Jump(p, "prequarantine", n) \/ Critical(p, r))
    BY <1>2, <1>5, <2>1 DEF StopRemaining, Save, provider, At
  <2>3. Min(Pending(r)) \in With(r, "none")
    BY <1>2, <2>2 DEF SettledInv, LocalOk, PointOk
  <2>4. Whole(n, audit)
    BY <1>3, <1>5, <2>1, <2>3, StopPendingWhole DEF RecordOk
  <2> QED BY <1>4, <2>2, <2>4 DEF Free, Points
<1>6. CASE StopUnattempted(p)
  <2>1. PICK n : n = StopAll(r)
    OBVIOUS
  <2>2. /\ loc[p].pc = "stopall" /\ Quiet /\ audit' = audit /\ truth' = truth
        /\ record' \in {record, n} /\ (Jump(p, "invalidate", n) \/ Critical(p, r))
    BY <1>2, <1>6, <2>1 DEF StopUnattempted, Save, provider, At
  <2>3. MayStopAll(r)
    BY <1>2, <2>2 DEF SettledInv, LocalOk, PointOk, MayStopAll
  <2>4. Whole(n, audit)
    BY <1>3, <2>1, <2>3, StopAllWhole DEF RecordOk, Sound, Whole, Settling
  <2> QED BY <1>4, <2>2, <2>4 DEF Free, Points
<1> QED BY <1>1, <1>2, <1>5, <1>6

LEMMA FinishSettles ==
  ASSUME WriteInv, SettledInv, NEW p \in Procs, Finish(p)
  PROVE  SettledInv'
<1>1. PICK r : r = loc[p].rec
  OBVIOUS
<1>2. /\ loc[p].pc = "finish" /\ Quiet /\ audit \subseteq audit' /\ truth' = truth
      /\ record' = record
      /\ \/ <<"apply", r.state>> \in audit' /\ Goto(p, "complete")
         \/ Critical(p, r)
  BY <1>1 DEF Finish, Journal, provider, At
<1>3. Kept
  BY <1>2, StillKept
<1>4. Whole(r, audit') /\ r.state \in {"accepted", "failed"}
  BY <1>1, <1>2, <1>3, CopyWhole DEF PointOk
<1>5. CASE <<"apply", r.state>> \in audit' /\ Goto(p, "complete")
  <2>1. PointOk("complete", r, loc[p].mode, audit', marker', ledger'.state = "consumed")
    BY <1>4, <1>5 DEF PointOk
  <2> QED BY <1>1, <1>3, <1>4, <1>5, <2>1, JumpSettles DEF Goto
<1> QED BY <1>2, <1>3, <1>4, <1>5, CriticalSettles

\* "applied" is answered from a copy that says so of every child.
LEMMA AppliedIsSo ==
  ASSUME WriteInv, Kept, NEW p \in Procs, Whole(loc[p].rec, audit'), truth' = truth,
         loc[p].rec.state = "accepted",
         <<"apply", "accepted">> \in audit', ledger'.state = "consumed"
  PROVE  AppliedMeansAll'
<1>1. PICK r : r = loc[p].rec
  OBVIOUS
<1>2. RecordOk(r) /\ Pending(r) = {} /\ Journalled(r, Children, audit')
  BY <1>1 DEF WriteInv, ProcOk, Whole, Settling
<1>3. \A c \in Children : c \in With(r, "accepted")
  BY <1>2 DEF Pending
<1>4. \A c \in Children : truth[c] = "applied" /\ <<"accepted", c>> \in audit'
  BY <1>2, <1>3 DEF RecordOk, Sound, Truthful, Journalled
<1> QED BY <1>4 DEF AppliedMeansAll

LEMMA CompleteSettles ==
  ASSUME WriteInv, SettledInv, NEW p \in Procs, CompleteLedger(p)
  PROVE  SettledInv'
<1>1. /\ loc[p].pc = "complete" /\ CompletePlan(loc[p].lease) /\ UNCHANGED <<durable, provider>>
      /\ IF reply'.status = "consumed"
           THEN Return(p, IF loc[p].rec.state = "accepted" THEN "applied" ELSE "failed")
           ELSE Critical(p, loc[p].rec)
  BY DEF CompleteLedger, AskRepository, At
<1>2. PICK why \in CallerReasons : TRUE
  BY ApplyAssumption
<1>3. Kept
  BY <1>1, <1>2, AskedKept DEF Called
<1>4. CASE reply'.status = "consumed"
  <2>1. ledger'.state = "consumed"
    BY <1>1, <1>4, AnswersAreSo
  <2>2. Whole(loc[p].rec, audit') /\ <<"apply", loc[p].rec.state>> \in audit'
    BY <1>1, <1>3, CopyWhole DEF PointOk
  <2>3. loc[p].rec.state = "accepted" => AppliedMeansAll'
    BY <1>1, <1>3, <2>1, <2>2, AppliedIsSo DEF provider
  <2> QED BY <1>1, <1>3, <1>4, <2>3, ReturnSettles
<1> QED BY <1>1, <1>3, <1>4, CopyWhole, CriticalSettles

LEMMA ProjectSettles ==
  ASSUME WriteInv, SettledInv, NEW p \in Procs, Project(p)
  PROVE  SettledInv'
<1>1. /\ loc[p].pc = "project" /\ Quiet /\ audit \subseteq audit' /\ truth' = truth
      /\ record' = record
      /\ \/ /\ <<"apply", loc[p].rec.state>> \in audit'
            /\ Return(p, IF loc[p].rec.state = "accepted" THEN "applied" ELSE "failed")
         \/ Critical(p, loc[p].rec)
  BY DEF Project, Journal, provider, At
<1>2. Kept /\ ledger' = ledger
  BY <1>1, StillKept
<1>3. Whole(loc[p].rec, audit') /\ ledger'.state = "consumed"
  BY <1>1, <1>2, CopyWhole DEF PointOk
<1>4. loc[p].rec.state = "accepted" /\ <<"apply", loc[p].rec.state>> \in audit' => AppliedMeansAll'
  BY <1>1, <1>2, <1>3, AppliedIsSo
<1> QED BY <1>1, <1>2, <1>3, <1>4, ReturnSettles, CriticalSettles

\* A step that sets other local variables, too.
LEMMA SettingSettles ==
  ASSUME WriteInv, SettledInv, NEW p \in Procs, NEW l, NEW pc, NEW t, NEW mode, NEW todo,
         SetsTo(l, p, pc, t, mode, todo), Kept, t \in Tokens \cup {NoToken},
         PointOk(pc, loc[p].rec, mode, audit', marker', ledger'.state = "consumed"),
         pc = "evidencesave" => \A i \in DOMAIN todo : Whole(todo[i], audit'),
         told' = told \/ told' # "applied"
  PROVE  SettledInv'
<1>1. loc[p].now \in 0..clock'
  BY DEF SettledInv, LocalOk, Kept, Lasts, TypeOK
<1>2. Whole(loc[p].rec, audit')
  BY CopyWhole
<1>3. LocalOk(l, audit', marker', ledger'.state = "consumed", clock')
  BY <1>1, <1>2 DEF LocalOk, SetsTo
<1>4. AppliedMeansAll'
  BY AppliedLasts DEF Kept
<1> QED BY <1>3, <1>4, SettledMoves DEF SetsTo

LEMMA LeaseSettles ==
  ASSUME WriteInv, SettledInv, NEW p \in Procs, Lease(p)
  PROVE  SettledInv'
<1>1. /\ AcquireLease(loc[p].now) /\ UNCHANGED <<durable, provider>>
      /\ told' = told \/ told' # "applied"
  BY DEF Lease, AskRepository, Return
<1>2. PICK why \in CallerReasons : TRUE
  BY ApplyAssumption
<1>3. Kept
  BY <1>1, <1>2, AskedKept DEF Called
<1>4. PICK t : t = reply'.token
  OBVIOUS
<1>5. t \in Tokens \cup {NoToken}
  BY <1>3, <1>4 DEF Kept, TypeOK
<1>6. ASSUME NEW l, NEW pc \in {"preaudit", "invalidate"},
             SetsTo(l, p, pc, t, loc[p].mode, loc[p].todo)
      PROVE  SettledInv'
  <2>1. PointOk(pc, loc[p].rec, loc[p].mode, audit', marker', ledger'.state = "consumed")
    BY DEF PointOk
  <2> QED BY <1>1, <1>3, <1>5, <1>6, <2>1, SettingSettles
<1> QED BY <1>3, <1>4, <1>6, LeaseMoves, ReturnSettles

LEMMA ResumeSettles ==
  ASSUME WriteInv, SettledInv, NEW p \in Procs, Resume(p)
  PROVE  SettledInv'
<1>1. /\ ResumeDispatched(loc[p].now) /\ UNCHANGED <<durable, provider>>
      /\ told' = told \/ told' # "applied"
  BY DEF Resume, AskRepository, Return
<1>2. PICK why \in CallerReasons : TRUE
  BY ApplyAssumption
<1>3. Kept
  BY <1>1, <1>2, AskedKept DEF Called
<1>4. PICK t, mode, r : t = reply'.token /\ mode = reply'.status /\ r = loc[p].rec
  OBVIOUS
<1>5. /\ t \in Tokens \cup {NoToken} /\ (mode = "dispatched" => marker')
      /\ mode = "consumed" => ledger'.state = "consumed"
  BY <1>1, <1>3, <1>4, AnswersAreSo DEF Kept, TypeOK
<1>6. ASSUME NEW l, NEW pc, NEW drift \in BOOLEAN, SetsTo(l, p, pc, t, mode, loc[p].todo),
             LET at == ResumePoint(r, mode, ledger'.reason, drift) IN
             at # "idle" /\ pc \in (IF at = "critical" THEN {"critical", "evidence"} ELSE {at})
      PROVE  SettledInv'
  <2>1. PICK reason : reason = ledger'.reason
    OBVIOUS
  <2>2. \/ pc \in {"critical", "evidence", "preauditfail"}
        \/ pc = "project" /\ mode = "consumed" /\ r.state \in {"accepted", "failed"}
        \/ pc = "finish" /\ r.state \in {"accepted", "failed"}
        \/ pc = "reaudit" /\ (mode \in LiveStates \/ (mode = "quarantined" /\ r.state = "unknown"))
    BY <1>6, <2>1 DEF ResumePoint
  <2>3. PointOk(pc, r, mode, audit', marker', ledger'.state = "consumed")
    BY <1>5, <2>2 DEF PointOk
  <2>4. pc # "evidencesave"
    BY <2>2
  <2> QED BY <1>1, <1>3, <1>4, <1>5, <1>6, <2>3, <2>4, SettingSettles
<1>7. \/ Return(p, "unavailable")
      \/ \E drift \in BOOLEAN : \E l, pc :
           /\ SetsTo(l, p, pc, t, mode, loc[p].todo)
           /\ LET at == ResumePoint(r, mode, ledger'.reason, drift) IN
              at # "idle" /\ pc \in (IF at = "critical" THEN {"critical", "evidence"} ELSE {at})
  BY <1>4, ResumeMoves
<1> QED BY <1>3, <1>6, <1>7, ReturnSettles

\* After the accepted children are audited, what is left open or has stopped is settled.
LEMMA ReauditSettles ==
  ASSUME WriteInv, SettledInv, NEW p \in Procs, Reaudit(p)
  PROVE  SettledInv'
<1>1. PICK r, mode : r = loc[p].rec /\ mode = loc[p].mode
  OBVIOUS
<1>2. /\ loc[p].pc = "reaudit" /\ Quiet /\ audit \subseteq audit' /\ truth' = truth
      /\ record' = record
  BY DEF Reaudit, Journal, provider, At
<1>3. Kept
  BY <1>2, StillKept
<1>4. /\ Whole(r, audit') /\ RecordOk(r) /\ (mode = "dispatched" => marker')
      /\ mode \in LiveStates \/ (mode = "quarantined" /\ r.state = "unknown")
  <2>1. Whole(r, audit') /\ PointOk("reaudit", r, mode, audit', marker', ledger'.state = "consumed")
    BY <1>1, <1>2, <1>3, CopyWhole
  <2> QED BY <1>1, <2>1 DEF PointOk, WriteInv, ProcOk
<1>5. \/ Critical(p, r)
      \/ /\ audit' = audit \cup {<<"accepted", c>> : c \in With(r, "accepted")}
         /\ \/ Stopping(r) = {} /\ Goto(p, "revalidate")
            \/ /\ Stopping(r) = {} /\ Unresolved(r) # {} /\ mode # "leased"
               /\ Jump(p, "outcome", Outcome(r, Min(Unresolved(r)), "unknown"))
            \/ Stopping(r) # {} /\ UnknownChild(r) \in With(r, "failed") /\ Goto(p, "close")
            \/ /\ Stopping(r) # {} /\ UnknownChild(r) \notin With(r, "failed")
               /\ Goto(p, UnknownPoint(r))
  BY <1>1 DEF Reaudit, Journal
<1>6. CASE audit' = audit \cup {<<"accepted", c>> : c \in With(r, "accepted")}
  <2>1. Journalled(r, Children, audit')
    BY <1>6 DEF Journalled
  <2>2. CASE Stopping(r) = {} /\ Goto(p, "revalidate")
    <3>1. mode \in LiveStates
      BY <1>4, <2>2 DEF Whole, Settling
    <3>2. PointOk("revalidate", r, loc[p].mode, audit', marker', ledger'.state = "consumed")
      BY <1>1, <1>4, <2>1, <3>1 DEF PointOk
    <3> QED BY <1>1, <1>3, <1>4, <2>2, <3>2, JumpSettles DEF Goto
  <2>3. CASE /\ Stopping(r) = {} /\ Unresolved(r) # {}
             /\ Jump(p, "outcome", Outcome(r, Min(Unresolved(r)), "unknown"))
    <3>1. PICK c, n : c = Min(Unresolved(r)) /\ n = Outcome(r, c, "unknown")
      OBVIOUS
    <3>2. c \in Unresolved(r) /\ r \in Records
      BY <1>4, <2>3, <3>1, FirstChild DEF Unresolved, Intended, RecordOk, Sound
    <3>3. /\ Whole(n, audit') /\ Journalled(n, Children \ {c}, audit') /\ c \in With(n, "unknown")
          /\ \A x : x # "unknown" => With(n, x) = With(r, x) \ {c}
          /\ With(n, "unknown") = {} \/ UnknownStopped(n)
      BY <1>4, <2>1, <2>3, <3>1, <3>2, OutcomeWhole
    <3>4. Journalled(n, Children, audit')
      BY <2>1, <3>3 DEF Journalled
    <3>5. PointOk("outcome", n, loc[p].mode, audit', marker', ledger'.state = "consumed")
      BY <3>3, <3>4 DEF PointOk, Journalled
    <3> QED BY <1>3, <2>3, <3>1, <3>3, <3>5, JumpSettles
  <2>4. CASE Stopping(r) # {} /\ UnknownChild(r) \in With(r, "failed") /\ Goto(p, "close")
    <3>1. InProgress(r) => With(r, "unknown") = {}
      <4> SUFFICES ASSUME InProgress(r), NEW c \in With(r, "unknown") PROVE FALSE
        OBVIOUS
      <4>1. c \in Stopping(r)
        BY DEF Stopping
      <4>2. UnknownChild(r) = c
        BY <1>4, <4>1, StoppedIsLast DEF UnknownChild, RecordOk
      <4> QED BY <2>4, <4>2, OneDisposition
    <3>2. PointOk("close", r, loc[p].mode, audit', marker', ledger'.state = "consumed")
      BY <2>1, <2>4, <3>1 DEF PointOk
    <3> QED BY <1>1, <1>3, <1>4, <2>4, <3>2, JumpSettles DEF Goto
  <2>5. CASE /\ Stopping(r) # {} /\ UnknownChild(r) \notin With(r, "failed")
             /\ Goto(p, UnknownPoint(r))
    <3>0. UnknownStopped(r)
      <4>1. UnknownChild(r) \in Stopping(r)
        BY <2>5, OneDisposition, FirstChild DEF UnknownChild, Stopping
      <4> QED BY <2>5, <4>1 DEF Stopping, UnknownStopped
    <3>1. PointOk(UnknownPoint(r), r, loc[p].mode, audit', marker', ledger'.state = "consumed")
      BY <3>0 DEF PointOk, UnknownPoint
    <3>2. UnknownPoint(r) # "evidencesave"
      BY DEF UnknownPoint
    <3> QED BY <1>1, <1>3, <1>4, <2>5, <3>1, <3>2, JumpSettles DEF Goto
  <2> QED BY <1>3, <1>4, <1>5, <2>2, <2>3, <2>4, <2>5, CriticalSettles
<1> QED BY <1>3, <1>4, <1>5, <1>6, CriticalSettles

LEMMA RevalidateSettles ==
  ASSUME WriteInv, SettledInv, NEW p \in Procs, Revalidate(p)
  PROVE  SettledInv'
<1>1. PICK r, mode : r = loc[p].rec /\ mode = loc[p].mode
  OBVIOUS
<1>2. /\ loc[p].pc = "revalidate" /\ Quiet /\ audit' = audit /\ truth' = truth /\ record' = record
      /\ \/ mode = "leased" /\ Goto(p, "mark")
         \/ mode # "leased" /\ Goto(p, NextPoint(r))
         \/ Critical(p, r)
         \/ MayStopAll(r) /\ Goto(p, "stopall")
         \/ Return(p, "raised")
  BY <1>1 DEF Revalidate, Local, durable, provider, At
<1>3. Kept
  BY <1>2, StillKept
<1>4. /\ Whole(r, audit') /\ Journalled(r, Children, audit') /\ mode \in LiveStates
      /\ mode = "dispatched" => marker'
  <2>1. Whole(r, audit') /\ PointOk("revalidate", r, mode, audit', marker', ledger'.state = "consumed")
    BY <1>1, <1>2, <1>3, CopyWhole
  <2> QED BY <2>1 DEF PointOk
<1>5. CASE mode = "leased" /\ Goto(p, "mark")
  <2>1. PointOk("mark", r, loc[p].mode, audit', marker', ledger'.state = "consumed")
    BY <1>4 DEF PointOk
  <2> QED BY <1>1, <1>3, <1>4, <1>5, <2>1, JumpSettles DEF Goto
<1>6. CASE mode # "leased" /\ Goto(p, NextPoint(r))
  <2>1. marker'
    BY <1>4, <1>6 DEF LiveStates
  <2>2. PointOk(NextPoint(r), r, loc[p].mode, audit', marker', ledger'.state = "consumed")
    BY <1>4, <2>1, NextSettles
  <2>3. NextPoint(r) # "evidencesave"
    BY DEF NextPoint
  <2> QED BY <1>1, <1>3, <1>4, <1>6, <2>2, <2>3, JumpSettles DEF Goto
<1>7. CASE MayStopAll(r) /\ Goto(p, "stopall")
  <2>1. PointOk("stopall", r, loc[p].mode, audit', marker', ledger'.state = "consumed")
    BY <1>7 DEF PointOk, MayStopAll
  <2> QED BY <1>1, <1>3, <1>4, <1>7, <2>1, JumpSettles DEF Goto
<1> QED BY <1>2, <1>3, <1>4, <1>5, <1>6, <1>7, CriticalSettles, ReturnSettles

LEMMA EvidenceSettles ==
  ASSUME WriteInv, SettledInv, NEW p \in Procs, Evidence(p)
  PROVE  SettledInv'
<1>1. /\ Quiet /\ audit' = audit /\ record' = record /\ truth' = truth /\ told' = told
  BY DEF Evidence, durable, provider
<1>2. Kept
  BY <1>1, StillKept
<1>3. PICK r \in {record, loc[p].rec} :
        loc' = [loc EXCEPT ![p].pc = "evidencesave", ![p].todo = EvidenceWrites(r)]
  BY DEF Evidence
<1>4. PICK w : w = EvidenceWrites(r)
  OBVIOUS
<1>5. RecordOk(r) /\ Whole(r, audit')
  <2>1. Whole(record, audit')
    BY <1>1, <1>2 DEF Kept
  <2>2. Whole(loc[p].rec, audit')
    BY <1>2, CopyWhole
  <2>3. RecordOk(record) /\ RecordOk(loc[p].rec)
    BY RecordIsSaved
  <2> QED BY <1>3, <2>1, <2>2, <2>3
<1>6. \A i \in DOMAIN w : Whole(w[i], audit')
  BY <1>4, <1>5, EvidenceWhole DEF RecordOk
<1>7. PICK l : SetsTo(l, p, "evidencesave", loc[p].lease, loc[p].mode, w)
  BY <1>3, <1>4, EvidenceMoves
<1>8. PointOk("evidencesave", loc[p].rec, loc[p].mode, audit', marker', ledger'.state = "consumed")
  BY DEF PointOk
<1>9. loc[p].lease \in Tokens \cup {NoToken}
  BY DEF SettledInv, LocalOk
<1> QED BY <1>1, <1>2, <1>6, <1>7, <1>8, <1>9, SettingSettles

LEMMA EvidenceSaveSettles ==
  ASSUME WriteInv, SettledInv, NEW p \in Procs, EvidenceSave(p)
  PROVE  SettledInv'
<1>1. PICK n, rest, pc : /\ n = Head(loc[p].todo) /\ rest = Tail(loc[p].todo)
                         /\ pc = IF rest = <<>> THEN "evidenceaudit" ELSE loc[p].pc
  OBVIOUS
<1>2. /\ loc[p].pc = "evidencesave" /\ Quiet /\ audit' = audit /\ truth' = truth /\ told' = told
      /\ record' \in {record, n}
  BY <1>1 DEF EvidenceSave, Save, provider, At
<1>3. PICK todo : todo = loc[p].todo
  OBVIOUS
<1>4. /\ todo \in Seq(Records) /\ todo # <<>> /\ \A i \in DOMAIN todo : Whole(todo[i], audit)
      /\ loc[p].lease \in Tokens \cup {NoToken}
  BY <1>2, <1>3 DEF WriteInv, ProcOk, SettledInv, LocalOk
<1>5. /\ n = todo[1] /\ 1 \in DOMAIN todo
      /\ \A i \in DOMAIN rest : i + 1 \in DOMAIN todo /\ rest[i] = todo[i + 1]
  BY <1>1, <1>3, <1>4
<1>6. Whole(n, audit) /\ \A i \in DOMAIN rest : Whole(rest[i], audit')
  BY <1>2, <1>4, <1>5
<1>7. Kept
  BY <1>2, <1>6, QuietKept DEF SettledInv
<1>8. PICK l : SetsTo(l, p, pc, loc[p].lease, loc[p].mode, rest)
  BY <1>1, EvidenceSaveMoves
<1>9. PointOk(pc, loc[p].rec, loc[p].mode, audit', marker', ledger'.state = "consumed")
  BY <1>1, <1>2 DEF PointOk
<1> QED BY <1>2, <1>4, <1>6, <1>7, <1>8, <1>9, SettingSettles

-----------------------------------------------------------------------------
(* The theorems. *)

LEMMA SettledInit == ApplyInit => SettledInv
<1> SUFFICES ASSUME ApplyInit PROVE SettledInv
  OBVIOUS
<1>1. TypeOK
  BY StatusesKnown, OwnRecordsGood DEF ApplyInit, TypeOK, Good, Says, Answer, Ops
<1>2. Whole(record, audit)
  BY NoRecordWhole DEF ApplyInit
<1>3. ASSUME NEW p \in Procs
      PROVE  LocalOk(loc[p], audit, marker, ledger.state = "consumed", clock)
  <2>1. PICK l : l = Idle
    OBVIOUS
  <2>2. l.pc = "idle" /\ l.now = 0 /\ l.rec = NoRecord /\ l.lease = NoToken /\ loc[p] = l
    BY <2>1 DEF Idle, ApplyInit
  <2>3. 0 \in 0..clock
    BY DEF ApplyInit
  <2>4. LocalOk(l, audit, marker, ledger.state = "consumed", clock)
    BY <2>2, <2>3, NoRecordWhole DEF LocalOk, PointOk
  <2> QED BY <2>2, <2>4
<1> QED BY <1>1, <1>2, <1>3 DEF SettledInv, ApplyInit, AppliedMeansAll

LEMMA SettledSteps == WriteInv /\ SettledInv /\ [ApplyNext]_allVars => SettledInv'
<1> SUFFICES ASSUME WriteInv, SettledInv, [ApplyNext]_allVars PROVE SettledInv'
  OBVIOUS
<1>1. ASSUME NEW p \in Procs, Step(p) PROVE SettledInv'
  BY <1>1, PlainSettles, AskingSettles, MarkSettles, CreateSettles, IntendAuditSettles,
     SaveIntentSettles, WriteSettles, SaveOutcomeSettles, ResultAuditSettles, CloseSettles,
     StopSettles, FinishSettles, CompleteSettles, ProjectSettles, LeaseSettles, ResumeSettles,
     ReauditSettles, RevalidateSettles, EvidenceSettles, EvidenceSaveSettles DEF Step
<1> QED BY <1>1, BeginSettles, LandSettles, TickSettles DEF ApplyNext

\* What a call relies on at each of its points is so, whatever the other calls do.
THEOREM CallsRelyOnFacts == ApplySpec => []SettledInv
<1>1. ApplyInit => SettledInv
  BY SettledInit
<1>2. WriteInv /\ SettledInv /\ [ApplyNext]_allVars => SettledInv'
  BY SettledSteps
<1> QED BY <1>1, <1>2, RecordAndWritesAgree, PTL DEF ApplySpec

\* Only a write that leaves counts as sent, only an appended resolution as resolved.
LEMMA WhatSteps ==
  ASSUME [ApplyNext]_allVars
  PROVE  /\ sent' = sent \/ \E p \in Procs : Write(p)
         /\ resolved' = resolved \/ \E p \in Procs : AppendResolution(p)
<1>1. ASSUME NEW p \in Procs, Step(p)
      PROVE  (sent' = sent \/ Write(p)) /\ (resolved' = resolved \/ AppendResolution(p))
  <2>1. CASE \/ LoadPlan(p) \/ Lease(p) \/ Mark(p) \/ CompleteLedger(p) \/ Contain(p)
             \/ PreQuarantine(p) \/ CriticalQuarantine(p) \/ Resume(p) \/ InvalidateLedger(p)
    BY <2>1 DEF LoadPlan, Lease, Mark, CompleteLedger, Contain, PreQuarantine,
       CriticalQuarantine, Resume, InvalidateLedger, AskRepository, durable, provider
  <2>2. CASE \/ PreAudit(p) \/ IntendAudit(p) \/ ResultAudit(p) \/ Finish(p) \/ UnknownAudit(p)
             \/ ResolvedAudit(p) \/ PreAuditFail(p) \/ EvidenceAudit(p) \/ Project(p)
             \/ Reaudit(p) \/ InvalidAudit(p)
    BY <2>2 DEF PreAudit, IntendAudit, ResultAudit, Finish, UnknownAudit, ResolvedAudit,
       PreAuditFail, EvidenceAudit, Project, Reaudit, InvalidAudit, Journal, provider
  <2>3. CASE \/ Create(p) \/ SaveIntent(p) \/ SaveOutcome(p) \/ Close(p) \/ CloseUnknown(p)
             \/ EvidenceSave(p) \/ StopUnattempted(p)
    BY <2>3 DEF Create, SaveIntent, SaveOutcome, Close, CloseUnknown, EvidenceSave,
       StopUnattempted, Save, provider
  <2>4. CASE LoadRecord(p) \/ Reject(p) \/ Resolve(p) \/ Evidence(p) \/ Revalidate(p)
             \/ StopRemaining(p)
    BY <2>4 DEF LoadRecord, Reject, Resolve, Evidence, Revalidate, StopRemaining, Save, Local,
       durable, provider
  <2>5. CASE Write(p) \/ AppendResolution(p)
    BY <2>5 DEF Write, AppendResolution, durable, provider
  <2> QED BY <1>1, <2>1, <2>2, <2>3, <2>4, <2>5 DEF Step
<1>2. ASSUME NEW p \in Procs, Begin(p) \/ Crash(p)
      PROVE  sent' = sent /\ resolved' = resolved
  BY <1>2 DEF Begin, Crash, Local, durable, provider
<1> QED BY <1>1, <1>2 DEF ApplyNext, Land, TimePasses, Rest, allVars, durable, provider

ResolvedOk == resolved \subseteq Children

LEMMA ResolvedTyped ==
  WriteInv /\ SettledInv /\ ResolvedOk /\ [ApplyNext]_allVars => ResolvedOk'
<1> SUFFICES ASSUME WriteInv, SettledInv, ResolvedOk, [ApplyNext]_allVars,
                    NEW p \in Procs, AppendResolution(p)
             PROVE  ResolvedOk'
  BY WhatSteps DEF ResolvedOk
<1>1. PICK r : r = loc[p].rec
  OBVIOUS
<1>2. UnknownStopped(r)
  BY <1>1 DEF AppendResolution, At, SettledInv, LocalOk, PointOk
<1>3. UnknownChild(r) \in Children
  BY <1>2 DEF UnknownStopped, With
<1>4. resolved' \subseteq resolved \cup {UnknownChild(r)}
  BY <1>1 DEF AppendResolution
<1> QED BY <1>3, <1>4 DEF ResolvedOk

\* Type correctness of the whole: the records the repository and the calls hold have one of
\* the shapes that the code accepts, no child has an outcome without an intent, and a call
\* works with an instant that has been and a lease that was minted.
THEOREM ApplyTyped == ApplySpec => []ApplyTypeOK
<1>1. ApplyInit => ResolvedOk
  BY DEF ApplyInit, ResolvedOk
<1>2. WriteInv /\ SettledInv /\ ResolvedOk /\ [ApplyNext]_allVars => ResolvedOk'
  BY ResolvedTyped
<1>3. WriteInv /\ SettledInv /\ ResolvedOk => ApplyTypeOK
  <2> SUFFICES ASSUME WriteInv, SettledInv, ResolvedOk PROVE ApplyTypeOK
    OBVIOUS
  <2>1. TypeOK /\ record \in Records /\ Coherent(record)
    BY DEF SettledInv, Whole, Settling, WriteInv, StoreInv, RecordOk, Sound
  <2>2. ASSUME NEW p \in Procs
        PROVE  /\ loc[p].pc \in Points /\ loc[p].now \in Instants
               /\ loc[p].rec \in Records /\ Coherent(loc[p].rec)
               /\ loc[p].lease \in Tokens \cup {NoToken}
    BY DEF SettledInv, LocalOk, Whole, Settling, WriteInv, ProcOk, RecordOk, Sound, Instants
  <2> QED BY <2>1, <2>2 DEF ApplyTypeOK, ResolvedOk, WriteInv, StoreInv
<1> QED BY <1>1, <1>2, <1>3, CallsRelyOnFacts, RecordAndWritesAgree, PTL DEF ApplySpec

\* A provider write leaves only behind the marker in the keyring, its own intent and the
\* acceptance of every earlier child in the journal: apply.py awaits each of them before the
\* next step, and a resume repeats them before it goes on.  A resolution is recorded only
\* behind the journal's entry of the unknown outcome, which _finish_unknown appends first.
THEOREM WritesBehindJournal == ApplySpec => WriteBehindJournal
<1> DEFINE Before(c) == /\ marker /\ <<"intent", c>> \in audit
                        /\ \A d \in 1..(c - 1) : <<"accepted", d>> \in audit
<1>1. ASSUME WriteInv, SettledInv, [ApplyNext]_allVars, NEW c \in Children, sent'[c] # sent[c]
      PROVE  Before(c)
  <2>1. PICK p \in Procs : Write(p)
    BY <1>1, WhatSteps
  <2>2. PICK r : r = loc[p].rec
    OBVIOUS
  <2>3. /\ loc[p].pc = "write" /\ c = Max(Intended(r))
    BY <1>1, <2>1, <2>2 DEF Write, At, WriteInv, StoreInv
  <2>4. /\ marker /\ <<"intent", c>> \in audit /\ Journalled(r, Children, audit)
    BY <1>1, <2>2, <2>3 DEF SettledInv, LocalOk, PointOk
  <2>5. Ordered(r) /\ c \in Unresolved(r)
    BY <1>1, <2>2, <2>3 DEF WriteInv, ProcOk, Writing, Current, RecordOk, Sound
  <2>6. ASSUME NEW d \in 1..(c - 1) PROVE d \in With(r, "accepted") /\ d \in Children
    BY <2>5, ChildrenAssumption DEF Ordered, Children, Unresolved
  <2> QED BY <2>4, <2>6 DEF Journalled
<1>2. ASSUME SettledInv, [ApplyNext]_allVars, NEW c \in resolved' \ resolved
      PROVE  <<"unknown", c>> \in audit
  <2>1. PICK p \in Procs : AppendResolution(p)
    BY <1>2, WhatSteps
  <2>2. PICK r : r = loc[p].rec
    OBVIOUS
  <2>3. loc[p].pc = "append" /\ c = UnknownChild(r)
    BY <1>2, <2>1, <2>2 DEF AppendResolution, At
  <2> QED BY <1>2, <2>2, <2>3 DEF SettledInv, LocalOk, PointOk
<1>3. WriteInv /\ SettledInv /\ [ApplyNext]_allVars =>
        [\A c \in Children :
           /\ sent'[c] # sent[c] => Before(c)
           /\ c \in resolved' \ resolved => <<"unknown", c>> \in audit]_allVars
  BY <1>1, <1>2
<1> QED BY <1>3, CallsRelyOnFacts, RecordAndWritesAgree, PTL DEF ApplySpec, WriteBehindJournal

\* Only an Apply that the provider has applied child by child, that the journal tells child by
\* child and whose ledger is closed is answered as "applied".
THEOREM AppliedIsAll == ApplySpec => []AppliedMeansAll
<1>1. SettledInv => AppliedMeansAll
  BY DEF SettledInv
<1> QED BY <1>1, CallsRelyOnFacts, PTL

-----------------------------------------------------------------------------
(* One process.  Its calls follow one another, so that the copy it works on is the durable   *)
(* record, or differs from it in a known way after a save that was reported as failed.       *)

\* No operation but complete consumes a plan.
LEMMA OnlyCompleteConsumes ==
  ASSUME NEW t, NEW now, NEW why, ledger'.state = "consumed",
         \/ Load(now) \/ AcquireLease(now) \/ ResumeDispatched(now) \/ MarkDispatched(t, now)
         \/ QuarantinePlan(t, why) \/ InvalidatePlan(t, why)
  PROVE  ledger.state = "consumed"
<1> SUFFICES ASSUME ledger.state # "consumed" PROVE FALSE
  OBVIOUS
<1>1. /\ Recovered(now).state # "consumed" /\ Promoted.state # "consumed"
      /\ Recover(Promoted, now).record.state # "consumed"
      /\ Dispatch(ledger, t, now).record.state # "consumed"
      /\ Quarantine(ledger, t, why).record.state # "consumed"
      /\ Invalidate(ledger, t, why).record.state # "consumed"
  BY DEF Recovered, Promoted, Recover, Dispatch, Quarantine, Invalidate, Transition, Blocked,
         Available, Plain, Live
<1>2. CASE Load(now)
  BY <1>1, <1>2 DEF Load, Refuse, Commit
<1>3. CASE AcquireLease(now)
  BY <1>1, <1>3 DEF AcquireLease, Refuse, Commit, Live
<1>4. CASE ResumeDispatched(now)
  <2>1. PICK rec : rec = Recover(Promoted, now).record
    OBVIOUS
  <2>2. \A k : Settled(rec, now, k).state # "consumed"
    BY <1>1, <2>1 DEF Settled, Live, Blocked
  <2>3. \/ ledger' \in {ledger, Promoted, rec}
        \/ \E k \in Tokens : ledger' = Settled(rec, now, k)
    BY <1>4, <2>1 DEF ResumeDispatched, Refuse, Commit
  <2> QED BY <1>1, <2>1, <2>2, <2>3
<1>5. CASE MarkDispatched(t, now)
  BY <1>1, <1>5 DEF MarkDispatched, CreateMarkerThen, Refuse, Commit, Available, Plain
<1>6. CASE QuarantinePlan(t, why) \/ InvalidatePlan(t, why)
  BY <1>1, <1>6 DEF QuarantinePlan, InvalidatePlan, Commit
<1> QED BY <1>2, <1>3, <1>4, <1>5, <1>6

Alone == \A p, q \in Procs : p = q

SentOnes(f) == {c \in Children : f[c] > 0}

\* n takes back nothing that r says of the children, and no intent of those in s.
Extends(r, n, s) ==
  /\ Intended(r) \cap s \subseteq Intended(n)
  /\ \A x \in Dispositions \ {"none"} : With(r, x) \subseteq With(n, x)

\* A copy r that the record cur has overtaken by one save reported as failed.  If the copy
\* would still stop the Apply as wholly unattempted, nothing was sent.
Stale(r, cur, s) ==
  /\ r.rev + 1 = cur.rev /\ Unresolved(r) = {}
  /\ InProgress(r) /\ MayStopAll(r) =>
       s = {} /\ \A x \in Dispositions \ {"none", "unattempted"} : With(cur, x) = {}

\* Points at which the copy may be another record than the durable one.
Astray == {"idle", "load", "outcome", "predispatch", "critical", "evidence", "evidencesave",
           "evidenceaudit"}

CopyOk(pc, r, cur, s) ==
  /\ pc \notin Astray => r = cur
  /\ pc = "outcome" => r.rev = cur.rev + 1 /\ Extends(cur, r, s)
  /\ pc = "predispatch" => r = cur \/ Stale(r, cur, s)
  /\ pc \in {"critical", "evidence"} => r = cur \/ Stale(r, cur, s) \/ r.rev = cur.rev + 1

\* The evidence still to be saved: each record that fits may be.
ChainOk(w, cur, s) ==
  /\ \A i \in DOMAIN w : w[i].rev = cur.rev + 1 => Extends(cur, w[i], s)
  /\ \A i, j \in DOMAIN w : i < j => Extends(w[i], w[j], s)

Over(r, a) ==
  /\ Unresolved(r) = {} /\ With(r, "none") = {} /\ With(r, "unknown") = {}
  /\ \E s \in {"accepted", "failed"} : <<"apply", s>> \in a

AloneInv ==
  /\ SentOnes(sent) \subseteq Intended(record)
  /\ ledger.state = "consumed" => Over(record, audit)
  /\ \A p \in Procs :
       /\ CopyOk(loc[p].pc, loc[p].rec, record, SentOnes(sent))
       /\ loc[p].pc = "evidencesave" => ChainOk(loc[p].todo, record, SentOnes(sent))

\* What holds of a step besides the invariant.
Forward == Extends(record, record', SentOnes(sent))

\* What the stores may become while one process moves.
Grown ==
  /\ audit \subseteq audit' /\ SentOnes(sent') \subseteq Intended(record') /\ Forward
  /\ ledger'.state = "consumed" => Over(record, audit)

LEMMA OverLasts ==
  ASSUME NEW r, NEW n \in Records, NEW s, NEW a, NEW b, a \subseteq b, Extends(r, n, s),
         Over(r, a), r \in Records
  PROVE  Over(n, b)
<1>1. ASSUME NEW c \in Children PROVE c \notin With(n, "none") /\ c \notin With(n, "unknown")
  <2>1. PICK x \in Dispositions : c \in With(r, x)
    BY OneDisposition
  <2>2. x # "none" /\ x # "unknown"
    BY <2>1 DEF Over
  <2>3. c \in With(n, x)
    BY <2>1, <2>2 DEF Extends
  <2> QED BY <2>2, <2>3, OneDisposition
<1>2. With(n, "none") = {} /\ With(n, "unknown") = {}
  BY <1>1 DEF With
<1> QED BY <1>2 DEF Over, Unresolved

AloneOk == Alone /\ WriteInv /\ SettledInv /\ AloneInv

LEMMA AloneMoves ==
  ASSUME AloneOk, WriteInv', NEW p \in Procs, NEW l, Moves(p, l), Grown,
         CopyOk(l.pc, l.rec, record', SentOnes(sent')),
         l.pc = "evidencesave" => ChainOk(l.todo, record', SentOnes(sent'))
  PROVE  AloneInv' /\ Forward
<1>1. record \in Records /\ record' \in Records
  BY DEF AloneOk, WriteInv, StoreInv, RecordOk, Sound
<1>2. ledger'.state = "consumed" => Over(record', audit')
  BY <1>1, OverLasts DEF Grown, Forward
<1>3. \A q \in Procs : loc'[q] = l
  BY DEF AloneOk, Alone, Moves
<1>4. ASSUME NEW q \in Procs
      PROVE  /\ CopyOk(loc'[q].pc, loc'[q].rec, record', SentOnes(sent'))
             /\ loc'[q].pc = "evidencesave" => ChainOk(loc'[q].todo, record', SentOnes(sent'))
  BY <1>3
<1> QED BY <1>2, <1>4 DEF AloneInv, Grown

\* A step that leaves the record and the provider alone.
Steady ==
  /\ record' = record /\ sent' = sent /\ audit \subseteq audit'
  /\ ledger'.state = "consumed" => Over(record, audit)

LEMMA SteadyGrown ==
  ASSUME AloneOk, Steady
  PROVE  Grown /\ SentOnes(sent') = SentOnes(sent)
BY DEF AloneOk, AloneInv, Steady, Grown, Forward, Extends

LEMMA AloneJump ==
  ASSUME AloneOk, WriteInv', NEW p \in Procs, NEW pc, pc # "evidencesave", NEW r,
         Jump(p, pc, r), Grown, CopyOk(pc, r, record', SentOnes(sent'))
  PROVE  AloneInv' /\ Forward
<1>1. PICK l : Moves(p, l) /\ l.pc = pc /\ l.rec = r
  BY JumpMoves DEF AloneOk
<1> QED BY <1>1, AloneMoves

LEMMA AloneReturn ==
  ASSUME AloneOk, WriteInv', NEW p \in Procs, NEW answer, Return(p, answer), Grown
  PROVE  AloneInv' /\ Forward
<1>1. PICK l : l = Idle
  OBVIOUS
<1>2. Moves(p, l) /\ l.pc = "idle"
  BY <1>1, ReturnMoves DEF Idle, AloneOk
<1>3. CopyOk(l.pc, l.rec, record', SentOnes(sent'))
  BY <1>2 DEF CopyOk, Astray
<1> QED BY <1>2, <1>3, AloneMoves

LEMMA AloneCritical ==
  ASSUME AloneOk, WriteInv', NEW p \in Procs, NEW r, Critical(p, r), Grown,
         r = record' \/ Stale(r, record', SentOnes(sent')) \/ r.rev = record'.rev + 1
  PROVE  AloneInv' /\ Forward
<1>1. PICK pc \in {"critical", "evidence"} : Jump(p, pc, r)
  BY DEF Critical
<1>2. CopyOk(pc, r, record', SentOnes(sent'))
  BY <1>1 DEF CopyOk, Astray
<1> QED BY <1>1, <1>2, AloneJump

\* A call that leaves the record alone goes on with its copy, which is the record.
LEMMA AloneGoes ==
  ASSUME AloneOk, WriteInv', NEW p \in Procs, Steady,
         \/ /\ loc[p].pc \notin Astray
            /\ \/ \E pc : pc \notin {"outcome", "evidencesave"} /\ Goto(p, pc)
               \/ Critical(p, loc[p].rec)
         \/ \E answer : Return(p, answer)
  PROVE  AloneInv' /\ Forward
<1>1. Grown /\ record' = record
  BY SteadyGrown DEF Steady
<1>2. CASE loc[p].pc \notin Astray
  <2>1. PICK r : r = loc[p].rec
    OBVIOUS
  <2>2. r = record'
    BY <1>1, <1>2, <2>1 DEF AloneOk, AloneInv, CopyOk
  <2>3. ASSUME NEW pc, pc \notin {"outcome", "evidencesave"}, Goto(p, pc)
        PROVE  AloneInv' /\ Forward
    <3>1. CopyOk(pc, r, record', SentOnes(sent'))
      BY <2>2, <2>3 DEF CopyOk
    <3> QED BY <1>1, <2>1, <2>3, <3>1, AloneJump DEF Goto
  <2> QED BY <1>1, <2>1, <2>2, <2>3, AloneCritical, AloneReturn
<1> QED BY <1>1, <1>2, AloneReturn

LEMMA QuietIsSteady ==
  ASSUME AloneOk, Quiet, record' = record, sent' = sent, audit \subseteq audit'
  PROVE  Steady
BY DEF AloneOk, AloneInv, Quiet, Steady

\* The steps that save nothing and call no repository.
LEMMA AloneQuiet ==
  ASSUME AloneOk, WriteInv', NEW p \in Procs,
         \/ LoadRecord(p) \/ Reject(p) \/ PreAudit(p) \/ IntendAudit(p) \/ ResultAudit(p)
         \/ Finish(p) \/ UnknownAudit(p) \/ Resolve(p) \/ AppendResolution(p)
         \/ ResolvedAudit(p) \/ PreAuditFail(p) \/ EvidenceAudit(p) \/ Project(p)
         \/ Revalidate(p) \/ InvalidAudit(p) \/ Crash(p)
  PROVE  AloneInv' /\ Forward
<1>1. Steady
  <2>1. Quiet /\ record' = record /\ sent' = sent /\ audit \subseteq audit'
    BY DEF LoadRecord, Reject, PreAudit, IntendAudit, ResultAudit, Finish, UnknownAudit, Resolve,
       AppendResolution, ResolvedAudit, PreAuditFail, EvidenceAudit, Project, Revalidate,
       InvalidAudit, Crash, Journal, Local, durable, provider
  <2> QED BY <2>1, QuietIsSteady
<1>2. CASE LoadRecord(p)
  <2>1. Grown /\ record' = record
    BY <1>1, SteadyGrown DEF Steady
  <2>2. PICK pc \in {"plan", "resume"} : Jump(p, pc, record) \/ Return(p, "refused")
    BY <1>2 DEF LoadRecord
  <2>3. CopyOk(pc, record, record', SentOnes(sent'))
    BY <2>1, <2>2 DEF CopyOk
  <2> QED BY <2>1, <2>2, <2>3, AloneJump, AloneReturn
<1>3. CASE \/ Reject(p) \/ PreAudit(p) \/ UnknownAudit(p) \/ Resolve(p) \/ AppendResolution(p)
           \/ ResolvedAudit(p) \/ PreAuditFail(p) \/ EvidenceAudit(p) \/ Project(p)
           \/ InvalidAudit(p) \/ Crash(p) \/ Finish(p)
  BY <1>1, <1>3, AloneGoes
     DEF Reject, PreAudit, UnknownAudit, Resolve, AppendResolution, ResolvedAudit, PreAuditFail,
         EvidenceAudit, Project, InvalidAudit, Crash, Finish, Journal, At, Astray
<1>4. CASE IntendAudit(p) \/ ResultAudit(p) \/ Revalidate(p)
  <2>1. NextPoint(loc[p].rec) \notin {"outcome", "evidencesave"}
    BY DEF NextPoint
  <2> QED BY <1>1, <1>4, <2>1, AloneGoes
          DEF IntendAudit, ResultAudit, Revalidate, Journal, At, Astray
<1> QED BY <1>2, <1>3, <1>4

LEMMA AskedIsSteady ==
  ASSUME AloneOk, NEW p \in Procs, UNCHANGED <<durable, provider>>,
         NEW t, NEW now, NEW why,
         \/ Load(now) \/ AcquireLease(now) \/ ResumeDispatched(now) \/ MarkDispatched(t, now)
         \/ QuarantinePlan(t, why) \/ InvalidatePlan(t, why)
  PROVE  Steady
<1>1. ledger'.state = "consumed" => ledger.state = "consumed"
  BY OnlyCompleteConsumes
<1> QED BY <1>1 DEF AloneOk, AloneInv, Steady, durable, provider

\* The steps that call the plan repository but do not close the plan.
LEMMA AloneAsks ==
  ASSUME AloneOk, WriteInv', NEW p \in Procs,
         \/ LoadPlan(p) \/ Mark(p) \/ Contain(p) \/ PreQuarantine(p) \/ CriticalQuarantine(p)
         \/ InvalidateLedger(p)
  PROVE  AloneInv' /\ Forward
<1>1. Steady
  BY AskedIsSteady
     DEF LoadPlan, Mark, Contain, PreQuarantine, CriticalQuarantine, InvalidateLedger,
         AskRepository
<1>2. CASE \/ LoadPlan(p) \/ Mark(p) \/ Contain(p) \/ PreQuarantine(p) \/ InvalidateLedger(p)
  <2>1. NextPoint(loc[p].rec) \notin {"outcome", "evidencesave"}
    BY DEF NextPoint
  <2> QED BY <1>1, <1>2, <2>1, AloneGoes
          DEF LoadPlan, Mark, Contain, PreQuarantine, InvalidateLedger, AskRepository, At, Astray
<1>3. CASE CriticalQuarantine(p)
  <2>1. loc[p].pc = "critical" /\ Goto(p, "evidence")
    BY <1>3 DEF CriticalQuarantine, AskRepository, At
  <2>2. Grown /\ record' = record /\ SentOnes(sent') = SentOnes(sent)
    BY <1>1, SteadyGrown DEF Steady
  <2>3. PICK r : r = loc[p].rec
    OBVIOUS
  <2>4. CopyOk("evidence", r, record', SentOnes(sent'))
    BY <2>1, <2>2, <2>3 DEF AloneOk, AloneInv, CopyOk, Astray
  <2> QED BY <2>1, <2>2, <2>3, <2>4, AloneJump DEF Goto
<1> QED BY <1>2, <1>3

\* A process that goes on with its copy, which is the record, to another point.
LEMMA AloneSets ==
  ASSUME AloneOk, WriteInv', NEW p \in Procs, Steady, loc[p].pc \notin Astray,
         NEW l, NEW pc, NEW t, NEW mode, SetsTo(l, p, pc, t, mode, loc[p].todo),
         pc \notin {"outcome", "evidencesave"}
  PROVE  AloneInv' /\ Forward
<1>1. Grown /\ record' = record
  BY SteadyGrown DEF Steady
<1>2. Moves(p, l) /\ l.pc = pc /\ l.rec = record'
  BY <1>1 DEF SetsTo, AloneOk, AloneInv, CopyOk
<1>3. CopyOk(l.pc, l.rec, record', SentOnes(sent'))
  BY <1>2 DEF CopyOk
<1> QED BY <1>1, <1>2, <1>3, AloneMoves

LEMMA AloneLeases ==
  ASSUME AloneOk, WriteInv', NEW p \in Procs, Lease(p) \/ Resume(p)
  PROVE  AloneInv' /\ Forward
<1>1. /\ UNCHANGED <<durable, provider>> /\ loc[p].pc \notin Astray
      /\ AcquireLease(loc[p].now) \/ ResumeDispatched(loc[p].now)
  BY DEF Lease, Resume, AskRepository, At, Astray
<1>2. Steady
  BY <1>1, AskedIsSteady
<1>3. CASE Lease(p)
  <2>1. PICK t : t = reply'.token
    OBVIOUS
  <2>2. \/ Return(p, "refused")
        \/ \E l : \E pc \in {"preaudit", "invalidate"} :
             SetsTo(l, p, pc, t, loc[p].mode, loc[p].todo)
    BY <1>3, <2>1, LeaseMoves DEF AloneOk
  <2> QED BY <1>1, <1>2, <2>2, AloneSets, AloneGoes
<1>4. CASE Resume(p)
  <2>1. PICK t, mode, r, reason : /\ t = reply'.token /\ mode = reply'.status /\ r = loc[p].rec
                                  /\ reason = ledger'.reason
    OBVIOUS
  <2>2. \/ Return(p, "unavailable")
        \/ \E drift \in BOOLEAN : \E l, pc :
             /\ SetsTo(l, p, pc, t, mode, loc[p].todo)
             /\ LET at == ResumePoint(r, mode, reason, drift) IN
                at # "idle" /\ pc \in (IF at = "critical" THEN {"critical", "evidence"} ELSE {at})
    BY <1>4, <2>1, ResumeMoves DEF AloneOk
  <2>3. \A drift \in BOOLEAN : ResumePoint(r, mode, reason, drift) \notin {"outcome", "evidencesave"}
    BY DEF ResumePoint
  <2>4. \/ Return(p, "unavailable")
        \/ \E l, pc : SetsTo(l, p, pc, t, mode, loc[p].todo) /\ pc \notin {"outcome", "evidencesave"}
    BY <2>2, <2>3
  <2> QED BY <1>1, <1>2, <2>4, AloneSets, AloneGoes
<1> QED BY <1>3, <1>4

\* The plan is closed for a record that is settled and audited as such.
LEMMA AloneCompletes ==
  ASSUME AloneOk, WriteInv', NEW p \in Procs, CompleteLedger(p)
  PROVE  AloneInv' /\ Forward
<1>1. PICK r : r = loc[p].rec
  OBVIOUS
<1>2. /\ loc[p].pc = "complete" /\ UNCHANGED <<durable, provider>>
      /\ (\E answer : Return(p, answer)) \/ Critical(p, r)
  BY <1>1 DEF CompleteLedger, AskRepository, At
<1>3. record = r
  BY <1>1, <1>2 DEF AloneOk, AloneInv, CopyOk, Astray
<1>4. r.state \in {"accepted", "failed"} /\ <<"apply", r.state>> \in audit /\ Whole(r, audit)
  BY <1>1, <1>2 DEF AloneOk, SettledInv, LocalOk, PointOk
<1>5. With(r, "none") = {} /\ With(r, "unknown") = {}
  <2>1. CASE r.state = "accepted"
    <3>1. Pending(r) = {}
      BY <1>4, <2>1 DEF Whole, Settling
    <3> QED BY <3>1, OneDisposition DEF Pending
  <2>2. CASE r.state = "failed"
    BY <1>4, <2>2 DEF Whole, Settling
  <2> QED BY <1>4, <2>1, <2>2
<1>6. Over(record, audit)
  BY <1>3, <1>4, <1>5 DEF Over, Unresolved
<1>7. Steady
  BY <1>2, <1>6 DEF Steady, durable, provider
<1> QED BY <1>1, <1>2, <1>7, AloneGoes DEF Astray

LEMMA OutcomeExtends ==
  ASSUME NEW r \in Records, NEW c \in Unresolved(r), NEW disp \in Dispositions \ {"none"}, NEW s
  PROVE  LET n == Outcome(r, c, disp) IN
         Extends(r, n, s) /\ n.rev = r.rev + 1 /\ Intended(n) = Intended(r)
<1> DEFINE n == Outcome(r, c, disp)
<1>1. n = Revised(r, r.state, Disposed(r, {c}, disp))
  BY DEF Outcome
<1> HIDE DEF n
<1>2. /\ n.rev = r.rev + 1 /\ Intended(n) = Intended(r)
      /\ With(r, disp) \subseteq With(n, disp)
      /\ \A x : x # disp => With(n, x) = With(r, x) \ {c}
  BY <1>1, DisposedFields
<1>3. \A x : x # "none" => c \notin With(r, x)
  BY OneDisposition DEF Unresolved
<1> QED BY <1>2, <1>3 DEF Extends, n

\* An intent without an outcome becomes unknown when the call that left it is resumed.
LEMMA AloneReaudits ==
  ASSUME AloneOk, WriteInv', NEW p \in Procs, Reaudit(p)
  PROVE  AloneInv' /\ Forward
<1>1. PICK r : r = loc[p].rec
  OBVIOUS
<1>2. loc[p].pc = "reaudit" /\ Quiet /\ record' = record /\ sent' = sent /\ audit \subseteq audit'
  BY DEF Reaudit, Journal, At, provider
<1>3. Steady /\ Grown /\ record' = record /\ SentOnes(sent') = SentOnes(sent)
  BY <1>2, QuietIsSteady, SteadyGrown
<1>4. loc[p].pc \notin Astray /\ r = record /\ RecordOk(r)
  BY <1>1, <1>2, RecordIsSaved DEF AloneOk, AloneInv, CopyOk, Astray
<1>5. \/ \E pc \in {"revalidate", "close", "closeunknown", "unknownaudit"} : Goto(p, pc)
      \/ Critical(p, r)
      \/ Unresolved(r) # {} /\ Jump(p, "outcome", Outcome(r, Min(Unresolved(r)), "unknown"))
  BY <1>1 DEF Reaudit, Journal, UnknownPoint
<1>6. CASE Unresolved(r) # {} /\ Jump(p, "outcome", Outcome(r, Min(Unresolved(r)), "unknown"))
  <2>1. PICK c, n : c = Min(Unresolved(r)) /\ n = Outcome(r, c, "unknown")
    OBVIOUS
  <2>2. c \in Unresolved(r) /\ r \in Records
    BY <1>4, <1>6, <2>1, FirstChild DEF Unresolved, Intended, RecordOk, Sound
  <2>3. "unknown" \in Dispositions \ {"none"}
    BY DEF Dispositions
  <2>4. Extends(r, n, SentOnes(sent)) /\ n.rev = r.rev + 1
    BY <2>1, <2>2, <2>3, OutcomeExtends
  <2>5. CopyOk("outcome", n, record', SentOnes(sent'))
    BY <1>3, <1>4, <2>4 DEF CopyOk, Astray
  <2> QED BY <1>3, <1>6, <2>1, <2>5, AloneJump
<1> QED BY <1>1, <1>3, <1>4, <1>5, <1>6, AloneGoes

\* A write is sent for a child whose intent is on record.
LEMMA AloneWrites ==
  ASSUME AloneOk, WriteInv', NEW p \in Procs, Write(p)
  PROVE  AloneInv' /\ Forward
<1>1. PICK r, c : r = loc[p].rec /\ c = Max(Intended(r))
  OBVIOUS
<1>2. PICK answer \in {<<"accepted", "applied">>}
                      \cup ({"failed"} \X {"rejected", "conflicting"})
                      \cup ({"unknown"} \X {"none", "inflight", "applied"}) :
        Jump(p, "outcome", Outcome(r, c, answer[1]))
  BY <1>1 DEF Write
<1>3. PICK disp, n : disp = answer[1] /\ n = Outcome(r, c, disp)
  OBVIOUS
<1>4. /\ loc[p].pc = "write" /\ record' = record /\ audit' = audit /\ Quiet
      /\ Jump(p, "outcome", n) /\ disp \in Dispositions \ {"none"}
      /\ sent' = [sent EXCEPT ![c] = sent[c] + 1]
  BY <1>1, <1>2, <1>3 DEF Write, At, durable, Dispositions
<1>5. r = record /\ r \in Records /\ c \in Unresolved(r) /\ sent \in [Children -> Nat]
  BY <1>1, <1>4 DEF AloneOk, AloneInv, CopyOk, Astray, WriteInv, StoreInv, ProcOk, Writing,
                    Current, RecordOk, Sound
<1>6. SentOnes(sent') \subseteq SentOnes(sent) \cup {c} /\ c \in Intended(r)
  BY <1>4, <1>5 DEF SentOnes, Unresolved
<1>7. Grown
  BY <1>4, <1>5, <1>6 DEF AloneOk, AloneInv, Grown, Forward, Extends, Quiet
<1>8. Extends(r, n, SentOnes(sent')) /\ n.rev = r.rev + 1
  BY <1>3, <1>4, <1>5, OutcomeExtends
<1>9. CopyOk("outcome", n, record', SentOnes(sent'))
  BY <1>4, <1>5, <1>8 DEF CopyOk, Astray
<1> QED BY <1>4, <1>7, <1>9, AloneJump

\* A save of n leaves the record or puts n in its place.
LEMMA SavedGrown ==
  ASSUME AloneOk, Quiet, audit' = audit, sent' = sent, NEW n,
         record' = record \/ (record' = n /\ Extends(record, n, SentOnes(sent)))
  PROVE  Grown /\ SentOnes(sent') = SentOnes(sent)
BY DEF AloneOk, AloneInv, Quiet, Grown, Forward, Extends

\* The copy a save of n started from, should n be in force although the save failed.
LEMMA OvertakenCopy ==
  ASSUME NEW r, NEW n, n.rev = r.rev + 1, Unresolved(r) = {}, NEW s, s \subseteq Intended(r),
         Coherent(n), MayStopAll(r) => With(n, "accepted") \cup Stopping(n) = {}
  PROVE  Stale(r, n, s)
BY DEF Stale, MayStopAll, Stopping, Dispositions

LEMMA AloneCreates ==
  ASSUME AloneOk, WriteInv', NEW p \in Procs, Create(p)
  PROVE  AloneInv' /\ Forward
<1>1. PICK n : n = NewRecord
  OBVIOUS
<1>2. /\ Quiet /\ audit' = audit /\ sent' = sent
      /\ \/ /\ record' = n /\ n.rev = record.rev + 1
            /\ Jump(p, "mark", n) \/ Return(p, "refused")
         \/ record' = record /\ Return(p, "refused")
  BY <1>1 DEF Create, Save, provider
<1>3. n.rev = record.rev + 1 => record = NoRecord
  BY <1>1 DEF NewRecord, AloneOk, WriteInv, StoreInv, RecordOk, Sound, Records
<1>4. Intended(NoRecord) = {} /\ \A x \in Dispositions \ {"none"} : With(NoRecord, x) = {}
  BY DEF NoRecord, Untouched, Intended, With
<1>5. n.rev = record.rev + 1 => Extends(record, n, SentOnes(sent))
  BY <1>3, <1>4 DEF Extends
<1>6. Grown
  BY <1>2, <1>5, SavedGrown
<1>7. CopyOk("mark", n, n, SentOnes(sent'))
  BY DEF CopyOk, Astray
<1> QED BY <1>2, <1>6, <1>7, AloneJump, AloneReturn

LEMMA AloneIntends ==
  ASSUME AloneOk, WriteInv', NEW p \in Procs, SaveIntent(p)
  PROVE  AloneInv' /\ Forward
<1>1. PICK r, c, n : r = loc[p].rec /\ c = Min(Pending(r)) /\ n = Intend(r, c)
  OBVIOUS
<1>2. /\ loc[p].pc = "intent" /\ Quiet /\ audit' = audit /\ sent' = sent
      /\ \/ record' = n /\ Jump(p, "write", n)
         \/ record' \in {record, n} /\ Goto(p, "predispatch")
  BY <1>1 DEF SaveIntent, Save, provider, At
<1>3. r = record /\ RecordOk(r) /\ MayIntend(r, c) /\ Whole(r, audit)
  BY <1>1, <1>2 DEF AloneOk, AloneInv, CopyOk, Astray, WriteInv, ProcOk, SettledInv, LocalOk
<1>4. /\ Whole(n, audit) /\ n.rev = r.rev + 1 /\ Intended(n) = Intended(r) \cup {c}
      /\ \A x : With(n, x) = With(r, x)
  BY <1>1, <1>3, IntendWhole DEF RecordOk
<1>5. Extends(record, n, SentOnes(sent))
  BY <1>3, <1>4 DEF Extends
<1>6. Grown /\ SentOnes(sent') = SentOnes(sent) /\ SentOnes(sent) \subseteq Intended(r)
  BY <1>2, <1>3, <1>5, SavedGrown DEF AloneOk, AloneInv
<1>7. Stale(r, n, SentOnes(sent))
  <2>1. Unresolved(r) = {}
    <3> SUFFICES ASSUME NEW d \in Unresolved(r) PROVE FALSE
      OBVIOUS
    <3>1. /\ c \in Children /\ c \in With(r, "none") /\ c \notin Intended(r)
          /\ 1..(c - 1) \subseteq With(r, "accepted") /\ Ordered(r)
      BY <1>3 DEF MayIntend, With, RecordOk, Sound, InProgress
    <3>2. d \in Children /\ d \in Intended(r) /\ d \in With(r, "none") /\ c # d
      BY <3>1 DEF Unresolved, Intended
    <3>3. c < d \/ d \in 1..(c - 1)
      BY <3>1, <3>2, ChildrenAssumption DEF Children
    <3> QED BY <3>1, <3>2, <3>3, OneDisposition DEF Ordered
  <2>2. Coherent(n) /\ Coherent(r)
    BY <1>3, <1>4 DEF Whole, Settling
  <2>3. MayStopAll(r) => With(n, "accepted") \cup Stopping(n) = {}
    BY <1>4, <2>2 DEF MayStopAll, Coherent, Stopping
  <2> QED BY <1>4, <1>6, <2>1, <2>2, <2>3, OvertakenCopy
<1>8. CASE record' = n /\ Jump(p, "write", n)
  <2>1. CopyOk("write", n, record', SentOnes(sent'))
    BY <1>8 DEF CopyOk, Astray
  <2> QED BY <1>6, <1>8, <2>1, AloneJump
<1>9. CASE record' \in {record, n} /\ Goto(p, "predispatch")
  <2>1. CopyOk("predispatch", r, record', SentOnes(sent'))
    BY <1>3, <1>6, <1>7, <1>9 DEF CopyOk, Astray
  <2> QED BY <1>1, <1>6, <1>9, <2>1, AloneJump DEF Goto
<1> QED BY <1>2, <1>8, <1>9

LEMMA AloneSavesOutcome ==
  ASSUME AloneOk, WriteInv', NEW p \in Procs, SaveOutcome(p)
  PROVE  AloneInv' /\ Forward
<1>1. PICK r : r = loc[p].rec
  OBVIOUS
<1>2. /\ loc[p].pc = "outcome" /\ Quiet /\ audit' = audit /\ sent' = sent
      /\ \/ record' = r /\ \E pc \in {"closeunknown", "result"} : Goto(p, pc)
         \/ record' \in {record, r} /\ Critical(p, r)
  BY <1>1 DEF SaveOutcome, Save, provider, At
<1>3. r.rev = record.rev + 1 /\ Extends(record, r, SentOnes(sent))
  BY <1>1, <1>2 DEF AloneOk, AloneInv, CopyOk
<1>4. Grown
  BY <1>2, <1>3, SavedGrown
<1>5. \A pc \in {"closeunknown", "result"} : CopyOk(pc, r, r, SentOnes(sent'))
  BY DEF CopyOk, Astray
<1>6. \A pc \in {"closeunknown", "result"} : pc # "evidencesave"
  OBVIOUS
<1> QED BY <1>1, <1>2, <1>3, <1>4, <1>5, <1>6, AloneJump, AloneCritical DEF Goto

LEMMA AloneCloses ==
  ASSUME AloneOk, WriteInv', NEW p \in Procs, Close(p) \/ CloseUnknown(p)
  PROVE  AloneInv' /\ Forward
<1>1. PICK r, n : r = loc[p].rec /\ n = Finalize(r)
  OBVIOUS
<1>2. /\ loc[p].pc \in {"close", "closeunknown"} /\ Quiet /\ audit' = audit /\ sent' = sent
      /\ \/ record' = n /\ \E pc \in {"finish", "unknownaudit"} : Jump(p, pc, n)
         \/ n.rev = record.rev + 1 /\ record' \in {record, n} /\ Critical(p, n)
         \/ n.rev # record.rev + 1 /\ record' = record /\ Critical(p, n)
  BY <1>1 DEF Close, CloseUnknown, Save, provider, At
<1>3. /\ r = record /\ RecordOk(r) /\ Whole(r, audit)
      /\ Stopping(r) # {} \/ (Pending(r) = {} /\ Journalled(r, Children, audit))
  BY <1>1, <1>2 DEF AloneOk, AloneInv, CopyOk, Astray, SettledInv, LocalOk, PointOk, WriteInv,
                    ProcOk, UnknownStopped, Stopping
<1>4. Extends(record, n, SentOnes(sent))
  BY <1>1, <1>3, FinalizeWhole DEF RecordOk, Extends
<1>5. n = r \/ n.rev = r.rev + 1
  BY <1>1, RevisedFields DEF Finalize
<1>6. Grown /\ SentOnes(sent') = SentOnes(sent)
  BY <1>2, <1>4, SavedGrown
<1>7. \A pc \in {"finish", "unknownaudit"} : pc # "evidencesave" /\ CopyOk(pc, n, n, SentOnes(sent'))
  BY DEF CopyOk, Astray
<1>8. Critical(p, n) => n = record' \/ n.rev = record'.rev + 1
  BY <1>2, <1>3, <1>5
<1> QED BY <1>2, <1>6, <1>7, <1>8, AloneJump, AloneCritical

LEMMA AloneStops ==
  ASSUME AloneOk, WriteInv', NEW p \in Procs, StopRemaining(p) \/ StopUnattempted(p)
  PROVE  AloneInv' /\ Forward
<1>1. PICK r : r = loc[p].rec
  OBVIOUS
<1>2. RecordOk(r) /\ Whole(r, audit) /\ r \in Records
  BY <1>1 DEF AloneOk, SettledInv, LocalOk, WriteInv, ProcOk, RecordOk, Sound
<1>3. CASE StopRemaining(p) /\ ~MayStopPending(r)
  <2>1. /\ Quiet /\ record' = record /\ sent' = sent /\ audit \subseteq audit'
        /\ Return(p, "raised")
    BY <1>1, <1>3 DEF StopRemaining, Local, durable, provider
  <2> QED BY <2>1, QuietIsSteady, AloneGoes
<1>4. ASSUME NEW n, NEW pc, pc \notin Astray, Quiet, audit' = audit, sent' = sent,
             \/ record' = n /\ n.rev = record.rev + 1 /\ (Jump(p, pc, n) \/ Critical(p, r))
             \/ record' = record /\ Critical(p, r),
             r = record \/ Stale(r, record, SentOnes(sent)),
             n.rev = r.rev + 1, Whole(n, audit), Intended(n) = Intended(r), Unresolved(r) = {},
             \A x \in Dispositions \ {"none"} : With(r, x) \subseteq With(n, x)
      PROVE  AloneInv' /\ Forward
  <2>1. CASE record' = record /\ Critical(p, r)
    <3>1. Grown /\ SentOnes(sent') = SentOnes(sent)
      BY <1>4, <2>1, SavedGrown
    <3> QED BY <1>4, <2>1, <3>1, AloneCritical
  <2>2. CASE record' = n /\ n.rev = record.rev + 1 /\ (Jump(p, pc, n) \/ Critical(p, r))
    <3>1. r.rev \in Int /\ record.rev \in Int
      BY <1>1, RecordIsSaved DEF AloneOk
    <3>2. r = record
      BY <1>4, <2>2, <3>1 DEF Stale
    <3>3. Extends(record, n, SentOnes(sent))
      BY <1>4, <3>2 DEF Extends
    <3>4. Grown /\ SentOnes(sent') = SentOnes(sent) /\ SentOnes(sent) \subseteq Intended(r)
      BY <1>4, <2>2, <3>2, <3>3, SavedGrown DEF AloneOk, AloneInv
    <3>5. Coherent(n) /\ (MayStopAll(r) => With(n, "accepted") \cup Stopping(n) = {})
      BY <1>4 DEF Whole, Settling, Coherent, MayStopAll
    <3>6. Stale(r, n, SentOnes(sent))
      BY <1>4, <3>4, <3>5, OvertakenCopy
    <3>7. CopyOk(pc, n, record', SentOnes(sent')) /\ pc # "evidencesave"
      BY <1>4, <2>2 DEF CopyOk, Astray
    <3> QED BY <2>2, <3>4, <3>6, <3>7, AloneJump, AloneCritical
  <2> QED BY <1>4, <2>1, <2>2
<1>5. CASE StopRemaining(p) /\ MayStopPending(r)
  <2>1. PICK n : n = StopPending(r)
    OBVIOUS
  <2>2. /\ loc[p].pc = "predispatch" /\ Quiet /\ audit' = audit /\ sent' = sent
        /\ \/ /\ record' = n /\ n.rev = record.rev + 1
              /\ Jump(p, "prequarantine", n) \/ Critical(p, r)
           \/ record' = record /\ Critical(p, r)
    BY <1>1, <1>5, <2>1 DEF StopRemaining, Save, provider, At
  <2>3. Min(Pending(r)) \in With(r, "none") /\ (r = record \/ Stale(r, record, SentOnes(sent)))
    BY <1>1, <2>2 DEF AloneOk, SettledInv, LocalOk, PointOk, AloneInv, CopyOk
  <2>4. /\ n.rev = r.rev + 1 /\ Whole(n, audit) /\ Intended(n) = Intended(r)
        /\ \A x \in Dispositions \ {"none"} : With(r, x) \subseteq With(n, x)
    BY <1>2, <1>5, <2>1, <2>3, StopPendingWhole DEF RecordOk
  <2>5. Unresolved(r) = {} /\ "prequarantine" \notin Astray
    BY <1>5 DEF MayStopPending, Astray
  <2> QED BY <1>4, <2>2, <2>3, <2>4, <2>5
<1>6. CASE StopUnattempted(p)
  <2>1. PICK n : n = StopAll(r)
    OBVIOUS
  <2>2. /\ loc[p].pc = "stopall" /\ Quiet /\ audit' = audit /\ sent' = sent
        /\ \/ /\ record' = n /\ n.rev = record.rev + 1
              /\ Jump(p, "invalidate", n) \/ Critical(p, r)
           \/ record' = record /\ Critical(p, r)
    BY <1>1, <1>6, <2>1 DEF StopUnattempted, Save, provider, At
  <2>3. Intended(r) = {} /\ r = record
    BY <1>1, <2>2 DEF AloneOk, SettledInv, LocalOk, PointOk, AloneInv, CopyOk, Astray
  <2>4. /\ n.rev = r.rev + 1 /\ Whole(n, audit) /\ Intended(n) = Intended(r)
        /\ \A x \in Dispositions \ {"none"} : With(r, x) \subseteq With(n, x)
    BY <1>2, <2>1, <2>3, StopAllWhole DEF MayStopAll, Whole, Settling
  <2>5. Unresolved(r) = {} /\ "invalidate" \notin Astray
    BY <2>3 DEF Unresolved, Astray
  <2> QED BY <1>4, <2>2, <2>3, <2>4, <2>5
<1> QED BY <1>1, <1>3, <1>5, <1>6

\* The evidence of a copy takes nothing back, each record from the one before it.
LEMMA EvidenceExtends ==
  ASSUME NEW r, NEW t, Sound(r, t), NEW a, Whole(r, a), NEW s
  PROVE  LET w == EvidenceWrites(r) IN
         /\ \A i \in DOMAIN w : w[i].rev > r.rev /\ Extends(r, w[i], s)
         /\ \A i, j \in DOMAIN w : i < j => Extends(w[i], w[j], s)
         /\ Unresolved(r) = {} => \A i \in DOMAIN w :
              \/ w[i].rev = r.rev + 1
              \/ InProgress(r) /\ MayStopAll(r) /\ With(w[i], "unattempted") = Children
<1>1. r \in Records /\ Unresolved(r) \subseteq Children /\ r.rev \in Int
  BY DEF Sound, Unresolved, Intended, Records
<1>2. CASE Unresolved(r) # {}
  <2> DEFINE c == Min(Unresolved(r))
             u == Outcome(r, c, "unknown")
             e == Finalize(u)
             m == MarkCritical(e)
  <2>1. c \in Unresolved(r)
    BY <1>1, <1>2, FirstChild
  <2>2. EvidenceWrites(r) = <<u, e, m>>
    BY <1>2 DEF EvidenceWrites
  <2>3. "unknown" \in Dispositions \ {"none"}
    BY DEF Dispositions
  <2> HIDE DEF c
  <2>4. Whole(u, a) /\ c \in With(u, "unknown") /\ Extends(r, u, s) /\ u.rev = r.rev + 1
    BY <1>1, <2>1, <2>3, OutcomeWhole, OutcomeExtends
  <2>5. Sound(u, t)
    BY <2>1, <2>3, OutcomeOk
  <2>6. Stopping(u) # {}
    BY <2>4 DEF Stopping
  <2> HIDE DEF u
  <2>7. Whole(e, a) /\ Extends(u, e, s)
    BY <2>4, <2>5, <2>6, FinalizeWhole DEF Extends
  <2>8. e = u \/ e.rev = u.rev + 1
    BY RevisedFields DEF Finalize
  <2> HIDE DEF e
  <2>9. Extends(e, m, s) /\ m.rev = e.rev + 1
    BY <2>7, CriticalWhole DEF Extends
  <2> HIDE DEF m
  <2>10. Extends(r, e, s) /\ Extends(r, m, s) /\ Extends(u, m, s)
    BY <2>4, <2>7, <2>9 DEF Extends
  <2>11. u.rev > r.rev /\ e.rev > r.rev /\ m.rev > r.rev
    BY <1>1, <2>4, <2>8, <2>9
  <2> QED BY <1>2, <2>2, <2>4, <2>7, <2>9, <2>10, <2>11
<1>3. CASE Unresolved(r) = {} /\ r.state = "in-progress" /\ MayStopAll(r)
  <2> DEFINE u == StopAll(r)
             m == MarkCritical(u)
  <2>1. EvidenceWrites(r) = <<u, m>>
    BY <1>3 DEF EvidenceWrites
  <2>2. /\ Whole(u, a) /\ u.rev = r.rev + 1 /\ Extends(r, u, s)
    BY <1>1, <1>3, StopAllWhole DEF Whole, Settling, Extends, MayStopAll
  <2>3. With(u, "unattempted") = Children
    <3>1. /\ u = Revised(r, "failed", Disposed(r, Children, "unattempted"))
          /\ "unattempted" \in Dispositions
      BY DEF StopAll, Dispositions
    <3> HIDE DEF u
    <3>2. With(u, "unattempted") = With(r, "unattempted") \cup (Children \cap Children)
      BY <1>1, <3>1, DisposedFields
    <3> QED BY <3>2, OneDisposition
  <2> HIDE DEF u
  <2>4. /\ Extends(u, m, s) /\ m.rev = u.rev + 1
        /\ With(m, "unattempted") = With(u, "unattempted")
    BY <2>2, CriticalWhole DEF Extends
  <2> HIDE DEF m
  <2>5. Extends(r, m, s) /\ u.rev > r.rev /\ m.rev > r.rev
    BY <1>1, <2>2, <2>4 DEF Extends
  <2> QED BY <1>3, <2>1, <2>2, <2>3, <2>4, <2>5 DEF InProgress
<1>4. CASE Unresolved(r) = {} /\ ~(r.state = "in-progress" /\ MayStopAll(r))
  <2>1. EvidenceWrites(r) = <<MarkCritical(r)>>
    BY <1>4 DEF EvidenceWrites
  <2>2. PICK m : m = MarkCritical(r)
    OBVIOUS
  <2>3. Extends(r, m, s) /\ m.rev = r.rev + 1
    BY <2>2, CriticalWhole DEF Extends
  <2> QED BY <1>1, <2>1, <2>2, <2>3
<1> QED BY <1>2, <1>3, <1>4

LEMMA EvidenceFits ==
  ASSUME NEW r, NEW t, Sound(r, t), NEW a, Whole(r, a), NEW cur \in Records, NEW s,
         r = cur \/ Stale(r, cur, s) \/ r.rev = cur.rev + 1
  PROVE  ChainOk(EvidenceWrites(r), cur, s)
<1>1. PICK w : w = EvidenceWrites(r)
  OBVIOUS
<1>2. /\ \A i \in DOMAIN w : w[i].rev > r.rev /\ Extends(r, w[i], s)
      /\ \A i, j \in DOMAIN w : i < j => Extends(w[i], w[j], s)
      /\ Unresolved(r) = {} => \A i \in DOMAIN w :
           \/ w[i].rev = r.rev + 1
           \/ InProgress(r) /\ MayStopAll(r) /\ With(w[i], "unattempted") = Children
  BY <1>1, EvidenceExtends
<1>3. r.rev \in Int /\ cur.rev \in Int
  BY DEF Sound, Records
<1>4. ASSUME NEW i \in DOMAIN w, w[i].rev = cur.rev + 1 PROVE Extends(cur, w[i], s)
  <2>1. CASE r = cur
    BY <1>2, <1>4, <2>1
  <2>2. CASE r.rev = cur.rev + 1
    BY <1>2, <1>3, <1>4, <2>2
  <2>3. CASE Stale(r, cur, s)
    <3>1. PICK n : n = w[i]
      OBVIOUS
    <3>2. r.rev + 1 = cur.rev /\ Unresolved(r) = {} /\ n.rev = cur.rev + 1
      BY <1>4, <2>3, <3>1 DEF Stale
    <3>3. InProgress(r) /\ MayStopAll(r) /\ With(n, "unattempted") = Children
      BY <1>2, <1>3, <3>1, <3>2
    <3>4. s = {} /\ \A x \in Dispositions \ {"none", "unattempted"} : With(cur, x) = {}
      BY <2>3, <3>3 DEF Stale
    <3>5. With(cur, "unattempted") \subseteq With(n, "unattempted")
      BY <3>3, OneDisposition
    <3> QED BY <3>1, <3>4, <3>5 DEF Extends
  <2> QED BY <2>1, <2>2, <2>3
<1> QED BY <1>1, <1>2, <1>4 DEF ChainOk

LEMMA AloneGathers ==
  ASSUME AloneOk, WriteInv', NEW p \in Procs, Evidence(p)
  PROVE  AloneInv' /\ Forward
<1>1. PICK r \in {record, loc[p].rec} :
        loc' = [loc EXCEPT ![p].pc = "evidencesave", ![p].todo = EvidenceWrites(r)]
  BY DEF Evidence
<1>2. loc[p].pc = "evidence" /\ Quiet /\ record' = record /\ sent' = sent /\ audit \subseteq audit'
  BY DEF Evidence, At, durable, provider
<1>3. Grown /\ record' = record /\ SentOnes(sent') = SentOnes(sent)
  BY <1>2, QuietIsSteady, SteadyGrown
<1>4. PICK w : w = EvidenceWrites(r)
  OBVIOUS
<1>5. RecordOk(r) /\ Whole(r, audit) /\ record \in Records
  <2>1. RecordOk(record) /\ RecordOk(loc[p].rec) /\ Whole(record, audit)
    BY RecordIsSaved DEF AloneOk, SettledInv
  <2>2. Whole(loc[p].rec, audit)
    BY DEF AloneOk, SettledInv, LocalOk
  <2> QED BY <1>1, <2>1, <2>2 DEF RecordOk, Sound
<1>6. r = record \/ Stale(r, record, SentOnes(sent)) \/ r.rev = record.rev + 1
  BY <1>1, <1>2 DEF AloneOk, AloneInv, CopyOk
<1>7. ChainOk(w, record, SentOnes(sent))
  BY <1>4, <1>5, <1>6, EvidenceFits DEF RecordOk
<1>8. PICK l : SetsTo(l, p, "evidencesave", loc[p].lease, loc[p].mode, w)
  BY <1>1, <1>4, EvidenceMoves DEF AloneOk
<1>9. Moves(p, l) /\ l.pc = "evidencesave" /\ l.todo = w
  BY <1>8 DEF SetsTo
<1>10. CopyOk(l.pc, l.rec, record', SentOnes(sent'))
  BY <1>9 DEF CopyOk, Astray
<1> QED BY <1>3, <1>7, <1>9, <1>10, AloneMoves

\* Whichever of the records is stored, those after it go on from it.
LEMMA AloneSavesEvidence ==
  ASSUME AloneOk, WriteInv', NEW p \in Procs, EvidenceSave(p)
  PROVE  AloneInv' /\ Forward
<1>1. PICK n, rest, pc, s : /\ n = Head(loc[p].todo) /\ rest = Tail(loc[p].todo)
                            /\ pc = IF rest = <<>> THEN "evidenceaudit" ELSE loc[p].pc
                            /\ s = SentOnes(sent)
  OBVIOUS
<1>2. /\ loc[p].pc = "evidencesave" /\ Quiet /\ audit' = audit /\ sent' = sent
      /\ record' = record \/ (record' = n /\ n.rev = record.rev + 1)
  BY <1>1 DEF EvidenceSave, Save, provider, At
<1>3. PICK todo : todo = loc[p].todo
  OBVIOUS
<1>4. /\ todo \in Seq(Records) /\ todo # <<>> /\ ChainOk(todo, record, s)
  BY <1>1, <1>2, <1>3 DEF AloneOk, WriteInv, ProcOk, AloneInv
<1>5. /\ n = todo[1] /\ 1 \in DOMAIN todo
      /\ \A i \in DOMAIN rest : i \in Nat \ {0} /\ i + 1 \in DOMAIN todo /\ rest[i] = todo[i + 1]
  BY <1>1, <1>3, <1>4
<1>6. /\ n.rev = record.rev + 1 => Extends(record, n, s)
      /\ \A i \in DOMAIN rest : /\ Extends(n, rest[i], s)
                                /\ rest[i].rev = record.rev + 1 => Extends(record, rest[i], s)
      /\ \A i, j \in DOMAIN rest : i < j => Extends(rest[i], rest[j], s)
  <2>1. /\ n.rev = record.rev + 1 => Extends(record, n, s)
        /\ \A i \in DOMAIN rest : rest[i].rev = record.rev + 1 => Extends(record, rest[i], s)
    BY <1>4, <1>5 DEF ChainOk
  <2>2. ASSUME NEW i \in DOMAIN rest PROVE Extends(n, rest[i], s)
    <3>1. 1 < i + 1
      BY <1>5
    <3> QED BY <1>4, <1>5, <3>1 DEF ChainOk
  <2>3. ASSUME NEW i \in DOMAIN rest, NEW j \in DOMAIN rest, i < j
        PROVE  Extends(rest[i], rest[j], s)
    <3>1. i + 1 < j + 1
      BY <1>5, <2>3
    <3> QED BY <1>4, <1>5, <3>1 DEF ChainOk
  <2> QED BY <2>1, <2>2, <2>3
<1>7. ChainOk(rest, record', s)
  BY <1>2, <1>6 DEF ChainOk
<1>8. Grown /\ SentOnes(sent') = s
  BY <1>1, <1>2, <1>6, SavedGrown
<1>9. PICK l : SetsTo(l, p, pc, loc[p].lease, loc[p].mode, rest)
  BY <1>1, EvidenceSaveMoves DEF AloneOk
<1>10. Moves(p, l) /\ l.pc = pc /\ l.todo = rest /\ pc \in {"evidencesave", "evidenceaudit"}
  BY <1>1, <1>2, <1>9 DEF SetsTo
<1>11. CopyOk(l.pc, l.rec, record', SentOnes(sent'))
  BY <1>10 DEF CopyOk, Astray
<1> QED BY <1>7, <1>8, <1>10, <1>11, AloneMoves

LEMMA AloneEnvironment ==
  ASSUME AloneOk, WriteInv',
         \/ \E q \in Procs : Begin(q)
         \/ \E c \in Children : Land(c)
         \/ TimePasses \/ Rest \/ UNCHANGED allVars
  PROVE  AloneInv' /\ Forward
<1>1. /\ record' = record /\ sent' = sent /\ audit' = audit /\ ledger' = ledger
  BY DEF Begin, Land, TimePasses, Tick, Rest, allVars, vars, durable, provider
<1>2. Grown
  BY <1>1, SteadyGrown DEF Steady, AloneOk, AloneInv
<1>3. CASE \E q \in Procs : Begin(q)
  <2>1. PICK q \in Procs : Begin(q)
    BY <1>3
  <2>2. PICK l : Moves(q, l) /\ l.pc = "load"
    BY <2>1, BeginMoves DEF AloneOk
  <2>3. CopyOk(l.pc, l.rec, record', SentOnes(sent'))
    BY <2>2 DEF CopyOk, Astray
  <2> QED BY <1>2, <2>2, <2>3, AloneMoves
<1>4. CASE \/ \E c \in Children : Land(c)
           \/ TimePasses \/ Rest \/ UNCHANGED allVars
  <2>1. loc' = loc
    BY <1>4 DEF Land, TimePasses, Rest, allVars
  <2> QED BY <1>1, <1>2, <2>1 DEF AloneOk, AloneInv, Grown, Forward
<1> QED BY <1>3, <1>4

LEMMA AloneInit == ApplyInit => AloneInv
<1> SUFFICES ASSUME ApplyInit PROVE AloneInv
  OBVIOUS
<1>1. SentOnes(sent) = {} /\ ledger.state = "available"
  BY DEF ApplyInit, SentOnes, Available, Plain
<1>2. \A p \in Procs : loc[p].pc = "idle"
  BY DEF ApplyInit, Idle
<1> QED BY <1>1, <1>2 DEF AloneInv, CopyOk, Astray

LEMMA AloneSteps ==
  ASSUME Alone
  PROVE  WriteInv /\ SettledInv /\ AloneInv /\ [ApplyNext]_allVars => AloneInv' /\ Forward
<1> SUFFICES ASSUME WriteInv, SettledInv, AloneInv, [ApplyNext]_allVars
             PROVE  AloneInv' /\ Forward
  OBVIOUS
<1>1. AloneOk /\ WriteInv'
  BY WriteInvSteps DEF AloneOk
<1>2. ASSUME NEW p \in Procs, Step(p) PROVE AloneInv' /\ Forward
  BY <1>1, <1>2, AloneQuiet, AloneAsks, AloneLeases, AloneCompletes, AloneReaudits, AloneWrites,
     AloneCreates, AloneIntends, AloneSavesOutcome, AloneCloses, AloneStops, AloneGathers,
     AloneSavesEvidence DEF Step
<1>3. ASSUME NEW p \in Procs, Begin(p) \/ Crash(p) PROVE AloneInv' /\ Forward
  BY <1>1, <1>3, AloneQuiet, AloneEnvironment
<1>4. ASSUME (\E c \in Children : Land(c)) \/ TimePasses \/ Rest \/ UNCHANGED allVars
      PROVE  AloneInv' /\ Forward
  BY <1>1, <1>4, AloneEnvironment
<1> QED BY <1>2, <1>3, <1>4 DEF ApplyNext

\* With one process the record follows the writes, and a call knows how its copy differs
\* from the durable record.
THEOREM CopiesFollowTheRecord ==
  ASSUME Alone
  PROVE  ApplySpec => []AloneInv
<1>1. ApplyInit => AloneInv
  BY AloneInit
<1>2. WriteInv /\ SettledInv /\ AloneInv /\ [ApplyNext]_allVars => AloneInv'
  BY AloneSteps
<1> QED BY <1>1, <1>2, RecordAndWritesAgree, CallsRelyOnFacts, PTL DEF ApplySpec

\* A write that was sent stays on record while calls do not race (MCApplyPlanLostUpdate.cfg
\* shows two that do): the intent is saved before the write, and every later save starts from
\* a copy that holds it.
THEOREM SentIsOnRecord ==
  ASSUME Alone
  PROVE  ApplySpec => []DispatchIsOnRecord
<1>1. WriteInv /\ AloneInv => DispatchIsOnRecord
  BY DEF AloneInv, SentOnes, DispatchIsOnRecord
<1> QED BY <1>1, CopiesFollowTheRecord, RecordAndWritesAgree, PTL

\* A plan is closed only for an Apply in which every child is settled in the record and whose
\* end is in the journal, and no later call unsettles it.
THEOREM ConsumedIsOver ==
  ASSUME Alone
  PROVE  ApplySpec => []ConsumedIsSettled
<1>1. AloneInv => ConsumedIsSettled
  BY DEF AloneInv, Over, ConsumedIsSettled
<1> QED BY <1>1, CopiesFollowTheRecord, PTL

\* Nothing that the record says of a child is taken back, nor the intent of a write that was
\* sent, although saves that were reported as failed may have overtaken a call's copy.
THEOREM NothingIsTakenBack ==
  ASSUME Alone
  PROVE  ApplySpec => DispositionsAreFinal
<1>1. WriteInv /\ SettledInv /\ AloneInv /\ [ApplyNext]_allVars =>
        [/\ {c \in Intended(record) : sent[c] > 0} \subseteq Intended(record')
         /\ \A disp \in Dispositions \ {"none"} :
              With(record, disp) \subseteq With(record', disp)]_allVars
  <2> SUFFICES ASSUME WriteInv, SettledInv, AloneInv, [ApplyNext]_allVars
               PROVE  /\ {c \in Intended(record) : sent[c] > 0} \subseteq Intended(record')
                      /\ \A disp \in Dispositions \ {"none"} :
                           With(record, disp) \subseteq With(record', disp)
    OBVIOUS
  <2>1. Forward
    BY AloneSteps
  <2>2. {c \in Intended(record) : sent[c] > 0} = Intended(record) \cap SentOnes(sent)
    BY DEF SentOnes, Intended
  <2> QED BY <2>1, <2>2 DEF Forward, Extends
<1> QED BY <1>1, CopiesFollowTheRecord, RecordAndWritesAgree, CallsRelyOnFacts, PTL
        DEF ApplySpec, DispositionsAreFinal
=============================================================================
