-------------------------- MODULE WatchStreamProofs --------------------------
(***************************************************************************)
(* Theorems of WatchStream, for any children, condition, provider and      *)
(* number of streams and changes.                                          *)
(***************************************************************************)
EXTENDS WatchStream, TLAPS

Checkpoints == Checkpoint \cup {NoCheckpoint}
Views == Shown \cup {NotShown}
Runs ==
  [pc: {"none", "observe", "emit", "sleep", "ended"}, phase: Phases, resolved: Resolutions,
   status: StatusMap, lineage: LineageMap, pending: Resolutions, replays: BOOLEAN,
   owed: SUBSET (Children \cup {"initial"}), saved: Checkpoints, seen: Views,
   outcome: Codes]
Preference == [pref: {"reconciling", "full", "short"}, effective: BOOLEAN,
               target: BOOLEAN, lineage: Lineages]
Providers == [Children -> Preference]
Reading == [step: {"idle", "due", "half", "done", "miss"}, got: Status \cup {Nothing},
            target: BOOLEAN, lineage: Lineages]
Readings == [Children -> Reading]

-----------------------------------------------------------------------------
(* The inductive invariant. *)

\* A resolution is of the unknown child.
WorldInv ==
  /\ provider \in Providers /\ superseded \subseteq Children
  /\ evidence \in [Children -> Found]
  /\ resolution \in Resolutions /\ (Unknown = {} => resolution = "unknown")

\* What is known of the unknown child is not more than what is so.
Known(resolved) == resolved \in {"unknown", resolution}

\* The request that the evidence of a child names.
Request(c) == evidence[c].lineage.request

\* A subject with its statuses: children that are not watched have none, and those there
\* are are of the request.
Honest(resolved, status) ==
  /\ resolved \in Resolutions /\ status \in StatusMap /\ Known(resolved)
  /\ \A c \in Children \ Watched(resolved) : status[c] = Nothing
  /\ \A c \in Children : status[c] # Nothing => status[c].request = Request(c)
HonestView(p) == p \in Views /\ Honest(p.resolved, p.status)

\* Every watched child is followed by a lineage of its request.
Follows(resolved, lineage) == \A c \in Watched(resolved) : lineage[c].request = Request(c)
HonestCheckpoint(p) ==
  /\ p \in Checkpoints /\ Honest(p.resolved, p.status)
  /\ p # NoCheckpoint => Follows(p.resolved, p.lineage)

\* A read is of a watched child, and its status is of the request its lineage names.
ReadInv ==
  /\ reading \in Readings
  /\ \A c \in Children : reading[c].step # "idle" => c \in Watched(run.resolved)
  /\ \A c \in Children : reading[c].step \in {"half", "done"} =>
       reading[c].got \in Status /\ reading[c].got.request = reading[c].lineage.request

\* What was told, where the stream may go to sleep without another word.
Told(r) ==
  /\ r.outcome = "raised" => r.seen = NotShown
  /\ r.pc = "observe" /\ r.phase = "initial" => r.seen = NotShown
  /\ r.pc \in {"observe", "emit", "sleep"} /\ r.saved = NoCheckpoint => r.seen = NotShown
  /\ r.pc = "sleep" => r.phase # "initial"
  /\ \/ r.pc = "emit" /\ r.owed = {}
     \/ r.pc = "sleep"
     \/ r.pc = "observe" /\ r.phase # "initial"
     => r.seen = View(r)

\* The pending resolution is taken over before anything but the initial event.
Pending(r) ==
  /\ r.phase = "initial" => r.resolved \in {"unknown", r.pending}
  /\ r.pending = "accepted" /\ (r.phase # "initial" \/ ~r.replays) => r.resolved = "accepted"

Covers(r) ==
  \A c \in Watched(r.seen.resolved) \cup Watched(r.pending) : Reached(r.seen.status[c])

RunOk(r) ==
  /\ r \in Runs /\ Honest(r.resolved, r.status) /\ Known(r.pending)
  /\ HonestCheckpoint(r.saved) /\ HonestView(r.seen) /\ Told(r)
  /\ r.pc \in {"observe", "emit", "sleep"} =>
       r.outcome = "open" /\ Pending(r) /\ Follows(r.resolved, r.lineage)
  /\ r.outcome = "reached" => Covers(r)

IInv ==
  /\ late \in BOOLEAN /\ WorldInv /\ ReadInv
  /\ RunOk(run) /\ HonestCheckpoint(token)

-----------------------------------------------------------------------------
(* Checkpoints and subjects. *)

LEMMA Distinct == Nothing \notin Status
BY DEF Nothing, Status

LEMMA NothingIsHonest ==
  /\ HonestCheckpoint(NoCheckpoint) /\ HonestView(NotShown)
  /\ NoCheckpoint.resolved = "unknown"
  /\ [c \in Children |-> Nothing] \in StatusMap
  /\ NoLineage \in Lineages /\ [c \in Children |-> NoLineage] \in LineageMap
BY DEF HonestCheckpoint, HonestView, Checkpoints, Views, Honest, NoCheckpoint, NotShown,
       StatusMap, Resolutions, Known, NoLineage, Lineages, LineageMap

LEMMA ViewIsHonest ==
  ASSUME NEW r \in Runs, Honest(r.resolved, r.status), Follows(r.resolved, r.lineage)
  PROVE  /\ HonestCheckpoint(Kept(r)) /\ HonestView(View(r))
         /\ View(r).resolved = r.resolved /\ View(r).status = r.status
BY DEF HonestCheckpoint, HonestView, Checkpoints, Checkpoint, Views, Shown, Honest, View, Kept,
       Follows, Runs

\* A subject grows with what is known.
LEMMA Grows ==
  ASSUME NEW old, NEW new, old \in {"unknown", new}
  PROVE  Watched(old) \subseteq Watched(new)
BY DEF Watched

LEMMA Advances ==
  ASSUME NEW old, NEW new \in Resolutions, NEW status, Honest(old, status), Known(new),
         old \in {"unknown", new}
  PROVE  Honest(new, status)
BY Grows DEF Honest

LEMMA FreshRun ==
  /\ NoRun \in Runs /\ NoRun.outcome = "open" /\ NoRun.phase = "initial"
  /\ NoRun.pc = "none" /\ NoRun.seen = NotShown /\ NoRun.saved = NoCheckpoint
  /\ NoRun.resolved = "unknown" /\ NoRun.status = [c \in Children |-> Nothing]
  /\ NoRun.lineage = [c \in Children |-> NoLineage]
  /\ NoRun.pending = "unknown" /\ NoRun.replays = FALSE /\ NoRun.owed = {}
BY NothingIsHonest DEF NoRun, Runs, Checkpoints, Views, Phases, Resolutions, Codes

-----------------------------------------------------------------------------
(* How a run goes on. *)

\* A run between two events, which may know more than it has told.
Ready(r) ==
  /\ r \in Runs /\ Honest(r.resolved, r.status) /\ Follows(r.resolved, r.lineage)
  /\ Known(r.pending) /\ HonestCheckpoint(r.saved) /\ HonestView(r.seen) /\ r.outcome = "open"
  /\ r.saved = NoCheckpoint => r.seen = NotShown

LEMMA RunIsReady ==
  ASSUME RunOk(run), run.pc \in {"observe", "emit", "sleep"}
  PROVE  Ready(run)
BY DEF RunOk, Ready, Told

\* What is said of statuses and lineages depends on the evidence alone.
LEMMA SameEvidence ==
  ASSUME UNCHANGED <<evidence, resolution>>
  PROVE  /\ \A r : RunOk(r) /\ run' = r => RunOk(run)'
         /\ \A p : HonestCheckpoint(p) /\ token' = p => HonestCheckpoint(token)'
<1>1. ASSUME NEW r, RunOk(r), run' = r PROVE RunOk(run)'
  BY <1>1 DEF RunOk, Honest, Known, HonestCheckpoint, HonestView, Follows, Request, Told,
              Pending, Covers
<1>2. ASSUME NEW p, HonestCheckpoint(p), token' = p PROVE HonestCheckpoint(token)'
  BY <1>2 DEF HonestCheckpoint, Honest, Known, Follows, Request
<1> QED BY <1>1, <1>2

LEMMA RunMoves ==
  ASSUME NEW r, RunOk(r), HonestCheckpoint(token), run' = r, token' = token,
         UNCHANGED <<evidence, resolution>>
  PROVE  RunOk(run)' /\ HonestCheckpoint(token)'
BY SameEvidence

LEMMA QuietReads ==
  ASSUME NoReads
  PROVE  ReadInv'
BY NothingIsHonest DEF NoReads, Idle, ReadInv, Readings, Reading

LEMMA DueReads ==
  ASSUME NEW due \in SUBSET Children, due \subseteq Watched(run'.resolved), reading' = Due(due)
  PROVE  ReadInv'
BY NothingIsHonest DEF Due, Idle, ReadInv, Readings, Reading

\* Reads stay valid while the subject grows.
LEMMA SameReads ==
  ASSUME ReadInv, reading' = reading, run.resolved \in {"unknown", run'.resolved}
  PROVE  ReadInv'
BY Grows DEF ReadInv

\* The terminal event, of whatever code but for the success that covers the subject.
LEMMA TerminalKeeps ==
  ASSUME NEW r, Ready(r), HonestCheckpoint(token), NEW code \in Codes \ {"raised"},
         Terminal(r, code), UNCHANGED <<evidence, resolution>>,
         code = "reached" =>
           \A c \in Watched(r.resolved) \cup Watched(r.pending) : Reached(r.status[c])
  PROVE  RunOk(run)' /\ HonestCheckpoint(token)' /\ ReadInv'
<1>1. PICK stored \in BOOLEAN :
        /\ run' = [NoRun EXCEPT !.pc = "ended", !.seen = View(r), !.pending = r.pending,
                                !.outcome = IF stored THEN code ELSE "unsaved"]
        /\ token' \in {token, IF stored THEN Kept(r) ELSE r.saved}
  BY DEF Terminal
<1> DEFINE n == [NoRun EXCEPT !.pc = "ended", !.seen = View(r), !.pending = r.pending,
                              !.outcome = IF stored THEN code ELSE "unsaved"]
<1>2. /\ HonestCheckpoint(Kept(r)) /\ HonestView(View(r))
      /\ View(r).resolved = r.resolved /\ View(r).status = r.status
  BY ViewIsHonest DEF Ready
<1>3. /\ n \in Runs /\ n.pc = "ended" /\ n.seen = View(r) /\ n.pending = r.pending
      /\ n.outcome \in {code, "unsaved"} /\ n.saved = NoCheckpoint
      /\ n.resolved = "unknown" /\ n.status = [c \in Children |-> Nothing]
  BY <1>2, FreshRun DEF Runs, Ready, HonestView, Codes
<1>4. Honest(n.resolved, n.status) /\ HonestCheckpoint(n.saved)
  BY <1>3, NothingIsHonest, Distinct DEF Honest, Resolutions, Known
<1>5. RunOk(n)
  BY <1>2, <1>3, <1>4 DEF Ready, RunOk, Told, Covers
<1>6. HonestCheckpoint(r.saved)
  BY DEF Ready
<1> HIDE DEF n
<1>7. run' = n
  BY <1>1 DEF n
<1>8. RunOk(run)'
  BY <1>5, <1>7, SameEvidence
<1>9. HonestCheckpoint(token)'
  BY <1>1, <1>2, <1>6, SameEvidence
<1> QED BY <1>8, <1>9, QuietReads DEF Terminal

LEMMA RaiseKeeps ==
  ASSUME NEW r, Ready(r), r.seen = NotShown, HonestCheckpoint(token), Raise(r),
         UNCHANGED <<evidence, resolution>>
  PROVE  RunOk(run)' /\ HonestCheckpoint(token)' /\ ReadInv'
<1> DEFINE n == [NoRun EXCEPT !.pc = "ended", !.outcome = "raised", !.seen = r.seen]
<1>1. /\ n \in Runs /\ n.pc = "ended" /\ n.seen = NotShown /\ n.pending = "unknown"
      /\ n.outcome = "raised" /\ n.saved = NoCheckpoint
      /\ n.resolved = "unknown" /\ n.status = [c \in Children |-> Nothing]
  BY FreshRun DEF Runs, Ready, HonestView, Codes
<1>2. Honest(n.resolved, n.status) /\ HonestCheckpoint(NoCheckpoint) /\ HonestView(NotShown)
  BY <1>1, NothingIsHonest DEF Honest, Resolutions, Known
<1>3. RunOk(n)
  BY <1>1, <1>2 DEF RunOk, Told, Known
<1> HIDE DEF n
<1>4. run' = n /\ token' = token
  BY DEF n, Raise
<1> QED BY <1>3, <1>4, RunMoves, QuietReads DEF Raise

\* A failed observation.
LEMMA AbortKeeps ==
  ASSUME RunOk(run), HonestCheckpoint(token), run.pc = "observe",
         NEW code \in Codes \ {"raised", "reached"}, Abort(run, code),
         UNCHANGED <<evidence, resolution>>
  PROVE  RunOk(run)' /\ HonestCheckpoint(token)' /\ ReadInv'
BY RunIsReady, RaiseKeeps, TerminalKeeps DEF Abort, RunOk, Told

\* The run goes on to emit what it owes, with its subject as it is.
LEMMA ContinueKeeps ==
  ASSUME NEW r, Ready(r), NEW phase \in Phases,
         Pending([r EXCEPT !.phase = phase]),
         NEW owed \in SUBSET (Children \cup {"initial"}),
         owed = {} => r.seen = View(r),
         HonestCheckpoint(token), Continue(r, phase, owed), token' = token,
         UNCHANGED <<evidence, resolution>>
  PROVE  /\ RunOk(run)' /\ HonestCheckpoint(token)'
         /\ run'.resolved = r.resolved
<1> DEFINE n == [r EXCEPT !.pc = "emit", !.phase = phase, !.owed = owed]
<1>1. /\ n \in Runs /\ n.pc = "emit" /\ n.phase = phase /\ n.owed = owed
      /\ n.seen = r.seen /\ n.saved = r.saved /\ n.status = r.status /\ n.resolved = r.resolved
      /\ n.lineage = r.lineage
      /\ n.pending = r.pending /\ n.replays = r.replays /\ n.outcome = r.outcome
  BY DEF Ready, Runs
<1> HIDE DEF n
<1>2. View(n) = View(r)
  BY <1>1 DEF View
<1>3. Pending(n)
  BY <1>1 DEF Ready, Runs, Pending
<1>4. RunOk(n)
  BY <1>1, <1>2, <1>3 DEF Ready, RunOk, Told
<1>5. run' = n
  BY DEF n, Continue
<1> QED BY <1>1, <1>4, <1>5, RunMoves

\* The run reads children it watches.
LEMMA ObserveKeeps ==
  ASSUME NEW r, Ready(r), NEW phase \in Phases,
         Pending([r EXCEPT !.phase = phase]),
         r.seen = IF phase = "initial" THEN NotShown ELSE View(r),
         NEW due \in SUBSET Children, due \subseteq Watched(r.resolved),
         HonestCheckpoint(token), Observe(r, phase, due), token' = token,
         UNCHANGED <<evidence, resolution>>
  PROVE  RunOk(run)' /\ HonestCheckpoint(token)' /\ ReadInv'
<1> DEFINE n == [r EXCEPT !.pc = "observe", !.phase = phase]
<1>1. /\ n \in Runs /\ n.pc = "observe" /\ n.phase = phase
      /\ n.seen = r.seen /\ n.saved = r.saved /\ n.status = r.status /\ n.resolved = r.resolved
      /\ n.lineage = r.lineage
      /\ n.pending = r.pending /\ n.replays = r.replays /\ n.outcome = r.outcome
  BY DEF Ready, Runs
<1> HIDE DEF n
<1>2. View(n) = View(r)
  BY <1>1 DEF View
<1>3. Pending(n)
  BY <1>1 DEF Ready, Runs, Pending
<1>4. RunOk(n)
  BY <1>1, <1>2, <1>3 DEF Ready, RunOk, Told
<1>5. run' = n /\ reading' = Due(due)
  BY DEF n, Observe
<1> QED BY <1>1, <1>4, <1>5, RunMoves, DueReads

-----------------------------------------------------------------------------
(* The steps. *)

LEMMA StartKeeps ==
  ASSUME IInv, Start \/ StartAgain
  PROVE  IInv'
<1>1. /\ UNCHANGED <<provider, evidence, resolution, superseded, token>> /\ late' = FALSE
      /\ RunOk(run) /\ HonestCheckpoint(token) /\ resolution \in Resolutions
      /\ (Unknown = {} => resolution = "unknown") /\ evidence \in [Children -> Found]
  BY DEF IInv, WorldInv, Start, StartAgain, MayStart, world
<1>2. CASE Start
  <2> DEFINE lineage == [c \in Children |-> IF c \in Watched(resolution)
                                             THEN evidence[c].lineage ELSE NoRun.lineage[c]]
             r == [NoRun EXCEPT !.resolved = resolution, !.pending = resolution,
                                !.lineage = lineage]
  <2>0. lineage \in LineageMap /\ \A c \in Watched(resolution) : lineage[c].request = Request(c)
    BY <1>1, FreshRun, NothingIsHonest DEF LineageMap, Found, Request, Watched, Children
  <2>a. Start => Observe(r, "initial", Watched(resolution))
    BY FreshRun DEF Start
  <2> HIDE DEF lineage
  <2>1. /\ r \in Runs /\ r.resolved = resolution /\ r.pending = resolution
        /\ r.status = [c \in Children |-> Nothing] /\ r.seen = NotShown
        /\ r.saved = NoCheckpoint /\ r.outcome = "open" /\ r.phase = "initial"
        /\ r.lineage = lineage
    BY <1>1, <2>0, FreshRun DEF Runs
  <2>2. Honest(r.resolved, r.status)
    BY <1>1, <2>1, NothingIsHonest DEF Honest, Known
  <2>3. Ready(r)
    BY <1>1, <2>0, <2>1, <2>2, NothingIsHonest DEF Ready, Known, Follows
  <2>4. Pending([r EXCEPT !.phase = "initial"])
    BY <2>1 DEF Pending, Runs
  <2>5. Watched(r.resolved) \in SUBSET Children
    BY DEF Watched, Children
  <2>6. Observe(r, "initial", Watched(r.resolved))
    BY <1>2, <2>a, <2>1
  <2> HIDE DEF r
  <2>7. RunOk(run)' /\ HonestCheckpoint(token)' /\ ReadInv'
    BY <1>1, <2>1, <2>3, <2>4, <2>5, <2>6, ObserveKeeps DEF Phases
  <2> QED BY <1>1, <2>7 DEF IInv, WorldInv
<1>3. CASE StartAgain
  <2> DEFINE r == [NoRun EXCEPT !.resolved = token.resolved, !.status = token.status,
                                !.lineage = token.lineage, !.pending = resolution,
                                !.replays = TRUE, !.saved = token]
  <2>0. token # NoCheckpoint /\ token \in Checkpoint
    BY <1>1, <1>3 DEF StartAgain, HonestCheckpoint, Checkpoints
  <2>1. /\ r \in Runs /\ r.resolved = token.resolved /\ r.pending = resolution
        /\ r.status = token.status /\ r.seen = NotShown /\ r.replays = TRUE
        /\ r.saved = token /\ r.outcome = "open" /\ r.phase = "initial"
        /\ r.lineage = token.lineage
    BY <1>1, <2>0, FreshRun DEF Runs, HonestCheckpoint, Honest, Checkpoint
  <2>2. Ready(r)
    BY <1>1, <2>0, <2>1, NothingIsHonest DEF Ready, Known, HonestCheckpoint
  <2>3. Pending([r EXCEPT !.phase = "initial"])
    BY <1>1, <2>1 DEF Pending, Runs, HonestCheckpoint, Honest, Known
  <2>4. Watched(r.resolved) \in SUBSET Children
    BY DEF Watched, Children
  <2>5. Observe(r, "initial", Watched(r.resolved))
    BY <1>3, <2>1 DEF StartAgain
  <2> HIDE DEF r
  <2>6. RunOk(run)' /\ HonestCheckpoint(token)' /\ ReadInv'
    BY <1>1, <2>1, <2>2, <2>3, <2>4, <2>5, ObserveKeeps DEF Phases
  <2> QED BY <1>1, <2>6 DEF IInv, WorldInv
<1> QED BY <1>2, <1>3

\* The parts of the state that the steps of a stream leave alone.
StreamStep ==
  /\ UNCHANGED <<provider, evidence, resolution, superseded, late>>
  /\ RunOk(run)' /\ HonestCheckpoint(token)' /\ ReadInv'

LEMMA StreamStepKeeps ==
  ASSUME IInv, StreamStep
  PROVE  IInv'
BY DEF IInv, StreamStep, WorldInv

LEMMA EmitKeeps ==
  ASSUME IInv, Emit
  PROVE  IInv'
<1>1. /\ UNCHANGED <<provider, evidence, resolution, superseded, late>> /\ run.pc = "emit"
      /\ RunOk(run) /\ HonestCheckpoint(token) /\ ReadInv
  BY DEF IInv, Emit, world, caller
<1>2. PICK e \in run.owed : EmitEvent(e)
  BY DEF Emit
<1>3. Ready(run) /\ Pending(run)
  BY <1>1, RunIsReady DEF RunOk
<1>4. CASE /\ run' = [run EXCEPT !.owed = @ \ {e}, !.saved = Kept(run), !.seen = View(run)]
           /\ token' \in {token, Kept(run)} /\ UNCHANGED reading
  <2> DEFINE n == [run EXCEPT !.owed = @ \ {e}, !.saved = Kept(run), !.seen = View(run)]
  <2>1. HonestCheckpoint(Kept(run)) /\ HonestView(View(run)) /\ Kept(run) # NoCheckpoint
    BY <1>3, ViewIsHonest DEF Ready, Kept, NoCheckpoint
  <2>2. /\ n \in Runs /\ n.pc = "emit" /\ n.phase = run.phase /\ n.seen = View(run)
        /\ n.saved = Kept(run) /\ n.status = run.status /\ n.resolved = run.resolved
        /\ n.pending = run.pending /\ n.replays = run.replays /\ n.outcome = "open"
        /\ n.lineage = run.lineage
    BY <1>1, <1>3, <2>1 DEF Ready, Runs, HonestCheckpoint, HonestView
  <2> HIDE DEF n
  <2>3. View(n) = View(run) /\ Pending(n)
    BY <1>3, <2>2 DEF View, Pending
  <2>4. RunOk(n)
    BY <1>3, <2>1, <2>2, <2>3 DEF Ready, RunOk, Told
  <2>5. run' = n
    BY <1>4 DEF n
  <2>6. RunOk(run)' /\ HonestCheckpoint(token)'
    BY <1>1, <1>4, <2>1, <2>4, <2>5, SameEvidence
  <2>7. ReadInv'
    BY <1>1, <1>4, <2>2, <2>5, SameReads
  <2> QED BY <1>1, <2>6, <2>7, StreamStepKeeps DEF StreamStep
<1>5. CASE run.saved = NoCheckpoint /\ Raise(run)
  BY <1>1, <1>3, <1>5, RaiseKeeps, StreamStepKeeps DEF Ready, StreamStep
<1>6. CASE Terminal(run, "unsaved")
  BY <1>1, <1>3, <1>6, TerminalKeeps, StreamStepKeeps DEF StreamStep, Codes
<1> QED BY <1>2, <1>4, <1>5, <1>6 DEF EmitEvent

LEMMA ReadsKeep ==
  ASSUME IInv, NEW c \in Children, ReadPreference(c) \/ ReadEffective(c) \/ Miss(c)
  PROVE  IInv'
<1>1. UNCHANGED <<provider, evidence, resolution, superseded, late, run, token>> /\ ReadInv /\ WorldInv
  BY DEF IInv, ReadPreference, ReadEffective, Miss, Read, world, caller
<1>2. /\ c \in Watched(run.resolved)
      /\ \E result :
           /\ reading' = [reading EXCEPT ![c] = result]
           /\ result \in Reading
           /\ result.step \in {"half", "done"} =>
                result.got \in Status /\ result.got.request = result.lineage.request
  <2>1. CASE ReadPreference(c)
    <3> DEFINE new == [step |-> "half", target |-> provider[c].target,
                       lineage |-> provider[c].lineage,
                       got |-> [pref |-> provider[c].pref, effective |-> FALSE,
                                request |-> provider[c].lineage.request]]
    <3>1. reading' = [reading EXCEPT ![c] = new] /\ reading[c].step = "due"
      BY <2>1 DEF ReadPreference, Read
    <3>2. provider[c] \in Preference
      BY <1>1 DEF WorldInv, Providers
    <3>3. /\ new.got \in Status /\ new.lineage \in Lineages /\ new.target \in BOOLEAN
          /\ new.got.request = new.lineage.request
      BY <3>2 DEF Preference, Status, Lineages
    <3> QED BY <1>1, <3>1, <3>3 DEF ReadInv, Reading
  <2>2. CASE ReadEffective(c)
    <3> DEFINE new == [reading[c] EXCEPT !.step = "done", !.got.effective = provider[c].effective]
    <3>1. reading' = [reading EXCEPT ![c] = new] /\ reading[c].step = "half"
      BY <2>2 DEF ReadEffective, Read
    <3>2. /\ reading[c] \in Reading /\ provider[c].effective \in BOOLEAN
          /\ reading[c].got \in Status /\ reading[c].got.request = reading[c].lineage.request
      BY <1>1, <3>1 DEF WorldInv, Providers, Preference, ReadInv, Readings
    <3>3. /\ new.got = [reading[c].got EXCEPT !.effective = provider[c].effective]
          /\ new.lineage = reading[c].lineage /\ new.step = "done"
      BY <3>2 DEF Reading
    <3>4. new.got \in Status /\ new.got.request = reading[c].got.request
      BY <3>2, <3>3 DEF Status
    <3>5. new = [reading[c] EXCEPT !.step = "done", !.got = new.got]
      BY <3>2, <3>3 DEF Reading
    <3>6. new \in Reading
      BY <3>2, <3>4, <3>5 DEF Reading
    <3> QED BY <1>1, <3>1, <3>2, <3>3, <3>4, <3>6 DEF ReadInv
  <2>3. CASE Miss(c)
    <3> DEFINE new == [Idle EXCEPT !.step = "miss"]
    <3>1. reading' = [reading EXCEPT ![c] = new] /\ reading[c].step \in {"due", "half"}
      BY <2>3 DEF Miss, Read
    <3>2. new.step = "miss" /\ new \in Reading
      BY NothingIsHonest DEF Idle, Reading
    <3> QED BY <1>1, <3>1, <3>2 DEF ReadInv
  <2> QED BY <2>1, <2>2, <2>3
<1>3. ReadInv'
  BY <1>1, <1>2 DEF ReadInv, Readings
<1> QED BY <1>1, <1>3, SameEvidence DEF IInv, WorldInv

\* An observation that passes the check is of the request of its child.
LEMMA OfItsRequest ==
  ASSUME RunOk(run), run.pc = "observe", ReadInv, NEW c \in Answered, Matches(c)
  PROVE  /\ c \in Children /\ c \in Watched(run.resolved) /\ reading[c].got \in Status
         /\ reading[c].got.request = Request(c)
         /\ reading[c].lineage \in Lineages /\ reading[c].lineage.request = Request(c)
<1>1. /\ c \in Children /\ c \in Watched(run.resolved) /\ reading[c].got \in Status
      /\ reading[c].lineage \in Lineages
      /\ reading[c].got.request = reading[c].lineage.request
  BY DEF Answered, ReadInv, Readings, Reading
<1>2. run.lineage[c].request = Request(c)
  BY <1>1 DEF RunOk, Follows
<1> QED BY <1>1, <1>2 DEF Matches, SameLineage

\* A new observation without a material change tells nothing new.
LEMMA SameView ==
  ASSUME RunOk(run), run.pc = "observe", ReadInv, Changed = {}, \A c \in Answered : Matches(c),
         NEW status \in StatusMap,
         \A c \in Children : status[c] = IF c \in Answered THEN reading[c].got ELSE run.status[c]
  PROVE  status = run.status
<1>1. \A c \in Answered : /\ c \in Children /\ reading[c].got \in Status
                          /\ reading[c].got.request = Request(c)
  BY OfItsRequest
<1>2. run.status \in StatusMap
  BY DEF RunOk, Honest
<1>3. ASSUME NEW c \in Answered PROVE reading[c].got = run.status[c]
  <2>1. /\ reading[c].got.pref = run.status[c].pref
        /\ reading[c].got.effective = run.status[c].effective
    BY <1>3 DEF Changed, Material
  <2>2. run.status[c] # Nothing
    BY <1>1, <1>3, <2>1 DEF Status, Nothing
  <2>3. run.status[c] \in Status /\ run.status[c].request = Request(c)
    BY <1>1, <1>2, <1>3, <2>2 DEF StatusMap, RunOk, Honest
  <2> QED BY <1>1, <1>3, <2>1, <2>3 DEF Status
<1> QED BY <1>2, <1>3 DEF StatusMap

LEMMA IntegrateKeeps ==
  ASSUME IInv, Integrate
  PROVE  IInv'
<1>1. /\ UNCHANGED <<provider, evidence, resolution, superseded, late>> /\ run.pc = "observe"
      /\ RunOk(run) /\ HonestCheckpoint(token) /\ ReadInv
  BY DEF IInv, Integrate, world, caller
<1>2. Ready(run) /\ Pending(run)
  BY <1>1, RunIsReady DEF RunOk
<1>3. CASE \E code \in {"unavailable", "superseded", "mismatch"} : Abort(run, code)
  BY <1>1, <1>3, AbortKeeps, StreamStepKeeps DEF StreamStep, Codes
<1> DEFINE status == [c \in Children |-> IF c \in Answered THEN reading[c].got ELSE run.status[c]]
           lineage == [c \in Children |->
                         IF c \in Answered THEN reading[c].lineage ELSE run.lineage[c]]
           r == [run EXCEPT !.status = status, !.lineage = lineage]
           owed == IF run.phase = "initial" THEN {"initial"} ELSE Changed
<1>4. CASE /\ \A c \in Answered : Matches(c)
           /\ Continue(r, run.phase, owed)
           /\ NoReads /\ UNCHANGED token
  <2>1. \A c \in Answered :
          /\ c \in Children /\ c \in Watched(run.resolved) /\ reading[c].got \in Status
          /\ reading[c].got.request = Request(c)
          /\ reading[c].lineage \in Lineages /\ reading[c].lineage.request = Request(c)
    BY <1>1, <1>4, OfItsRequest
  <2>2. status \in StatusMap /\ Honest(run.resolved, status)
    BY <1>2, <2>1 DEF Ready, Honest, StatusMap
  <2>a. run.lineage \in LineageMap
    BY <1>2 DEF Ready, Runs
  <2>b. lineage \in LineageMap /\ Follows(run.resolved, lineage)
    BY <1>2, <2>1, <2>a DEF Ready, Follows, LineageMap, Watched, Children
  <2>3. /\ r \in Runs /\ r.pc = run.pc /\ r.phase = run.phase /\ r.seen = run.seen
        /\ r.saved = run.saved /\ r.status = status /\ r.resolved = run.resolved
        /\ r.pending = run.pending /\ r.replays = run.replays /\ r.outcome = run.outcome
        /\ r.lineage = lineage
    BY <1>2, <2>2, <2>b DEF Ready, Runs
  <2>4. Ready(r)
    BY <1>2, <2>2, <2>b, <2>3 DEF Ready
  <2>5. Pending([r EXCEPT !.phase = run.phase])
    BY <1>2, <2>3 DEF Ready, Runs, Pending
  <2>6. owed = {} => r.seen = View(r)
    <3> SUFFICES ASSUME owed = {} PROVE r.seen = View(r)
      OBVIOUS
    <3>1. run.phase # "initial" /\ Changed = {}
      OBVIOUS
    <3>2. run.seen = View(run)
      BY <1>1, <3>1 DEF RunOk, Told
    <3>3. status = run.status
      BY <1>1, <1>4, <2>2, <3>1, SameView
    <3> QED BY <2>3, <3>2, <3>3 DEF View
  <2>7. owed \in SUBSET (Children \cup {"initial"}) /\ run.phase \in Phases
    BY <1>2 DEF Changed, Answered, Ready, Runs
  <2> HIDE DEF r, owed, status, lineage
  <2>8. RunOk(run)' /\ HonestCheckpoint(token)'
    BY <1>1, <1>4, <2>4, <2>5, <2>6, <2>7, ContinueKeeps
  <2> QED BY <1>1, <1>4, <2>8, QuietReads, StreamStepKeeps DEF StreamStep
<1> QED BY <1>3, <1>4 DEF Integrate

\* What the steps between two events start from.
Between ==
  /\ UNCHANGED <<provider, evidence, resolution, superseded, late>> /\ Ready(run) /\ Pending(run)
  /\ HonestCheckpoint(token) /\ ReadInv /\ WorldInv /\ run.seen = View(run)

LEMMA GoesOn ==
  ASSUME Between, NEW phase \in Phases \ {"initial"}, run.phase # "initial" \/ ~run.replays,
         Continue(run, phase, {}), UNCHANGED <<reading, token>>
  PROVE  StreamStep
<1>1. Pending([run EXCEPT !.phase = phase])
  BY DEF Between, Ready, Runs, Pending
<1>2. RunOk(run)' /\ HonestCheckpoint(token)' /\ run'.resolved = run.resolved
  BY <1>1, ContinueKeeps DEF Between
<1>3. ReadInv'
  BY <1>2, SameReads DEF Between
<1> QED BY <1>2, <1>3 DEF Between, StreamStep

LEMMA Ending ==
  ASSUME Between, NEW code \in Codes \ {"raised", "reached"}, Terminal(run, code)
  PROVE  StreamStep
BY TerminalKeeps DEF Between, StreamStep

\* A subject that has advanced, of the record that was loaded or of the pending one.
Advanced(resolved, replays) == [Advance(run, resolved) EXCEPT !.replays = replays]

LEMMA AdvancedIsReady ==
  ASSUME Between, NEW resolved, Known(resolved), run.resolved \in {"unknown", resolved},
         NEW replays \in BOOLEAN
  PROVE  LET r == Advanced(resolved, replays) IN
         /\ Ready(r) /\ r.resolved = resolved /\ r.phase = run.phase /\ r.pending = run.pending
         /\ r.replays = replays
         /\ News(resolved) = {} => r.seen = View(r)
<1> DEFINE r == Advanced(resolved, replays)
           lineage == [c \in Children |-> IF c \in Watched(resolved) \ Watched(run.resolved)
                                          THEN evidence[c].lineage ELSE run.lineage[c]]
<1>1. resolved \in Resolutions
  BY DEF Between, WorldInv, Known, Resolutions
<1>a. r = [run EXCEPT !.resolved = resolved, !.lineage = lineage, !.replays = replays]
  BY DEF Between, Ready, Runs, Advanced, Advance
<1>b. lineage \in LineageMap
  BY DEF Between, Ready, Runs, WorldInv, Found, LineageMap
<1>c. Follows(resolved, lineage)
  BY DEF Between, Ready, Follows, Request, Watched, Children
<1> HIDE DEF lineage
<1>2. /\ r \in Runs /\ r.pc = run.pc /\ r.phase = run.phase /\ r.seen = run.seen
      /\ r.saved = run.saved /\ r.status = run.status /\ r.resolved = resolved
      /\ r.pending = run.pending /\ r.replays = replays /\ r.outcome = run.outcome
      /\ r.lineage = lineage
  BY <1>1, <1>a, <1>b DEF Between, Ready, Runs
<1>3. Honest(resolved, run.status)
  BY <1>1, Advances DEF Between, Ready
<1> HIDE DEF r
<1>4. Ready(r)
  BY <1>2, <1>3, <1>c DEF Between, Ready
<1>5. ASSUME News(resolved) = {} PROVE r.seen = View(r)
  <2>1. resolved = run.resolved
    BY <1>5 DEF News, Between, WorldInv, Known
  <2> QED BY <1>2, <2>1 DEF Between, View
<1> QED BY <1>2, <1>4, <1>5 DEF r

LEMMA AdvanceKeeps ==
  ASSUME Between, NEW resolved, Known(resolved), run.resolved \in {"unknown", resolved},
         NEW replays \in BOOLEAN, NEW phase \in Phases \ {"initial"},
         run.pending = "accepted" => resolved = "accepted",
         Continue(Advanced(resolved, replays), phase, News(resolved)), UNCHANGED <<reading, token>>
  PROVE  StreamStep
<1> DEFINE r == Advanced(resolved, replays)
<1>1. /\ Ready(r) /\ r.resolved = resolved /\ r.phase = run.phase /\ r.pending = run.pending
      /\ News(resolved) = {} => r.seen = View(r)
  BY AdvancedIsReady
<1>2. News(resolved) \in SUBSET (Children \cup {"initial"})
  BY DEF News, Children
<1> HIDE DEF r
<1>3. Pending([r EXCEPT !.phase = phase])
  BY <1>1 DEF Ready, Runs, Pending
<1>4. Continue(r, phase, News(resolved))
  BY DEF r
<1>5. RunOk(run)' /\ HonestCheckpoint(token)' /\ run'.resolved = resolved
  BY <1>1, <1>2, <1>3, <1>4, ContinueKeeps DEF Between
<1>6. ReadInv'
  BY <1>5, SameReads DEF Between
<1> QED BY <1>5, <1>6 DEF Between, StreamStep

LEMMA ReplayKeeps ==
  ASSUME Between, run.phase = "initial", Replay
  PROVE  StreamStep
<1>1. CASE ~run.replays
  BY <1>1, GoesOn DEF Replay, Phases
<1>2. CASE run.replays
  <2> DEFINE r == Advance(run, run.pending)
  <2>1. /\ Known(run.pending) /\ run.resolved \in {"unknown", run.pending}
        /\ run.replays \in BOOLEAN /\ run \in Runs
    BY <1>2 DEF Between, Ready, Pending, Runs
  <2>2. r = Advanced(run.pending, run.replays)
    BY <2>1 DEF Advanced, Advance, Runs
  <2>3. Ready(r)
    BY <2>1, <2>2, AdvancedIsReady
  <2>4. CASE Terminal(r, "superseded") \/ Terminal(r, "unavailable")
    BY <2>3, <2>4, TerminalKeeps DEF Between, StreamStep, Codes
  <2>5. CASE /\ Continue([r EXCEPT !.replays = News(run.pending) # {}], "replay", News(run.pending))
             /\ UNCHANGED <<reading, token>>
    <3>1. [r EXCEPT !.replays = News(run.pending) # {}]
            = Advanced(run.pending, News(run.pending) # {})
      BY DEF Advanced
    <3> DEFINE some == News(run.pending) # {}
    <3>2. some \in BOOLEAN
      OBVIOUS
    <3> HIDE DEF r, some
    <3>3. Continue(Advanced(run.pending, some), "replay", News(run.pending))
      BY <2>5, <3>1 DEF r, some
    <3>4. "replay" \in Phases \ {"initial"}
      BY DEF Phases
    <3> QED BY <2>1, <2>5, <3>2, <3>3, <3>4, AdvanceKeeps
  <2> QED BY <1>2, <2>4, <2>5 DEF Replay
<1> QED BY <1>1, <1>2

LEMMA ReplayedKeeps ==
  ASSUME Between, run.phase = "replay", Replayed
  PROVE  StreamStep
<1>1. CASE run.replays /\ run.pending = "accepted"
  <2>1. Unknown \in SUBSET Children /\ Unknown \subseteq Watched(run.resolved)
    BY <1>1 DEF Between, Pending, Watched, Children
  <2>2. Pending([run EXCEPT !.phase = "replayed"])
    BY DEF Between, Ready, Runs, Pending
  <2>3. Observe(run, "replayed", Unknown) /\ UNCHANGED token
    BY <1>1 DEF Replayed
  <2> QED BY <2>1, <2>2, <2>3, ObserveKeeps DEF Between, StreamStep, Phases
<1>2. CASE ~(run.replays /\ run.pending = "accepted")
  BY <1>2, GoesOn DEF Replayed, Phases
<1> QED BY <1>1, <1>2

LEMMA SettleKeeps ==
  ASSUME Between, run.phase \in {"replayed", "polled"}, Settle
  PROVE  StreamStep
<1>1. CASE Disposition(run) = "unmet"
  BY <1>1, Ending DEF Settle, Codes
<1>2. CASE Disposition(run) = "reached"
  <2>1. \A c \in Watched(run.resolved) : Reached(run.status[c])
    BY <1>2 DEF Disposition
  <2>2. Watched(run.pending) \subseteq Watched(run.resolved)
    BY DEF Between, Pending, Watched
  <2>3. Terminal(run, "reached")
    BY <1>2 DEF Settle
  <2> QED BY <2>1, <2>2, <2>3, TerminalKeeps DEF Between, StreamStep, Codes
<1>3. CASE Disposition(run) = "pending"
  BY <1>3, GoesOn DEF Settle, Phases
<1> QED BY <1>1, <1>2, <1>3 DEF Disposition

LEMMA RefreshKeeps ==
  ASSUME Between, run.phase # "initial", NEW phase \in Phases \ {"initial"}, Refresh(phase)
  PROVE  StreamStep
<1>1. CASE Terminal(run, "superseded") \/ Terminal(run, "unavailable")
  BY <1>1, Ending DEF Codes
<1>2. CASE /\ Continue(Advance(run, resolution), phase, News(resolution))
           /\ UNCHANGED <<reading, token>>
  <2>1. /\ Advance(run, resolution) = Advanced(resolution, run.replays)
        /\ run.replays \in BOOLEAN
    BY DEF Between, Ready, Runs, Advanced, Advance
  <2>2. Known(resolution) /\ run.resolved \in {"unknown", resolution}
    BY DEF Between, Ready, Honest, Known
  <2>3. run.pending = "accepted" => resolution = "accepted"
    BY DEF Between, Ready, Known
  <2> QED BY <1>2, <2>1, <2>2, <2>3, AdvanceKeeps
<1> QED BY <1>1, <1>2 DEF Refresh

LEMMA DecideKeeps ==
  ASSUME Between, run.phase # "initial", Decide
  PROVE  StreamStep
<1>1. CASE Terminal(run, "interrupted") \/ Terminal(run, "timeout")
  BY <1>1, Ending DEF Codes
<1>2. CASE run' = [run EXCEPT !.pc = "sleep"] /\ UNCHANGED <<reading, token>>
  <2> DEFINE n == [run EXCEPT !.pc = "sleep"]
  <2>1. /\ n \in Runs /\ n.pc = "sleep" /\ n.phase = run.phase /\ n.seen = run.seen
        /\ n.saved = run.saved /\ n.status = run.status /\ n.resolved = run.resolved
        /\ n.pending = run.pending /\ n.replays = run.replays /\ n.outcome = run.outcome
        /\ n.lineage = run.lineage
    BY DEF Between, Ready, Runs
  <2> HIDE DEF n
  <2>2. View(n) = View(run) /\ Pending(n)
    BY <2>1 DEF Between, Pending, View
  <2>3. RunOk(n)
    BY <2>1, <2>2 DEF Between, Ready, RunOk, Told
  <2>4. run' = n
    BY <1>2 DEF n
  <2>5. RunOk(run)' /\ HonestCheckpoint(token)'
    BY <1>2, <2>3, <2>4, RunMoves DEF Between
  <2>6. ReadInv'
    BY <1>2, <2>1, <2>4, SameReads DEF Between
  <2> QED BY <2>5, <2>6 DEF Between, StreamStep
<1> QED BY <1>1, <1>2 DEF Decide

LEMMA PollKeeps ==
  ASSUME Between, run.phase # "initial", PollDue
  PROVE  StreamStep
<1>1. PICK due \in SUBSET Watched(run.resolved) : Observe(run, "polled", due) /\ UNCHANGED token
  BY DEF PollDue
<1>2. due \in SUBSET Children /\ due \subseteq Watched(run.resolved)
  BY DEF Watched, Children
<1>3. Pending([run EXCEPT !.phase = "polled"])
  BY DEF Between, Ready, Runs, Pending
<1> QED BY <1>1, <1>2, <1>3, ObserveKeeps DEF Between, StreamStep, Phases

LEMMA ResumeKeeps ==
  ASSUME IInv, Resume \/ Wake \/ Interrupt
  PROVE  IInv'
<1>1. /\ UNCHANGED <<provider, evidence, resolution, superseded, late>>
      /\ RunOk(run) /\ HonestCheckpoint(token) /\ ReadInv /\ WorldInv
  BY DEF IInv, Resume, Wake, Interrupt, world, caller
<1>2. CASE Resume
  <2>1. Between
    BY <1>1, <1>2, RunIsReady DEF Between, Resume, RunOk, Told
  <2>2. StreamStep
    BY <1>2, <2>1, ReplayKeeps, ReplayedKeeps, SettleKeeps, RefreshKeeps, DecideKeeps, PollKeeps
       DEF Resume, Between, Ready, Runs, Phases
  <2> QED BY <2>2, StreamStepKeeps
<1>3. CASE (Wake \/ Interrupt) /\ run.phase # "initial"
  <2>1. Between
    BY <1>1, <1>3, RunIsReady DEF Between, Wake, Interrupt, RunOk, Told
  <2>2. CASE Wake
    BY <1>3, <2>1, <2>2, GoesOn, RefreshKeeps, StreamStepKeeps DEF Wake, Phases
  <2>3. CASE Interrupt
    BY <2>1, <2>3, Ending, StreamStepKeeps DEF Interrupt, Codes
  <2> QED BY <1>3, <2>2, <2>3
<1>4. run.pc = "sleep" => run.phase # "initial"
  BY <1>1 DEF RunOk, Told
<1> QED BY <1>2, <1>3, <1>4 DEF Wake, Interrupt

LEMMA ReadsFailKeep ==
  ASSUME IInv, ReadsFail
  PROVE  IInv'
<1>1. PICK code \in {"incomplete", "timeout", "interrupted"} : Abort(run, code)
  BY DEF ReadsFail
<1>2. code \in Codes \ {"raised", "reached"}
  BY DEF Codes
<1>3. /\ UNCHANGED <<provider, evidence, resolution, superseded, late>> /\ run.pc = "observe"
      /\ RunOk(run) /\ HonestCheckpoint(token)
  BY DEF IInv, ReadsFail, world, caller
<1> QED BY <1>1, <1>2, <1>3, AbortKeeps, StreamStepKeeps DEF StreamStep

\* The world leaves the stream alone.  What was known stays known, and the evidence of a
\* child may change only as long as the child is not accepted.
LEMMA WorldKeeps ==
  ASSUME IInv, UNCHANGED <<run, reading, token>>, late' \in BOOLEAN, WorldInv',
         resolution = "unknown" \/ resolution' = resolution,
         \A c \in Watched(resolution) : evidence'[c] = evidence[c]
  PROVE  IInv'
<1>1. ASSUME NEW resolved, Known(resolved)
      PROVE  /\ Known(resolved)'
             /\ \A c \in Watched(resolved) : Request(c)' = Request(c)
  BY <1>1 DEF Known, Watched, Request
<1>2. ASSUME NEW resolved, NEW status, Honest(resolved, status)
      PROVE  Honest(resolved, status)'
  BY <1>1, <1>2 DEF Honest
<1>3. ASSUME NEW resolved, Known(resolved), NEW lineage, Follows(resolved, lineage)
      PROVE  Follows(resolved, lineage)'
  BY <1>1, <1>3 DEF Follows
<1>4. ASSUME NEW p, HonestCheckpoint(p)
      PROVE  HonestCheckpoint(p)'
  BY <1>2, <1>3, <1>4 DEF HonestCheckpoint, Honest
<1>5. ASSUME NEW p, HonestView(p)
      PROVE  HonestView(p)'
  BY <1>2, <1>5 DEF HonestView
<1>6. Honest(run.resolved, run.status)' /\ Known(run.pending)'
  BY <1>1, <1>2 DEF IInv, RunOk
<1>7. HonestCheckpoint(run.saved)' /\ HonestView(run.seen)' /\ HonestCheckpoint(token)'
  BY <1>4, <1>5 DEF IInv, RunOk
<1>8. Follows(run.resolved, run.lineage) => Follows(run.resolved, run.lineage)'
  BY <1>3 DEF IInv, RunOk, Honest
<1>9. RunOk(run)'
  BY <1>6, <1>7, <1>8 DEF IInv, RunOk, Told, Pending, Covers
<1>10. ReadInv'
  BY DEF IInv, ReadInv
<1> QED BY <1>7, <1>9, <1>10 DEF IInv

LEMMA OutsideKeeps ==
  ASSUME IInv,
         Expire \/ Resolve
         \/ \E c \in Children : Progress(c) \/ Amend(c) \/ Consult(c) \/ Supersede(c)
  PROVE  IInv'
<1>1. WorldInv /\ late \in BOOLEAN
  BY DEF IInv
<1>2. CASE Expire
  BY <1>1, <1>2, WorldKeeps DEF Expire, world, WorldInv
<1>3. CASE Resolve
  <2>1. PICK c \in Unknown : evidence[c].verdict # "none" /\ resolution' = evidence[c].verdict
    BY <1>3 DEF Resolve
  <2>2. evidence[c] \in Found
    BY <1>1 DEF WorldInv, Children
  <2>3. resolution' \in Resolutions
    BY <2>1, <2>2 DEF Found, Resolutions
  <2>4. UNCHANGED <<provider, evidence, superseded, late, run, reading, token>>
    BY <1>3 DEF Resolve, Outside, caller
  <2>5. WorldInv'
    BY <1>1, <2>1, <2>3, <2>4 DEF WorldInv
  <2> QED BY <1>1, <1>3, <2>4, <2>5, WorldKeeps DEF Resolve
<1>4. ASSUME NEW c \in Children, Progress(c) \/ Amend(c)
      PROVE  IInv'
  <2>1. /\ UNCHANGED <<evidence, resolution, superseded, late, run, reading, token>>
        /\ provider \in Providers /\ provider[c] \in Preference
        /\ provider[c].lineage \in Lineages
    BY <1>1, <1>4 DEF Progress, Amend, Outside, caller, WorldInv, Providers, Preference
  <2>2. ASSUME NEW new \in Preference, provider' = [provider EXCEPT ![c] = new]
        PROVE  IInv'
    <3>1. WorldInv'
      BY <1>1, <2>1, <2>2 DEF WorldInv, Providers
    <3> QED BY <1>1, <2>1, <3>1, WorldKeeps
  <2>3. CASE Amend(c)
    <3>1. PICK target \in BOOLEAN, traced \in BOOLEAN :
            provider' = [provider EXCEPT ![c].pref = "reconciling", ![c].target = target,
                                         ![c].lineage = [request |-> @.request + 1, version |-> 0,
                                                         traced |-> traced]]
      BY <2>3 DEF Amend
    <3> DEFINE next == [request |-> provider[c].lineage.request + 1, version |-> 0,
                        traced |-> traced]
               new == [provider[c] EXCEPT !.pref = "reconciling", !.target = target,
                                          !.lineage = next]
    <3>2. next \in Lineages
      BY <2>1 DEF Lineages
    <3>3. provider' = [provider EXCEPT ![c] = new]
      BY <2>1, <3>1 DEF Providers, Preference
    <3> HIDE DEF next
    <3>4. new \in Preference
      BY <2>1, <3>2 DEF Preference
    <3> HIDE DEF new
    <3> QED BY <2>2, <3>3, <3>4
  <2>4. CASE \E pref \in {"reconciling", "full", "short"} \ {provider[c].pref},
                version \in {0, 1}, traced \in {provider[c].lineage.traced, TRUE} :
               provider' = [provider EXCEPT ![c].pref = pref, ![c].lineage.version = @ + version,
                                            ![c].lineage.traced = traced]
    <3>1. PICK pref \in {"reconciling", "full", "short"}, version \in {0, 1},
               traced \in {provider[c].lineage.traced, TRUE} :
            provider' = [provider EXCEPT ![c].pref = pref, ![c].lineage.version = @ + version,
                                         ![c].lineage.traced = traced]
      BY <2>4
    <3> DEFINE bumped == provider[c].lineage.version + version
               next == [provider[c].lineage EXCEPT !.version = bumped, !.traced = traced]
               new == [provider[c] EXCEPT !.pref = pref, !.lineage = next]
    <3>a. provider[c].lineage.version \in Nat /\ provider[c].lineage.traced \in BOOLEAN
      BY <2>1 DEF Lineages
    <3>b. bumped \in Nat
      BY <3>1, <3>a
    <3>3. provider' = [provider EXCEPT ![c] = new]
      BY <2>1, <3>1 DEF Providers, Preference, Lineages
    <3> HIDE DEF bumped
    <3>c. traced \in BOOLEAN
      BY <3>1, <3>a
    <3>2. next \in Lineages
      BY <2>1, <3>b, <3>c DEF Lineages
    <3> HIDE DEF next
    <3>4. new \in Preference
      BY <2>1, <3>2 DEF Preference
    <3> HIDE DEF new
    <3> QED BY <2>2, <3>3, <3>4
  <2>5. CASE provider' = [provider EXCEPT ![c].effective = ~@]
    <3> DEFINE turned == ~provider[c].effective
               new == [provider[c] EXCEPT !.effective = turned]
    <3>1. turned \in BOOLEAN
      OBVIOUS
    <3>2. provider' = [provider EXCEPT ![c] = new]
      BY <2>1, <2>5 DEF Providers
    <3> HIDE DEF turned
    <3>3. new \in Preference
      BY <2>1, <3>1 DEF Preference
    <3> HIDE DEF new
    <3> QED BY <2>2, <3>2, <3>3
  <2> QED BY <1>4, <2>3, <2>4, <2>5 DEF Progress
<1>5. ASSUME NEW c \in Children, Consult(c)
      PROVE  IInv'
  <2> DEFINE found == IF provider[c].target
                        THEN [verdict |-> "accepted", lineage |-> provider[c].lineage]
                        ELSE [verdict |-> "failed", lineage |-> NoLineage]
  <2>1. /\ UNCHANGED <<provider, resolution, superseded, late, run, reading, token>>
        /\ c \in Unknown /\ resolution = "unknown" /\ evidence' = [evidence EXCEPT ![c] = found]
    BY <1>5 DEF Consult, caller
  <2>2. found \in Found
    BY <1>1, NothingIsHonest DEF WorldInv, Providers, Preference, Found
  <2> HIDE DEF found
  <2>3. WorldInv'
    BY <1>1, <2>1, <2>2 DEF WorldInv
  <2>4. \A a \in Watched(resolution) : evidence'[a] = evidence[a]
    BY <1>1, <2>1, WatchAssumption DEF WorldInv, Watched, Children
  <2> QED BY <1>1, <2>1, <2>3, <2>4, WorldKeeps
<1>6. ASSUME NEW c \in Children, Supersede(c)
      PROVE  IInv'
  <2>1. WorldInv' /\ UNCHANGED <<evidence, resolution, late, run, reading, token>>
    BY <1>1, <1>6 DEF Supersede, WorldInv, Outside, caller
  <2> QED BY <1>1, <2>1, WorldKeeps
<1> QED BY <1>2, <1>3, <1>4, <1>5, <1>6

-----------------------------------------------------------------------------
(* The theorems. *)

LEMMA InitInv == Init => IInv
<1> SUFFICES ASSUME Init PROVE IInv
  OBVIOUS
<1>1. WorldInv
  <2>1. PICK begin \in Beginnings :
          provider = [c \in Children |->
                        [pref |-> begin[c].pref, effective |-> begin[c].effective,
                         target |-> begin[c].target \/ c \in Accepted,
                         lineage |-> [NoLineage EXCEPT !.traced = begin[c].traced]]]
    BY DEF Init
  <2>2. begin \in [Children -> [pref: {"reconciling", "full", "short"}, effective: BOOLEAN,
                               target: BOOLEAN, traced: BOOLEAN]]
    BY WatchAssumption
  <2>3. ASSUME NEW c \in Children PROVE provider[c] \in Preference
    <3>1. begin[c].traced \in BOOLEAN /\ begin[c].target \in BOOLEAN
      BY <2>2
    <3>2. [NoLineage EXCEPT !.traced = begin[c].traced] \in Lineages
      BY <3>1 DEF NoLineage, Lineages
    <3>3. (begin[c].target \/ c \in Accepted) \in BOOLEAN
      BY <3>1
    <3>4. begin[c].pref \in {"reconciling", "full", "short"} /\ begin[c].effective \in BOOLEAN
      BY <2>2
    <3> QED BY <2>1, <3>2, <3>3, <3>4 DEF Preference
  <2>4. provider \in Providers
    BY <2>1, <2>3 DEF Providers
  <2>5. \A c \in Children : provider[c].lineage \in Lineages
    BY <2>3 DEF Preference
  <2>6. evidence \in [Children -> Found]
    BY <2>5, NothingIsHonest DEF Init, Found
  <2> QED BY <2>4, <2>6 DEF Init, WorldInv, Resolutions
<1>2. RunOk(run)
  BY FreshRun, NothingIsHonest, Distinct DEF Init, RunOk, Honest, Known, Told, Resolutions
<1>3. ReadInv
  BY NothingIsHonest DEF Init, ReadInv, Readings, Reading, Idle
<1> QED BY <1>1, <1>2, <1>3, NothingIsHonest DEF Init, IInv

LEMMA InvSteps == IInv /\ [Next]_allVars => IInv'
<1> SUFFICES ASSUME IInv, [Next]_allVars PROVE IInv'
  OBVIOUS
<1>1. CASE Start \/ StartAgain
  BY <1>1, StartKeeps
<1>2. CASE Step
  BY <1>2, EmitKeeps, IntegrateKeeps, ReadsFailKeep, ResumeKeeps DEF Step
<1>3. CASE Interrupt
  BY <1>3, ResumeKeeps
<1>4. CASE Expire \/ Resolve
           \/ \E c \in Children : Progress(c) \/ Amend(c) \/ Consult(c) \/ Supersede(c)
  BY <1>4, OutsideKeeps
<1>5. CASE \E c \in Children : ReadPreference(c) \/ ReadEffective(c) \/ Miss(c)
  BY <1>5, ReadsKeep
<1>6. CASE UNCHANGED allVars
  BY <1>6, WorldKeeps DEF allVars, world, caller, IInv, WorldInv
<1> QED BY <1>1, <1>2, <1>3, <1>4, <1>5, <1>6 DEF Next

\* The subjects and statuses that streams and tokens hold are of the request, never ahead
\* of what is so, and a stream's consumer has been told whatever it knows between events.
THEOREM WatchInvariant == Spec => []IInv
BY InitInv, InvSteps, PTL DEF Spec

\* Children a subject does not admit have no status: the code could not build the event.
THEOREM WatchTypes == Spec => []TypeOK
<1>1. IInv => TypeOK
  BY DEF IInv, WorldInv, Providers, Preference, ReadInv, Readings, Reading, RunOk, Runs, Honest,
         HonestCheckpoint, HonestView, Checkpoints, Views, TypeOK
<1> QED BY <1>1, WatchInvariant, PTL

\* A consumer that has been told anything never gets an error in place of a terminal event.
THEOREM TerminalInBand == Spec => []ToldStreamsEndInBand
<1>1. IInv => ToldStreamsEndInBand
  BY DEF IInv, RunOk, Told, ToldStreamsEndInBand
<1> QED BY <1>1, WatchInvariant, PTL

\* A stream that sleeps has told all it knows, whether it was resumed or not: the events
\* left out are those that change nothing material.
THEOREM NothingSwallowed == Spec => []NothingMaterialIsSwallowed
<1>1. IInv => NothingMaterialIsSwallowed
  BY DEF IInv, RunOk, Told, NothingMaterialIsSwallowed
<1> QED BY <1>1, WatchInvariant, PTL

\* A status is of the request its child was accepted with, by the trace id or, without
\* one, by the etag, over any number of resumed streams, and whatever was asked for between
\* the reading that resolved the unknown child, its publication and the next observation.
THEOREM OfTheRequest == Spec => []StatusIsOfTheRequest
<1>1. IInv => StatusIsOfTheRequest
  BY DEF IInv, RunOk, Honest, Request, StatusIsOfTheRequest
<1> QED BY <1>1, WatchInvariant, PTL

\* A watch that ends with success has every accepted child, the one that was resolved
\* before the stream started included, at the condition.
THEOREM SuccessIsComplete == Spec => []SuccessCoversTheSubject
<1>1. IInv => SuccessCoversTheSubject
  BY DEF IInv, RunOk, Covers, SuccessCoversTheSubject
<1> QED BY <1>1, WatchInvariant, PTL
=============================================================================
