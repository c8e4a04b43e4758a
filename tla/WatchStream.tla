---------------------------- MODULE WatchStream ----------------------------
(***************************************************************************)
(* WatchOperations.watch: one consumer follows the children of an applied  *)
(* plan through successive event streams, each resumed, if the consumer    *)
(* likes, from the token of an earlier event.                              *)
(*                                                                         *)
(* A child's status comes from two provider reads, and the children are    *)
(* read concurrently.  Between the two reads, between the children and     *)
(* while the generator is suspended at an event, the provider moves on,    *)
(* other processes resolve the unknown child or apply later plans, and the *)
(* deadline passes.                                                        *)
(*                                                                         *)
(* Every event is preceded by an immutable checkpoint, which its token     *)
(* names, so a token is modelled as the checkpoint's content.  The polling *)
(* schedule is left open: any accepted children may be due at a wake-up.   *)
(* A cancellation is one step, its notice: a stream that is cancelled and  *)
(* has not noticed does nothing another stream could not do.               *)
(***************************************************************************)
EXTENDS FiniteSets, Naturals

CONSTANTS
  Accepted,    \* the children the Apply record says were accepted
  Unknown,     \* the child it stopped at, if any
  Condition,   \* "granted" or "fulfilled"
  Beginnings,  \* what the provider may hold when the first watch starts
  MaxChanges,  \* bound of the model: steps of the world outside
  MaxStreams   \* bound of the model: streams started

Children == Accepted \cup Unknown

ASSUME WatchAssumption ==
  /\ Cardinality(Unknown) <= 1 /\ Accepted \cap Unknown = {}
  /\ Condition \in {"granted", "fulfilled"} /\ MaxChanges \in Nat /\ MaxStreams \in Nat
  /\ Beginnings \subseteq [Children -> [pref: {"reconciling", "full", "short"},
                                        effective: BOOLEAN, target: BOOLEAN, traced: BOOLEAN]]

VARIABLES
  provider,    \* the preference of each child and whether its target is effective
  evidence,    \* what was found of each write, and the preference it was found in
  resolution,  \* what the resolution journal says of the unknown child
  superseded,  \* children that a later Apply may have written
  late,        \* has the caller's deadline passed?
  run,         \* _Run: the stream and what its last event told
  reading,     \* the reads of the children
  token,       \* a token the consumer has kept
  changes,     \* bound: steps of the world so far
  streams      \* bound: streams started so far

world == <<provider, evidence, resolution, superseded, changes>>
caller == <<late, streams>>
allVars == <<world, caller, run, reading, token>>

Resolutions == {"unknown", "accepted", "failed"}

\* WatchChildLineage: the etag is the request in force and its version, the trace id, if
\* there is one, is the request.  The code compares both for equality only.
Lineages == [request: Nat, version: Nat, traced: BOOLEAN]
NoLineage == [request |-> 0, version |-> 0, traced |-> FALSE]
LineageMap == [Children -> Lineages]
Found == [verdict: {"none", "accepted", "failed"}, lineage: Lineages]

\* A status remembers the request it was read of, which the code does not.
Nothing == [pref |-> "nothing", effective |-> FALSE, request |-> 0]
Status == [pref: {"reconciling", "full", "short"}, effective: BOOLEAN, request: Nat]
StatusMap == [Children -> Status \cup {Nothing}]

\* What an event shows, and the checkpoint behind it.
Shown == [resolved: Resolutions, status: StatusMap]
NotShown == [resolved |-> "unknown", status |-> [c \in Children |-> Nothing], none |-> TRUE]
Checkpoint == [resolved: Resolutions, status: StatusMap, lineage: LineageMap]
NoCheckpoint == [resolved |-> "unknown", status |-> [c \in Children |-> Nothing],
                 lineage |-> [c \in Children |-> NoLineage], none |-> TRUE]

Codes == {"open", "raised", "reached", "unmet", "superseded", "mismatch", "incomplete",
          "interrupted", "timeout", "unavailable", "unsaved"}
Phases == {"initial", "replay", "replayed", "top", "decide", "awake", "polled"}
NoRun == [pc |-> "none", phase |-> "initial", resolved |-> "unknown",
          status |-> [c \in Children |-> Nothing],
          lineage |-> [c \in Children |-> NoLineage], pending |-> "unknown",
          replays |-> FALSE, owed |-> {}, saved |-> NoCheckpoint, seen |-> NotShown,
          outcome |-> "open"]
Idle == [step |-> "idle", got |-> Nothing, target |-> FALSE, lineage |-> NoLineage]

\* WatchSubject.accepted_children
Watched(resolved) == Accepted \cup (IF resolved = "accepted" THEN Unknown ELSE {})

\* A child that is not watched has no status: the code would not even build the event.
TypeOK ==
  /\ provider \in [Children -> [pref: {"reconciling", "full", "short"}, effective: BOOLEAN,
                                target: BOOLEAN, lineage: Lineages]]
  /\ evidence \in [Children -> Found]
  /\ resolution \in Resolutions /\ superseded \subseteq Children
  /\ late \in BOOLEAN
  /\ run.pc \in {"none", "observe", "emit", "sleep", "ended"} /\ run.phase \in Phases
  /\ run.resolved \in Resolutions /\ run.pending \in Resolutions
  /\ run.status \in StatusMap /\ run.lineage \in LineageMap
  /\ run.owed \subseteq Children \cup {"initial"} /\ run.seen \in Shown \cup {NotShown}
  /\ {run.saved, token} \subseteq Checkpoint \cup {NoCheckpoint}
  /\ run.outcome \in Codes
  /\ \A c \in Children \ Watched(run.resolved) : run.status[c] = Nothing
  /\ reading \in [Children -> [step: {"idle", "due", "half", "done", "miss"},
                               got: Status \cup {Nothing}, target: BOOLEAN,
                               lineage: Lineages]]

\* An accepted write was answered with its preference, which the record retains; of the
\* unknown one, which may have got through or not, there is nothing yet.
Init ==
  /\ \E begin \in Beginnings :
       provider = [c \in Children |->
                     [pref |-> begin[c].pref, effective |-> begin[c].effective,
                      target |-> begin[c].target \/ c \in Accepted,
                      lineage |-> [NoLineage EXCEPT !.traced = begin[c].traced]]]
  /\ evidence = [c \in Children |->
                   IF c \in Accepted THEN [verdict |-> "accepted", lineage |-> provider[c].lineage]
                   ELSE [verdict |-> "none", lineage |-> NoLineage]]
  /\ resolution = "unknown" /\ superseded = {} /\ changes = 0
  /\ late = FALSE /\ streams = 0
  /\ run = NoRun /\ reading = [c \in Children |-> Idle] /\ token = NoCheckpoint

-----------------------------------------------------------------------------
(* What the code derives. *)

Superseded(resolved) == superseded \cap Watched(resolved) # {}

\* QuotaRequestStatus.watch
Reached(s) == s.pref = "full" /\ (Condition = "granted" \/ s.effective)
Unmet(s) == s.pref = "short"

\* WatchAggregate.derive
Disposition(r) ==
  LET watched == Watched(r.resolved) IN
  IF \E c \in watched : Unmet(r.status[c]) THEN "unmet"
  ELSE IF \A c \in watched : Reached(r.status[c]) THEN "reached" ELSE "pending"

View(r) == [resolved |-> r.resolved, status |-> r.status]
Kept(r) == [resolved |-> r.resolved, status |-> r.status, lineage |-> r.lineage]

\* _durable_lineages, _advance_run_subject: a child is followed from the preference its
\* write was found in, by the answer of the write or by the resolution.
Advance(r, resolved) ==
  [r EXCEPT !.resolved = resolved,
            !.lineage = [c \in Children |-> IF c \in Watched(resolved) \ Watched(r.resolved)
                                            THEN evidence[c].lineage ELSE @[c]]]

-----------------------------------------------------------------------------
(* Ends and events. *)

Due(children) == [c \in Children |-> IF c \in children THEN [Idle EXCEPT !.step = "due"] ELSE Idle]
NoReads == reading' = [c \in Children |-> Idle]
Observe(r, phase, children) ==
  run' = [r EXCEPT !.pc = "observe", !.phase = phase] /\ reading' = Due(children)
Continue(r, phase, owed) == run' = [r EXCEPT !.pc = "emit", !.phase = phase, !.owed = owed]

\* An error before the first event is raised to the caller.
Raise(r) ==
  /\ run' = [NoRun EXCEPT !.pc = "ended", !.outcome = "raised", !.seen = r.seen]
  /\ NoReads /\ UNCHANGED token

\* The terminal event.  When its checkpoint cannot be saved it carries the last token
\* and says so instead.
Terminal(r, code) ==
  /\ NoReads
  /\ \E stored \in BOOLEAN :
       /\ run' = [NoRun EXCEPT !.pc = "ended", !.seen = View(r), !.pending = r.pending,
                               !.outcome = IF stored THEN code ELSE "unsaved"]
       /\ token' \in {token, IF stored THEN Kept(r) ELSE r.saved}

\* Errors while observing: raised before the first event, told after it.
Abort(r, code) == IF r.phase = "initial" THEN Raise(r) ELSE Terminal(r, code)

\* A faulty event: a checkpoint that cannot be saved is always raised.
EmitOrRaise(e) ==
  \/ /\ run' = [run EXCEPT !.owed = @ \ {e}, !.saved = Kept(run), !.seen = View(run)]
     /\ token' \in {token, Kept(run)} /\ UNCHANGED reading
  \/ Raise(run)

\* _event: save the checkpoint, then yield.  The first event is raised if it cannot be
\* saved; for a later one the stream ends, and the terminal event tries once more.
EmitEvent(e) ==
  \/ /\ run' = [run EXCEPT !.owed = @ \ {e}, !.saved = Kept(run), !.seen = View(run)]
     /\ token' \in {token, Kept(run)} /\ UNCHANGED reading
  \/ run.saved = NoCheckpoint /\ Raise(run)
  \/ run.saved # NoCheckpoint /\ Terminal(run, "unsaved")

Emit ==
  /\ run.pc = "emit" /\ UNCHANGED <<world, caller>>
  /\ \E e \in run.owed : EmitEvent(e)

-----------------------------------------------------------------------------
(* Starting a stream. *)

MayStart ==
  /\ run.pc \in {"none", "ended"} /\ streams < MaxStreams /\ streams' = streams + 1
  /\ ~Superseded(resolution) /\ late' = FALSE
  /\ UNCHANGED <<world, token>>

\* _start from the Apply record: what cannot be watched is raised and not modelled.
Start ==
  /\ MayStart /\ Watched(resolution) # {}
  /\ Observe([NoRun EXCEPT !.resolved = resolution, !.pending = resolution,
                           !.lineage = [c \in Children |-> IF c \in Watched(resolution)
                                                           THEN evidence[c].lineage ELSE @[c]]],
             "initial", Watched(resolution))

\* _start from a token: the checkpoint's subject first, the current one is pending.
StartAgain ==
  /\ MayStart /\ token # NoCheckpoint
  /\ Observe([NoRun EXCEPT !.resolved = token.resolved, !.status = token.status,
                           !.lineage = token.lineage, !.pending = resolution,
                           !.replays = TRUE, !.saved = token],
             "initial", Watched(token.resolved))

-----------------------------------------------------------------------------
(* Reading the provider. *)

Read(c, result) ==
  /\ run.pc = "observe" /\ reading' = [reading EXCEPT ![c] = result]
  /\ UNCHANGED <<world, caller, run, token>>

\* observe: the preference, then, after another await, the effective quota.  A preference
\* with another target fails the observation.
ReadPreference(c) ==
  /\ reading[c].step = "due"
  /\ Read(c, [step |-> "half", target |-> provider[c].target, lineage |-> provider[c].lineage,
              got |-> [pref |-> provider[c].pref, effective |-> FALSE,
                       request |-> provider[c].lineage.request]])
ReadEffective(c) ==
  /\ reading[c].step = "half" /\ reading[c].target
  /\ Read(c, [reading[c] EXCEPT !.step = "done", !.got.effective = provider[c].effective])

\* A retryable failure of either read is kept as a miss of this child.
Miss(c) == reading[c].step \in {"due", "half"} /\ Read(c, [Idle EXCEPT !.step = "miss"])

Unfinished == {c \in Children : reading[c].step \in {"due", "half"}}

\* The first failure of a child ends the observation of all: a provider error, the
\* deadline, a read slower than its own timeout, or the caller's cancellation.
ReadsFail ==
  /\ run.pc = "observe" /\ Unfinished # {} /\ UNCHANGED <<world, caller>>
  /\ \E code \in {"incomplete", "timeout", "interrupted"} : Abort(run, code)

\* _require_same_lineage: by trace id, which changes with the request, or, if there is
\* none, by etag, which may change with every update of the preference.
SameLineage(expected, read) ==
  IF expected.traced THEN read.traced /\ read.request = expected.request
  ELSE read.request = expected.request /\ read.version = expected.version

\* A faulty check: a preference that is read for the first time is taken as it is.
MatchesOnceKnown(c) ==
  run.status[c] = Nothing \/ SameLineage(run.lineage[c], reading[c].lineage)

Matches(c) == SameLineage(run.lineage[c], reading[c].lineage)

Answered == {c \in Children : reading[c].step = "done"}

\* A faulty comparison: only whether the condition is reached counts.
ChangedByCondition == {c \in Answered : Reached(reading[c].got) # Reached(run.status[c])}

\* The children whose status changed materially.
Material(s) == <<s.pref, s.effective>>
Changed == {c \in Answered : Material(reading[c].got) # Material(run.status[c])}

\* _integrate_observations: a missed child keeps the status and lineage it had.
Integrate ==
  /\ run.pc = "observe" /\ Unfinished = {} /\ UNCHANGED <<world, caller>>
  /\ \/ Abort(run, "unavailable")
     \/ Superseded(run.resolved) /\ Abort(run, "superseded")
     \/ /\ ~Superseded(run.resolved) /\ \E c \in Answered : ~Matches(c)
        /\ Abort(run, "mismatch")
     \/ /\ ~Superseded(run.resolved) /\ \A c \in Answered : Matches(c)
        /\ Continue([run EXCEPT !.status = [c \in Children |->
                       IF c \in Answered THEN reading[c].got ELSE @[c]],
                                  !.lineage = [c \in Children |->
                       IF c \in Answered THEN reading[c].lineage ELSE @[c]]],
                    run.phase, IF run.phase = "initial" THEN {"initial"} ELSE Changed)
        /\ NoReads /\ UNCHANGED token

-----------------------------------------------------------------------------
(* Between the events. *)

\* _advance_run_subject: resolutions are only ever added.
News(resolved) == IF resolved # run.resolved THEN Unknown ELSE {}

\* A faulty replay: what was resolved while no stream was open is left to the next
\* refresh.
ForgetReplay == Continue(run, "replay", {}) /\ UNCHANGED <<reading, token>>

\* After the initial event a resumed stream replays what was resolved meanwhile.
Replay ==
  IF ~run.replays THEN Continue(run, "replay", {}) /\ UNCHANGED <<reading, token>>
  ELSE LET r == Advance(run, run.pending) IN
       \/ Superseded(run.pending) /\ Terminal(r, "superseded")
       \/ Terminal(r, "unavailable")
       \/ /\ ~Superseded(run.pending)
          /\ Continue([r EXCEPT !.replays = News(run.pending) # {}], "replay", News(run.pending))
          /\ UNCHANGED <<reading, token>>

\* A child that was accepted meanwhile is observed before the stream goes on.
Replayed ==
  IF run.replays /\ run.pending = "accepted"
    THEN Observe(run, "replayed", Unknown) /\ UNCHANGED token
    ELSE Continue(run, "replayed", {}) /\ UNCHANGED <<reading, token>>

\* The stream ends when the condition is decided for all watched children.
Settle ==
  LET told == Disposition(run) IN
  IF told # "pending" THEN Terminal(run, told)
  ELSE Continue(run, "top", {}) /\ UNCHANGED <<reading, token>>

\* _refresh_subject: load the record and its resolutions again.
Refresh(phase) ==
  \/ Superseded(resolution) /\ Terminal(run, "superseded")
  \/ Terminal(run, "unavailable")
  \/ /\ ~Superseded(resolution)
     /\ Continue(Advance(run, resolution), phase, News(resolution))
     /\ UNCHANGED <<reading, token>>

\* A faulty loop: the deadline is not looked at once the stream is polling.
SleepOn == run' = [run EXCEPT !.pc = "sleep"] /\ UNCHANGED <<reading, token>>

\* Before each sleep the cancellation and the deadline are looked at.
Decide ==
  \/ Terminal(run, "interrupted")
  \/ late /\ Terminal(run, "timeout")
  \/ ~late /\ run' = [run EXCEPT !.pc = "sleep"] /\ UNCHANGED <<reading, token>>

\* A faulty poll: it reads the children the subject does not admit, too.
PollAll ==
  \E due \in SUBSET Children : Observe(run, "polled", due) /\ UNCHANGED token

PollDue ==
  \E due \in SUBSET Watched(run.resolved) : Observe(run, "polled", due) /\ UNCHANGED token

\* The generator goes on when the consumer asks for the next event.
Resume ==
  /\ run.pc = "emit" /\ run.owed = {} /\ UNCHANGED <<world, caller>>
  /\ CASE run.phase = "initial" -> Replay
       [] run.phase = "replay" -> Replayed
       [] run.phase \in {"replayed", "polled"} -> Settle
       [] run.phase = "top" -> Refresh("decide")
       [] run.phase = "decide" -> Decide
       [] run.phase = "awake" -> PollDue

\* The sleep ends when a child is due or the deadline has come, or is interrupted.
Wake ==
  /\ run.pc = "sleep" /\ UNCHANGED <<world, caller>>
  /\ IF late
       THEN Continue(run, "top", {}) /\ UNCHANGED <<reading, token>>
       ELSE Refresh("awake")

Interrupt == run.pc = "sleep" /\ Terminal(run, "interrupted") /\ UNCHANGED <<world, caller>>

-----------------------------------------------------------------------------
(* The clock and the world. *)

Expire ==
  /\ run.pc \in {"observe", "emit", "sleep"} /\ ~late /\ late' = TRUE
  /\ UNCHANGED <<world, streams, run, reading, token>>

Outside == changes < MaxChanges /\ changes' = changes + 1 /\ UNCHANGED <<caller, run, reading, token>>

\* The provider works on the request, which may change the etag or bring a trace id, or
\* the quota in effect changes.
Progress(c) ==
  /\ Outside /\ UNCHANGED <<evidence, resolution, superseded>>
  /\ \/ \E pref \in {"reconciling", "full", "short"} \ {provider[c].pref},
           version \in {0, 1}, traced \in {provider[c].lineage.traced, TRUE} :
          provider' = [provider EXCEPT ![c].pref = pref, ![c].lineage.version = @ + version,
                                       ![c].lineage.traced = traced]
     \/ provider' = [provider EXCEPT ![c].effective = ~@]

\* Somebody asks for something else in the same preference, or for the same value once
\* more; the unknown write that arrives late does so, too.  With another target the trace
\* id does not matter: the preference is not read to the end.
Amend(c) ==
  /\ Outside /\ UNCHANGED <<evidence, resolution, superseded>>
  /\ \E target \in BOOLEAN : \E traced \in {FALSE, target} :
       provider' = [provider EXCEPT ![c].pref = "reconciling", ![c].target = target,
                                    ![c].lineage = [request |-> @.request + 1, version |-> 0,
                                                    traced |-> traced]]

\* A later Apply reads the preference of the unknown write, which is all it can compare:
\* with the same target it is taken for the plan's own, whoever asked for it.
Consult(c) ==
  /\ c \in Unknown /\ resolution = "unknown"
  /\ evidence' = [evidence EXCEPT ![c] =
                     IF provider[c].target
                       THEN [verdict |-> "accepted", lineage |-> provider[c].lineage]
                       ELSE [verdict |-> "failed", lineage |-> NoLineage]]
  /\ UNCHANGED <<provider, resolution, superseded, changes, caller, run, reading, token>>

\* It records what it read, with the etag and the trace id.  A port may also report that
\* the write has failed; the adapter in this repository leaves it unresolved.
Resolve ==
  /\ Outside /\ resolution = "unknown" /\ UNCHANGED <<provider, evidence, superseded>>
  /\ \E c \in Unknown : evidence[c].verdict # "none" /\ resolution' = evidence[c].verdict

\* A later plan of this installation is applied to the child; its write may fail.
Supersede(c) ==
  /\ Outside /\ UNCHANGED <<provider, evidence, resolution>>
  /\ superseded' \in {superseded \cup {c}, superseded \ {c}} \ {superseded}

Step == Emit \/ Integrate \/ ReadsFail \/ Resume \/ Wake
Next ==
  \/ Start \/ StartAgain \/ Step \/ Interrupt \/ Expire \/ Resolve
  \/ \E c \in Children :
       \/ ReadPreference(c) \/ ReadEffective(c) \/ Miss(c)
       \/ Progress(c) \/ Amend(c) \/ Consult(c) \/ Supersede(c)

Spec == Init /\ [][Next]_allVars

\* The deadline comes, the consumer goes on asking, and the event loop runs what is
\* ready; each read ends within its own timeout.  The provider owes nothing.
FairSpec == Spec /\ WF_allVars(Expire) /\ WF_allVars(Step)

-----------------------------------------------------------------------------
(* Properties. *)

\* A stream that has told anything ends with a terminal event and never with an error.
ToldStreamsEndInBand == run.outcome = "raised" => run.seen = NotShown

\* Whenever the stream goes to sleep, its consumer has been told the subject and every
\* status as the stream knows them, resumed or not.
NothingMaterialIsSwallowed == run.pc = "sleep" => run.seen = View(run)

\* Every status, in this stream or in one resumed from it, is of the very request that the
\* evidence named when the child was accepted: the one Apply was answered with or, for the
\* unknown child, the one its resolution was read from.  What somebody asks for since, or
\* between that reading and its publication, is never shown in its place.
StatusIsOfTheRequest ==
  \A c \in Children :
    run.status[c] # Nothing => run.status[c].request = evidence[c].lineage.request

\* A watch that succeeds covers every child known to be accepted when it started, each
\* with a status that reaches the condition.
SuccessCoversTheSubject ==
  run.outcome = "reached" =>
    \A c \in Watched(run.seen.resolved) \cup Watched(run.pending) : Reached(run.seen.status[c])

\* Every stream ends, although the provider may never answer.
EveryWatchEnds == run.pc \in {"observe", "emit", "sleep"} ~> run.pc \in {"none", "ended"}
=============================================================================
