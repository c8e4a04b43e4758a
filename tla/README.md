# Specifications of cqmgr

cqmgr reads and requests Google Cloud quota. What it does to a project cannot be
taken back, so its core is a protocol: a *plan* is previewed and stored, *applied*
at most once, child by child, with every intent and outcome on disk before the next
step, and then *watched* until the provider has decided. Several processes of one
installation (command line, terminal interface) share the files, and any of them
may crash at any time. These modules model that core, check it with TLC on small
instances and prove what matters most for all instances with TLAPS. The terminal
interface, from which an operator does all this, and the trust every stored file is
authenticated with, have modules of their own.

Paths below are relative to `src/src/cqmgr/` unless they start with `docs/`.

## Inventory

| Component | State | Operations | Talks to | What is hard | What makes it correct |
| --- | --- | --- | --- | --- | --- |
| Plan ledger, `domain/plan_consumption.py` | one record: available, leased, dispatched, consumed, quarantined, invalidated | recover, acquire, dispatch, complete, quarantine, invalidate (pure) | the plan repository | lease deadlines, terminal states | a record is never half a state |
| Plan repository, `adapters/persistence/plans.py`, `secrets.py` | plan file, ledger file, marker in the native keyring | store, load, acquire_lease, mark_dispatched, resume_dispatched, complete, quarantine, invalidate | Preview stores, Apply does the rest | two stores without a transaction, failed writes that are in force, rolled back files, a lost keyring entry | one dispatch, one lease at a time, terminal states stay |
| Apply record, `domain/apply_records.py`, `adapters/persistence/apply_records.py` | per plan one revisioned record with a disposition per child; an append-only journal of resolutions | create, save (compare-and-set), append_resolution, load | Apply writes, Watch reads | stale copies, saves reported as failed | evidence is true and never taken back |
| Apply, `application/operations/apply.py` | a call's copy of the record and its lease | apply, resume, finish, the failure paths | all stores, the provider writer | crash between any two steps, racing calls, lost answers | at most one write per child, behind record and journal |
| Provider writer, `adapters/google/quota_preference_writes.py` | none | dispatch, resolve_unknown | Cloud Quotas | ambiguous results, late arrival | says no more than it knows |
| Audit journal, `adapters/persistence/audit.py` | segments of hash-chained lines, a manifest | append (deduplicating), query, inspect, verify, open | Apply, the audit commands | torn lines, rotation, a stale manifest, paging during appends | confirmed records stay and loss is noticed |
| Shared budget and read policy, `adapters/persistence/coordination.py`, `adapters/google/read_policy.py` | `budgets.json`: a window per axis | acquire; call with retries | every page read | wall clock changes, deadlines, cancellation, power loss | bounded rate, everything paid, every call ends |
| Watch, `application/operations/watch.py`, `adapters/persistence/watch.py`, `domain/watch.py` | a stream's subject and statuses, immutable checkpoints | watch, resume from a token | Apply records, provider reads, the budget | reads that overlap with changes, resolutions, supersession, deadline, failed checkpoints | nothing is swallowed or misattributed, success is complete, streams end |
| Installation trust, `adapters/persistence/installation_trust.py`, `application/operations/trust.py` | a record (phase, identity, key reference, commitment) in a file; the key in the keyring | initialise and resume initialisation, load | keyring, workflow lock, every authenticated file | two stores without a transaction, deaths between any two steps, a keyring others may change | one authority for ever, no orphaned key, initialisation gets through |
| Locks, `adapters/persistence/native_plan_lock.py`, `locking.py` | owner thread per process, lock on a file | acquire with timeout, release | all stores | two stages under one deadline, timeouts, death of the holder | mutual exclusion, nothing stranded |
| Configuration, `adapters/persistence/configuration.py`, `application/operations/local.py` | one revisioned file | load, compare-and-set, edit | command line | two editors | no lost update |
| Quota snapshots, `adapters/persistence/quota_snapshots.py` | snapshot files | save, load, import | quota reads | partial writes | a snapshot is complete |
| Preview and lifecycle requests, `application/operations/plans.py`, `lifecycle*.py` | none of their own | build and store a plan | reads, plan repository | evidence that ages while it is gathered | a plan says what was read |
| Apply contacts, `application/operations/contacts.py` | per contact a queue of retained sources | prepare, refresh, discard | terminal interface, command line, Apply | requests that share a contact | who applies finds a source, nothing outlives its request |
| Quota reads, `application/operations/quotas.py`, `domain/quota_queries.py` | cursors | filter, order, page | Google adapters | paging, incomplete evidence | pages partition the result |
| Obtainability, `domain/obtainability.py` | none | compose advice | quota reads | many partial answers | order of precedence |
| Accelerator overlay, `domain/accelerator_overlay.py` | a versioned data file | validate, look up | quota reads | data shape | lookups agree with the data |
| Terminal interface, `adapters/tui/app.py` | workspace, lifecycle route and its request, workers, generation of the view | open, leave and switch routes; compose, prepare, apply, watch, read | all operations | workers that end after the screen has changed, cancelled workers that unwind late | nothing superseded acts or paints |
| Google adapters, command line, serialization, bootstrap | none | convert, parse, wire | | paging tokens | |

Calls go down (interface, operation, store or adapter); the stores are shared files,
and there is no server: all coordination between processes is by locks, revisions
and the marker. Every store answers a call with a status instead of an exception, so
"failed" is an ordinary outcome, and it does *not* say that nothing happened.

## Modules

| Module | Models | Role |
| --- | --- | --- |
| `PlanLedger` | `PlanLedgerRecord` | pure transitions, used by `PlanRepository` |
| `PlanRepository` | `LocalPlanRepository` for one plan | one action per operation; `MCPlanRepository` instantiates it |
| `SingleUse` | the promise of the repository | abstract: lease, cross the barrier once, dispatch |
| `PlanRepositoryProofs` | | theorems about `PlanRepository`: typing, the barrier, final records, marker first, one winner, no late lease, and that it implements `SingleUse` |
| `ApplyRecord` | `ApplyRecord` | pure transitions, used by `ApplyPlan` |
| `ApplyPlan` | `ApplyPlanOperations.apply` with its stores and the writer | composes `PlanRepository` and `ApplyRecord`; `MCApplyPlan` |
| `ApplyPlanProofs` | | theorems about `ApplyPlan`: one write per child, true evidence |
| `ApplySettlementProofs` | | the rest of the theorems about `ApplyPlan`, on top of the two before |
| `AuditJournal` | `FilesystemAuditJournal` and `AuditOperations` | `MCAuditJournal` |
| `AuditJournalProofs` | | theorems about `AuditJournal`, and that it implements `AuditLog` |
| `AuditLog` | what a writer relies on | abstract: an append-only log that is intact or ruined |
| `RequestBudget` | window arithmetic of `SharedBudgetCoordinator` | pure, used by `BudgetedReads` |
| `BudgetedReads` | `GoogleReadPolicy.call` of all processes | `MCBudgetedReads` |
| `BudgetedReadsProofs` | | theorems about `BudgetedReads` |
| `WatchStream` | `WatchOperations.watch` with checkpoints and reads | `MCWatchStream` |
| `WatchStreamProofs` | | theorems about `WatchStream` |
| `NativeLock` | `NativePlanInterprocessLock` of all processes | used by `InstallationTrust` |
| `InstallationTrust` | `TrustInitializationOperations`, its repository, the keyring and the loaders of other processes | composes `NativeLock`; `MCInstallationTrust` |
| `InstallationTrustProofs` | | theorems about the lock and the trust |
| `ApplyContacts` | the retained contexts of `ProtectedContactResolver` | used by `LifecycleRoutes` |
| `LifecycleRoutes` | the lifecycle routes of `CloudQuotaManagerApp` and their workers | composes `ApplyContacts`; `MCLifecycleRoutes` |
| `LifecycleRoutesProofs` | | theorems about the routes |

How state and actions correspond to the code:

- **PlanRepository.** `plan`, `ledger`, `marker` are the two files and the keyring
  entry. Each operation holds one interprocess lock, so it is one action. `Commit`
  says how an operation ends: it answers and has had all its effects, or it answers
  "failed" and has had a prefix of them, among them the last (`_write_record`
  replaces the file and then syncs the directory, which may fail). A crash is the
  same without an audience. `now` is an argument of every operation, as in the code:
  a caller samples it once and may present it late. `threat` is what the environment
  may do in a behaviour: bring back an older copy of both files (`TakeSnapshot`,
  `ReplaySnapshot`) or make the keyring forget the marker (`LoseMarker`).
- **ApplyPlan.** A step is one call of a store or of the provider, because that is
  where the code gives up a lock or awaits. `loc[p]` holds the point in `apply`, the
  copy of the record, the lease and the instant sampled at the start. Saving is a
  compare-and-set on the revision; a faulty call may be in force. `truth` is what
  became of a write at the provider: an unknown one may land at any later time, and a
  write that was taken may be answered with an echo of something else ("conflicting"),
  which the code records as failed. `Resolve` does not look at `truth`, because the
  resolver cannot: it compares the value that is there, whoever asked for it.
- **AuditJournal.** `lines` are the complete lines of all segments, `torn` tells of a
  cut line, `manifest` is the chain the manifest commits to. A draft may be appended
  with or without deduplication; an append may rotate first. `Lose` removes a
  segment or the manifest.
- **BudgetedReads.** `entries` is `budgets.json`; `undurable` is what a power loss may
  bring back, because the file is replaced before its directory is synced. The
  monotonic clock drives deadlines and the wall clock, which may be set, the windows.
- **WatchStream.** `run` is `_Run` and the point at which the generator is suspended,
  `reading` the concurrent reads, `token` the checkpoint of an event the consumer has
  kept (any of them). Each read has two halves. Outside, the provider moves
  (`Progress`), somebody changes the preference (`Amend`), a later Apply reads the
  preference of the unknown child and records what it found (`Consult`, `Resolve`) or a
  later plan is applied to a child (`Supersede`). A preference carries its `lineage`: the
  request in force, the version of that request and whether it has a trace id. The trace
  id is the request and the etag is request and version; the code's comparisons
  (`SameLineage`) look at no more than that. `evidence` is the lineage a child is followed
  from, the answer of its write or what its resolution read; `run.lineage` is the one
  last observed, kept in checkpoints and tokens, and may become traced on the way. A status
  remembers the request it was read of, which the code does not; only the property looks
  at it.
- **NativeLock.** `owner` is the thread that has reserved the instance of a process,
  `holder` the thread whose handle holds the file, `stage` where a thread is in
  `__enter__` or `__exit__`. The deadline is open: whoever still meets contention may
  give up. `Dies` frees what the kernel frees.
- **InstallationTrust.** `record` is the file, `keys` what the keyring stores under the
  reference of each candidate (an identity with its key, random and never drawn twice:
  `drawn`). `at` and `held` are the point of an attempt and its copy of the record; each
  call of the repository or of the keyring is one step, since both have locks of their
  own. A failed write is in force or not. Beside the attempts, other processes load what
  they find (`ReadActive`, `LookUp`) and somebody may remove or replace an entry of the
  keyring (`Tamper`).
- **LifecycleRoutes.** `screen` is `_lifecycle_state` with the inputs shown, `stage` what
  became of each Apply request and its worker, `enabled` which of the buttons that start
  a composition and a preparation are enabled (entering a route does not reset them, so a
  capable review that was left still lets the next plan input be prepared), `contexts` the
  retained contacts, `streams` and `stopped` the watches, `reads` the read of each worker group with the
  claim it holds on the view (the generation, abstracted to "is it still the latest")
  and the Apply results shown before it began. Textual runs a handler to its next await
  without interruption, so each handler is one action; a worker goes on in an action of
  its own. `unwinding` counts cancelled reconciliations whose `finally` is to come.

## Runs

| Run | Instance | Question |
| --- | --- | --- |
| `repository` | 3 tokens, lease 1, expiry 2, clock to 3 | Does the barrier order the two stores, does one lease win, do terminal records stay, and is `SingleUse` implemented, with failed writes and crashes everywhere? |
| `threats` | 2 tokens, one threat per behaviour | Does each anchor, ledger and marker, alone keep a plan from being dispatched twice? |
| `apply` | 1 process, 4 calls, 2 children, 2 faults | After crashes and resumes: does the record hold every write that was sent, is no disposition taken back, and is a consumed plan settled? |
| `apply_race` | 2 processes, 2 calls, 2 children, 1 fault | When calls race: one write per child, behind the audited intent; is the evidence true, and does "applied" mean all of it? |
| `audit_journal` | 2 drafts, segments of 2 lines, 6 lines, 1 lost file | Can every interrupted append be continued, are pages exact, is loss noticed, is `AuditLog` implemented? |
| `budget` | 2 processes, 2 axes, capacities 2 and 1, periods 2 and 3, the wall clock set once or one power loss, fair | Is the rate bounded, is every request paid durably, is a refusal justified, does every call end? |
| `watch` | 1 accepted and 1 unknown child, 2 streams, 2 steps of the world, fair | The properties of a watch; does every stream end? |
| `trust` | 2 threads of one process and 1 of another, 3 candidates, 2 faults, fair | Can a lock be stranded or a key orphaned, is there one authority, does an undisturbed attempt succeed and every attempt end? |
| `lifecycle` | 3 Apply requests that share a contact, 2 watches | Who holds a contact, what goes on behind the screen, what may paint it? |
| `apply_lost_update`, `apply_interrupted`, `lifecycle_navigation` | | Statements of the documentation and the tests that the code does not keep, below. |

Bounds. Two children are the least for "the earlier ones are accepted, the later ones
untouched", two racing calls the least for a lost update; a third racing call meets
the same revisions and leases. Two faults let one call of a single process work from a
copy that the record has overtaken: a save that is in force although it is reported as
failed, and a load that fails afterwards. Three tokens let a lease lapse, be granted again and
lapse again; time 3 passes both deadlines. Six lines make three segments, so that a
duplicate is in an older segment and a checkpoint is itself the limit. The budget has
two axes of different period and capacity, so that one refuses while the other would
grant; its bound is tight in the instance: up to `2 * capacity - 1` requests are
granted within one period. Two streams and two steps of the world are what a watch
needs to be resumed after a resolution and meet a supersession or a foreign change; a
reading of the unknown child's preference is not counted among the steps. The watch
begins in one state, in which the accepted child is untraced and still being worked on
and the unknown write has got through with a trace id; a foreign request in its place,
before it is read, between the reading and its publication or later, is a step of the
world.
The budget run meets one fault of the machine per behaviour, a setting of the wall
clock or a power loss; the two do not touch the same state except through the file,
which either may have changed. Three candidates let initialisation be given up twice,
and each fault can cost one candidate at most, so the candidates outlast the faults.
They are numbered as they are drawn: which one a draw yields makes no difference.
Three Apply requests are one that runs, one that was cancelled and is still unwinding,
and one that awaits confirmation; two watches are the one left and the one opened.
Every bound is a constant whose declaration says "bound of the model". Symmetry is
used on tokens, requests and watches only, and only for safety. Deadlock is checked
where the system has to be able to go on (`PlanRepository`, `ApplyPlan`,
`InstallationTrust`, `LifecycleRoutes`); the other models stop at their bounds, and the
clock of a finished reader has nothing left to do.

Fairness. `BudgetedReads.FairSpec` assumes that time passes and that the event loop
runs what is due; nothing is assumed of the provider, the budget or the lock of the
budget file, whose acquisition is limited by the caller's deadline. `WatchStream.FairSpec`
assumes that the deadline comes, that the consumer asks for the next event, and that
the loop runs; a read that the provider never answers ends with its own limit
(`ReadsFail`), which `asyncio.wait` guarantees. `InstallationTrust.FairSpec` assumes that
a thread that has begun an attempt goes on: it runs, is woken, or reaches its deadline.
Nobody has to begin an attempt, and no thread is promised the lock.

Invariants worth a word: `SingleDispatch` and `NoLeaseAfterDispatch` relate two stores
over the whole history. `EvidenceIsTrue` relates what the record says of an answered
write to what the provider did with it; of a lost answer the record says "unknown", and
what a resolution says of it is evidence of its own. `StatusIsOfTheRequest` relates a
status to that evidence: a lineage is read, published, checkpointed, resumed and
upgraded from etag to trace id, and must still name the request it started from.
`NothingMaterialIsSwallowed` says that whenever a stream sleeps its consumer knows all it
knows. `RefusedOnlyWhenSpent` compares the
window arithmetic to the real last period, as long as the wall clock is not set: a clock
that is set back does refuse what was not spent. `DispositionsAreFinal` is checked and
proved for one process, whose copy a save reported as failed has overtaken; what a racing
call does to a copy is `apply_lost_update`. `UndisturbedSucceeds` is the recovery claim of
the installation: whatever states earlier attempts left, the next one that meets no
fault gets through. `ContactsAreHeld` is about a queue that is consumed from the front
by whoever applies and emptied from the middle by whoever gives up.

## Proofs

`PlanRepositoryProofs` proves, for every set of tokens and reasons, every duration,
expiry and horizon:

- `TypeCorrect`: `Spec => []TypeOK`. The ledger's record is well formed in every
  state, whatever prefix of its effects an operation leaves. Lemma `TransitionsGood`
  covers the pure transitions, one lemma per operation the rest.
- `DispatchedOnce`: `Spec => []SingleDispatch`, if no behaviour has both threats.

Assumptions: `LedgerAssumption` and `RepositoryAssumption`, which TLC evaluates in the
runs, and for the second `{"replay","keyring"} \notin Threats`. `SingleDispatch` alone
is not inductive: nothing in it says why a second dispatch is refused. The invariant
is `DispatchInv`: well typed, at most one grant, and *anchored*: once a dispatch was
granted, the marker is in the keyring unless the keyring is what may fail, and the
ledger is spent unless the files are what may be rolled back. One of the two anchors
is left, and `mark_dispatched` looks at both: it refuses a record that is not leased,
and creates the marker only where there is none.

On top of that:

- `NoLeaseBehindBarrier`: `Spec => NoLeaseAfterDispatch`, if no behaviour has both
  threats. A granted dispatch leaves an anchor (`DispatchInv`), and behind one
  (`Behind`) no operation answers "leased": the state each of them recovers from is
  promoted by the marker or is spent.
- `TerminalForGood`: `Spec => TerminalIsFinal`, if no behaviour rolls the files back.
  No transition moves a terminal record, and no operation writes another one.
- `MarkerFirst`: `Spec => []LedgerFollowsMarker`, if no behaviour loses the marker.
  The invariant `FollowInv` says it of the copy that may be brought back too: without
  that, a rollback could put a claim in place that was never behind a marker.
- `WinnerIsUnique`: `Spec => []OneWinner`, if files and keyring keep what they were
  given (`Threats \subseteq {{}}`, the instance of run `repository`). `OneWinner` is
  inductive as it stands, given `TypeOK`.

`RepositoryIsSingleUse` is `Spec => ImplementsSingleUse`
under the same assumption, from `OneWinner` and `FollowInv`. `Promised` is the abstract
step over the mapped variables (who holds a lease, whether the barrier is closed, who
knows that it may dispatch), and lemma `PromisedStep` shows it, operation by operation,
for every prefix of effects a failed call may leave.

`SingleDispatch` needs less than `OneWinner`: it bounds the answers, while `OneWinner`
says whose they are, which a rolled back ledger can change.

`InstallationTrustProofs`, for any threads, processes, candidates and number of faults:

- `LockIsNeverStranded`: `Spec => []NoStrandedLock`, which is inductive given the types.
- `KeysAreAccountedFor`, `SingleAuthority`, `RecoverySucceeds`: `NoOrphanedKey`,
  `OneAuthority` and `UndisturbedSucceeds`. None is inductive alone: each depends on what
  the attempt *in the lock* believes. The invariant says of every point of an attempt how
  its copy agrees with the record and with the keyring (behind "store" the key is absent,
  behind "activate" it is the attempt's own, unless it was tampered with), that only the
  holder of the lock is at a point at all, and that a candidate is drawn before it is
  recorded, so that a fresh one has no key yet.

`LifecycleRoutesProofs`, for any number of requests and watches: `RoutesTyped`,
`ContactsFollowRequests`, `AbandonedWatchesStop` and `LedgerIsCurrent`. The invariant has
two halves, because most handlers touch only one. `ScreenInv` is about the view: a read
that still holds its claim began with what is shown. `RequestInv` is about the requests:
at most one Apply runs, the one that awaits confirmation is the one on the screen, and a
running Apply that has not taken its contact comes *before* it in the queue. The last
conjunct is what makes taking the oldest entry safe, and it is not visible in any of the
properties.

`ApplyPlanProofs`, for any calls, children, clocks and number of faults:
`OneWritePerChild` and `EvidenceIsSound` (`AtMostOneWrite`, `EvidenceIsTrue`), from
`RecordAndWritesAgree`: `ApplySpec => []WriteInv`. That a child is written once looks
like a property of the compare-and-set, but is not: two calls may hold the same revision,
and a faulty save is in force. `WriteInv` therefore speaks about every *copy* of the record a
call holds: it was stored at some time (it is the stored record or an older one), or it is
about to be saved and is then ahead of the stored record only if nobody has begun
another child since. A call that is about to write a child has claimed it in the stored
record (or that record has ended and begins no child any more), and two such calls have
claimed different children. The proof needs nothing of
the plan repository: the record alone bounds the writes, even where a lease is answered
twice.

`ApplySettlementProofs` proves the other properties of Apply. Its invariant, `SettledInv`
(`CallsRelyOnFacts`), says what a call relies on at each of its points (`PointOk`): before
a write, that the intent is in the journal and the marker in the keyring; wherever it goes
on to another child, that the journal has the acceptance of every child its copy holds as
accepted; at the end, that the ledger is closed. A racing call does not disturb this, since all it
speaks about only grows: the journal, the marker, a consumed ledger, what was applied at
the provider. From it follow, for any processes, calls, children and faults, `ApplyTyped`
(`ApplyTypeOK`), `WritesBehindJournal` (`WriteBehindJournal`, of writes and of
resolutions) and `AppliedIsAll`
(`AppliedMeansAll`). Neither the record nor the ledger alone would do: that every child
before the one to be written is accepted is known from the *copy*, that the copy was
stored from `WriteInv`, and that the journal agrees from `PointOk`.

Its second part assumes one process (`Alone`), as the instance of run `apply` does: calls
follow one another, crash, resume and meet saves of either kind of failure, but do not
race. Racing calls do lose an intent (`apply_lost_update`), so the assumption is the
code's, not the prover's. `AloneInv` (`CopiesFollowTheRecord`) says how a call's copy
differs from the durable record: not at all, except at the points of `Astray`. There it is
one outcome ahead, or overtaken by exactly one save that was reported as failed (`Stale`),
or it is followed by the chain of critical evidence, each link of which extends the one
before. Hence `SentIsOnRecord` (`DispatchIsOnRecord`), `ConsumedIsOver`
(`ConsumedIsSettled`) and `NothingIsTakenBack` (`DispositionsAreFinal`). The last one
speaks of dispositions and of the intents of writes that were *sent*. An attempt to prove
it of every intent failed on a behaviour that TLC then confirmed with two faults: see
"Observed" below.

`WatchStreamProofs`, for any children, accepted or unknown, and any number of changes of
the world: `WatchTypes`, `TerminalInBand`, `NothingSwallowed`, `OfTheRequest` and
`SuccessIsComplete`, all from one invariant, `WatchInvariant`. It says of every place a
status may be (the running stream, the event last told, the checkpoint saved, the token
the consumer has kept) that it is honest: about a watched child, about the request, and
with no more known of the unknown child than is so. Every lineage held in one of these
places is of the request the child's evidence names, so that a reading which passes
`SameLineage` is of that request too; and evidence changes only until it is published,
before which nobody follows the child. A resumed stream starts from a token of
any age, so honesty must not depend on when the token was made.

`AuditJournalProofs`, for any drafts, size of segments and length: `CrashesAreRecoverable`
(`CrashIsRecoverable`), `NoLossIsHidden` (`NothingConfirmedIsLost`, if at most one file
is lost, which the instance of run `audit_journal` assumes as well: two losses that
remove the last segment and the manifest leave a journal that looks new). The invariants
are `ChainInv`, that while nothing is lost the lines are numbered and the manifest commits
to all of them or all but the last, and `LossInv`, that the manifest commits to everything
confirmed. Three theorems are about whole chains:

- `JournalTyped`: `Spec => []TypeOK`, with the size of every segment: the lines of a
  segment are adjacent, so their number is bounded where the last line is appended.
- `QueriesAreExact`: `Spec => PagesAreExact`, if at most one file is lost. What was read is
  a prefix of the matching lines of the chain the manifest commits to, and stays one when
  the chain grows behind it, because the matching lines of a prefix are a prefix of the
  matching lines (`ReadInv`).
- `JournalIsALog`: `Spec => ImplementsAuditLog`. The abstract log is the drafts of the
  lines without checkpoints; `KeptInv` says that until a loss what is confirmed is among
  them. An append extends it by one draft, by none if the write failed early or only
  rotated, and a duplicate confirms the position of the first.

The lines that match are a recursive function of the chain (`Holding`). The induction
theorems of the library take an operator as a parameter, which the installed provers cannot
instantiate; the proofs take the least number for which a fact fails instead (`CountingUp`,
from `WFMin` and `NatLessThanWellFounded`).

`BudgetedReadsProofs`, for any processes, axes, capacities, periods, settings of the clock
and power losses: `ReadsTyped` (`TypeOK`), `RateIsBounded` (`RateBound`), `RequestsArePaid`
(`EveryRequestIsPaid`) and `RefusalsAreEarned` (`RefusedOnlyWhenSpent`). `RateBound` counts
the units of the last period of *true* time, of which the file knows nothing: an entry has
a start on the wall clock, which may be set. The invariant therefore gives each window in
any file that is in force or may come back after a power loss (`Files`) a true instant at
which it opened (`Covers`). The units granted before it are fewer than
`(1 + jumps) * capacity`, for the settings of the clock so far, and those granted later
are one fewer than the entry has used, the first one being what opened it. `PaidInv` says
that each of these files has counted what is paid, so that it does not matter which of
them a power loss leaves.

Only model-checked: that every call, watch and attempt ends (`EveryCallEnds`,
`EveryWatchEnds`, `EveryAttemptEnds`), since liveness under fairness and ENABLED are out of
the prover's reach. Every other property of a passing run is a theorem, under the
assumptions named above: no two threats at once, one lost file, one process. The last is
stronger than the code needs: calls of several processes that do not overlap are not
covered by the theorems of `Alone`, and TLC checks them only in so far as one process's
calls stand for them. No module here declares a RECURSIVE operator, about which nothing
could be proved.

## What the code does otherwise than its documents say

Three runs expect a violation:

- `apply_lost_update` (`apply.py:1583`). A call whose first save of critical evidence
  was rejected saves the second revision of its own copy, which fits on the revision
  the *other* call has stored meanwhile: the intent of a write that has left is erased.
- `apply_interrupted` (`apply.py:715`). A crash after the intent and a resume after the
  lease ran out leave the child without an outcome for ever; `recover_interrupted`,
  which would close it, is never called. ADR 0005 says it becomes unknown.
- `lifecycle_navigation` (`app.py:1853`). A worker that composes or prepares opens its
  route when it is ready, also over an Apply that was started meanwhile; the test
  `tests/adapters/tui/test_app.py:3028` says that Apply owns navigation. The progress flag
  and the result of the running Apply are lost with its route, what it touched is not
  read again, and another Apply submitted then cancels it between its dispatches (the
  worker group is exclusive).

Observed while modelling, without a run of their own:

- A write that the provider took, but answered with an echo that does not match, is
  recorded as failed (`quota_preference_writes.py:136-140`), so nobody watches it or
  looks for it again; `docs/status-output-watch-contracts.md:113` gives "failed" to the
  child that was "conclusively rejected or failed".
- The resolution of a lost answer compares identity, slice and value
  (`quota_preference_writes.py:182-187` and `219-229`): a request of somebody else for the
  same value is recorded as the plan's own, accepted write, where
  `docs/status-output-watch-contracts.md:128-131` asks for proof that "the bound intent"
  was. Its etag and trace id become what Watch compares with, so a same-target change
  between the lost write and the resolution is shown as the plan's; only what is asked for
  after that reading is excluded (`docs/status-output-watch-contracts.md:437-440`).
  `EvidenceIsTrue` and `StatusIsOfTheRequest` claim no more than that.
- Opening the audit journal does not recover a stale manifest, as its docstring says
  (`audit.py:181`); only the next append does. Readers fail until then.
- The limit of one read ends the whole watch as a timeout of the caller's deadline
  (`cloud_quotas.py:499`; `docs/status-output-watch-contracts.md:518-521`).
- A reconciliation that a later one has cancelled resets the navigation guard in its
  `finally` clause while the later one runs (`app.py:2016`; its docstring says it retains
  the guard). Preparing a Watch from the result of an Apply drops the affected slices, so
  they are not read again; switching the workspace does the same.
- The intent of a write that was *not* sent may be lost: its save is reported as failed but
  is in force, the load that follows fails as well, and the critical evidence is then built
  on the call's older copy, whose second save fits on the stored revision
  (`apply.py:1546-1554`, `apply.py:1582`). The children are recorded as unattempted, which is true.
- `plans.py:540`: an older authentic copy of the files of a *consumed* plan that says
  "dispatched" is answered with its lease within the lease's minute
  (`docs/runtime-integration-architecture.md:451-454` excludes it). The barrier stays shut
  and the Apply record, a file of its own, still stops a second write.
- `mark_critical_unknown` leaves the children that were never reached without a
  disposition (`docs/operator-workflows.md:190-194` names four).
- A plan quarantined by one call does not stop another that is already between its
  children (`docs/verification-distribution-contract.md:237-238`).
- Two windows meet: up to `2 * capacity - 1` requests in one period, where
  `bootstrap.py:704-706` says 30 per minute. `RateBound` shows that this is the most.
- A transient miss in the first observation of a resumed watch leaves the checkpoint's
  older status in the initial event
  (`docs/status-output-watch-contracts.md:513-517` speaks of the current observation).
- A replayed audit failure downgrades an accepted record to critical-unknown; an OSError
  before the budget file is replaced escapes `acquire` untyped; a line cut short
  by a crash makes the journal refuse every append and read from then on; a wall clock that
  is set back starves readers until it has caught up.
- `AuditedWriteCoordinator`, `SharedReadCoalescer` and `ApplyRecord.recover_interrupted`
  are not used by the program.

## Not modelled, and why

The conversion of provider pages, argument parsing, rendering, encoding and wiring
hold no state whose order matters. Locks are assumed to exclude each other and to be
released when their holder dies (`flock`), and their timeout is a failed call; what
`NativeLock` shows of the lock of the installation's trust holds for the plan stores
too, which use the same class. The
authentication of files and tokens is assumed to work: a file is an authentic one,
possibly an old one. One plan is modelled at a time, because plans share only the
journal and the budget, which have modules of their own; Watch sees other plans as
`Supersede`. In the watch the polling schedule is open (any watched child may be due),
so nothing is shown about its pace. The provider is taken to return an etag with every
preference; one with another target fails the read (`cloud_quotas.py:706-716`). The port of
the resolver may report that a write has failed, and the watch model includes it; the
adapter in this repository never does.

In the installation's trust, a write to the keyring that takes effect after its process
has died is left out (the call is synchronous), as is the probe of the backend, which is
the same on every call. In the terminal interface the Obtainability and Audit workspaces
and their reads are left out except for the claim they take on the view, and so are the
shutdown of the application and the layout of narrow screens.

`AuditedWriteCoordinator` and `SharedReadCoalescer` are never constructed. The directory
`src/.agents/` holds vendored tooling (JavaScript) for editing assistants, of which the
program, written in Python, uses nothing; it is no part of the system.

## Plan

The order is that of the damage an error would do.

1. Done: plan repository and ledger, Apply with its record, audit journal, budget, watch,
   installation trust with the native lock, the lifecycle routes with their contacts.
2. `LocalState`: configuration compare-and-set and quota snapshots.
3. `QuotaQueries`, `Obtainability`, `Overlay`: filtering, ordering, paging with cursors,
   precedence of advice, checked against reference definitions over bounded inputs;
   `Preview` on top of them, ending in the `Store` of `PlanRepository`.
4. The Obtainability and Audit workspaces in `LifecycleRoutes`.
5. Proofs. Done: every safety property, action property and refinement that a run checks.
   Next: the properties proved for one process (`Alone`) for several whose calls do not
   overlap, and with that the exact condition under which `apply_lost_update` cannot
   happen; that what `InstallationTrust` needs of `NativeLock` is an abstract mutual
   exclusion, stated and refined like `SingleUse`.
