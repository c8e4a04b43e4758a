--------------------------- MODULE BudgetedReads ---------------------------
(***************************************************************************)
(* GoogleReadPolicy.call over SharedBudgetCoordinator: the page reads of   *)
(* all processes of an installation, each attempt charged to the shared    *)
(* budget before it leaves, retried with backoff, within the deadline and  *)
(* the cancellation of its caller.                                         *)
(*                                                                         *)
(* Deadlines follow the monotonic clock of the machine, windows its wall   *)
(* clock, which may be set forth and back.  The budget file is read and    *)
(* replaced under an interprocess lock, so charging is one action.         *)
(***************************************************************************)
EXTENDS RequestBudget

CONSTANTS
  Procs,        \* the processes; each makes one call at a time
  AxesOf,       \* the axes a process' requests are charged to
  MaxAttempts,  \* maximum_attempts
  Patience,     \* the time to its deadline that a caller may grant
  Delays,       \* the backoffs the jitter may choose
  MaxTime,      \* bound of the model: the monotonic clock
  MaxUnsynced,  \* bound of the model: files a power loss may bring back
  MaxFaults     \* bound of the model: settings of the wall clock and power losses

ASSUME ReadsAssumption ==
  /\ AxesOf \in [Procs -> (SUBSET Axes) \ {{}}]
  /\ MaxAttempts \in Nat \ {0} /\ MaxTime \in Nat /\ MaxUnsynced \in Nat /\ MaxFaults \in Nat
  /\ Patience \subseteq Nat \ {0} /\ Delays \subseteq Nat \ {0}

VARIABLES
  mono, wall,  \* the clocks
  forth,       \* how often the wall clock was set forth
  back,        \* how often it was set back
  losses,      \* power losses so far
  entries,     \* budgets.json, as every process sees it
  undurable,   \* what a power loss may put in its place
  calls,       \* [pc, attempt, deadline, wake] of each process, and the units it was
               \* granted and has not sent a request on (history)
  charged,     \* history: the units charged to an axis within its last period
  granted,     \* history: those of them whose charge was confirmed
  paid         \* history: the units granted since the axis' window opened

clocks == <<mono, wall, forth, back>>
history == <<charged, granted, paid>>
machine == <<clocks, losses>>
vars == <<machine, entries, undurable, calls, history>>

Points == {"idle", "acquiring", "granted", "flight", "backoff"}
Call == [pc: Points, attempt: 0..(MaxAttempts - 1), deadline: Nat, wake: Nat, unspent: Int]
NewCall == [pc |-> "idle", attempt |-> 0, deadline |-> 0, wake |-> 0, unspent |-> 0]

\* A unit is the instant it was charged at and its number among those of that instant.
Units == Nat \X Nat
ChargedAt(units, instant) == {u \in units : u[1] = instant}
Never == [a \in Axes |-> {}]

\* What the coordinator writes it reads back: no charge, whatever the clock does,
\* leaves an entry that makes every later acquisition fail.
TypeOK ==
  /\ mono \in 0..MaxTime /\ wall \in Nat
  /\ calls \in [Procs -> Call]
  /\ \A a \in Axes : entries[a] = NoEntry \/ Readable(a, entries[a])

Init ==
  /\ mono = 0 /\ wall = 0 /\ forth = 0 /\ back = 0 /\ losses = 0
  /\ entries = [a \in Axes |-> NoEntry] /\ undurable = {}
  /\ calls = [p \in Procs |-> NewCall]
  /\ charged = Never /\ granted = Never
  /\ paid = [a \in Axes |-> 0]

-----------------------------------------------------------------------------
(* Steps of a call. *)

At(p, pc) == calls[p].pc = pc
Remaining(p) == calls[p].deadline - mono
End(p) == calls' = [calls EXCEPT ![p] = NewCall]
Granted(p) == calls' = [calls EXCEPT ![p] = [@ EXCEPT !.pc = "granted", !.unspent = calls[p].unspent + 1]]
UnchangedBudget == UNCHANGED <<entries, undurable, charged, granted, paid>>

Start(p) ==
  /\ At(p, "idle") /\ UnchangedBudget /\ UNCHANGED machine
  /\ \E patience \in Patience :
       /\ mono + patience <= MaxTime
       /\ calls' = [calls EXCEPT ![p] = [NewCall EXCEPT !.pc = "acquiring",
                                                        !.deadline = mono + patience]]

\* A faulty check: a call waits for the budget without a deadline.
MayStopUntilFlight(p) == ~At(p, "acquiring") /\ Remaining(p) <= 0

\* The deadline has passed: before an attempt, in acquire, before the request leaves,
\* while it is out and during the backoff.
MayStop(p) == Remaining(p) <= 0

Stop(p) == ~At(p, "idle") /\ MayStop(p) /\ End(p) /\ UnchangedBudget /\ UNCHANGED machine

\* A cancellation, or the end of the process.  A call that is cancelled and has not
\* noticed can do less than one that is not, so noticing is the one step.
Cancel(p) == ~At(p, "idle") /\ End(p) /\ UnchangedBudget /\ UNCHANGED machine

\* acquire: the window is full for longer than the call may wait.
Refuse(p) ==
  /\ At(p, "acquiring") /\ Remaining(p) > 0
  /\ Exhausted(entries, AxesOf[p], wall) # {}
  /\ WaitFor(entries, AxesOf[p], wall) >= Remaining(p)
  /\ End(p) /\ UnchangedBudget /\ UNCHANGED machine

\* Units are counted from the opening of the window they were granted in.
Counted(p, units) ==
  [a \in Axes |-> LET fresh == EntryAt(entries, a, wall).used = 0 IN
                  IF a \notin AxesOf[p] THEN paid[a] ELSE IF fresh THEN units ELSE paid[a] + units]
NewUnit(units) == <<mono, Cardinality(ChargedAt(units, mono))>>
Logged(log, p) ==
  [a \in Axes |-> IF a \in AxesOf[p] THEN log[a] \cup {NewUnit(log[a])} ELSE log[a]]

\* The next instant sees the units that are less than a period old by then.
Aged(log) == [a \in Axes |-> {u \in log[a] : (mono + 1) - u[1] < Period[a]}]

\* A faulty answer to an unconfirmed replacement: it is taken for a charge.
ConfirmAnyway(p) ==
  /\ \/ undurable' = {}
     \/ Cardinality(undurable) < MaxUnsynced /\ undurable' = undurable \cup {entries}
  /\ granted' = Logged(granted, p) /\ paid' = Counted(p, 1) /\ Granted(p)

\* Only a replacement known to be durable is a grant; otherwise the call ends without
\* a request and a power loss may bring the previous file back.
Confirm(p) ==
  \/ /\ undurable' = {} /\ granted' = Logged(granted, p) /\ paid' = Counted(p, 1)
     /\ Granted(p)
  \/ /\ Cardinality(undurable) < MaxUnsynced
     /\ undurable' = undurable \cup {entries} /\ paid' = Counted(p, 0)
     /\ End(p) /\ UNCHANGED granted

\* acquire: every axis of the request has a unit left.
Charge(p) ==
  /\ At(p, "acquiring") /\ Remaining(p) > 0
  /\ Exhausted(entries, AxesOf[p], wall) = {}
  /\ entries' = Charged(entries, AxesOf[p], wall) /\ charged' = Logged(charged, p)
  /\ Confirm(p) /\ UNCHANGED machine

\* acquire: the lock, the read or the write before the replacement fails.
FailToCharge(p) ==
  /\ At(p, "acquiring") /\ End(p)
  /\ UnchangedBudget /\ UNCHANGED machine

Dispatch(p) ==
  /\ At(p, "granted") /\ Remaining(p) > 0
  /\ calls' = [calls EXCEPT ![p] = [@ EXCEPT !.pc = "flight", !.unspent = calls[p].unspent - 1]]
  /\ UnchangedBudget /\ UNCHANGED machine

\* A transient failure is retried unless the attempts or the time run out.
Retry(p) ==
  IF calls[p].attempt + 1 >= MaxAttempts THEN End(p)
  ELSE \E delay \in Delays :
    IF delay >= Remaining(p) THEN End(p)
    ELSE calls' = [calls EXCEPT ![p] = [@ EXCEPT !.pc = "backoff", !.wake = mono + delay]]

Answer(p) ==
  /\ At(p, "flight") /\ UnchangedBudget /\ UNCHANGED machine
  /\ End(p) \/ Retry(p)

\* A faulty retry: it goes out on the charge of the attempt before.
ResumeUncharged(p) ==
  /\ At(p, "backoff") /\ mono >= calls[p].wake /\ Remaining(p) > 0
  /\ calls' = [calls EXCEPT ![p] = [@ EXCEPT !.pc = "granted", !.attempt = calls[p].attempt + 1,
                                            !.wake = 0]]
  /\ UnchangedBudget /\ UNCHANGED machine

\* The backoff is over: the next attempt is charged like the first.
Resume(p) ==
  /\ At(p, "backoff") /\ mono >= calls[p].wake /\ Remaining(p) > 0
  /\ calls' = [calls EXCEPT ![p] = [@ EXCEPT !.pc = "acquiring", !.attempt = calls[p].attempt + 1,
                                            !.wake = 0]]
  /\ UnchangedBudget /\ UNCHANGED machine

-----------------------------------------------------------------------------
(* The machine. *)

Tick ==
  /\ mono < MaxTime /\ mono' = mono + 1 /\ wall' = wall + 1
  /\ charged' = Aged(charged) /\ granted' = Aged(granted)
  /\ UNCHANGED <<forth, back, losses, entries, undurable, calls, paid>>

SetClock ==
  /\ forth + back + losses < MaxFaults /\ UNCHANGED <<mono, losses>>
  /\ \E now \in 0..MaxTime :
       \/ now > wall /\ wall' = now /\ forth' = forth + 1 /\ UNCHANGED back
       \/ now < wall /\ wall' = now /\ back' = back + 1 /\ UNCHANGED forth
  /\ UnchangedBudget /\ UNCHANGED calls

\* Replacements whose directory entry was not synchronized may be gone, and every
\* process is.
PowerLoss ==
  /\ forth + back + losses < MaxFaults /\ losses' = losses + 1
  /\ entries' \in undurable /\ undurable' = {}
  /\ calls' = [p \in Procs |-> NewCall]
  /\ UNCHANGED <<clocks, history>>

Proceed(p) == Stop(p) \/ Refuse(p) \/ Charge(p) \/ Dispatch(p) \/ Resume(p)

Next ==
  \/ \E p \in Procs : Proceed(p) \/ Start(p) \/ FailToCharge(p) \/ Answer(p) \/ Cancel(p)
  \/ Tick \/ SetClock \/ PowerLoss

Spec == Init /\ [][Next]_vars

\* Time passes, and the event loop of a process runs what is due.  The provider, the
\* caller and the storage owe nothing.
FairSpec == Spec /\ WF_vars(Tick) /\ \A p \in Procs : WF_vars(Proceed(p))

-----------------------------------------------------------------------------
(* Properties. *)

LastPeriod(log, a) == Cardinality(log[a])

\* Over any stretch of true time as long as the period, an axis grants fewer requests
\* than two full windows hold, or one window more for each time the wall clock was set
\* forth, however many processes ask and however often the clock is set back.
RateBound == \A a \in Axes : LastPeriod(granted, a) < (2 + forth) * Capacity[a]

\* No request leaves without a charge of its own, and a charge that let a request
\* leave is still on disk after a power loss.
EveryRequestIsPaid ==
  /\ \A p \in Procs : calls[p].unspent >= 0
  /\ \A a \in Axes : paid[a] > 0 => paid[a] <= entries[a].used

\* While nobody sets the wall clock, a call is turned away only when an axis of its
\* own has really been charged to its capacity within the last period.
RefusedOnlyWhenSpent ==
  [][\A p \in Procs :
       Refuse(p) /\ forth + back = 0 =>
         \E a \in AxesOf[p] : LastPeriod(charged, a) >= Capacity[a]]_vars

\* Every call ends, whatever the provider, the other processes and the clock do.
EveryCallEnds == \A p \in Procs : ~At(p, "idle") ~> At(p, "idle")
=============================================================================
