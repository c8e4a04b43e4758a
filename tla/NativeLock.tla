----------------------------- MODULE NativeLock -----------------------------
(***************************************************************************)
(* NativePlanInterprocessLock: one instance per process, shared by its     *)
(* threads.  Acquisition has two stages: a thread first reserves the       *)
(* instance under a condition variable and then polls the kernel's lock    *)
(* on the file; one deadline covers both.                                  *)
(*                                                                         *)
(* The deadline is open: whoever still meets contention may give up.       *)
(***************************************************************************)
CONSTANTS
  Threads,       \* of all processes
  NoThread,      \* a model value
  ProcessOf      \* the process of each thread

Processes == {ProcessOf[t] : t \in Threads}

ASSUME LockAssumption ==
  /\ NoThread \notin Threads
  /\ ProcessOf \in [Threads -> Processes]

VARIABLES
  owner,    \* per process, the thread that has reserved the instance
  holder,   \* the thread whose handle holds the lock on the file
  stage     \* per thread, where it is

lockVars == <<owner, holder, stage>>

\* "waiting" for the reservation, "polling" the file, "in" the protected part,
\* "leaving" between the two halves of __exit__.
Stages == {"out", "waiting", "polling", "in", "leaving"}

LockTypeOK ==
  /\ owner \in [Processes -> Threads \cup {NoThread}]
  /\ holder \in Threads \cup {NoThread}
  /\ stage \in [Threads -> Stages]

LockInit ==
  /\ owner = [p \in Processes |-> NoThread]
  /\ holder = NoThread
  /\ stage = [t \in Threads |-> "out"]

Goes(t, s) == stage' = [stage EXCEPT ![t] = s]

OwnerOf(t) == owner[ProcessOf[t]]
SetOwner(t, o) == owner' = [owner EXCEPT ![ProcessOf[t]] = o]

-----------------------------------------------------------------------------
(* __enter__. *)

\* A faulty wait: nobody wakes the waiting threads.
ReserveOnce(t) ==
  /\ stage[t] = "out"
  /\ UNCHANGED holder
  /\ IF OwnerOf(t) = NoThread
       THEN SetOwner(t, t) /\ Goes(t, "polling")
       ELSE Goes(t, "waiting") /\ UNCHANGED owner

\* _reserve_thread_ownership: at once, or after a wait for the owner.
Reserve(t) ==
  /\ stage[t] \in {"out", "waiting"}
  /\ UNCHANGED holder
  /\ IF OwnerOf(t) = NoThread
       THEN SetOwner(t, t) /\ Goes(t, "polling")
       ELSE stage[t] = "out" /\ Goes(t, "waiting") /\ UNCHANGED owner

\* The deadline passes in the first stage: nothing was reserved.
GiveUpWaiting(t) ==
  /\ stage[t] = "waiting" /\ OwnerOf(t) # NoThread
  /\ Goes(t, "out")
  /\ UNCHANGED <<owner, holder>>

\* A faulty attempt: the file is not locked exclusively.
EnterAnyway(t) ==
  /\ stage[t] = "polling"
  /\ holder' = t /\ Goes(t, "in")
  /\ UNCHANGED owner

\* _try_lock succeeds.
Enter(t) ==
  /\ stage[t] = "polling" /\ holder = NoThread
  /\ holder' = t /\ Goes(t, "in")
  /\ UNCHANGED owner

\* A faulty failure path: the reservation is kept.
AbandonHandle(t) ==
  /\ stage[t] = "polling" /\ Goes(t, "out")
  /\ UNCHANGED <<owner, holder>>

\* The handle is closed and the reservation given back, whatever is raised.
Abandon(t) ==
  /\ stage[t] = "polling"
  /\ SetOwner(t, NoThread) /\ Goes(t, "out")
  /\ UNCHANGED holder

\* The deadline passes in the second stage.
GiveUpPolling(t) == holder # NoThread /\ Abandon(t)

-----------------------------------------------------------------------------
(* __exit__, and death. *)

\* The file is unlocked and its handle closed ...
Unlock(t) ==
  /\ stage[t] = "in"
  /\ holder' = NoThread /\ Goes(t, "leaving")
  /\ UNCHANGED owner

\* ... and then the waiting threads are told.
Leave(t) ==
  /\ stage[t] = "leaving"
  /\ SetOwner(t, NoThread) /\ Goes(t, "out")
  /\ UNCHANGED holder

\* A process dies with its threads; the kernel closes its handles.
Dies(p) ==
  /\ owner' = [owner EXCEPT ![p] = NoThread]
  /\ holder' = IF holder # NoThread /\ ProcessOf[holder] = p THEN NoThread ELSE holder
  /\ stage' = [t \in Threads |-> IF ProcessOf[t] = p THEN "out" ELSE stage[t]]

-----------------------------------------------------------------------------

\* Nobody waits for nothing: whoever has reserved an instance is on its way through
\* it, and whoever holds the file is in the protected part, so that a deadline can
\* only pass because of a live competitor, never because an earlier caller that
\* timed out, failed or died has left its reservation or its lock behind.
NoStrandedLock ==
  /\ \A p \in Processes : owner[p] # NoThread =>
       ProcessOf[owner[p]] = p /\ stage[owner[p]] \in {"polling", "in", "leaving"}
  /\ \A t \in Threads : stage[t] \in {"polling", "in", "leaving"} => OwnerOf(t) = t
  /\ holder # NoThread => stage[holder] = "in"
  /\ \A t \in Threads : stage[t] = "in" => holder = t
=============================================================================
