-------------------------- MODULE InstallationTrust --------------------------
(***************************************************************************)
(* The key that authenticates everything an installation stores: a record  *)
(* in a file names a key in the native keyring and commits to it.          *)
(*                                                                         *)
(* TrustInitializationOperations.initialize runs under the workflow lock   *)
(* (NativeLock) and moves the record from "prepared" over "intent" to      *)
(* "active", creating the key behind the intent.  Each call of the         *)
(* repository or of the keyring is one step: both have locks of their own. *)
(* Between steps, processes die, calls fail (after their effect or before  *)
(* it), the keyring loses an entry or has it replaced, and other processes *)
(* load the trust they find without asking for the workflow lock.          *)
(***************************************************************************)
EXTENDS NativeLock, Naturals, FiniteSets

CONSTANTS
  Candidates,    \* what material() may draw: an identity, a reference and a key;
                 \* numbered, because which one a draw yields makes no difference
  NoCandidate,   \* a model value
  MaxFaults      \* bound of the model: failed calls, deaths, losses of the keyring

ASSUME TrustAssumption ==
  Candidates \subseteq Nat /\ NoCandidate \notin Candidates /\ MaxFaults \in Nat

VARIABLES
  record,     \* the file: a phase and the candidate it names
  keys,       \* the keyring: what is stored under the reference of each candidate
  drawn,      \* candidates generated so far: random, never drawn twice
  at,         \* per thread, the next call of its attempt
  held,       \* per thread, the copy of the record it works with
  outcome,    \* per thread, how its last attempt ended
  loading,    \* candidates some process has read as active and may look up
  trusted,    \* history: candidates whose key some process has loaded
  excused,    \* history: threads whose attempt met a fault
  tampered,   \* candidates whose entry the keyring has lost or had replaced
  faults

trustVars == <<record, keys, drawn, at, held, outcome, loading, trusted,
               excused, tampered, faults>>
vars == <<lockVars, trustVars>>

Record(phase, c) == [phase |-> phase, cand |-> c]
NoRecord == Record("none", NoCandidate)
Phases == {"none", "prepared", "intent", "active"}
Records == [phase: Phases, cand: Candidates \cup {NoCandidate}]

Points == {"out", "load", "create", "get", "restart", "intent", "store", "verify",
           "activate", "check", "done"}
Outcomes == {"none", "failed", "initialized", "already"}

TypeOK ==
  /\ LockTypeOK
  /\ record \in Records /\ (record.phase = "none" <=> record.cand = NoCandidate)
  /\ keys \in [Candidates -> {"missing", "own", "foreign"}]
  /\ at \in [Threads -> Points] /\ held \in [Threads -> Records]
  /\ \A t \in Threads : at[t] # "out" <=> stage[t] = "in"
  /\ outcome \in [Threads -> Outcomes]
  /\ drawn \subseteq Candidates /\ tampered \subseteq drawn
  /\ loading \subseteq drawn /\ trusted \subseteq loading
  /\ excused \subseteq Threads /\ faults \in 0..MaxFaults

Init ==
  /\ LockInit
  /\ record = NoRecord /\ keys = [c \in Candidates |-> "missing"] /\ drawn = {}
  /\ at = [t \in Threads |-> "out"] /\ held = [t \in Threads |-> NoRecord]
  /\ outcome = [t \in Threads |-> "none"]
  /\ loading = {} /\ trusted = {} /\ excused = {} /\ tampered = {} /\ faults = 0

-----------------------------------------------------------------------------
(* How a step of an attempt goes on. *)

Proceed(t, point, copy) ==
  /\ at' = [at EXCEPT ![t] = point] /\ held' = [held EXCEPT ![t] = copy]
  /\ UNCHANGED <<outcome, excused, faults>>

\* An attempt ends; a keyring that was tampered with excuses it.
Ends(t, result) ==
  /\ at' = [at EXCEPT ![t] = "done"] /\ held' = [held EXCEPT ![t] = NoRecord]
  /\ outcome' = [outcome EXCEPT ![t] = result]
  /\ excused' = excused \cup {u \in {t} : record.cand \in tampered}
  /\ UNCHANGED faults

\* A call fails, which ends the attempt: the repository raises, the keyring answers
\* with another status.
Breaks(t) ==
  /\ faults < MaxFaults /\ faults' = faults + 1
  /\ at' = [at EXCEPT ![t] = "done"] /\ held' = [held EXCEPT ![t] = NoRecord]
  /\ outcome' = [outcome EXCEPT ![t] = "failed"]
  /\ excused' = excused \cup {t}

OthersStay == UNCHANGED <<lockVars, loading, trusted, tampered>>
Reads == UNCHANGED <<record, keys, drawn>> /\ OthersStay

\* _write_unlocked replaces the file and then syncs its directory: a write that
\* raises may be in force.
Write(t, new, point) ==
  /\ \/ record' = new /\ Proceed(t, point, new)
     \/ record' \in {record, new} /\ Breaks(t)
  /\ UNCHANGED keys /\ OthersStay

\* What the keyring answers for the copy the thread works with.
Answers(t) == keys[held[t].cand]

-----------------------------------------------------------------------------
(* The steps of initialize. *)

Begin(t) ==
  /\ Enter(t)
  /\ at' = [at EXCEPT ![t] = "load"]
  /\ excused' = excused \ {t} /\ outcome' = [outcome EXCEPT ![t] = "none"]
  /\ UNCHANGED <<record, keys, drawn, held, loading, trusted, tampered, faults>>

Load(t) ==
  /\ at[t] = "load" /\ Reads
  /\ \/ Breaks(t)
     \/ Proceed(t, CASE record.phase = "none"   -> "create"
                     [] record.phase = "active" -> "check"
                     [] OTHER                   -> "get", record)

\* A faulty check: an active key that is gone is recreated.
CheckAndRecreate(t) ==
  /\ at[t] = "check" /\ Reads
  /\ IF Answers(t) = "own" THEN Ends(t, "already") ELSE Proceed(t, "restart", held[t])

\* The loader itself, on behalf of the attempt.
Check(t) ==
  /\ at[t] = "check" /\ Reads
  /\ \/ Breaks(t)
     \/ Ends(t, IF Answers(t) = "own" THEN "already" ELSE "failed")

\* The material of a new candidate: the first one nobody has drawn.
Fresh == {c \in Candidates \ drawn : \A d \in Candidates \ drawn : c <= d}

Create(t) ==
  /\ at[t] = "create"
  /\ \E c \in Fresh :
       /\ drawn' = drawn \cup {c}
       /\ IF record.phase = "none"
            THEN Write(t, Record("prepared", c), "intent")
            ELSE UNCHANGED <<record, keys>> /\ OthersStay /\ Ends(t, "failed")

\* _resume_create_intent and _resume_prepared: a key that is there counts only behind
\* the intent, and only if the record commits to it.
Committed(t) == Answers(t) = "own" /\ held[t].phase = "intent"

\* A faulty recovery: every answer that is not the key counts as its absence.
GetOrRestart(t) ==
  /\ at[t] = "get" /\ Reads
  /\ \/ Proceed(t, "restart", held[t])
     \/ Committed(t) /\ Proceed(t, "activate", held[t])

Get(t) ==
  /\ at[t] = "get" /\ Reads
  /\ \/ Breaks(t)
     \/ CASE Answers(t) = "missing" -> Proceed(t, "restart", held[t])
          [] Committed(t)            -> Proceed(t, "activate", held[t])
          [] OTHER                   -> Ends(t, "failed")

\* _restart_incomplete: the incomplete candidate is given up for a fresh one.
Restart(t) ==
  /\ at[t] = "restart"
  /\ \E c \in Fresh :
       /\ drawn' = drawn \cup {c}
       /\ IF record = held[t]
            THEN Write(t, Record("prepared", c), "intent")
            ELSE UNCHANGED <<record, keys>> /\ OthersStay /\ Ends(t, "failed")

\* The repository's transition: of the expected phase and the same identity only.
Transition(t, from, to, point) ==
  /\ UNCHANGED drawn
  /\ IF record = Record(from, held[t].cand)
       THEN Write(t, Record(to, held[t].cand), point)
       ELSE UNCHANGED <<record, keys>> /\ OthersStay /\ Ends(t, "failed")

DeclareIntent(t) == at[t] = "intent" /\ Transition(t, "prepared", "intent", "store")

\* NativeSecretStore.create never replaces, and reads back what it has written: an
\* entry may be there although another status is answered.
StoreKey(t) ==
  /\ at[t] = "store"
  /\ UNCHANGED <<record, drawn>> /\ OthersStay
  /\ IF Answers(t) # "missing"
       THEN UNCHANGED keys /\ Ends(t, "failed")
       ELSE \/ keys' = [keys EXCEPT ![held[t].cand] = "own"] /\ Proceed(t, "verify", held[t])
            \/ /\ Breaks(t)
               /\ \E k \in {"missing", "own"} : keys' = [keys EXCEPT ![held[t].cand] = k]

Verify(t) ==
  /\ at[t] = "verify" /\ Reads
  /\ \/ Breaks(t)
     \/ Answers(t) = "own" /\ Proceed(t, "activate", held[t])
     \/ Answers(t) # "own" /\ Ends(t, "failed")

Activate(t) ==
  /\ at[t] = "activate" /\ UNCHANGED drawn
  /\ IF record # Record("intent", held[t].cand)
       THEN UNCHANGED <<record, keys>> /\ OthersStay /\ Ends(t, "failed")
       ELSE /\ UNCHANGED keys /\ OthersStay
            /\ \/ record' = Record("active", held[t].cand) /\ Ends(t, "initialized")
               \/ record' \in {record, Record("active", held[t].cand)} /\ Breaks(t)

Return(t) ==
  /\ at[t] = "done" /\ Unlock(t)
  /\ at' = [at EXCEPT ![t] = "out"]
  /\ UNCHANGED <<record, keys, drawn, held, outcome, loading, trusted, excused,
                 tampered, faults>>

Work(t) ==
  Load(t) \/ Check(t) \/ Create(t) \/ Get(t) \/ Restart(t) \/ DeclareIntent(t)
  \/ StoreKey(t) \/ Verify(t) \/ Activate(t) \/ Return(t)

-----------------------------------------------------------------------------
(* The lock around it, the other processes, and what goes wrong. *)

Queue(t) ==
  /\ (Reserve(t) \/ GiveUpWaiting(t) \/ GiveUpPolling(t) \/ Leave(t))
  /\ UNCHANGED trustVars

\* The lock file cannot be opened.
LockFails(t) ==
  /\ faults < MaxFaults /\ faults' = faults + 1 /\ Abandon(t)
  /\ UNCHANGED <<record, keys, drawn, at, held, outcome, loading, trusted,
                 excused, tampered>>

Dead(t, p) == ProcessOf[t] = p
Die(p) ==
  /\ faults < MaxFaults /\ faults' = faults + 1
  /\ \E t \in Threads : Dead(t, p) /\ stage[t] # "out"
  /\ Dies(p)
  /\ at' = [t \in Threads |-> IF Dead(t, p) THEN "out" ELSE at[t]]
  /\ held' = [t \in Threads |-> IF Dead(t, p) THEN NoRecord ELSE held[t]]
  /\ outcome' = [t \in Threads |-> IF Dead(t, p) THEN "none" ELSE outcome[t]]
  /\ UNCHANGED <<record, keys, drawn, loading, trusted, excused, tampered>>

\* InstallationTrustLoader.load, in any process: the record and then the keyring.
ReadActive ==
  /\ record.phase = "active" /\ loading' = loading \cup {record.cand}
  /\ UNCHANGED <<lockVars, record, keys, drawn, at, held, outcome, trusted, excused,
                 tampered, faults>>

LookUp(c) ==
  /\ c \in loading /\ keys[c] = "own" /\ trusted' = trusted \cup {c}
  /\ UNCHANGED <<lockVars, record, keys, drawn, at, held, outcome, loading, excused,
                 tampered, faults>>

\* Somebody else removes or replaces an entry of the keyring.
Tamper(c) ==
  /\ keys[c] # "missing" /\ faults < MaxFaults /\ faults' = faults + 1
  /\ \E k \in {"missing", "foreign"} : keys' = [keys EXCEPT ![c] = k]
  /\ tampered' = tampered \cup {c}
  /\ UNCHANGED <<lockVars, record, drawn, at, held, outcome, loading, trusted, excused>>

Next ==
  \/ \E t \in Threads : Begin(t) \/ Work(t) \/ Queue(t) \/ LockFails(t)
  \/ \E p \in Processes : Die(p)
  \/ ReadActive
  \/ \E c \in Candidates : LookUp(c) \/ Tamper(c)

Spec == Init /\ [][Next]_vars

\* The code of an attempt runs; nobody has to begin one.
Moves(t) == Begin(t) \/ Work(t) \/ (stage[t] # "out" /\ Queue(t))
FairSpec == Spec /\ \A t \in Threads : WF_vars(Moves(t))

-----------------------------------------------------------------------------
(* Properties. *)

\* The keyring holds no key the record does not name: whatever attempts died, failed
\* or competed, a candidate is given up only when its key does not exist, and a key is
\* created only behind the intent that names it.
NoOrphanedKey ==
  \A c \in Candidates : keys[c] # "missing" =>
    record.cand = c /\ record.phase \in {"intent", "active"}

\* One installation, one authority: no two processes ever work with different keys,
\* whatever was lost or replaced in between; an active record is never given up.
OneAuthority ==
  /\ Cardinality(trusted) <= 1
  /\ trusted # {} => record.phase = "active" /\ record.cand \in trusted

\* An attempt that met no fault and no tampered entry ends with the authority in
\* force, from every state that earlier attempts may have left; and one that says so
\* is right.
UndisturbedSucceeds ==
  \A t \in Threads :
    /\ outcome[t] = "failed" => t \in excused
    /\ outcome[t] \in {"initialized", "already"} => record.phase = "active"

\* Every attempt comes to its end or gives up, however long others hold the lock.
EveryAttemptEnds == \A t \in Threads : stage[t] # "out" ~> stage[t] = "out"
=============================================================================
