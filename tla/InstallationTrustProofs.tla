----------------------- MODULE InstallationTrustProofs -----------------------
(***************************************************************************)
(* Theorems of InstallationTrust, for any threads, processes, candidates   *)
(* and number of faults.                                                   *)
(***************************************************************************)
EXTENDS InstallationTrust, FiniteSetTheorems, TLAPS

-----------------------------------------------------------------------------
(* The lock by itself. *)

LockInv == LockTypeOK /\ NoStrandedLock

LEMMA LockStarts == LockInit => LockInv
BY LockAssumption DEF LockInit, LockInv, LockTypeOK, NoStrandedLock, Stages, OwnerOf

LEMMA ProcessesOfThreads == \A t \in Threads : ProcessOf[t] \in Processes
BY DEF Processes

\* Every step of a thread keeps the lock in order, and so does the death of a process.
LEMMA LockSteps ==
  ASSUME LockInv, NEW t \in Threads
  PROVE  /\ Reserve(t) \/ GiveUpWaiting(t) \/ Abandon(t) => LockInv'
         /\ Enter(t) \/ Unlock(t) \/ Leave(t) => LockInv'
<1> USE LockAssumption, ProcessesOfThreads
    DEF LockInv, LockTypeOK, NoStrandedLock, OwnerOf, SetOwner, Goes, Stages
<1>1. Reserve(t) => LockInv'
  BY DEF Reserve
<1>2. GiveUpWaiting(t) => LockInv'
  BY DEF GiveUpWaiting
<1>3. Abandon(t) => LockInv'
  BY DEF Abandon
<1>4. Enter(t) => LockInv'
  BY DEF Enter
<1>5. Unlock(t) => LockInv'
  BY DEF Unlock
<1>6. Leave(t) => LockInv'
  BY DEF Leave
<1> QED BY <1>1, <1>2, <1>3, <1>4, <1>5, <1>6

LEMMA LockSurvives ==
  ASSUME LockInv, NEW p \in Processes, Dies(p)
  PROVE  LockInv'
BY LockAssumption, ProcessesOfThreads
   DEF LockInv, LockTypeOK, NoStrandedLock, OwnerOf, Stages, Dies

-----------------------------------------------------------------------------
(* The inductive invariant. *)

\* The key of the record is there unless somebody has taken it away.
Backed == keys[record.cand] = "own" \/ record.cand \in tampered

\* What an attempt knows at each of its points.
Knows(t) ==
  /\ at[t] = "create" => record.phase = "none"
  /\ at[t] \in {"get", "restart", "check", "intent", "store", "verify", "activate"} =>
       record = held[t]
  /\ at[t] \in {"get", "restart"} => record.phase \in {"prepared", "intent"}
  /\ at[t] \in {"restart", "store"} => keys[record.cand] = "missing"
  /\ at[t] = "check" => record.phase = "active"
  /\ at[t] = "intent" => record.phase = "prepared"
  /\ at[t] \in {"store", "verify", "activate"} => record.phase = "intent"
  /\ at[t] \in {"verify", "activate"} => Backed

\* What file, keyring and loaders have to do with each other.
Consistent ==
  /\ NoOrphanedKey
  /\ record.phase = "active" => Backed
  /\ record.cand # NoCandidate => record.cand \in drawn
  /\ \A c \in Candidates : keys[c] = "foreign" => c \in tampered
  /\ loading # {} => record.phase = "active" /\ loading = {record.cand}

IInv ==
  /\ TypeOK /\ NoStrandedLock /\ Consistent /\ UndisturbedSucceeds
  /\ \A t \in Threads : Knows(t)

LEMMA InitInv == Init => IInv
<1> SUFFICES ASSUME Init PROVE IInv
  OBVIOUS
<1>1. LockInv
  BY LockStarts DEF Init
<1>2. TypeOK /\ Consistent /\ UndisturbedSucceeds
  BY <1>1, TrustAssumption
     DEF Init, LockInit, LockInv, TypeOK, Consistent, UndisturbedSucceeds, NoOrphanedKey,
         NoRecord, Record, Records, Phases, Points, Outcomes
<1>3. \A t \in Threads : Knows(t)
  BY DEF Init, Knows
<1> QED BY <1>1, <1>2, <1>3 DEF IInv, LockInv

\* The workflow lock: while one attempt is at work, no other is.
LEMMA Alone ==
  ASSUME IInv, NEW t \in Threads, at[t] # "out", NEW u \in Threads, u # t
  PROVE  at[u] = "out"
BY DEF IInv, TypeOK, LockTypeOK, NoStrandedLock

-----------------------------------------------------------------------------
(* The steps of an attempt.  Outside the lock nothing else changes. *)

\* A step of t at work, which ends in a state where t is still inside.
StepOf(t) ==
  /\ UNCHANGED lockVars
  /\ \E point \in Points \ {"out"}, copy \in Records :
       at' = [at EXCEPT ![t] = point] /\ held' = [held EXCEPT ![t] = copy]

\* It is enough to look at the record, the keyring and the thread itself.
LEMMA StepIsEnough ==
  ASSUME IInv, NEW t \in Threads, at[t] # "out", StepOf(t),
         Consistent', Knows(t)', UndisturbedSucceeds',
         record' \in Records, record'.phase = "none" <=> record'.cand = NoCandidate,
         keys' \in [Candidates -> {"missing", "own", "foreign"}],
         drawn' \subseteq Candidates, drawn \subseteq drawn', tampered' = tampered,
         loading' = loading, trusted' = trusted, excused' \subseteq Threads,
         faults' \in 0..MaxFaults, outcome' \in [Threads -> Outcomes]
  PROVE  IInv'
<1>1. LockTypeOK' /\ NoStrandedLock'
  BY DEF IInv, TypeOK, StepOf, lockVars, LockTypeOK, NoStrandedLock, OwnerOf
<1>2. TypeOK'
  BY <1>1 DEF IInv, TypeOK, StepOf, lockVars
<1>3. ASSUME NEW u \in Threads PROVE Knows(u)'
  <2>1. CASE u = t
    BY <2>1
  <2>2. CASE u # t
    <3>1. at[u] = "out"
      BY <2>2, Alone
    <3>2. at'[u] = "out"
      BY <2>2, <3>1 DEF StepOf, IInv, TypeOK
    <3> QED BY <3>2 DEF Knows
  <2> QED BY <2>1, <2>2
<1> QED BY <1>1, <1>2, <1>3 DEF IInv

\* How the ways to end a step look to StepIsEnough.
LEMMA WaysOn ==
  ASSUME IInv, NEW t \in Threads
  PROVE  /\ \A point \in Points \ {"out"}, copy \in Records :
              Proceed(t, point, copy) /\ UNCHANGED lockVars =>
                /\ StepOf(t) /\ outcome' = outcome /\ excused' = excused /\ faults' = faults
                /\ at'[t] = point /\ held'[t] = copy
         /\ \A result \in Outcomes : Ends(t, result) /\ UNCHANGED lockVars =>
                /\ StepOf(t) /\ faults' = faults /\ at'[t] = "done"
                /\ outcome' = [outcome EXCEPT ![t] = result]
                /\ excused' \subseteq Threads /\ excused \subseteq excused'
                /\ record.cand \in tampered => t \in excused'
         /\ Breaks(t) /\ UNCHANGED lockVars =>
                /\ StepOf(t) /\ faults' \in 0..MaxFaults /\ at'[t] = "done"
                /\ outcome' = [outcome EXCEPT ![t] = "failed"]
                /\ excused' = excused \cup {t}
<1> USE TrustAssumption
<1>1. NoRecord \in Records
  BY DEF NoRecord, Record, Records, Phases
<1>2. ASSUME NEW point \in Points \ {"out"}, NEW copy \in Records,
             Proceed(t, point, copy), UNCHANGED lockVars
      PROVE  /\ StepOf(t) /\ outcome' = outcome /\ excused' = excused /\ faults' = faults
             /\ at'[t] = point /\ held'[t] = copy
  BY <1>2 DEF Proceed, StepOf, IInv, TypeOK
<1>3. ASSUME NEW result \in Outcomes, Ends(t, result), UNCHANGED lockVars
      PROVE  /\ StepOf(t) /\ faults' = faults /\ at'[t] = "done"
             /\ outcome' = [outcome EXCEPT ![t] = result]
             /\ excused' \subseteq Threads /\ excused \subseteq excused'
             /\ record.cand \in tampered => t \in excused'
  BY <1>1, <1>3 DEF Ends, StepOf, IInv, TypeOK, Points
<1>4. ASSUME Breaks(t), UNCHANGED lockVars
      PROVE  /\ StepOf(t) /\ faults' \in 0..MaxFaults /\ at'[t] = "done"
             /\ outcome' = [outcome EXCEPT ![t] = "failed"]
             /\ excused' = excused \cup {t}
  <2>1. faults \in 0..MaxFaults /\ at \in [Threads -> Points]
    BY DEF IInv, TypeOK
  <2>2. faults' \in 0..MaxFaults
    BY <1>4, <2>1 DEF Breaks
  <2>3. StepOf(t)
    BY <1>1, <1>4 DEF Breaks, StepOf, Points
  <2> QED BY <1>4, <2>1, <2>2, <2>3 DEF Breaks
<1> QED BY <1>2, <1>3, <1>4

\* A step that reads keeps the invariant if its thread knows what its point needs.
LEMMA ReadKeeps ==
  ASSUME IInv, NEW t \in Threads, at[t] # "out", Reads, StepOf(t), Knows(t)',
         outcome' \in [Threads -> Outcomes], excused' \subseteq Threads,
         excused \subseteq excused', faults' \in 0..MaxFaults,
         \A u \in Threads : u # t => outcome'[u] = outcome[u],
         \/ outcome'[t] = outcome[t]
         \/ outcome'[t] = "failed" /\ t \in excused'
         \/ outcome'[t] = "already" /\ record.phase = "active"
  PROVE  IInv'
<1>1. UndisturbedSucceeds'
  BY DEF IInv, UndisturbedSucceeds, Reads
<1>2. Consistent'
  BY DEF IInv, Consistent, NoOrphanedKey, Backed, Reads, OthersStay
<1>3. /\ record' = record /\ keys' = keys /\ drawn' = drawn
      /\ tampered' = tampered /\ loading' = loading /\ trusted' = trusted
  BY DEF Reads, OthersStay
<1>4. TypeOK
  BY DEF IInv
<1>5. /\ record' \in Records /\ (record'.phase = "none" <=> record'.cand = NoCandidate)
      /\ keys' \in [Candidates -> {"missing", "own", "foreign"}]
      /\ drawn' \subseteq Candidates /\ drawn \subseteq drawn'
  BY <1>3, <1>4 DEF TypeOK
<1> QED BY <1>1, <1>2, <1>3, <1>5, StepIsEnough

\* A read that fails, one that ends the attempt, and one that goes on.
LEMMA FailedReadKeeps ==
  ASSUME IInv, NEW t \in Threads, at[t] # "out", Reads, Breaks(t)
  PROVE  IInv'
<1>1. UNCHANGED lockVars
  BY DEF Reads, OthersStay
<1>2. StepOf(t) /\ faults' \in 0..MaxFaults /\ at'[t] = "done"
      /\ outcome' = [outcome EXCEPT ![t] = "failed"] /\ excused' = excused \cup {t}
  BY <1>1, WaysOn
<1>3. Knows(t)'
  BY <1>2 DEF Knows
<1>4. outcome \in [Threads -> Outcomes] /\ excused \subseteq Threads
  BY DEF IInv, TypeOK
<1>5. /\ outcome' \in [Threads -> Outcomes]
      /\ \A u \in Threads : u # t => outcome'[u] = outcome[u]
      /\ outcome'[t] = "failed" /\ t \in excused'
      /\ excused' \subseteq Threads /\ excused \subseteq excused'
  BY <1>2, <1>4 DEF Outcomes
<1> QED BY <1>2, <1>3, <1>5, ReadKeeps

LEMMA LastReadKeeps ==
  ASSUME IInv, NEW t \in Threads, at[t] # "out", Reads, NEW result \in Outcomes,
         Ends(t, result),
         \/ result = "failed" /\ record.cand \in tampered
         \/ result = "already" /\ record.phase = "active"
  PROVE  IInv'
<1>1. UNCHANGED lockVars
  BY DEF Reads, OthersStay
<1>2. StepOf(t) /\ faults' = faults /\ at'[t] = "done"
      /\ outcome' = [outcome EXCEPT ![t] = result]
      /\ excused' \subseteq Threads /\ excused \subseteq excused'
      /\ (record.cand \in tampered => t \in excused')
  BY <1>1, WaysOn
<1>3. Knows(t)'
  BY <1>2 DEF Knows
<1>4. outcome \in [Threads -> Outcomes] /\ faults \in 0..MaxFaults
  BY DEF IInv, TypeOK
<1>5. /\ outcome' \in [Threads -> Outcomes] /\ outcome'[t] = result
      /\ \A u \in Threads : u # t => outcome'[u] = outcome[u]
      /\ faults' \in 0..MaxFaults
  BY <1>2, <1>4
<1> QED BY <1>2, <1>3, <1>5, ReadKeeps

LEMMA NextReadKeeps ==
  ASSUME IInv, NEW t \in Threads, at[t] # "out", Reads,
         NEW point \in Points \ {"out"}, NEW copy \in Records, Proceed(t, point, copy),
         Knows(t)'
  PROVE  IInv'
<1>1. UNCHANGED lockVars
  BY DEF Reads, OthersStay
<1>2. StepOf(t) /\ outcome' = outcome /\ excused' = excused /\ faults' = faults
  BY <1>1, WaysOn
<1>3. outcome \in [Threads -> Outcomes] /\ excused \subseteq Threads /\ faults \in 0..MaxFaults
  BY DEF IInv, TypeOK
<1> QED BY <1>2, <1>3, ReadKeeps

\* What Proceed leaves in the thread's own variables.
LEMMA OwnVariables ==
  ASSUME IInv, NEW t \in Threads, NEW point, NEW copy, Proceed(t, point, copy)
  PROVE  at'[t] = point /\ held'[t] = copy
BY DEF IInv, TypeOK, Proceed

LEMMA LoadKeeps ==
  ASSUME IInv, NEW t \in Threads, Load(t)
  PROVE  IInv'
<1> DEFINE point == CASE record.phase = "none"   -> "create"
                      [] record.phase = "active" -> "check"
                      [] OTHER                   -> "get"
<1>1. at[t] # "out" /\ Reads /\ record \in Records
  BY DEF Load, IInv, TypeOK
<1>2. CASE Breaks(t)
  BY <1>1, <1>2, FailedReadKeeps
<1>3. CASE Proceed(t, point, record)
  <2>1. point \in Points \ {"out"}
    BY DEF Points
  <2>2. Knows(t)'
    BY <1>1, <1>3, OwnVariables DEF Knows, Reads, OthersStay, Records, Phases
  <2> QED BY <1>1, <1>3, <2>1, <2>2, NextReadKeeps
<1> QED BY <1>2, <1>3 DEF Load

LEMMA CheckKeeps ==
  ASSUME IInv, NEW t \in Threads, Check(t)
  PROVE  IInv'
<1>1. at[t] # "out" /\ Reads /\ record = held[t] /\ record.phase = "active" /\ Backed
  BY DEF Check, IInv, Knows, Consistent
<1>2. CASE Breaks(t)
  BY <1>1, <1>2, FailedReadKeeps
<1>3. CASE Ends(t, IF Answers(t) = "own" THEN "already" ELSE "failed")
  <2>1. CASE Answers(t) = "own"
    BY <1>1, <1>3, <2>1, LastReadKeeps DEF Outcomes
  <2>2. CASE Answers(t) # "own"
    <3>1. Ends(t, "failed") /\ record.cand \in tampered
      BY <1>1, <1>3, <2>2 DEF Backed, Answers
    <3> QED BY <1>1, <3>1, LastReadKeeps DEF Outcomes
  <2> QED BY <2>1, <2>2
<1> QED BY <1>2, <1>3 DEF Check

LEMMA GetKeeps ==
  ASSUME IInv, NEW t \in Threads, Get(t)
  PROVE  IInv'
<1>1. /\ at[t] # "out" /\ Reads /\ record = held[t] /\ held[t] \in Records
      /\ record.phase \in {"prepared", "intent"} /\ record.cand \in Candidates
      /\ Answers(t) = keys[record.cand]
  BY DEF Get, IInv, TypeOK, Knows, Records, Answers
<1>2. CASE Breaks(t)
  BY <1>1, <1>2, FailedReadKeeps
<1>3. CASE Answers(t) = "missing" /\ Proceed(t, "restart", held[t])
  <2>1. Knows(t)'
    BY <1>1, <1>3, OwnVariables DEF Knows, Reads, OthersStay
  <2> QED BY <1>1, <1>3, <2>1, NextReadKeeps DEF Points
<1>4. CASE Committed(t) /\ Proceed(t, "activate", held[t])
  <2>1. Knows(t)'
    BY <1>1, <1>4, OwnVariables DEF Knows, Reads, OthersStay, Committed, Backed
  <2> QED BY <1>1, <1>4, <2>1, NextReadKeeps DEF Points
<1>5. CASE Answers(t) # "missing" /\ ~Committed(t) /\ Ends(t, "failed")
  <2>1. keys[record.cand] = "foreign"
    BY <1>1, <1>5 DEF Committed, IInv, TypeOK, Consistent, NoOrphanedKey
  <2>2. record.cand \in tampered
    BY <1>1, <2>1 DEF IInv, Consistent
  <2> QED BY <1>1, <1>5, <2>2, LastReadKeeps DEF Outcomes
<1>6. Committed(t) => Answers(t) # "missing"
  BY DEF Committed
<1> QED BY <1>2, <1>3, <1>4, <1>5, <1>6 DEF Get

LEMMA VerifyKeeps ==
  ASSUME IInv, NEW t \in Threads, Verify(t)
  PROVE  IInv'
<1>1. /\ at[t] # "out" /\ Reads /\ record = held[t] /\ held[t] \in Records
      /\ record.phase = "intent" /\ Answers(t) = keys[record.cand] /\ Backed
  BY DEF Verify, IInv, TypeOK, Knows, Answers
<1>2. CASE Breaks(t)
  BY <1>1, <1>2, FailedReadKeeps
<1>3. CASE Answers(t) = "own" /\ Proceed(t, "activate", held[t])
  <2>1. Knows(t)'
    BY <1>1, <1>3, OwnVariables DEF Knows, Reads, OthersStay, Backed
  <2> QED BY <1>1, <1>3, <2>1, NextReadKeeps DEF Points
<1>4. CASE Answers(t) # "own" /\ Ends(t, "failed")
  BY <1>1, <1>4, LastReadKeeps DEF Backed, Outcomes
<1> QED BY <1>2, <1>3, <1>4 DEF Verify

\* A write of the record goes on, or raises: in force or not, the keyring is empty then.
LEMMA WriteKeeps ==
  ASSUME IInv, NEW t \in Threads, at[t] # "out", NEW c \in Candidates,
         NEW phase \in {"prepared", "intent"}, NEW point \in {"intent", "store"},
         point = "intent" <=> phase = "prepared",
         Write(t, Record(phase, c), point), record.phase # "active",
         \A k \in Candidates : keys[k] = "missing",
         drawn \subseteq drawn', drawn' \subseteq Candidates, c \in drawn'
  PROVE  IInv'
<1> DEFINE new == Record(phase, c)
<1>1. /\ keys' = keys /\ loading' = loading /\ trusted' = trusted /\ tampered' = tampered
      /\ UNCHANGED lockVars
  BY DEF Write, OthersStay
<1>2. /\ new \in Records /\ new.phase = phase /\ new.cand = c
      /\ new.phase # "none" /\ new.phase # "active"
  BY DEF Record, Records, Phases
<1>3. TypeOK /\ Consistent /\ UndisturbedSucceeds
  BY DEF IInv
<1>4. record' \in {record, new}
  BY DEF Write
<1>5. /\ record' \in Records /\ (record'.phase = "none" <=> record'.cand = NoCandidate)
      /\ keys' \in [Candidates -> {"missing", "own", "foreign"}]
  BY <1>1, <1>2, <1>3, <1>4, TrustAssumption DEF TypeOK
<1>6. Consistent'
  BY <1>1, <1>2, <1>3, <1>4 DEF Consistent, NoOrphanedKey
<1>7. \A u \in Threads : outcome[u] \notin {"initialized", "already"}
  BY <1>3 DEF UndisturbedSucceeds
<1>8. CASE record' = new /\ Proceed(t, point, new)
  <2>1. point \in Points \ {"out"}
    BY DEF Points
  <2>2. StepOf(t) /\ outcome' = outcome /\ excused' = excused /\ faults' = faults
        /\ at'[t] = point /\ held'[t] = new
    BY <1>1, <1>2, <1>8, <2>1, WaysOn
  <2>3. Knows(t)'
    BY <1>1, <1>2, <1>8, <2>2 DEF Knows
  <2>4. UndisturbedSucceeds'
    BY <1>3, <1>7, <2>2 DEF UndisturbedSucceeds
  <2>5. outcome' \in [Threads -> Outcomes] /\ excused' \subseteq Threads
        /\ faults' \in 0..MaxFaults
    BY <1>3, <2>2 DEF TypeOK
  <2> QED BY <1>1, <1>5, <1>6, <2>2, <2>3, <2>4, <2>5, StepIsEnough
<1>9. CASE Breaks(t)
  <2>1. StepOf(t) /\ faults' \in 0..MaxFaults /\ at'[t] = "done"
        /\ outcome' = [outcome EXCEPT ![t] = "failed"] /\ excused' = excused \cup {t}
    BY <1>1, <1>9, WaysOn
  <2>2. Knows(t)'
    BY <2>1 DEF Knows
  <2>3. outcome \in [Threads -> Outcomes] /\ excused \subseteq Threads
    BY <1>3 DEF TypeOK
  <2>4. outcome' \in [Threads -> Outcomes] /\ excused' \subseteq Threads
    BY <2>1, <2>3 DEF Outcomes
  <2>5. UndisturbedSucceeds'
    BY <1>3, <1>7, <2>1, <2>3 DEF UndisturbedSucceeds
  <2> QED BY <1>1, <1>5, <1>6, <2>1, <2>2, <2>4, <2>5, StepIsEnough
<1> QED BY <1>8, <1>9 DEF Write

\* Without a record, before its intent and after the loss of its key there are no keys.
LEMMA NoKeys ==
  ASSUME IInv, \/ record.phase \in {"none", "prepared"}
               \/ record.cand \in Candidates /\ keys[record.cand] = "missing"
  PROVE  \A k \in Candidates : keys[k] = "missing"
BY DEF IInv, Consistent, NoOrphanedKey

LEMMA CreateKeeps ==
  ASSUME IInv, NEW t \in Threads, Create(t)
  PROVE  IInv'
<1>1. at[t] = "create" /\ record.phase = "none" /\ drawn \subseteq Candidates
  BY DEF Create, IInv, TypeOK, Knows
<1>2. PICK c \in Candidates \ drawn :
        drawn' = drawn \cup {c} /\ Write(t, Record("prepared", c), "intent")
  BY <1>1 DEF Create, Fresh
<1> QED BY <1>1, <1>2, NoKeys, WriteKeeps

LEMMA RestartKeeps ==
  ASSUME IInv, NEW t \in Threads, Restart(t)
  PROVE  IInv'
<1>1. /\ at[t] = "restart" /\ record = held[t] /\ record.phase \in {"prepared", "intent"}
      /\ keys[record.cand] = "missing" /\ record.cand \in Candidates
      /\ drawn \subseteq Candidates
  BY DEF Restart, IInv, TypeOK, Knows, Records
<1>2. PICK c \in Candidates \ drawn :
        drawn' = drawn \cup {c} /\ Write(t, Record("prepared", c), "intent")
  BY <1>1 DEF Restart, Fresh
<1> QED BY <1>1, <1>2, NoKeys, WriteKeeps

LEMMA DeclareIntentKeeps ==
  ASSUME IInv, NEW t \in Threads, DeclareIntent(t)
  PROVE  IInv'
<1>1. /\ at[t] = "intent" /\ record = held[t] /\ record.phase = "prepared"
      /\ record \in Records /\ record.cand \in Candidates
      /\ drawn \subseteq Candidates /\ record.cand \in drawn
  BY TrustAssumption DEF DeclareIntent, IInv, TypeOK, Knows, Records, Consistent
<1>2. record = Record("prepared", held[t].cand)
  BY <1>1 DEF Record, Records
<1>3. drawn' = drawn /\ Write(t, Record("intent", record.cand), "store")
  BY <1>1, <1>2 DEF DeclareIntent, Transition
<1> QED BY <1>1, <1>3, NoKeys, WriteKeeps

LEMMA StoreKeyKeeps ==
  ASSUME IInv, NEW t \in Threads, StoreKey(t)
  PROVE  IInv'
<1> DEFINE c == record.cand
<1>1. /\ at[t] = "store" /\ record = held[t] /\ record.phase = "intent"
      /\ record \in Records /\ c \in Candidates /\ keys[c] = "missing"
      /\ c = held[t].cand
  BY DEF StoreKey, IInv, TypeOK, Knows, Records
<1>2. /\ record' = record /\ drawn' = drawn /\ loading' = loading /\ trusted' = trusted
      /\ tampered' = tampered /\ UNCHANGED lockVars
  BY DEF StoreKey, OthersStay
<1>3. TypeOK /\ Consistent /\ UndisturbedSucceeds
  BY DEF IInv
<1>4. ASSUME NEW k \in {"missing", "own"}, keys' = [keys EXCEPT ![c] = k]
      PROVE  /\ Consistent'
             /\ keys' \in [Candidates -> {"missing", "own", "foreign"}]
             /\ record' \in Records /\ (record'.phase = "none" <=> record'.cand = NoCandidate)
             /\ drawn' \subseteq Candidates /\ drawn \subseteq drawn'
  BY <1>1, <1>2, <1>3, <1>4 DEF TypeOK, Consistent, NoOrphanedKey
<1>5. CASE keys' = [keys EXCEPT ![c] = "own"] /\ Proceed(t, "verify", held[t])
  <2>1. StepOf(t) /\ outcome' = outcome /\ excused' = excused /\ faults' = faults
        /\ at'[t] = "verify" /\ held'[t] = record
    BY <1>1, <1>2, <1>5, WaysOn DEF Points
  <2>2. Knows(t)'
    BY <1>1, <1>2, <1>3, <1>5, <2>1 DEF Knows, Backed, TypeOK
  <2>3. UndisturbedSucceeds'
    BY <1>2, <1>3, <2>1 DEF UndisturbedSucceeds
  <2>4. outcome' \in [Threads -> Outcomes] /\ excused' \subseteq Threads
        /\ faults' \in 0..MaxFaults
    BY <1>3, <2>1 DEF TypeOK
  <2> QED BY <1>1, <1>2, <1>4, <1>5, <2>1, <2>2, <2>3, <2>4, StepIsEnough
<1>6. ASSUME NEW k \in {"missing", "own"}, keys' = [keys EXCEPT ![c] = k], Breaks(t)
      PROVE  IInv'
  <2>1. StepOf(t) /\ faults' \in 0..MaxFaults /\ at'[t] = "done"
        /\ outcome' = [outcome EXCEPT ![t] = "failed"] /\ excused' = excused \cup {t}
    BY <1>2, <1>6, WaysOn
  <2>2. Knows(t)'
    BY <2>1 DEF Knows
  <2>3. outcome \in [Threads -> Outcomes] /\ excused \subseteq Threads
    BY <1>3 DEF TypeOK
  <2>4. outcome' \in [Threads -> Outcomes] /\ excused' \subseteq Threads
    BY <2>1, <2>3 DEF Outcomes
  <2>5. UndisturbedSucceeds'
    BY <1>2, <1>3, <2>1, <2>3 DEF UndisturbedSucceeds
  <2> QED BY <1>1, <1>2, <1>4, <1>6, <2>1, <2>2, <2>4, <2>5, StepIsEnough
<1> QED BY <1>1, <1>5, <1>6 DEF StoreKey, Answers

LEMMA ActivateKeeps ==
  ASSUME IInv, NEW t \in Threads, Activate(t)
  PROVE  IInv'
<1> DEFINE new == Record("active", record.cand)
<1>1. /\ at[t] = "activate" /\ record = held[t] /\ record.phase = "intent"
      /\ record \in Records /\ record.cand \in Candidates /\ Backed
  BY DEF Activate, IInv, TypeOK, Knows, Records
<1>2. record = Record("intent", held[t].cand) /\ held[t].cand = record.cand
  BY <1>1 DEF Record, Records
<1>3. /\ keys' = keys /\ drawn' = drawn /\ loading' = loading /\ trusted' = trusted
      /\ tampered' = tampered /\ UNCHANGED lockVars
      /\ \/ record' = new /\ Ends(t, "initialized")
         \/ record' \in {record, new} /\ Breaks(t)
  BY <1>2 DEF Activate, OthersStay
<1>4. new \in Records /\ new.phase = "active" /\ new.cand = record.cand
  BY <1>1 DEF Record, Records, Phases
<1>5. TypeOK /\ Consistent /\ UndisturbedSucceeds
  BY DEF IInv
<1>6. loading = {} /\ \A u \in Threads : outcome[u] \notin {"initialized", "already"}
  BY <1>1, <1>5 DEF Consistent, UndisturbedSucceeds
<1>7. /\ Consistent'
      /\ record' \in Records /\ (record'.phase = "none" <=> record'.cand = NoCandidate)
  BY <1>1, <1>3, <1>4, <1>5, <1>6, TrustAssumption DEF TypeOK, Consistent, NoOrphanedKey, Backed
<1>8. outcome \in [Threads -> Outcomes] /\ excused \subseteq Threads
  BY <1>5 DEF TypeOK
<1>9. CASE record' = new /\ Ends(t, "initialized")
  <2>1. StepOf(t) /\ faults' = faults /\ at'[t] = "done"
        /\ outcome' = [outcome EXCEPT ![t] = "initialized"]
        /\ excused' \subseteq Threads /\ excused \subseteq excused'
    BY <1>3, <1>9, WaysOn DEF Outcomes
  <2>2. Knows(t)'
    BY <2>1 DEF Knows
  <2>3. UndisturbedSucceeds'
    BY <1>4, <1>5, <1>6, <1>8, <1>9, <2>1 DEF UndisturbedSucceeds
  <2>4. outcome' \in [Threads -> Outcomes] /\ faults' \in 0..MaxFaults
    BY <1>5, <1>8, <2>1 DEF TypeOK, Outcomes
  <2> QED BY <1>1, <1>3, <1>5, <1>7, <2>1, <2>2, <2>3, <2>4, StepIsEnough DEF TypeOK
<1>10. CASE record' \in {record, new} /\ Breaks(t)
  <2>1. StepOf(t) /\ faults' \in 0..MaxFaults /\ at'[t] = "done"
        /\ outcome' = [outcome EXCEPT ![t] = "failed"] /\ excused' = excused \cup {t}
    BY <1>3, <1>10, WaysOn
  <2>2. Knows(t)'
    BY <2>1 DEF Knows
  <2>3. UndisturbedSucceeds'
    BY <1>5, <1>6, <1>8, <2>1 DEF UndisturbedSucceeds
  <2>4. outcome' \in [Threads -> Outcomes] /\ excused' \subseteq Threads
    BY <1>8, <2>1 DEF Outcomes
  <2> QED BY <1>1, <1>3, <1>5, <1>7, <2>1, <2>2, <2>3, <2>4, StepIsEnough DEF TypeOK
<1> QED BY <1>3, <1>9, <1>10

-----------------------------------------------------------------------------
(* The lock around an attempt. *)

\* Nobody at work learns anything new from a step that leaves file and keyring alone.
LEMMA FilesStay ==
  ASSUME IInv, UNCHANGED <<record, keys, drawn, loading, trusted, tampered>>,
         \A t \in Threads : \/ at'[t] \in {"out", "load"}
                            \/ at'[t] = at[t] /\ held'[t] = held[t]
  PROVE  Consistent' /\ \A t \in Threads : Knows(t)'
<1>1. Consistent'
  BY DEF IInv, Consistent, NoOrphanedKey, Backed
<1>2. \A t \in Threads : Knows(t)'
  BY DEF IInv, Knows, Backed
<1> QED BY <1>1, <1>2

LEMMA QueueKeeps ==
  ASSUME IInv, NEW t \in Threads, Queue(t)
  PROVE  IInv'
<1>1. LockInv'
  <2>1. LockInv
    BY DEF IInv, TypeOK, LockInv
  <2> QED BY <2>1, LockSteps DEF Queue, GiveUpPolling
<1>2. /\ UNCHANGED trustVars
      /\ \A u \in Threads : stage'[u] = "in" <=> stage[u] = "in"
  BY DEF Queue, Reserve, GiveUpWaiting, GiveUpPolling, Abandon, Leave, Goes, IInv, TypeOK,
         LockTypeOK
<1>3. TypeOK'
  BY <1>1, <1>2 DEF IInv, TypeOK, LockInv, trustVars
<1>4. UndisturbedSucceeds'
  BY <1>2 DEF IInv, UndisturbedSucceeds, trustVars
<1> QED BY <1>1, <1>2, <1>3, <1>4, FilesStay DEF IInv, LockInv, trustVars

LEMMA LockFailsKeeps ==
  ASSUME IInv, NEW t \in Threads, LockFails(t)
  PROVE  IInv'
<1>1. LockInv'
  <2>1. LockInv
    BY DEF IInv, TypeOK, LockInv
  <2> QED BY <2>1, LockSteps DEF LockFails
<1>2. /\ UNCHANGED <<record, keys, drawn, at, held, outcome, loading, trusted, excused,
                     tampered>>
      /\ faults' \in 0..MaxFaults
  BY TrustAssumption DEF LockFails, IInv, TypeOK
<1>3. \A u \in Threads : stage'[u] = "in" <=> stage[u] = "in"
  BY DEF LockFails, Abandon, Goes, IInv, TypeOK, LockTypeOK
<1>4. TypeOK'
  BY <1>1, <1>2, <1>3 DEF IInv, TypeOK, LockInv
<1>5. UndisturbedSucceeds'
  BY <1>2 DEF IInv, UndisturbedSucceeds
<1> QED BY <1>1, <1>2, <1>4, <1>5, FilesStay DEF IInv, LockInv

LEMMA BeginKeeps ==
  ASSUME IInv, NEW t \in Threads, Begin(t)
  PROVE  IInv'
<1>1. LockInv'
  <2>1. LockInv
    BY DEF IInv, TypeOK, LockInv
  <2> QED BY <2>1, LockSteps DEF Begin
<1>2. /\ UNCHANGED <<record, keys, drawn, held, loading, trusted, tampered, faults>>
      /\ at' = [at EXCEPT ![t] = "load"] /\ excused' = excused \ {t}
      /\ outcome' = [outcome EXCEPT ![t] = "none"] /\ stage' = [stage EXCEPT ![t] = "in"]
  BY DEF Begin, Enter, Goes
<1>3. TypeOK'
  BY <1>1, <1>2 DEF IInv, TypeOK, LockInv, LockTypeOK, Points, Outcomes
<1>4. UndisturbedSucceeds'
  BY <1>2 DEF IInv, TypeOK, UndisturbedSucceeds
<1>5. \A u \in Threads : \/ at'[u] = "load"
                         \/ at'[u] = at[u] /\ held'[u] = held[u]
  BY <1>2 DEF IInv, TypeOK
<1> QED BY <1>1, <1>2, <1>3, <1>4, <1>5, FilesStay DEF IInv, LockInv

LEMMA ReturnKeeps ==
  ASSUME IInv, NEW t \in Threads, Return(t)
  PROVE  IInv'
<1>1. LockInv'
  <2>1. LockInv
    BY DEF IInv, TypeOK, LockInv
  <2> QED BY <2>1, LockSteps DEF Return
<1>2. /\ UNCHANGED <<record, keys, drawn, held, outcome, loading, trusted, excused,
                     tampered, faults>>
      /\ at' = [at EXCEPT ![t] = "out"] /\ stage' = [stage EXCEPT ![t] = "leaving"]
  BY DEF Return, Unlock, Goes
<1>3. TypeOK'
  BY <1>1, <1>2 DEF IInv, TypeOK, LockInv, LockTypeOK, Points
<1>4. UndisturbedSucceeds'
  BY <1>2 DEF IInv, UndisturbedSucceeds
<1>5. \A u \in Threads : \/ at'[u] = "out"
                         \/ at'[u] = at[u] /\ held'[u] = held[u]
  BY <1>2 DEF IInv, TypeOK
<1> QED BY <1>1, <1>2, <1>3, <1>4, <1>5, FilesStay DEF IInv, LockInv

LEMMA DieKeeps ==
  ASSUME IInv, NEW p \in Processes, Die(p)
  PROVE  IInv'
<1>1. LockInv'
  <2>1. LockInv
    BY DEF IInv, TypeOK, LockInv
  <2> QED BY <2>1, LockSurvives DEF Die
<1>2. /\ UNCHANGED <<record, keys, drawn, loading, trusted, excused, tampered>>
      /\ faults' \in 0..MaxFaults
      /\ at' = [t \in Threads |-> IF Dead(t, p) THEN "out" ELSE at[t]]
      /\ held' = [t \in Threads |-> IF Dead(t, p) THEN NoRecord ELSE held[t]]
      /\ outcome' = [t \in Threads |-> IF Dead(t, p) THEN "none" ELSE outcome[t]]
      /\ stage' = [t \in Threads |-> IF Dead(t, p) THEN "out" ELSE stage[t]]
  BY TrustAssumption DEF Die, Dies, Dead, IInv, TypeOK
<1>3. TypeOK'
  <2>1. NoRecord \in Records
    BY DEF NoRecord, Record, Records, Phases
  <2>2. /\ at' \in [Threads -> Points] /\ held' \in [Threads -> Records]
        /\ outcome' \in [Threads -> Outcomes]
        /\ \A t \in Threads : at'[t] # "out" <=> stage'[t] = "in"
    BY <1>2, <2>1 DEF IInv, TypeOK, Points, Outcomes
  <2> QED BY <1>1, <1>2, <2>2 DEF IInv, TypeOK, LockInv
<1>4. UndisturbedSucceeds'
  BY <1>2 DEF IInv, UndisturbedSucceeds
<1>5. \A u \in Threads : \/ at'[u] = "out"
                         \/ at'[u] = at[u] /\ held'[u] = held[u]
  BY <1>2
<1> QED BY <1>1, <1>2, <1>3, <1>4, <1>5, FilesStay DEF IInv, LockInv

-----------------------------------------------------------------------------
(* The other processes and the keyring. *)

LEMMA ReadActiveKeeps ==
  ASSUME IInv, ReadActive
  PROVE  IInv'
<1>1. record.cand \in drawn
  BY TrustAssumption DEF ReadActive, IInv, TypeOK, Consistent
<1>2. /\ UNCHANGED <<lockVars, record, keys, drawn, at, held, outcome, trusted, excused,
                     tampered, faults>>
      /\ loading' = {record.cand} /\ record.phase = "active" /\ loading \subseteq loading'
  BY DEF ReadActive, IInv, Consistent
<1>3. TypeOK' /\ NoStrandedLock'
  BY <1>1, <1>2 DEF IInv, TypeOK, lockVars, LockTypeOK, NoStrandedLock, OwnerOf
<1>4. Consistent' /\ UndisturbedSucceeds'
  BY <1>2 DEF IInv, Consistent, NoOrphanedKey, Backed, UndisturbedSucceeds
<1>5. \A t \in Threads : Knows(t)'
  BY <1>2 DEF IInv, Knows, Backed
<1> QED BY <1>3, <1>4, <1>5 DEF IInv

LEMMA LookUpKeeps ==
  ASSUME IInv, NEW c \in Candidates, LookUp(c)
  PROVE  IInv'
<1>1. /\ UNCHANGED <<lockVars, record, keys, drawn, at, held, outcome, loading, excused,
                     tampered, faults>>
      /\ trusted' = trusted \cup {c} /\ c \in loading
  BY DEF LookUp
<1>2. TypeOK' /\ NoStrandedLock'
  BY <1>1 DEF IInv, TypeOK, lockVars, LockTypeOK, NoStrandedLock, OwnerOf
<1>3. UndisturbedSucceeds'
  BY <1>1 DEF IInv, UndisturbedSucceeds
<1>4. Consistent' /\ \A t \in Threads : Knows(t)'
  BY <1>1 DEF IInv, Consistent, NoOrphanedKey, Knows, Backed
<1> QED BY <1>2, <1>3, <1>4 DEF IInv

LEMMA TamperKeeps ==
  ASSUME IInv, NEW c \in Candidates, Tamper(c)
  PROVE  IInv'
<1>1. PICK k \in {"missing", "foreign"} : keys' = [keys EXCEPT ![c] = k]
  BY DEF Tamper
<1>2. /\ UNCHANGED <<lockVars, record, drawn, at, held, outcome, loading, trusted, excused>>
      /\ tampered' = tampered \cup {c} /\ keys[c] # "missing" /\ faults < MaxFaults
      /\ faults' = faults + 1
  BY DEF Tamper
<1>3. record.cand = c /\ record.phase \in {"intent", "active"} /\ c \in drawn
  BY <1>2, TrustAssumption DEF IInv, Consistent, NoOrphanedKey
<1>4. faults' \in 0..MaxFaults
  BY <1>2, TrustAssumption DEF IInv, TypeOK
<1>5. TypeOK' /\ NoStrandedLock'
  BY <1>1, <1>2, <1>3, <1>4
     DEF IInv, TypeOK, lockVars, LockTypeOK, NoStrandedLock, OwnerOf
<1>6. Consistent' /\ UndisturbedSucceeds'
  BY <1>1, <1>2, <1>3
     DEF IInv, TypeOK, Consistent, NoOrphanedKey, Backed, UndisturbedSucceeds
<1>7. \A t \in Threads : Knows(t)'
  BY <1>1, <1>2, <1>3 DEF IInv, TypeOK, Knows, Backed
<1> QED BY <1>5, <1>6, <1>7 DEF IInv

-----------------------------------------------------------------------------
(* Theorems. *)

LEMMA StutterKeeps == IInv /\ UNCHANGED vars => IInv'
BY DEF IInv, TypeOK, NoStrandedLock, Consistent, UndisturbedSucceeds, NoOrphanedKey, Knows,
       Backed, LockTypeOK, OwnerOf, vars, lockVars, trustVars

LEMMA NextKeeps == IInv /\ [Next]_vars => IInv'
<1> SUFFICES ASSUME IInv, [Next]_vars PROVE IInv'
  OBVIOUS
<1>1. ASSUME NEW t \in Threads, Work(t) PROVE IInv'
  BY <1>1, LoadKeeps, CheckKeeps, CreateKeeps, GetKeeps, RestartKeeps, DeclareIntentKeeps,
     StoreKeyKeeps, VerifyKeeps, ActivateKeeps, ReturnKeeps DEF Work
<1>2. ASSUME NEW t \in Threads, Begin(t) \/ Queue(t) \/ LockFails(t) PROVE IInv'
  BY <1>2, BeginKeeps, QueueKeeps, LockFailsKeeps
<1>3. ASSUME NEW p \in Processes, Die(p) PROVE IInv'
  BY <1>3, DieKeeps
<1>4. CASE ReadActive
  BY <1>4, ReadActiveKeeps
<1>5. ASSUME NEW c \in Candidates, LookUp(c) \/ Tamper(c) PROVE IInv'
  BY <1>5, LookUpKeeps, TamperKeeps
<1>6. CASE UNCHANGED vars
  BY <1>6, StutterKeeps
<1> QED BY <1>1, <1>2, <1>3, <1>4, <1>5, <1>6 DEF Next

\* Every reachable state satisfies the inductive invariant: the record, the keyring and
\* what each attempt knows of them agree at each of its points.
THEOREM TrustInvariant == Spec => []IInv
BY InitInv, NextKeeps, PTL DEF Spec

\* The protocol's state is well typed, and exactly the attempt at work is in the lock.
THEOREM TrustTyped == Spec => []TypeOK
<1>1. IInv => TypeOK
  BY DEF IInv
<1> QED BY <1>1, TrustInvariant, PTL

\* No timeout, failure or death of a process leaves the workflow lock behind.
THEOREM LockIsNeverStranded == Spec => []NoStrandedLock
<1>1. IInv => NoStrandedLock
  BY DEF IInv
<1> QED BY <1>1, TrustInvariant, PTL

\* Every key in the keyring is the one the record names, behind its intent: recovery
\* abandons a candidate only when its key does not exist.
THEOREM KeysAreAccountedFor == Spec => []NoOrphanedKey
<1>1. IInv => NoOrphanedKey
  BY DEF IInv, Consistent
<1> QED BY <1>1, TrustInvariant, PTL

\* All processes, whenever they load the trust, work with the same key.
THEOREM SingleAuthority == Spec => []OneAuthority
<1>1. IInv => OneAuthority
  <2> SUFFICES ASSUME IInv PROVE OneAuthority
    OBVIOUS
  <2>1. trusted \subseteq loading
    BY DEF IInv, TypeOK
  <2>2. CASE trusted = {}
    BY <2>2, FS_EmptySet DEF OneAuthority
  <2>3. CASE trusted # {}
    <3>1. trusted = {record.cand} /\ record.phase = "active"
      BY <2>1, <2>3 DEF IInv, Consistent
    <3>2. Cardinality({record.cand}) = 1
      BY FS_Singleton
    <3> QED BY <3>1, <3>2 DEF OneAuthority
  <2> QED BY <2>2, <2>3
<1> QED BY <1>1, TrustInvariant, PTL

\* An attempt that meets no fault ends with the authority in force, from every state
\* that crashes, failed calls and lost keys may have left.
THEOREM RecoverySucceeds == Spec => []UndisturbedSucceeds
<1>1. IInv => UndisturbedSucceeds
  BY DEF IInv
<1> QED BY <1>1, TrustInvariant, PTL
=============================================================================
