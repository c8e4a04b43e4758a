------------------------ MODULE BudgetedReadsProofs ------------------------
(***************************************************************************)
(* Theorems of BudgetedReads, for any processes, axes, capacities and      *)
(* periods and any number of settings of the clock and power losses.       *)
(***************************************************************************)
EXTENDS BudgetedReads, FiniteSetTheorems, TLAPS

\* The budget file in force and those a power loss may put in its place.
Files == {entries} \cup undurable

Entry == [start: Nat, seen: Nat, used: Nat]
BudgetFile ==
  {e \in [Axes -> Entry \cup {NoEntry}] : \A a \in Axes : e[a] = NoEntry \/ Readable(a, e[a])}

\* The units of an instant are numbered from 0.
Numbered(units) ==
  /\ units \subseteq Units /\ IsFiniteSet(units)
  /\ \A u \in units : u[1] <= mono /\ u[2] < Cardinality(ChargedAt(units, u[1]))

\* A call backs off only if an attempt is left, and has a unit only until it is sent.
GoodCall(c) ==
  /\ c \in Call
  /\ c.pc = "backoff" => c.attempt + 1 < MaxAttempts
  /\ c.unspent = IF c.pc = "granted" THEN 1 ELSE 0

TypeInv ==
  /\ mono \in 0..MaxTime /\ wall \in Nat /\ forth \in Nat /\ back \in Nat
  /\ Files \subseteq BudgetFile
  /\ calls \in [Procs -> Call]
  /\ \A p \in Procs : GoodCall(calls[p])

LogInv ==
  /\ charged \in [Axes -> SUBSET Units] /\ granted \in [Axes -> SUBSET Units]
  /\ \A a \in Axes : Numbered(charged[a]) /\ Numbered(granted[a])
  /\ \A a \in Axes : \A u \in charged[a] \cup granted[a] : mono - u[1] < Period[a]

\* Whatever file is in force, it has counted what was granted since its window opened.
PaidInv ==
  /\ paid \in [Axes -> Nat]
  /\ \A e \in Files, a \in Axes : paid[a] > 0 => paid[a] <= e[a].used

\* The window of an entry opened at true time "since", with "old" the units granted
\* before and "jumps" the settings of the clock so far.  The unit that opened it was
\* the entry's own, so those granted at later instants are one fewer than it counts.
Covers(a, entry, since, jumps, old) ==
  /\ wall - entry.start <= mono - since \/ forth > jumps
  /\ Cardinality(old) < (1 + jumps) * Capacity[a]
  /\ \A u \in old : u[1] <= since
  /\ Cardinality(granted[a] \ old) <= entry.used
  /\ Cardinality({u \in granted[a] : u[1] > since}) < entry.used

RateInv ==
  \A e \in Files, a \in Axes :
    IF e[a] = NoEntry THEN granted[a] = {}
    ELSE \E since \in 0..mono, jumps \in 0..forth, old \in SUBSET granted[a] :
           Covers(a, e[a], since, jumps, old)

\* While nobody sets the wall clock, an entry counts only what was really charged since
\* its window opened, until it opened more than a period ago.
SpentInv ==
  forth + back = 0 =>
    /\ wall = mono
    /\ \A e \in Files, a \in Axes :
         e[a] # NoEntry =>
           /\ e[a].seen <= wall
           /\ mono - e[a].start < Period[a] =>
                Cardinality({u \in charged[a] : u[1] >= e[a].start}) >= e[a].used

-----------------------------------------------------------------------------
(* Numbers and entries. *)

LEMMA MaxOfTwo ==
  ASSUME NEW x \in Int, NEW y \in Int
  PROVE  Max({x, y}) = IF x >= y THEN x ELSE y
<1> DEFINE m == IF x >= y THEN x ELSE y
<1>1. m \in {x, y} /\ \A z \in {x, y} : m >= z
  OBVIOUS
<1>2. \A n \in {x, y} : (\A z \in {x, y} : n >= z) => n = m
  OBVIOUS
<1> QED BY <1>1, <1>2 DEF Max

LEMMA MoreWindows ==
  ASSUME NEW c \in Nat, NEW f \in Nat, NEW g \in Nat
  PROVE  /\ f < g => (1 + f) * c + c <= (1 + g) * c
         /\ f <= g => (1 + f) * c <= (1 + g) * c
         /\ c <= (1 + f) * c
         /\ (1 + f) * c \in Nat
         /\ (1 + f) * c + c = (2 + f) * c
<1>1. \A m, n \in Nat : m * n \in Nat
  OBVIOUS
<1>2. (1 + f) * c = c + f * c /\ (1 + g) * c = c + g * c /\ (2 + f) * c = c + c + f * c
  OBVIOUS
<1>3. ASSUME f <= g PROVE f * c <= g * c
  <2>1. g - f \in Nat /\ g * c = f * c + (g - f) * c BY <1>3
  <2> QED BY <2>1, <1>1
<1>4. ASSUME f < g PROVE f * c + c <= g * c
  <2>1. g - f - 1 \in Nat /\ g * c = f * c + c + (g - f - 1) * c BY <1>4
  <2> QED BY <2>1, <1>1
<1>5. f * c \in Nat /\ g * c \in Nat BY <1>1
<1> QED BY <1>2, <1>3, <1>4, <1>5

\* An entry is as it was, but for what it has seen, or it has just been opened.
LEMMA EntryFacts ==
  ASSUME NEW e \in BudgetFile, NEW a \in Axes, NEW now \in Nat
  PROVE  LET entry == EntryAt(e, a, now) IN
         /\ entry \in Entry /\ Readable(a, entry)
         /\ \/ /\ entry = Opened(now)
               /\ e[a] = NoEntry \/ (now >= e[a].seen /\ now - e[a].start >= Period[a])
            \/ /\ e[a] \in Entry /\ entry.start = e[a].start /\ entry.used = e[a].used
               /\ entry.seen = IF now >= e[a].seen THEN now ELSE e[a].seen
               /\ ~(now >= e[a].seen /\ now - e[a].start >= Period[a])
<1> USE BudgetAssumption
<1>1. e[a] \in Entry \cup {NoEntry} /\ (e[a] = NoEntry \/ Readable(a, e[a]))
  BY DEF BudgetFile
<1>2. Opened(now) \in Entry /\ Readable(a, Opened(now))
  BY DEF Opened, Entry, Readable
<1>3. CASE e[a] = NoEntry \/ (now >= e[a].seen /\ now - e[a].start >= Period[a])
  BY <1>2, <1>3 DEF EntryAt
<1>4. CASE e[a] # NoEntry /\ ~(now >= e[a].seen /\ now - e[a].start >= Period[a])
  <2>1. PICK old \in Entry : old = e[a] /\ Readable(a, old)
    <3>1. e[a] \in Entry /\ Readable(a, e[a]) BY ONLY <1>1, <1>4
    <3> QED BY <3>1
  <2>2. Max({now, old.seen}) = IF now >= old.seen THEN now ELSE old.seen
    BY MaxOfTwo DEF Entry
  <2>3. EntryAt(e, a, now) = [old EXCEPT !.seen = Max({now, @})]
    <3>1. ~(\/ old = NoEntry
            \/ now >= old.seen /\ now - old.start >= Period[a])
      BY <2>1, <1>4
    <3>2. EntryAt(e, a, now) =
            IF \/ old = NoEntry
               \/ now >= old.seen /\ now - old.start >= Period[a]
              THEN Opened(now) ELSE [old EXCEPT !.seen = Max({now, @})]
      BY <2>1 DEF EntryAt
    <3> HIDE DEF Opened, NoEntry, Max
    <3> QED BY ONLY <3>1, <3>2
  <2>4. EntryAt(e, a, now) =
          [start |-> old.start, seen |-> Max({now, old.seen}), used |-> old.used]
    BY <2>3 DEF Entry
  <2>5. PICK entry : entry = EntryAt(e, a, now) OBVIOUS
  <2>6. /\ entry.start = old.start /\ entry.used = old.used
        /\ entry.seen = IF now >= old.seen THEN now ELSE old.seen
        /\ entry \in Entry
    BY <2>2, <2>4, <2>5 DEF Entry
  <2>7. Readable(a, entry) BY <2>1, <2>6 DEF Entry, Readable
  <2> QED BY <2>1, <2>5, <2>6, <2>7, <1>4
<1> QED BY <1>3, <1>4

\* The axes of a request that has a unit left on each of them.
LEMMA ChargedFacts ==
  ASSUME NEW e \in BudgetFile, NEW axes \in SUBSET Axes, NEW now \in Nat,
         Exhausted(e, axes, now) = {}
  PROVE  LET f == Charged(e, axes, now) IN
         /\ f \in BudgetFile
         /\ \A a \in Axes :
              IF a \notin axes THEN f[a] = e[a]
              ELSE LET entry == EntryAt(e, a, now) IN
                   /\ f[a] \in Entry /\ f[a].start = entry.start /\ f[a].seen = entry.seen
                   /\ f[a].used = entry.used + 1
<1> USE BudgetAssumption
<1> DEFINE f == Charged(e, axes, now)
<1>1. ASSUME NEW a \in axes
      PROVE  LET entry == EntryAt(e, a, now) IN
             /\ f[a] \in Entry /\ Readable(a, f[a])
             /\ f[a].start = entry.start /\ f[a].seen = entry.seen
             /\ f[a].used = entry.used + 1
  <2>1. PICK entry \in Entry : entry = EntryAt(e, a, now) /\ Readable(a, entry)
    BY EntryFacts
  <2>2. entry.used + 1 <= Capacity[a] BY <2>1 DEF Exhausted, Entry
  <2>3. f[a] = [entry EXCEPT !.used = @ + 1] BY <2>1 DEF Charged
  <2>4. f[a] = [start |-> entry.start, seen |-> entry.seen, used |-> entry.used + 1]
    BY <2>3 DEF Entry
  <2> QED BY <2>1, <2>2, <2>4 DEF Entry, Readable
<1>2. ASSUME NEW a \in Axes \ axes PROVE f[a] = e[a]
  BY DEF Charged
<1>3. f = [a \in Axes |-> f[a]] BY DEF Charged
<1>4. f \in BudgetFile BY <1>1, <1>2, <1>3 DEF BudgetFile
<1> HIDE DEF f
<1>5. ASSUME NEW a \in Axes
      PROVE  IF a \notin axes THEN f[a] = e[a]
             ELSE LET entry == EntryAt(e, a, now) IN
                  /\ f[a] \in Entry /\ f[a].start = entry.start /\ f[a].seen = entry.seen
                  /\ f[a].used = entry.used + 1
  BY <1>1, <1>2
<1> QED BY <1>4, <1>5 DEF f

-----------------------------------------------------------------------------
(* The steps of a call that leave the budget alone, and the others. *)

Quiet == UNCHANGED <<machine, entries, undurable, history>>

LEMMA Steps ==
  ASSUME Next
  PROVE  Quiet \/ (\E p \in Procs : Charge(p)) \/ Tick \/ SetClock \/ PowerLoss
BY DEF Next, Proceed, Start, Stop, Cancel, Refuse, FailToCharge, Dispatch, Answer, Resume,
       UnchangedBudget, Quiet, history

\* What becomes of the files: they stay, some are lost, or a charged one is added.
LEMMA FilesStep ==
  ASSUME TypeInv, Next
  PROVE  \/ Files' \subseteq Files
         \/ \E p \in Procs :
              /\ Charge(p) /\ Files' \subseteq Files \cup {Charged(entries, AxesOf[p], wall)}
              /\ Charged(entries, AxesOf[p], wall) \in BudgetFile
<1> USE ReadsAssumption
<1>1. CASE Quiet \/ Tick \/ SetClock
  BY <1>1 DEF Quiet, Tick, SetClock, UnchangedBudget, Files
<1>2. CASE PowerLoss BY <1>2 DEF PowerLoss, Files
<1>3. ASSUME NEW p \in Procs, Charge(p)
      PROVE  /\ Files' \subseteq Files \cup {Charged(entries, AxesOf[p], wall)}
             /\ Charged(entries, AxesOf[p], wall) \in BudgetFile
  <2>1. Files' \subseteq Files \cup {Charged(entries, AxesOf[p], wall)}
    BY <1>3 DEF Charge, Confirm, Files
  <2>2. entries \in BudgetFile /\ AxesOf[p] \in SUBSET Axes /\ wall \in Nat
    BY DEF TypeInv, Files
  <2>3. Exhausted(entries, AxesOf[p], wall) = {}
    BY <1>3 DEF Charge
  <2> QED BY <2>1, <2>2, <2>3, ChargedFacts
<1> QED BY <1>1, <1>2, <1>3, Steps

\* Each step of a call leads from a good one to a good one.
LEMMA GoodCalls ==
  ASSUME NEW c \in Call, GoodCall(c), NEW w \in Nat
  PROVE  /\ GoodCall(NewCall)
         /\ GoodCall([NewCall EXCEPT !.pc = "acquiring", !.deadline = w])
         /\ c.pc = "acquiring" =>
              GoodCall([c EXCEPT !.pc = "granted", !.unspent = c.unspent + 1])
         /\ c.pc = "granted" =>
              GoodCall([c EXCEPT !.pc = "flight", !.unspent = c.unspent - 1])
         /\ c.pc = "flight" /\ c.attempt + 1 < MaxAttempts =>
              GoodCall([c EXCEPT !.pc = "backoff", !.wake = w])
         /\ c.pc = "backoff" =>
              GoodCall([c EXCEPT !.pc = "acquiring", !.attempt = c.attempt + 1, !.wake = 0])
<1> USE ReadsAssumption
<1>1. /\ "idle" \in Points /\ "acquiring" \in Points /\ "granted" \in Points
      /\ "flight" \in Points /\ "backoff" \in Points
  BY DEF Points
<1>2. c.attempt \in 0..(MaxAttempts - 1) /\ c.unspent \in Int /\ c.pc \in Points
  BY DEF Call
<1>3. NewCall \in Call /\ NewCall.unspent = 0 /\ NewCall.pc = "idle"
  BY <1>1 DEF NewCall, Call
<1>4. c.pc = "backoff" => c.attempt + 1 \in 0..(MaxAttempts - 1)
  BY <1>2 DEF GoodCall
<1>5. 0 \in Nat /\ 0 \in 0..(MaxAttempts - 1) /\ 0 \in Int /\ 1 \in Int OBVIOUS
<1>6. GoodCall(NewCall) BY <1>3 DEF GoodCall
<1>7. GoodCall([NewCall EXCEPT !.pc = "acquiring", !.deadline = w])
  <2> DEFINE d == [NewCall EXCEPT !.pc = "acquiring", !.deadline = w]
  <2>1. d \in Call /\ d.pc = "acquiring" /\ d.unspent = 0
    <3>1. PICK c0 \in Call : c0 = NewCall /\ c0.unspent = 0 BY <1>3
    <3>2. [c0 EXCEPT !.pc = "acquiring", !.deadline = w] \in Call BY <1>1 DEF Call
    <3>3. /\ [c0 EXCEPT !.pc = "acquiring", !.deadline = w].pc = "acquiring"
          /\ [c0 EXCEPT !.pc = "acquiring", !.deadline = w].unspent = 0
      BY <3>1 DEF Call
    <3> QED BY <3>1, <3>2, <3>3
  <2> HIDE DEF d
  <2>2. GoodCall(d) BY <2>1 DEF GoodCall
  <2> QED BY <2>2 DEF d
<1>8. ASSUME c.pc = "acquiring"
      PROVE  GoodCall([c EXCEPT !.pc = "granted", !.unspent = c.unspent + 1])
  <2> DEFINE d == [c EXCEPT !.pc = "granted", !.unspent = c.unspent + 1]
  <2>1. c.unspent = 0 BY <1>8 DEF GoodCall
  <2>2. d \in Call /\ d.pc = "granted" /\ d.unspent = 1
    <3>1. c.unspent + 1 \in Int /\ c.unspent + 1 = 1 BY <1>2, <2>1
    <3>2. d \in Call BY <1>1, <3>1 DEF Call
    <3>3. d.pc = "granted" /\ d.unspent = c.unspent + 1 BY DEF Call
    <3> QED BY <3>1, <3>2, <3>3
  <2> HIDE DEF d
  <2>3. GoodCall(d) BY <2>2 DEF GoodCall
  <2> QED BY <2>3 DEF d
<1>9. ASSUME c.pc = "granted"
      PROVE  GoodCall([c EXCEPT !.pc = "flight", !.unspent = c.unspent - 1])
  <2> DEFINE d == [c EXCEPT !.pc = "flight", !.unspent = c.unspent - 1]
  <2>1. c.unspent = 1 BY <1>9 DEF GoodCall
  <2>2. d \in Call /\ d.pc = "flight" /\ d.unspent = 0
    <3>1. c.unspent - 1 \in Int /\ c.unspent - 1 = 0 BY <1>2, <2>1
    <3>2. d \in Call BY <1>1, <3>1 DEF Call
    <3>3. d.pc = "flight" /\ d.unspent = c.unspent - 1 BY DEF Call
    <3> QED BY <3>1, <3>2, <3>3
  <2> HIDE DEF d
  <2>3. GoodCall(d) BY <2>2 DEF GoodCall
  <2> QED BY <2>3 DEF d
<1>10. ASSUME c.pc = "flight", c.attempt + 1 < MaxAttempts
       PROVE  GoodCall([c EXCEPT !.pc = "backoff", !.wake = w])
  <2> DEFINE d == [c EXCEPT !.pc = "backoff", !.wake = w]
  <2>1. c.unspent = 0 BY <1>10 DEF GoodCall
  <2>2. d \in Call /\ d.pc = "backoff" /\ d.unspent = 0 /\ d.attempt = c.attempt
    <3>1. d \in Call BY <1>1 DEF Call
    <3>2. d.pc = "backoff" /\ d.unspent = c.unspent /\ d.attempt = c.attempt BY DEF Call
    <3> QED BY <2>1, <3>1, <3>2
  <2> HIDE DEF d
  <2>3. GoodCall(d) BY <1>10, <2>2 DEF GoodCall
  <2> QED BY <2>3 DEF d
<1>11. ASSUME c.pc = "backoff"
       PROVE  GoodCall([c EXCEPT !.pc = "acquiring", !.attempt = c.attempt + 1, !.wake = 0])
  <2> DEFINE d == [c EXCEPT !.pc = "acquiring", !.attempt = c.attempt + 1, !.wake = 0]
  <2>1. c.unspent = 0 BY <1>11 DEF GoodCall
  <2>2. d \in Call /\ d.pc = "acquiring" /\ d.unspent = 0
    <3>1. d \in Call BY <1>1, <1>4, <1>5, <1>11 DEF Call
    <3>2. d.pc = "acquiring" /\ d.unspent = c.unspent BY DEF Call
    <3> QED BY <2>1, <3>1, <3>2
  <2> HIDE DEF d
  <2>3. GoodCall(d) BY <2>2 DEF GoodCall
  <2> QED BY <2>3 DEF d
<1> QED BY <1>6, <1>7, <1>8, <1>9, <1>10, <1>11

LEMMA CallsStep ==
  ASSUME TypeInv, Next
  PROVE  calls' \in [Procs -> Call] /\ \A p \in Procs : GoodCall(calls'[p])
<1> USE ReadsAssumption
<1>1. mono \in Nat /\ Patience \subseteq Nat /\ Delays \subseteq Nat /\ MaxAttempts \in Nat
  BY DEF TypeInv
<1>2. calls \in [Procs -> Call] /\ \A q \in Procs : GoodCall(calls[q])
  BY DEF TypeInv
<1>3. ASSUME NEW p \in Procs, NEW c, GoodCall(c), calls' = [calls EXCEPT ![p] = c]
      PROVE  \A q \in Procs : GoodCall(calls'[q])
  BY <1>2, <1>3
<1>4. GoodCall(NewCall)
  <2>1. CASE Procs = {}
    BY DEF GoodCall, NewCall, Call, Points
  <2>2. CASE Procs # {}
    BY <1>2, <2>2, GoodCalls, 0 \in Nat
  <2> QED BY <2>1, <2>2
<1>5. ASSUME NEW p \in Procs, End(p) PROVE \A q \in Procs : GoodCall(calls'[q])
  BY <1>3, <1>4, <1>5 DEF End
<1>6. ASSUME NEW p \in Procs, Start(p) PROVE \A q \in Procs : GoodCall(calls'[q])
  <2>1. PICK patience \in Patience :
          calls' = [calls EXCEPT ![p] = [NewCall EXCEPT !.pc = "acquiring",
                                                        !.deadline = mono + patience]]
    BY <1>6 DEF Start
  <2>2. mono + patience \in Nat BY <1>1
  <2>3. GoodCall([NewCall EXCEPT !.pc = "acquiring", !.deadline = mono + patience])
    BY <1>2, <2>2, GoodCalls
  <2> QED BY <2>1, <2>3, <1>3
<1>7. ASSUME NEW p \in Procs, Granted(p), At(p, "acquiring")
      PROVE  \A q \in Procs : GoodCall(calls'[q])
  <2>1. PICK c \in Call : c = calls[p] /\ GoodCall(c) /\ c.pc = "acquiring"
    BY <1>2, <1>7 DEF At
  <2>2. calls' = [calls EXCEPT ![p] = [c EXCEPT !.pc = "granted", !.unspent = c.unspent + 1]]
    BY <1>7, <2>1 DEF Granted
  <2>3. GoodCall([c EXCEPT !.pc = "granted", !.unspent = c.unspent + 1])
    BY <2>1, GoodCalls, 0 \in Nat
  <2> QED BY <2>2, <2>3, <1>3
<1>8. ASSUME NEW p \in Procs, Dispatch(p) PROVE \A q \in Procs : GoodCall(calls'[q])
  <2>1. PICK c \in Call : c = calls[p] /\ GoodCall(c) /\ c.pc = "granted"
    BY <1>2, <1>8 DEF At, Dispatch
  <2>2. calls' = [calls EXCEPT ![p] = [c EXCEPT !.pc = "flight", !.unspent = c.unspent - 1]]
    BY <1>8, <2>1 DEF Dispatch
  <2>3. GoodCall([c EXCEPT !.pc = "flight", !.unspent = c.unspent - 1])
    BY <2>1, GoodCalls, 0 \in Nat
  <2> QED BY <2>2, <2>3, <1>3
<1>9. ASSUME NEW p \in Procs, Retry(p), ~End(p), At(p, "flight")
      PROVE  \A q \in Procs : GoodCall(calls'[q])
  <2>1. PICK c \in Call : c = calls[p] /\ GoodCall(c) /\ c.pc = "flight"
    BY <1>2, <1>9 DEF At
  <2>2. ~(calls[p].attempt + 1 >= MaxAttempts) BY <1>9 DEF Retry
  <2>3. c.attempt + 1 < MaxAttempts
    <3>1. c.attempt \in Nat BY DEF Call
    <3> QED BY <1>1, <2>1, <2>2, <3>1
  <2>4. \E delay \in Delays :
          IF delay >= Remaining(p) THEN End(p)
          ELSE calls' = [calls EXCEPT ![p] = [@ EXCEPT !.pc = "backoff",
                                                       !.wake = mono + delay]]
    BY <1>9, <2>2 DEF Retry
  <2>5. PICK delay \in Delays :
          calls' = [calls EXCEPT ![p] = [c EXCEPT !.pc = "backoff", !.wake = mono + delay]]
    BY <1>9, <2>1, <2>4
  <2>6. mono + delay \in Nat BY <1>1
  <2>7. GoodCall([c EXCEPT !.pc = "backoff", !.wake = mono + delay])
    BY <2>1, <2>3, <2>6, GoodCalls
  <2> QED BY <2>5, <2>7, <1>3
<1>10. ASSUME NEW p \in Procs, Resume(p) PROVE \A q \in Procs : GoodCall(calls'[q])
  <2>1. PICK c \in Call : c = calls[p] /\ GoodCall(c) /\ c.pc = "backoff"
    BY <1>2, <1>10 DEF At, Resume
  <2>2. calls' = [calls EXCEPT ![p] = [c EXCEPT !.pc = "acquiring", !.attempt = c.attempt + 1,
                                                !.wake = 0]]
    BY <1>10, <2>1 DEF Resume
  <2>3. GoodCall([c EXCEPT !.pc = "acquiring", !.attempt = c.attempt + 1, !.wake = 0])
    BY <2>1, GoodCalls, 0 \in Nat
  <2> QED BY <2>2, <2>3, <1>3
<1>11. ASSUME PowerLoss PROVE \A q \in Procs : GoodCall(calls'[q])
  BY <1>4, <1>11 DEF PowerLoss
<1>12. ASSUME Tick \/ SetClock PROVE \A q \in Procs : GoodCall(calls'[q])
  BY <1>2, <1>12 DEF Tick, SetClock
<1>13. \A q \in Procs : GoodCall(calls'[q])
  <2>1. ASSUME NEW p \in Procs, Charge(p) PROVE End(p) \/ (Granted(p) /\ At(p, "acquiring"))
    BY <2>1 DEF Charge, Confirm
  <2>2. ASSUME NEW p \in Procs, Stop(p) \/ Cancel(p) \/ Refuse(p) \/ FailToCharge(p)
        PROVE End(p)
    BY <2>2 DEF Stop, Cancel, Refuse, FailToCharge
  <2>3. ASSUME NEW p \in Procs, Answer(p) PROVE End(p) \/ (Retry(p) /\ At(p, "flight"))
    BY <2>3 DEF Answer
  <2> QED BY <2>1, <2>2, <2>3, <1>5, <1>6, <1>7, <1>8, <1>9, <1>10, <1>11, <1>12
          DEF Next, Proceed
<1>14. calls' = [q \in Procs |-> calls'[q]]
  BY <1>2 DEF Next, Proceed, Start, Stop, Cancel, Refuse, Charge, Confirm, FailToCharge,
         Dispatch, Answer, Retry, Resume, End, Granted, Tick, SetClock, PowerLoss
<1> QED BY <1>13, <1>14 DEF GoodCall

LEMMA TypeStep ==
  ASSUME TypeInv, [Next]_vars
  PROVE  TypeInv'
<1>1. CASE UNCHANGED vars
  BY <1>1 DEF TypeInv, vars, machine, clocks, Files, BudgetFile, At, Readable, NoEntry
<1>2. CASE Next
  <2>1. Files' \subseteq BudgetFile BY <1>2, FilesStep DEF TypeInv
  <2>2. mono' \in 0..MaxTime /\ wall' \in Nat /\ forth' \in Nat /\ back' \in Nat
    <3>1. ASSUME UNCHANGED clocks PROVE UNCHANGED <<mono, wall, forth, back>>
      BY <3>1 DEF clocks
    <3>2. CASE Quiet BY <3>1, <3>2 DEF Quiet, machine, TypeInv
    <3>3. CASE Tick BY <3>3, ReadsAssumption DEF Tick, TypeInv
    <3>4. CASE SetClock BY <3>4, ReadsAssumption DEF SetClock, TypeInv
    <3>5. CASE PowerLoss BY <3>1, <3>5 DEF PowerLoss, TypeInv
    <3>6. ASSUME NEW p \in Procs, Charge(p) PROVE UNCHANGED <<mono, wall, forth, back>>
      BY <3>1, <3>6 DEF Charge, machine
    <3> QED BY <3>2, <3>3, <3>4, <3>5, <3>6, <1>2, Steps DEF TypeInv
  <2>3. BudgetFile' = BudgetFile
    BY DEF BudgetFile, Readable
  <2> QED BY <2>1, <2>2, <2>3, <1>2, CallsStep DEF TypeInv
<1> QED BY <1>1, <1>2

-----------------------------------------------------------------------------
(* The logs of units. *)

LEMMA NewUnitFacts ==
  ASSUME mono \in Nat, NEW units, Numbered(units)
  PROVE  /\ NewUnit(units) \in Units /\ NewUnit(units) \notin units
         /\ NewUnit(units)[1] = mono
         /\ Numbered(units \cup {NewUnit(units)})
<1> DEFINE n == Cardinality(ChargedAt(units, mono))
           unit == <<mono, n>>
           more == units \cup {unit}
<1>1. \A t : /\ IsFiniteSet(ChargedAt(units, t)) /\ Cardinality(ChargedAt(units, t)) \in Nat
  BY FS_Subset, FS_CardinalityType DEF Numbered, ChargedAt
<1>2. unit \in Units /\ unit[1] = mono /\ unit[2] = n BY <1>1 DEF Units
<1>3. unit \notin units BY <1>1, <1>2 DEF Numbered
<1>4. IsFiniteSet(more) BY FS_AddElement DEF Numbered
<1>5. ASSUME NEW t
      PROVE  /\ IsFiniteSet(ChargedAt(more, t))
             /\ Cardinality(ChargedAt(units, t)) <= Cardinality(ChargedAt(more, t))
  <2>1. ChargedAt(more, t) \in SUBSET more BY DEF ChargedAt
  <2>2. IsFiniteSet(ChargedAt(more, t)) BY <1>4, <2>1, FS_Subset
  <2>3. ChargedAt(units, t) \in SUBSET ChargedAt(more, t) BY DEF ChargedAt
  <2> QED BY <2>2, <2>3, FS_Subset
<1>6. n < Cardinality(ChargedAt(more, mono))
  <2>1. ChargedAt(more, mono) = ChargedAt(units, mono) \cup {unit}
    BY <1>2 DEF ChargedAt
  <2>2. unit \notin ChargedAt(units, mono) BY <1>3 DEF ChargedAt
  <2> HIDE DEF unit
  <2>3. Cardinality(ChargedAt(units, mono) \cup {unit}) = n + 1
    BY <1>1, <2>2, FS_AddElement
  <2> QED BY <1>1, <2>1, <2>3
<1>7. ASSUME NEW u \in more
      PROVE  u[1] <= mono /\ u[2] < Cardinality(ChargedAt(more, u[1]))
  <2>1. CASE u \in units
    <3>1. u[1] \in Nat /\ u[2] \in Nat /\ u[1] <= mono
          /\ u[2] < Cardinality(ChargedAt(units, u[1]))
      BY <2>1 DEF Numbered, Units
    <3>2. Cardinality(ChargedAt(more, u[1])) \in Nat BY <1>5, FS_CardinalityType
    <3> HIDE DEF more
    <3> QED BY <1>1, <1>5, <3>1, <3>2
  <2>2. CASE u = unit BY <1>2, <1>6, <2>2
  <2> QED BY <2>1, <2>2
<1>8. more \subseteq Units BY <1>2 DEF Numbered
<1> HIDE DEF more, n
<1>9. Numbered(more) BY <1>4, <1>7, <1>8 DEF Numbered
<1> QED BY <1>2, <1>3, <1>9 DEF NewUnit, more, n

LEMMA AgedFacts ==
  ASSUME mono \in Nat, NEW units, Numbered(units), NEW left \in SUBSET units,
         \A u, v \in units : u[1] = v[1] /\ u \in left => v \in left
  PROVE  /\ left \subseteq Units /\ IsFiniteSet(left)
         /\ \A u \in left : u[1] <= mono + 1 /\ u[2] < Cardinality(ChargedAt(left, u[1]))
<1>2. left \subseteq Units /\ IsFiniteSet(left) BY FS_Subset DEF Numbered
<1>3. ASSUME NEW u \in left PROVE ChargedAt(left, u[1]) = ChargedAt(units, u[1])
  BY DEF ChargedAt
<1>4. \A u \in units : u[1] \in Nat /\ u[1] <= mono BY DEF Numbered, Units
<1>5. \A u \in left : u[2] < Cardinality(ChargedAt(left, u[1]))
  BY <1>3 DEF Numbered
<1> QED BY <1>2, <1>4, <1>5

\* What becomes of the log of the granted units, and of those charged.
LEMMA LogsStep ==
  ASSUME Next
  PROVE  \/ /\ UNCHANGED <<charged, granted, mono>>
         \/ /\ Tick /\ charged' = Aged(charged) /\ granted' = Aged(granted)
         \/ \E p \in Procs :
              /\ Charge(p) /\ UNCHANGED mono
              /\ charged' = Logged(charged, p) /\ granted' \in {granted, Logged(granted, p)}
BY Steps DEF Quiet, history, machine, clocks, Tick, SetClock, UnchangedBudget, PowerLoss,
             Charge, Confirm

LEMMA LogStep ==
  ASSUME TypeInv, LogInv, [Next]_vars
  PROVE  LogInv'
<1> DEFINE Good(log, now) ==
      /\ log \in [Axes -> SUBSET Units]
      /\ \A a \in Axes :
           /\ IsFiniteSet(log[a])
           /\ \A u \in log[a] :
                /\ u[1] <= now /\ u[2] < Cardinality(ChargedAt(log[a], u[1]))
                /\ now - u[1] < Period[a]
<1> USE BudgetAssumption
<1>1. mono \in Nat BY ReadsAssumption DEF TypeInv
<1>2. Good(charged, mono) /\ Good(granted, mono)
  BY DEF LogInv, Numbered
<1>3. ASSUME NEW log, Good(log, mono), NEW p \in Procs
      PROVE  Good(Logged(log, p), mono)
  <2>1. ASSUME NEW a \in Axes
        PROVE  LET more == log[a] \cup {NewUnit(log[a])} IN
               /\ more \in SUBSET Units /\ Numbered(more)
               /\ \A u \in more : mono - u[1] < Period[a]
    <3>1. Numbered(log[a]) BY <1>3 DEF Numbered
    <3>2. NewUnit(log[a])[1] = mono BY <1>1, <3>1, NewUnitFacts
    <3>5. mono - mono < Period[a] BY <1>1
    <3>3. \A u \in log[a] : mono - u[1] < Period[a] BY <1>3
    <3>4. Numbered(log[a] \cup {NewUnit(log[a])}) BY <1>1, <3>1, NewUnitFacts
    <3> QED BY <3>2, <3>3, <3>4, <3>5 DEF Numbered
  <2> QED BY <1>3, <2>1 DEF Logged, Numbered
<1>4. ASSUME NEW log, Good(log, mono), NEW later, later = Aged(log)
      PROVE  Good(later, mono + 1)
  <2>1. ASSUME NEW a \in Axes
        PROVE  /\ later[a] \subseteq Units /\ IsFiniteSet(later[a])
               /\ \A u \in later[a] :
                    u[1] <= mono + 1 /\ u[2] < Cardinality(ChargedAt(later[a], u[1]))
               /\ \A u \in later[a] : (mono + 1) - u[1] < Period[a]
    <3>1. Numbered(log[a]) BY <1>4 DEF Numbered
    <3>2. PICK left : left = later[a] OBVIOUS
    <3>3. /\ left \in SUBSET log[a]
          /\ \A u, v \in log[a] : u[1] = v[1] /\ u \in left => v \in left
          /\ \A u \in left : (mono + 1) - u[1] < Period[a]
      BY <1>4, <3>2 DEF Aged
    <3>4. /\ left \subseteq Units /\ IsFiniteSet(left)
          /\ \A u \in left : u[1] <= mono + 1 /\ u[2] < Cardinality(ChargedAt(left, u[1]))
      BY ONLY <1>1, <3>1, <3>3, AgedFacts
    <3> QED BY ONLY <3>2, <3>3, <3>4
  <2>2. later \in [Axes -> SUBSET Units]
    <3>1. later = [a \in Axes |-> later[a]] BY <1>4 DEF Aged
    <3>2. \A a \in Axes : later[a] \in SUBSET Units BY <2>1
    <3> QED BY ONLY <3>1, <3>2
  <2>3. ASSUME NEW a \in Axes, NEW u \in later[a]
        PROVE  /\ u[1] <= mono + 1 /\ u[2] < Cardinality(ChargedAt(later[a], u[1]))
               /\ (mono + 1) - u[1] < Period[a]
    BY <2>1
  <2>4. \A a \in Axes : IsFiniteSet(later[a]) BY <2>1
  <2> QED BY <2>2, <2>3, <2>4
<1>5. ASSUME Good(charged', mono'), Good(granted', mono') PROVE LogInv'
  BY <1>5 DEF LogInv, Numbered
<1> HIDE DEF Good
<1>6. CASE UNCHANGED <<charged, granted, mono>>
  BY <1>2, <1>5, <1>6
<1>7. CASE Tick /\ charged' = Aged(charged) /\ granted' = Aged(granted)
  <2>1. mono' = mono + 1 BY <1>7 DEF Tick
  <2> QED BY <1>2, <1>4, <1>5, <1>7, <2>1
<1>8. ASSUME NEW p \in Procs, UNCHANGED mono, charged' = Logged(charged, p),
             granted' \in {granted, Logged(granted, p)}
      PROVE  LogInv'
  BY <1>2, <1>3, <1>5, <1>8
<1>9. CASE UNCHANGED vars BY <1>6, <1>9 DEF vars, history, machine, clocks
<1> QED BY <1>6, <1>7, <1>8, <1>9, LogsStep

-----------------------------------------------------------------------------
(* Every request is paid. *)

\* The two ways a charge ends, and what it does to the files.
LEMMA ChargeCases ==
  ASSUME TypeInv, NEW p \in Procs, Charge(p)
  PROVE  LET new == Charged(entries, AxesOf[p], wall) IN
         /\ new \in BudgetFile /\ entries \in BudgetFile
         /\ charged' = Logged(charged, p) /\ UNCHANGED <<mono, wall, forth, back>>
         /\ \/ /\ granted' = Logged(granted, p) /\ paid' = Counted(p, 1)
               /\ Files' = {new}
            \/ /\ granted' = granted /\ paid' = Counted(p, 0)
               /\ Files' = Files \cup {new}
<1>1. entries \in BudgetFile /\ AxesOf[p] \in SUBSET Axes /\ wall \in Nat
  BY ReadsAssumption DEF TypeInv, Files
<1>2. Charged(entries, AxesOf[p], wall) \in BudgetFile
  BY <1>1, ChargedFacts DEF Charge
<1> QED BY <1>1, <1>2 DEF Charge, Confirm, Files, machine, clocks

\* What a charge writes for an axis: an entry that goes on, or one that is opened.
LEMMA ChargedEntry ==
  ASSUME TypeInv, NEW p \in Procs, Charge(p), NEW a \in Axes
  PROVE  LET new == Charged(entries, AxesOf[p], wall)[a]
             old == entries[a] IN
         IF a \notin AxesOf[p] THEN new = old
         ELSE /\ new \in Entry /\ Readable(a, new)
              /\ \/ /\ new.start = wall /\ new.seen = wall /\ new.used = 1
                    /\ EntryAt(entries, a, wall).used = 0
                    /\ old = NoEntry \/ (old \in Entry /\ wall - old.start >= Period[a])
                 \/ /\ old \in Entry /\ Readable(a, old)
                    /\ new.start = old.start /\ new.used = old.used + 1
                    /\ new.seen = IF wall >= old.seen THEN wall ELSE old.seen
                    /\ EntryAt(entries, a, wall).used = old.used
<1>1. entries \in BudgetFile /\ AxesOf[p] \in SUBSET Axes /\ wall \in Nat
  BY ReadsAssumption DEF TypeInv, Files
<1>2. entries[a] = NoEntry \/ (entries[a] \in Entry /\ Readable(a, entries[a]))
  BY <1>1 DEF BudgetFile
<1>3. CASE a \notin AxesOf[p] BY <1>3 DEF Charged
<1>4. CASE a \in AxesOf[p]
  <2>1. PICK entry : entry = EntryAt(entries, a, wall) OBVIOUS
  <2>2. PICK new : new = Charged(entries, AxesOf[p], wall)[a] OBVIOUS
  <2>3. /\ new \in Entry /\ new.start = entry.start /\ new.seen = entry.seen
        /\ new.used = entry.used + 1
    BY <1>1, <1>4, <2>1, <2>2, ChargedFacts DEF Charge
  <2>4. Readable(a, new)
    <3>1. Charged(entries, AxesOf[p], wall) \in BudgetFile
      BY <1>1, ChargedFacts DEF Charge
    <3>2. new = NoEntry \/ Readable(a, new) BY <2>2, <3>1 DEF BudgetFile
    <3>3. new # NoEntry BY <2>3 DEF Entry, NoEntry
    <3> QED BY <3>2, <3>3
  <2>5. \/ /\ entry = Opened(wall)
           /\ entries[a] = NoEntry \/ wall - entries[a].start >= Period[a]
        \/ /\ entries[a] \in Entry /\ entry.start = entries[a].start
           /\ entry.used = entries[a].used
           /\ entry.seen = IF wall >= entries[a].seen THEN wall ELSE entries[a].seen
    BY <1>1, <2>1, EntryFacts
  <2>6. CASE /\ entry = Opened(wall)
             /\ entries[a] = NoEntry \/ wall - entries[a].start >= Period[a]
    <3>1. entry.start = wall /\ entry.seen = wall /\ entry.used = 0
      BY <2>6 DEF Opened
    <3> QED BY <1>2, <1>4, <2>1, <2>2, <2>3, <2>4, <2>6, <3>1
  <2>7. CASE /\ entries[a] \in Entry /\ entry.start = entries[a].start
             /\ entry.used = entries[a].used
             /\ entry.seen = IF wall >= entries[a].seen THEN wall ELSE entries[a].seen
    <3>1. entries[a] # NoEntry BY <2>7 DEF Entry, NoEntry
    <3> QED BY <1>2, <1>4, <2>1, <2>2, <2>3, <2>4, <2>7, <3>1
  <2> QED BY <2>5, <2>6, <2>7
<1> QED BY <1>3, <1>4

LEMMA PaidStep ==
  ASSUME TypeInv, PaidInv, [Next]_vars
  PROVE  PaidInv'
<1>1. ASSUME Files' \subseteq Files, UNCHANGED paid PROVE PaidInv'
  BY <1>1 DEF PaidInv
<1>2. CASE Quiet \/ Tick \/ SetClock \/ PowerLoss \/ UNCHANGED vars
  BY <1>1, <1>2 DEF Quiet, Tick, SetClock, PowerLoss, UnchangedBudget, history, vars, machine,
                    Files
<1>3. ASSUME NEW p \in Procs, Charge(p) PROVE PaidInv'
  <2> DEFINE new == Charged(entries, AxesOf[p], wall)
  <2>1. ASSUME NEW a \in Axes, NEW units \in {0, 1}
        PROVE  /\ Counted(p, units)[a] \in Nat
               /\ Counted(p, units)[a] > 0 => Counted(p, units)[a] <= new[a].used
               /\ units = 0 =>
                    \A e \in Files : Counted(p, 0)[a] > 0 => Counted(p, 0)[a] <= e[a].used
    <3>1. paid[a] \in Nat /\ entries \in Files
          /\ \A e \in Files : paid[a] > 0 => paid[a] <= e[a].used
      BY DEF PaidInv, Files
    <3>2. CASE a \notin AxesOf[p]
      BY <1>3, <3>1, <3>2, ChargedEntry DEF Counted
    <3>3. CASE a \in AxesOf[p] /\ EntryAt(entries, a, wall).used = 0
      <4>1. Counted(p, units)[a] = units BY <3>3 DEF Counted
      <4>2. new[a].used \in Nat /\ new[a].used >= 1
        BY <1>3, <3>3, ChargedEntry DEF Entry
      <4> QED BY <4>1, <4>2
    <3>4. CASE a \in AxesOf[p] /\ EntryAt(entries, a, wall).used # 0
      <4>1. Counted(p, units)[a] = paid[a] + units BY <3>4 DEF Counted
      <4>2. /\ new[a].used = entries[a].used + 1 /\ entries[a].used \in Nat
        BY <1>3, <3>4, ChargedEntry DEF Entry
      <4> QED BY <3>1, <4>1, <4>2
    <3> QED BY <3>2, <3>3, <3>4
  <2>2. ASSUME NEW units \in {0, 1}
        PROVE  Counted(p, units) \in [Axes -> Nat]
    <3>1. Counted(p, units) = [a \in Axes |-> Counted(p, units)[a]] BY DEF Counted
    <3> QED BY <2>1, <3>1
  <2>3. \/ paid' = Counted(p, 1) /\ Files' = {new}
        \/ paid' = Counted(p, 0) /\ Files' = Files \cup {new}
    BY <1>3, ChargeCases
  <2> HIDE DEF new
  <2>4. CASE paid' = Counted(p, 1) /\ Files' = {new}
    BY <2>1, <2>2, <2>4 DEF PaidInv
  <2>5. CASE paid' = Counted(p, 0) /\ Files' = Files \cup {new}
    BY <2>1, <2>2, <2>5 DEF PaidInv
  <2> QED BY <2>3, <2>4, <2>5
<1> QED BY <1>2, <1>3, Steps

-----------------------------------------------------------------------------
(* The rate of the granted units. *)

\* The units granted, and any part of them, can be counted.
LEMMA Countable ==
  ASSUME LogInv, NEW a \in Axes
  PROVE  /\ IsFiniteSet(granted[a]) /\ IsFiniteSet(charged[a])
         /\ \A part \in SUBSET granted[a] : IsFiniteSet(part) /\ Cardinality(part) \in Nat
         /\ \A part \in SUBSET charged[a] : IsFiniteSet(part) /\ Cardinality(part) \in Nat
         /\ \A u \in granted[a] \cup charged[a] :
              u[1] \in Nat /\ u[1] <= mono /\ mono - u[1] < Period[a]
<1>1. IsFiniteSet(granted[a]) /\ IsFiniteSet(charged[a]) BY DEF LogInv, Numbered
<1>2. \A part \in SUBSET granted[a] : IsFiniteSet(part) /\ Cardinality(part) \in Nat
  BY <1>1, FS_Subset, FS_CardinalityType
<1>3. \A part \in SUBSET charged[a] : IsFiniteSet(part) /\ Cardinality(part) \in Nat
  BY <1>1, FS_Subset, FS_CardinalityType
<1>4. \A u \in granted[a] \cup charged[a] :
        u[1] \in Nat /\ u[1] <= mono /\ mono - u[1] < Period[a]
  BY DEF LogInv, Numbered, Units
<1> QED BY <1>1, <1>2, <1>3, <1>4

\* A set is not larger than its part and the rest together.
LEMMA PartAndRest ==
  ASSUME NEW S, IsFiniteSet(S), NEW part \in SUBSET S
  PROVE  /\ Cardinality(S) \in Nat /\ Cardinality(part) \in Nat /\ Cardinality(S \ part) \in Nat
         /\ Cardinality(S) = Cardinality(part) + Cardinality(S \ part)
<1>1. IsFiniteSet(part) /\ IsFiniteSet(S \ part) BY FS_Subset, S \ part \in SUBSET S
<1>2. part \cup (S \ part) = S /\ part \cap (S \ part) = {} OBVIOUS
<1>3. Cardinality(S) = Cardinality(part) + Cardinality(S \ part) - Cardinality({})
  BY <1>1, <1>2, FS_Union
<1>4. Cardinality({}) = 0 BY FS_EmptySet
<1> QED BY <1>1, <1>3, <1>4, FS_CardinalityType

\* Where a window may open, the units of the last period fit in the windows before.
LEMMA OpensWithRoom ==
  ASSUME TypeInv, LogInv, RateInv, NEW a \in Axes,
         entries[a] = NoEntry \/ (entries[a] \in Entry /\ wall - entries[a].start >= Period[a])
  PROVE  Cardinality(granted[a]) < (1 + forth) * Capacity[a]
<1>1. PICK c \in Nat : c = Capacity[a] /\ c >= 1 BY BudgetAssumption
<1>2. PICK n \in Nat : n = Cardinality(granted[a]) BY Countable
<1>3. forth \in Nat /\ (1 + forth) * c \in Nat /\ c <= (1 + forth) * c
  BY MoreWindows DEF TypeInv
<1>4. CASE entries[a] = NoEntry
  <2>1. granted[a] = {} BY <1>4 DEF RateInv, Files
  <2>2. n = 0 BY <1>2, <2>1, FS_EmptySet
  <2> QED BY <1>1, <1>2, <1>3, <2>2
<1>5. CASE entries[a] # NoEntry
  <2>1. PICK entry \in Entry : entry = entries[a] /\ wall - entry.start >= Period[a]
    BY <1>5
  <2>2. entry.used \in Nat /\ entry.used <= c /\ entry.start \in Nat
    BY <1>1, <1>5, <2>1 DEF TypeInv, Files, BudgetFile, Readable, Entry
  <2>3. PICK since \in 0..mono, jumps \in 0..forth, old \in SUBSET granted[a] :
          Covers(a, entry, since, jumps, old)
    BY <1>5, <2>1 DEF RateInv, Files
  <2>4. CASE forth > jumps
    <3>1. (1 + jumps) * c + c <= (1 + forth) * c BY <1>3, <2>4, MoreWindows
    <3>2. n = Cardinality(old) + Cardinality(granted[a] \ old)
          /\ Cardinality(old) \in Nat /\ Cardinality(granted[a] \ old) \in Nat
      BY <1>2, Countable, PartAndRest
    <3>3. Cardinality(old) < (1 + jumps) * c /\ Cardinality(granted[a] \ old) <= entry.used
      BY <1>1, <2>3 DEF Covers
    <3>4. (1 + jumps) * c \in Nat BY <1>3, MoreWindows
    <3> QED BY <1>1, <1>2, <1>3, <2>2, <3>1, <3>2, <3>3, <3>4
  <2>5. CASE ~(forth > jumps)
    <3>1. wall - entry.start <= mono - since BY <2>3, <2>5 DEF Covers
    <3>2. /\ mono \in Nat /\ wall \in Nat /\ since \in Nat
          /\ Period[a] \in Nat
      BY ReadsAssumption, BudgetAssumption DEF TypeInv
    <3>3. mono - since >= Period[a] BY <2>1, <2>2, <3>1, <3>2
    <3>4. \A u \in granted[a] : u[1] > since BY <3>2, <3>3, Countable
    <3>5. {u \in granted[a] : u[1] > since} = granted[a] BY <3>4
    <3>6. n < entry.used BY <1>2, <2>3, <3>5 DEF Covers
    <3> QED BY <1>1, <1>2, <1>3, <2>2, <3>6
  <2> QED BY <2>4, <2>5
<1> QED BY <1>4, <1>5

\* What a charge that is confirmed adds to the log of an axis.
LEMMA OneMore ==
  ASSUME TypeInv, LogInv, NEW p \in Procs, NEW a \in AxesOf[p], NEW log \in {charged, granted}
  PROVE  \E unit : /\ unit \notin log[a] /\ unit[1] = mono
                   /\ Logged(log, p)[a] = log[a] \cup {unit}
<1>1. a \in Axes /\ mono \in Nat BY ReadsAssumption DEF TypeInv
<1>2. Numbered(log[a]) BY <1>1 DEF LogInv
<1>3. NewUnit(log[a]) \notin log[a] /\ NewUnit(log[a])[1] = mono
  BY <1>1, <1>2, NewUnitFacts
<1>4. Logged(log, p)[a] = log[a] \cup {NewUnit(log[a])} BY <1>1 DEF Logged
<1> QED BY <1>3, <1>4

LEMMA ClockStep ==
  ASSUME NEW w1 \in Nat, NEW w2 \in Nat, NEW m1 \in Nat, NEW m2 \in Nat,
         NEW start \in Nat, NEW since \in Nat, w1 - start <= m1 - since, w2 - w1 <= m2 - m1
  PROVE  w2 - start <= m2 - since
OBVIOUS

\* A window goes on to cover what is left of the units, however the clock is set.
LEMMA CoversLess ==
  ASSUME TypeInv, LogInv, NEW a \in Axes, NEW entry \in Entry,
         NEW since \in 0..mono, NEW jumps \in 0..forth, NEW old \in SUBSET granted[a],
         Covers(a, entry, since, jumps, old),
         granted'[a] \subseteq granted[a], wall' \in Nat, mono' \in Nat, forth' \in Nat,
         forth' >= forth, wall' - wall <= mono' - mono \/ forth' > forth,
         NEW left, left = old \cap granted'[a]
  PROVE  Covers(a, entry, since, jumps, left)'
<1>1. /\ mono \in Nat /\ wall \in Nat /\ forth \in Nat /\ entry.start \in Nat
      /\ entry.used \in Nat /\ since \in Nat /\ jumps \in Nat /\ jumps <= forth
  BY ReadsAssumption DEF TypeInv, Entry
<1>2. wall - entry.start <= mono - since \/ forth > jumps BY DEF Covers
<1>3. wall' - entry.start <= mono' - since \/ forth' > jumps
  <2>1. forth > jumps \/ forth' > forth => forth' > jumps BY <1>1
  <2>2. ASSUME wall - entry.start <= mono - since, wall' - wall <= mono' - mono
        PROVE  wall' - entry.start <= mono' - since
    <3>1. PICK w1 \in Nat, w2 \in Nat, m1 \in Nat, m2 \in Nat, start \in Nat, since0 \in Nat :
            /\ w1 = wall /\ w2 = wall' /\ m1 = mono /\ m2 = mono'
            /\ start = entry.start /\ since0 = since
      BY <1>1
    <3>2. w1 - start <= m1 - since0 /\ w2 - w1 <= m2 - m1 BY ONLY <2>2, <3>1
    <3>3. w2 - start <= m2 - since0 BY ONLY <3>2, ClockStep
    <3> QED BY ONLY <3>1, <3>3
  <2> QED BY <1>2, <2>1, <2>2
<1>4. ASSUME NEW S \in SUBSET granted[a], NEW T \in SUBSET S
      PROVE  Cardinality(T) \in Nat /\ Cardinality(S) \in Nat
             /\ Cardinality(T) <= Cardinality(S)
  <2>1. IsFiniteSet(S) /\ T \in SUBSET granted[a] BY Countable
  <2> QED BY <2>1, Countable, FS_Subset
<1>5. Cardinality(left) < (1 + jumps) * Capacity[a]
  <2>1. PICK bound \in Nat : bound = (1 + jumps) * Capacity[a]
    BY <1>1, BudgetAssumption, MoreWindows
  <2>2. Cardinality(old) < bound BY <2>1 DEF Covers
  <2> QED BY <1>4, <2>1, <2>2
<1>6. Cardinality(granted'[a] \ left) <= entry.used
  <2>1. granted'[a] \ left \in SUBSET (granted[a] \ old) OBVIOUS
  <2>2. Cardinality(granted[a] \ old) <= entry.used BY DEF Covers
  <2>3. granted[a] \ old \in SUBSET granted[a] OBVIOUS
  <2> QED BY <1>1, <1>4, <2>1, <2>2, <2>3
<1>7. Cardinality({u \in granted'[a] : u[1] > since}) < entry.used
  <2>1. {u \in granted'[a] : u[1] > since} \in SUBSET {u \in granted[a] : u[1] > since}
    OBVIOUS
  <2>2. Cardinality({u \in granted[a] : u[1] > since}) < entry.used BY DEF Covers
  <2>3. {u \in granted[a] : u[1] > since} \in SUBSET granted[a] OBVIOUS
  <2> QED BY <1>1, <1>4, <2>1, <2>2, <2>3
<1>8. \A u \in left : u[1] <= since BY DEF Covers
<1> QED BY <1>3, <1>5, <1>6, <1>7, <1>8 DEF Covers

LEMMA RateKept ==
  ASSUME TypeInv, LogInv, RateInv, TypeInv', Files' \subseteq Files, forth' >= forth,
         \A a \in Axes : granted'[a] \subseteq granted[a],
         mono' >= mono, wall' - wall <= mono' - mono \/ forth' > forth
  PROVE  RateInv'
<1>1. mono \in Nat /\ mono' \in Nat /\ wall' \in Nat /\ forth \in Nat /\ forth' \in Nat
  BY ReadsAssumption DEF TypeInv
<1>2. ASSUME NEW e \in Files, NEW a \in Axes, e[a] # NoEntry
      PROVE  \E since \in 0..mono', jumps \in 0..forth', old \in SUBSET granted'[a] :
               Covers(a, e[a], since, jumps, old)'
  <2>1. PICK since \in 0..mono, jumps \in 0..forth, old \in SUBSET granted[a] :
          Covers(a, e[a], since, jumps, old)
    BY <1>2 DEF RateInv
  <2>2. PICK entry \in Entry : entry = e[a] BY <1>2 DEF TypeInv, BudgetFile
  <2>3. PICK left : left = old \cap granted'[a] OBVIOUS
  <2>4. Covers(a, entry, since, jumps, left)'
    BY <1>1, <2>1, <2>2, <2>3, CoversLess
  <2>5. since \in 0..mono' /\ jumps \in 0..forth' /\ left \in SUBSET granted'[a]
    BY <1>1, <2>3
  <2> QED BY <2>2, <2>4, <2>5
<1>3. ASSUME NEW e \in Files, NEW a \in Axes, e[a] = NoEntry PROVE granted'[a] = {}
  BY <1>3 DEF RateInv
<1> QED BY <1>2, <1>3 DEF RateInv

\* A charge on one of its axes leaves a window that covers the units.
LEMMA ChargeCovers ==
  ASSUME TypeInv, LogInv, RateInv, NEW p \in Procs, Charge(p), NEW a \in AxesOf[p],
         NEW entry, entry = Charged(entries, AxesOf[p], wall)[a],
         granted' \in {granted, Logged(granted, p)}
  PROVE  \E since \in 0..mono, jumps \in 0..forth, old \in SUBSET granted'[a] :
           Covers(a, entry, since, jumps, old)'
<1> USE BudgetAssumption
<1>1. /\ a \in Axes /\ mono \in Nat /\ wall \in Nat /\ forth \in Nat
      /\ mono' = mono /\ wall' = wall /\ forth' = forth
  BY ReadsAssumption, ChargeCases DEF TypeInv
<1>2. PICK unit, more :
        /\ unit \notin granted[a] /\ unit[1] = mono
        /\ more = granted'[a] /\ more \in {granted[a], granted[a] \cup {unit}}
  BY OneMore
<1>3. IsFiniteSet(granted[a]) /\ IsFiniteSet(more)
      /\ \A u \in granted[a] : u[1] \in Nat /\ u[1] <= mono
  <2>1. IsFiniteSet(granted[a]) /\ \A u \in granted[a] : u[1] \in Nat /\ u[1] <= mono
    BY <1>1, Countable
  <2>2. IsFiniteSet(granted[a] \cup {unit}) BY <2>1, FS_AddElement
  <2> QED BY <1>2, <2>1, <2>2
<1>9. \A part \in SUBSET granted[a] : IsFiniteSet(part) /\ Cardinality(part) \in Nat
  BY <1>1, Countable
<1>10. ASSUME NEW S, IsFiniteSet(S), Cardinality(S) \in Nat
       PROVE  /\ IsFiniteSet(S \cup {unit}) /\ Cardinality(S \cup {unit}) \in Nat
              /\ Cardinality(S \cup {unit}) <= Cardinality(S) + 1
  <2>1. IsFiniteSet(S \cup {unit}) BY <1>10, FS_AddElement
  <2>2. Cardinality(S \cup {unit}) = IF unit \in S THEN Cardinality(S) ELSE Cardinality(S) + 1
    BY <1>10, FS_AddElement
  <2>3. CASE unit \in S BY <1>10, <2>1, <2>2, <2>3
  <2>4. CASE unit \notin S BY <1>10, <2>1, <2>2, <2>4
  <2> QED BY <2>3, <2>4
<1>4. ASSUME entry.start = wall, entry.used = 1, NEW old, old = granted[a],
             NEW now \in {mono}, NEW jumps \in {forth},
             Cardinality(old) < (1 + jumps) * Capacity[a]
      PROVE  Covers(a, entry, now, jumps, old)'
  <2>1. more \ old \in SUBSET {unit} BY <1>2, <1>4
  <2>2. IsFiniteSet({unit}) /\ Cardinality({unit}) = 1 BY FS_Singleton
  <2>3. Cardinality(more \ old) <= 1 BY <2>1, <2>2, FS_Subset
  <2>4. {u \in more : u[1] > now} = {} BY <1>1, <1>2, <1>3
  <2>5. Cardinality({u \in more : u[1] > now}) = 0 BY <2>4, FS_EmptySet
  <2>6. \A u \in old : u[1] <= now BY <1>3, <1>4
  <2>7. wall - entry.start <= mono - now BY <1>1, <1>4
  <2> QED BY <1>1, <1>2, <1>4, <2>3, <2>5, <2>6, <2>7 DEF Covers
<1>5. ASSUME NEW before \in Entry, before = entries[a], entry.start = before.start,
             entry.used = before.used + 1,
             NEW since \in 0..mono, NEW jumps \in 0..forth, NEW old \in SUBSET granted[a],
             Covers(a, before, since, jumps, old)
      PROVE  Covers(a, entry, since, jumps, old)'
  <2>1. before.used \in Nat BY DEF Entry
  <2>2. Cardinality(more \ old) <= entry.used
    <3>1. \/ more \ old = granted[a] \ old
          \/ more \ old = (granted[a] \ old) \cup {unit}
      <4>1. CASE more = granted[a] BY <4>1
      <4>2. CASE more = granted[a] \cup {unit} BY <1>2, <4>2
      <4> QED BY <1>2, <4>1, <4>2
    <3>2. IsFiniteSet(granted[a] \ old) /\ Cardinality(granted[a] \ old) \in Nat
      BY <1>9
    <3>3. Cardinality((granted[a] \ old) \cup {unit}) <= Cardinality(granted[a] \ old) + 1
      BY <3>2, <1>10
    <3>4. Cardinality(granted[a] \ old) <= before.used BY <1>5 DEF Covers
    <3>5. Cardinality(more \ old) <= Cardinality(granted[a] \ old) + 1
      <4>1. CASE more \ old = granted[a] \ old
        <5>1. Cardinality(more \ old) = Cardinality(granted[a] \ old) BY <4>1
        <5> QED BY <3>2, <5>1
      <4>2. CASE more \ old = (granted[a] \ old) \cup {unit} BY <3>3, <4>2
      <4> QED BY <3>1, <4>1, <4>2
    <3>6. Cardinality(more \ old) \in Nat
      BY <1>3, FS_Subset, FS_CardinalityType, more \ old \in SUBSET more
    <3> QED BY <1>5, <2>1, <3>2, <3>4, <3>5, <3>6
  <2>3. Cardinality({u \in more : u[1] > since}) < entry.used
    <3> DEFINE late == {u \in granted[a] : u[1] > since}
               later == {u \in more : u[1] > since}
    <3>1. later \in SUBSET (late \cup {unit}) BY <1>2
    <3>2. IsFiniteSet(late) /\ Cardinality(late) \in Nat
      BY <1>9
    <3>3. Cardinality(late) < before.used BY <1>5 DEF Covers
    <3> HIDE DEF late, later
    <3>4. /\ IsFiniteSet(late \cup {unit})
          /\ Cardinality(late \cup {unit}) <= Cardinality(late) + 1
      BY <3>2, <1>10
    <3>5. Cardinality(later) <= Cardinality(late \cup {unit}) /\ IsFiniteSet(later)
      BY <3>1, <3>4, FS_Subset
    <3>6. Cardinality(later) \in Nat /\ Cardinality(late \cup {unit}) \in Nat
      BY <3>4, <3>5, FS_CardinalityType
    <3>7. Cardinality(later) < entry.used BY <1>5, <2>1, <3>2, <3>3, <3>4, <3>5, <3>6
    <3> QED BY <3>7 DEF later
  <2>4. /\ wall - before.start <= mono - since \/ forth > jumps
        /\ Cardinality(old) < (1 + jumps) * Capacity[a]
        /\ \A u \in old : u[1] <= since
    BY <1>5 DEF Covers
  <2> QED BY <1>1, <1>2, <1>5, <2>2, <2>3, <2>4 DEF Covers
<1>6. \/ /\ entry.start = wall /\ entry.used = 1
         /\ entries[a] = NoEntry \/ (entries[a] \in Entry /\ wall - entries[a].start >= Period[a])
      \/ /\ entries[a] \in Entry /\ entry.start = entries[a].start
         /\ entry.used = entries[a].used + 1
  BY <1>1, ChargedEntry
<1>7. CASE /\ entry.start = wall /\ entry.used = 1
           /\ entries[a] = NoEntry \/ (entries[a] \in Entry /\ wall - entries[a].start >= Period[a])
  <2>1. PICK old : old = granted[a] OBVIOUS
  <2>2. Cardinality(old) < (1 + forth) * Capacity[a] BY <1>1, <1>7, <2>1, OpensWithRoom
  <2>3. PICK now \in {mono}, jumps \in {forth} : TRUE OBVIOUS
  <2>4. Covers(a, entry, now, jumps, old)' BY <1>4, <1>7, <2>1, <2>2, <2>3
  <2>5. now \in 0..mono /\ jumps \in 0..forth /\ old \in SUBSET granted'[a]
    BY <1>1, <1>2, <2>1, <2>3
  <2> QED BY <2>4, <2>5
<1>8. CASE /\ entries[a] \in Entry /\ entry.start = entries[a].start
           /\ entry.used = entries[a].used + 1
  <2>1. PICK before \in Entry : before = entries[a] BY <1>8
  <2>2. before # NoEntry BY DEF Entry, NoEntry
  <2>3. PICK since \in 0..mono, jumps \in 0..forth, old \in SUBSET granted[a] :
          Covers(a, before, since, jumps, old)
    BY <1>1, <2>1, <2>2 DEF RateInv, Files
  <2>4. Covers(a, entry, since, jumps, old)' BY <1>5, <1>8, <2>1, <2>3
  <2>5. old \in SUBSET granted'[a] BY <1>2
  <2> QED BY <2>4, <2>5
<1> QED BY <1>6, <1>7, <1>8

LEMMA RateStep ==
  ASSUME TypeInv, LogInv, RateInv, [Next]_vars, TypeInv'
  PROVE  RateInv'
<1>1. mono \in Nat /\ wall \in Nat /\ forth \in Nat
  BY ReadsAssumption DEF TypeInv
<1>2. CASE Quiet \/ PowerLoss \/ UNCHANGED vars
  <2>1. Files' \subseteq Files /\ UNCHANGED <<granted, mono, wall, forth>>
    BY <1>2 DEF Quiet, PowerLoss, vars, machine, clocks, history, Files
  <2> QED BY <1>1, <2>1, RateKept
<1>3. CASE Tick
  <2>1. Files' \subseteq Files /\ mono' = mono + 1 /\ wall' = wall + 1 /\ forth' = forth
    BY <1>3 DEF Tick, Files
  <2>2. \A a \in Axes : granted'[a] \subseteq granted[a] BY <1>3 DEF Tick, Aged
  <2> QED BY <1>1, <2>1, <2>2, RateKept
<1>4. CASE SetClock
  <2>1. Files' \subseteq Files /\ UNCHANGED <<granted, mono>>
    BY <1>4 DEF SetClock, UnchangedBudget, Files
  <2>2. forth' >= forth /\ (wall' - wall <= mono' - mono \/ forth' > forth)
    BY <1>1, <1>4 DEF SetClock
  <2> QED BY <1>1, <2>1, <2>2, RateKept
<1>5. ASSUME NEW p \in Procs, Charge(p) PROVE RateInv'
  <2> DEFINE new == Charged(entries, AxesOf[p], wall)
  <2>1. /\ UNCHANGED <<mono, wall, forth>> /\ new \in BudgetFile
        /\ \/ granted' = Logged(granted, p) /\ Files' = {new}
           \/ granted' = granted /\ Files' = Files \cup {new}
    BY <1>5, ChargeCases
  <2> HIDE DEF new
  <2>2. ASSUME NEW e \in Files, NEW a \in Axes, e[a] # NoEntry, granted'[a] = granted[a]
        PROVE  \E since \in 0..mono, jumps \in 0..forth, old \in SUBSET granted'[a] :
                 Covers(a, e[a], since, jumps, old)'
    <3>1. PICK entry \in Entry : entry = e[a] BY <2>2 DEF TypeInv, BudgetFile
    <3>2. PICK since \in 0..mono, jumps \in 0..forth, old \in SUBSET granted[a] :
            Covers(a, entry, since, jumps, old)
      BY <2>2, <3>1 DEF RateInv
    <3>3. Covers(a, entry, since, jumps, old)' BY <2>1, <2>2, <3>2 DEF Covers
    <3> QED BY <2>2, <3>1, <3>2, <3>3
  <2>3. ASSUME NEW e \in Files', NEW a \in Axes
        PROVE  IF e[a] = NoEntry THEN granted'[a] = {}
               ELSE \E since \in 0..mono, jumps \in 0..forth, old \in SUBSET granted'[a] :
                      Covers(a, e[a], since, jumps, old)'
    <3>1. CASE e \in Files /\ granted'[a] = granted[a]
      BY <2>2, <3>1 DEF RateInv
    <3>2. CASE e = new /\ a \notin AxesOf[p]
      <4>1. new[a] = entries[a] /\ entries \in Files
        BY <1>5, <3>2, ChargedEntry DEF new, Files
      <4>2. granted'[a] = granted[a] BY <2>1, <3>2 DEF Logged
      <4> QED BY <2>2, <3>2, <4>1, <4>2 DEF RateInv
    <3>3. CASE e = new /\ a \in AxesOf[p]
      <4>1. PICK entry : entry = new[a] OBVIOUS
      <4>2. entry # NoEntry
        BY <1>5, <3>3, <4>1, ChargedEntry DEF new, Entry, NoEntry
      <4>3. \E since \in 0..mono, jumps \in 0..forth, old \in SUBSET granted'[a] :
              Covers(a, entry, since, jumps, old)'
        BY <1>5, <2>1, <3>3, <4>1, ChargeCovers DEF new
      <4> QED BY <3>3, <4>1, <4>2, <4>3
    <3> QED BY <2>1, <3>1, <3>2, <3>3
  <2> QED BY <2>1, <2>3 DEF RateInv
<1> QED BY <1>2, <1>3, <1>4, <1>5, Steps

\* No axis grants more.
LEMMA RateFollows ==
  ASSUME TypeInv, LogInv, RateInv
  PROVE  RateBound
<1> SUFFICES ASSUME NEW a \in Axes PROVE Cardinality(granted[a]) < (2 + forth) * Capacity[a]
  BY DEF RateBound, LastPeriod
<1>1. PICK c \in Nat : c = Capacity[a] /\ c >= 1 BY BudgetAssumption
<1>2. PICK n \in Nat : n = Cardinality(granted[a]) BY Countable
<1>3. /\ forth \in Nat /\ (1 + forth) * c \in Nat /\ c <= (1 + forth) * c
      /\ (1 + forth) * c + c = (2 + forth) * c
  BY MoreWindows DEF TypeInv
<1>4. CASE entries[a] = NoEntry
  <2>1. Cardinality(granted[a]) < (1 + forth) * Capacity[a] BY <1>4, OpensWithRoom
  <2> QED BY <1>1, <1>2, <1>3, <2>1
<1>5. CASE entries[a] # NoEntry
  <2>1. PICK entry \in Entry : entry = entries[a] /\ entry.used \in Nat /\ entry.used <= c
    BY <1>1, <1>5 DEF TypeInv, Files, BudgetFile, Readable, Entry
  <2>2. PICK since \in 0..mono, jumps \in 0..forth, old \in SUBSET granted[a] :
          Covers(a, entry, since, jumps, old)
    BY <1>5, <2>1 DEF RateInv, Files
  <2>3. n = Cardinality(old) + Cardinality(granted[a] \ old)
        /\ Cardinality(old) \in Nat /\ Cardinality(granted[a] \ old) \in Nat
    BY <1>2, Countable, PartAndRest
  <2>4. Cardinality(old) < (1 + jumps) * c /\ Cardinality(granted[a] \ old) <= entry.used
    BY <1>1, <2>2 DEF Covers
  <2>5. (1 + jumps) * c <= (1 + forth) * c /\ (1 + jumps) * c \in Nat
    BY <1>3, MoreWindows
  <2> QED BY <1>1, <1>2, <1>3, <2>1, <2>3, <2>4, <2>5
<1> QED BY <1>4, <1>5

-----------------------------------------------------------------------------
(* Refusals. *)

LEMMA SpentStep ==
  ASSUME TypeInv, LogInv, SpentInv, [Next]_vars, TypeInv'
  PROVE  SpentInv'
<1> DEFINE Since(log, start) == {u \in log : u[1] >= start}
           Honest(a, entry, log, now) ==
             /\ entry.seen <= now
             /\ now - entry.start < Period[a] =>
                  Cardinality(Since(log, entry.start)) >= entry.used
<1> SUFFICES ASSUME forth' + back' = 0
             PROVE  /\ wall' = mono'
                    /\ \A e \in Files', a \in Axes :
                         e[a] # NoEntry => Honest(a, e[a], charged'[a], mono')
  BY DEF SpentInv
<1>1. /\ mono \in Nat /\ wall \in Nat /\ forth \in Nat /\ back \in Nat
      /\ forth' \in Nat /\ back' \in Nat
  BY ReadsAssumption DEF TypeInv
<1>2. ASSUME forth + back = 0
      PROVE  /\ wall = mono
             /\ \A e \in Files, a \in Axes :
                  e[a] # NoEntry => Honest(a, e[a], charged[a], mono)
  BY <1>2 DEF SpentInv
<1> HIDE DEF Honest
<1>3. CASE Quiet \/ PowerLoss \/ UNCHANGED vars
  <2>1. Files' \subseteq Files /\ UNCHANGED <<charged, mono, wall, forth, back>>
    BY <1>3 DEF Quiet, PowerLoss, vars, machine, clocks, history, Files
  <2>2. PICK log, now : log = charged /\ now = mono OBVIOUS
  <2>3. \A e \in Files, a \in Axes : e[a] # NoEntry => Honest(a, e[a], log[a], now)
    BY <1>2, <2>1, <2>2
  <2>4. charged' = log /\ mono' = now /\ wall' = mono' BY <1>2, <2>1, <2>2
  <2> QED BY <2>1, <2>3, <2>4
<1>4. CASE SetClock
  <2>1. (forth' = forth + 1 /\ back' = back) \/ (back' = back + 1 /\ forth' = forth)
    BY <1>4 DEF SetClock
  <2>2. \A m, n \in Nat : (m + 1) + n # 0 /\ m + (n + 1) # 0 OBVIOUS
  <2>3. forth' + back' # 0 BY <1>1, <2>1, <2>2
  <2> QED BY <2>3
<1>5. CASE Tick
  <2>1. /\ Files' \subseteq Files /\ mono' = mono + 1 /\ wall' = wall + 1
        /\ forth + back = 0
    BY <1>5 DEF Tick, Files
  <2>2. ASSUME NEW e \in Files, NEW a \in Axes, e[a] # NoEntry
        PROVE  Honest(a, e[a], charged'[a], mono')
    <3>1. PICK entry \in Entry : entry = e[a] BY <2>2 DEF TypeInv, BudgetFile
    <3>2. entry.seen \in Nat /\ entry.start \in Nat /\ Period[a] \in Nat
      BY BudgetAssumption DEF Entry
    <3>3. entry.seen <= mono
          /\ (mono - entry.start < Period[a] =>
                Cardinality(Since(charged[a], entry.start)) >= entry.used)
      BY <1>2, <2>1, <2>2, <3>1 DEF Honest
    <3>4. ASSUME mono' - entry.start < Period[a]
          PROVE  Since(charged'[a], entry.start) = Since(charged[a], entry.start)
      <4>1. charged'[a] = {u \in charged[a] : (mono + 1) - u[1] < Period[a]}
        BY <1>5 DEF Tick, Aged
      <4>2. \A u \in charged[a] : u[1] \in Nat BY Countable
      <4>3. \A u \in charged[a] : u[1] >= entry.start => (mono + 1) - u[1] < Period[a]
        BY <1>1, <2>1, <3>2, <3>4, <4>2
      <4> QED BY <4>1, <4>3
    <3>5. mono - entry.start < Period[a] \/ ~(mono' - entry.start < Period[a])
      BY <1>1, <2>1, <3>2
    <3>6. entry.seen <= mono' BY <1>1, <2>1, <3>2, <3>3
    <3> HIDE DEF Since
    <3> QED BY <3>1, <3>3, <3>4, <3>5, <3>6 DEF Honest
  <2> QED BY <1>2, <2>1, <2>2
<1>6. ASSUME NEW p \in Procs, Charge(p)
      PROVE  /\ wall' = mono'
             /\ \A e \in Files', a \in Axes :
                  e[a] # NoEntry => Honest(a, e[a], charged'[a], mono')
  <2> DEFINE new == Charged(entries, AxesOf[p], wall)
  <2>1. /\ UNCHANGED <<mono, wall, forth, back>> /\ charged' = Logged(charged, p)
        /\ Files' \subseteq Files \cup {new}
    BY <1>6, ChargeCases
  <2>2. forth + back = 0 /\ wall = mono BY <1>2, <2>1
  <2> HIDE DEF new
  <2>3. ASSUME NEW e \in Files, NEW a \in Axes, e[a] # NoEntry
        PROVE  Honest(a, e[a], charged'[a], mono)
    <3>1. PICK entry \in Entry : entry = e[a] BY <2>3 DEF TypeInv, BudgetFile
    <3>2. Honest(a, entry, charged[a], mono) BY <1>2, <2>2, <2>3, <3>1
    <3>3. CASE a \notin AxesOf[p]
      <4>1. PICK log : log = charged[a] OBVIOUS
      <4>2. charged'[a] = log BY <2>1, <3>3, <4>1 DEF Logged
      <4>3. Honest(a, entry, log, mono) BY <3>2, <4>1
      <4> QED BY <3>1, <4>2, <4>3
    <3>4. CASE a \in AxesOf[p]
      <4>1. PICK unit :
              /\ unit \notin charged[a] /\ unit[1] = mono
              /\ charged'[a] = charged[a] \cup {unit}
        BY <2>1, <3>4, OneMore
      <4>2. IsFiniteSet(charged'[a]) BY <4>1, Countable, FS_AddElement
      <4>3. /\ Since(charged'[a], entry.start) \in SUBSET charged'[a]
            /\ Since(charged[a], entry.start) \in SUBSET Since(charged'[a], entry.start)
            /\ Since(charged[a], entry.start) \in SUBSET charged[a]
        BY <4>1
      <4> HIDE DEF Since
      <4>4. /\ Cardinality(Since(charged[a], entry.start)) \in Nat
            /\ Cardinality(Since(charged'[a], entry.start)) \in Nat
            /\ Cardinality(Since(charged[a], entry.start))
                 <= Cardinality(Since(charged'[a], entry.start))
        BY <4>2, <4>3, Countable, FS_Subset, FS_CardinalityType
      <4>5. entry.used \in Nat BY DEF Entry
      <4> QED BY <3>1, <3>2, <4>4, <4>5 DEF Honest
    <3> QED BY <3>3, <3>4
  <2>4. ASSUME NEW a \in Axes, new[a] # NoEntry
        PROVE  Honest(a, new[a], charged'[a], mono)
    <3>1. CASE a \notin AxesOf[p]
      <4>1. new[a] = entries[a] /\ entries \in Files
        BY <1>6, <3>1, ChargedEntry DEF new, Files
      <4> QED BY <2>3, <2>4, <4>1
    <3>2. CASE a \in AxesOf[p]
      <4>1. PICK unit :
              /\ unit \notin charged[a] /\ unit[1] = mono
              /\ charged'[a] = charged[a] \cup {unit}
        BY <2>1, <3>2, OneMore
      <4>2. PICK entry : entry = new[a] OBVIOUS
      <4>3. /\ entry \in Entry
            /\ \/ entry.start = wall /\ entry.seen = wall /\ entry.used = 1
               \/ /\ entries[a] \in Entry /\ Readable(a, entries[a])
                  /\ entry.start = entries[a].start /\ entry.used = entries[a].used + 1
                  /\ entry.seen = IF wall >= entries[a].seen THEN wall ELSE entries[a].seen
        BY <1>6, <3>2, <4>2, ChargedEntry DEF new
      <4>4. CASE entry.start = wall /\ entry.seen = wall /\ entry.used = 1
        <5> DEFINE counted == Since(charged'[a], entry.start)
        <5>1. unit \in counted BY <1>1, <2>2, <4>1, <4>4
        <5>2. counted \in SUBSET charged'[a] OBVIOUS
        <5> HIDE DEF counted
        <5>3. IsFiniteSet(counted)
          BY <4>1, <5>2, Countable, FS_AddElement, FS_Subset
        <5>4. Cardinality(counted) \in Nat /\ Cardinality(counted) # 0
          BY <5>1, <5>3, FS_EmptySet, FS_CardinalityType
        <5>5. Cardinality(counted) >= entry.used BY <4>4, <5>4
        <5>6. entry.seen <= mono BY <1>1, <2>2, <4>4
        <5> QED BY <4>2, <5>5, <5>6 DEF Honest, counted
      <4>5. CASE /\ entries[a] \in Entry /\ Readable(a, entries[a])
                 /\ entry.start = entries[a].start /\ entry.used = entries[a].used + 1
                 /\ entry.seen = IF wall >= entries[a].seen THEN wall ELSE entries[a].seen
        <5>1. PICK before \in Entry : before = entries[a] /\ before.seen >= before.start
          BY <4>5 DEF Readable
        <5>2. before # NoEntry BY DEF Entry, NoEntry
        <5>3. Honest(a, before, charged[a], mono) BY <1>2, <2>2, <5>1, <5>2 DEF Files
        <5>4. before.seen \in Nat /\ before.start \in Nat /\ before.used \in Nat
          BY DEF Entry
        <5>5. before.seen <= mono BY <5>3 DEF Honest
        <5>6. entry.seen <= mono BY <1>1, <2>2, <4>5, <5>1, <5>4, <5>5
        <5>7. Since(charged'[a], entry.start) = Since(charged[a], before.start) \cup {unit}
          <6>1. unit[1] >= before.start BY <1>1, <4>1, <5>1, <5>4, <5>5
          <6> QED BY <4>1, <4>5, <5>1, <6>1
        <5>8. unit \notin Since(charged[a], before.start) BY <4>1
        <5>9. Since(charged[a], before.start) \in SUBSET charged[a] OBVIOUS
        <5> HIDE DEF Since
        <5>10. IsFiniteSet(Since(charged[a], before.start))
               /\ Cardinality(Since(charged[a], before.start)) \in Nat
          BY <5>9, Countable
        <5>11. Cardinality(Since(charged'[a], entry.start))
                 = Cardinality(Since(charged[a], before.start)) + 1
          BY <5>7, <5>8, <5>10, FS_AddElement
        <5>12. mono - before.start < Period[a] =>
                 Cardinality(Since(charged[a], before.start)) >= before.used
          BY <5>3 DEF Honest
        <5>13. entry.start = before.start /\ entry.used = before.used + 1 BY <4>5, <5>1
        <5>14. mono - entry.start < Period[a] =>
                 Cardinality(Since(charged'[a], entry.start)) >= entry.used
          BY <5>4, <5>10, <5>11, <5>12, <5>13
        <5> QED BY <4>2, <5>6, <5>14 DEF Honest
      <4> QED BY <4>3, <4>4, <4>5
    <3> QED BY <3>1, <3>2
  <2> QED BY <2>1, <2>2, <2>3, <2>4
<1> QED BY <1>3, <1>4, <1>5, <1>6, Steps

\* Where a window is full, as many units as it holds were charged within the period.
LEMMA RefusalIsEarned ==
  ASSUME TypeInv, LogInv, SpentInv, NEW p \in Procs, Refuse(p), forth + back = 0
  PROVE  \E a \in AxesOf[p] : LastPeriod(charged, a) >= Capacity[a]
<1>1. /\ entries \in BudgetFile /\ entries \in Files /\ wall \in Nat /\ mono \in Nat
      /\ AxesOf[p] \in SUBSET Axes
  BY ReadsAssumption DEF TypeInv, Files
<1>2. PICK a \in AxesOf[p] : EntryAt(entries, a, wall).used + 1 > Capacity[a]
  BY DEF Refuse, Exhausted
<1>3. PICK c \in Nat : c = Capacity[a] /\ c >= 1 BY <1>1, BudgetAssumption
<1>4. PICK entry \in Entry : entry = EntryAt(entries, a, wall) BY <1>1, EntryFacts
<1>5. entry.used >= c /\ entry.used \in Nat BY <1>2, <1>3, <1>4 DEF Entry
<1>6. entry # Opened(wall) BY <1>3, <1>5 DEF Opened
<1>7. /\ entries[a] \in Entry /\ entry.used = entries[a].used
      /\ ~(wall >= entries[a].seen /\ wall - entries[a].start >= Period[a])
  BY <1>1, <1>4, <1>6, EntryFacts
<1>8. PICK before \in Entry : before = entries[a] BY <1>7
<1>9. before.seen \in Nat /\ before.start \in Nat /\ before.used \in Nat /\ Period[a] \in Nat
  BY <1>1, BudgetAssumption DEF Entry
<1>10. before # NoEntry BY DEF Entry, NoEntry
<1>11. /\ wall = mono /\ before.seen <= wall
       /\ mono - before.start < Period[a] =>
            Cardinality({u \in charged[a] : u[1] >= before.start}) >= before.used
  BY <1>1, <1>8, <1>10 DEF SpentInv
<1>12. mono - before.start < Period[a] BY <1>1, <1>7, <1>8, <1>9, <1>11
<1>13. /\ IsFiniteSet(charged[a]) /\ Cardinality(charged[a]) \in Nat
       /\ Cardinality({u \in charged[a] : u[1] >= before.start}) \in Nat
       /\ Cardinality({u \in charged[a] : u[1] >= before.start}) <= Cardinality(charged[a])
  <2> DEFINE counted == {u \in charged[a] : u[1] >= before.start}
  <2>1. counted \in SUBSET charged[a] OBVIOUS
  <2>2. IsFiniteSet(charged[a]) BY <1>1, Countable
  <2> HIDE DEF counted
  <2>3. IsFiniteSet(counted) /\ Cardinality(counted) <= Cardinality(charged[a])
    BY <2>1, <2>2, FS_Subset
  <2>4. Cardinality(counted) \in Nat /\ Cardinality(charged[a]) \in Nat
    BY <2>2, <2>3, FS_CardinalityType
  <2> QED BY <2>2, <2>3, <2>4 DEF counted
<1>14. Cardinality(charged[a]) >= c
  BY <1>3, <1>5, <1>7, <1>8, <1>9, <1>11, <1>12, <1>13
<1> QED BY <1>3, <1>14 DEF LastPeriod

-----------------------------------------------------------------------------
(* The theorems. *)

ReadsInv == TypeInv /\ LogInv /\ PaidInv /\ RateInv /\ SpentInv

LEMMA ReadsInvariant == Spec => []ReadsInv
<1>1. Init => ReadsInv
  <2> SUFFICES ASSUME Init PROVE ReadsInv OBVIOUS
  <2>1. TypeInv
    <3>1. [a \in Axes |-> NoEntry] \in BudgetFile BY DEF BudgetFile
    <3>2. Files = {[a \in Axes |-> NoEntry]} BY DEF Init, Files
    <3>3. NewCall \in Call BY ReadsAssumption DEF NewCall, Call, Points
    <3>4. GoodCall(NewCall) BY <3>3 DEF GoodCall, NewCall
    <3>5. calls \in [Procs -> Call] /\ \A p \in Procs : GoodCall(calls[p])
      BY <3>3, <3>4 DEF Init
    <3> QED BY <3>1, <3>2, <3>5, ReadsAssumption DEF Init, TypeInv
  <2>2. \A e \in Files, a \in Axes : e[a] = NoEntry BY DEF Init, Files
  <2>3. LogInv
    <3>1. \A a \in Axes : charged[a] = {} /\ granted[a] = {} BY DEF Init, Never
    <3>2. charged \in [Axes -> SUBSET Units] /\ granted \in [Axes -> SUBSET Units]
      BY DEF Init, Never
    <3>3. IsFiniteSet({}) BY FS_EmptySet
    <3> QED BY <3>1, <3>2, <3>3 DEF LogInv, Numbered
  <2>4. PaidInv BY DEF Init, PaidInv
  <2>5. RateInv BY <2>2 DEF Init, RateInv, Never
  <2>6. SpentInv BY <2>2 DEF Init, SpentInv
  <2> QED BY <2>1, <2>3, <2>4, <2>5, <2>6 DEF ReadsInv
<1>2. ReadsInv /\ [Next]_vars => ReadsInv'
  BY TypeStep, LogStep, PaidStep, RateStep, SpentStep DEF ReadsInv
<1> QED BY <1>1, <1>2, PTL DEF Spec

\* In every state the coordinator reads back what it has written, whatever the clock did
\* and whichever file a power loss left, and no call makes more attempts than it may.
THEOREM ReadsTyped == Spec => []TypeOK
<1>1. ReadsInv => TypeOK
  BY DEF ReadsInv, TypeInv, TypeOK, Files, BudgetFile
<1> QED BY <1>1, ReadsInvariant, PTL

\* Over a period of true time an axis grants fewer requests than two windows hold, and a
\* window more for each time the wall clock was set forth: acquire of any processes.
THEOREM RateIsBounded == Spec => []RateBound
<1>1. ReadsInv => RateBound BY RateFollows DEF ReadsInv
<1> QED BY <1>1, ReadsInvariant, PTL

\* A request leaves only on a unit of its own, and the file in force has counted all the
\* units granted since its window opened, after a power loss as well.
THEOREM RequestsArePaid == Spec => []EveryRequestIsPaid
<1>1. ReadsInv => EveryRequestIsPaid
  <2> SUFFICES ASSUME ReadsInv PROVE EveryRequestIsPaid OBVIOUS
  <2>1. ASSUME NEW p \in Procs PROVE calls[p].unspent >= 0
    BY DEF ReadsInv, TypeInv, GoodCall
  <2>2. \A a \in Axes : paid[a] > 0 => paid[a] <= entries[a].used
    BY DEF ReadsInv, PaidInv, Files
  <2> QED BY <2>1, <2>2 DEF EveryRequestIsPaid
<1> QED BY <1>1, ReadsInvariant, PTL

\* As long as nobody sets the wall clock, acquire turns a call away only where an axis was
\* charged to its capacity within the last period, whatever charges were not confirmed.
THEOREM RefusalsAreEarned == Spec => RefusedOnlyWhenSpent
<1>1. ReadsInv /\ [Next]_vars =>
        [\A p \in Procs :
           Refuse(p) /\ forth + back = 0 =>
             \E a \in AxesOf[p] : LastPeriod(charged, a) >= Capacity[a]]_vars
  BY RefusalIsEarned DEF ReadsInv
<1> QED BY <1>1, ReadsInvariant, PTL DEF Spec, RefusedOnlyWhenSpent
=============================================================================
