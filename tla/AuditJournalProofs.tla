------------------------- MODULE AuditJournalProofs -------------------------
(***************************************************************************)
(* Theorems of AuditJournal, for any drafts, any length of the journal and *)
(* of its segments.                                                        *)
(***************************************************************************)
EXTENDS AuditJournal, FiniteSetTheorems, SequenceTheorems, WellFoundedInduction, TLAPS

-----------------------------------------------------------------------------
(* The inductive invariants. *)

\* The lines are numbered and cut into segments as readers expect.
Chained(s) ==
  \A i \in DOMAIN s :
    LET before == IF i = 1 THEN 1 ELSE s[i - 1].segment IN
    /\ s[i].sequence = i
    /\ s[i].segment \in {before, before + 1} /\ (i = 1 => s[i].segment = 1)
    /\ s[i].draft = Checkpoint <=> s[i].segment # before

Typed ==
  /\ lines \in Seq(Line) /\ torn \in BOOLEAN /\ losses \in Nat /\ losses <= MaxLosses
  /\ manifest = Absent \/ \E chain \in Seq(Line) : manifest = <<chain>>

\* As long as no file is lost, the manifest commits to all lines or to all but the last.
ManifestFollows ==
  losses = 0 =>
    /\ Chained(lines)
    /\ manifest = Absent => lines = <<>> /\ confirmed = {}
    /\ manifest # Absent =>
         IsPrefix(manifest[1], lines) /\ Len(manifest[1]) >= Len(lines) - 1

\* The manifest commits to what was confirmed; a journal that looks new has confirmed
\* nothing.
ManifestCovers ==
  /\ manifest # Absent => confirmed \subseteq ToSet(manifest[1])
  /\ manifest = Absent /\ lines = <<>> /\ ~torn => confirmed = {}

ChainInv == Typed /\ ManifestFollows
LossInv == ChainInv /\ ManifestCovers

-----------------------------------------------------------------------------
(* Prefixes, and the lines an append adds. *)

LEMMA PrefixFacts ==
  ASSUME NEW S, NEW s \in Seq(S), NEW t \in Seq(S)
  PROVE  /\ IsPrefix(s, t) <=> Len(s) <= Len(t) /\ \A i \in 1..Len(s) : s[i] = t[i]
         /\ IsPrefix(s, t) => ToSet(s) \subseteq ToSet(t)
<1>1. IsPrefix(s, t) <=> Len(s) <= Len(t) /\ \A i \in 1..Len(s) : s[i] = t[i]
  <2>1. ASSUME Len(s) <= Len(t)
        PROVE  SubSeq(s, 1, Len(s)) = SubSeq(t, 1, Len(s)) <=> \A i \in 1..Len(s) : s[i] = t[i]
    BY <2>1
  <2> QED BY <2>1 DEF IsPrefix
<1>2. ASSUME IsPrefix(s, t), NEW e \in ToSet(s) PROVE e \in ToSet(t)
  <2>1. DOMAIN s = 1..Len(s) /\ DOMAIN t = 1..Len(t) /\ Len(s) \in Nat /\ Len(t) \in Nat
    BY LenProperties
  <2>2. PICK i \in 1..Len(s) : e = s[i]
    BY <1>2, <2>1 DEF ToSet
  <2>3. i \in DOMAIN t /\ e = t[i]
    BY <1>1, <1>2, <2>1, <2>2
  <2> QED BY <2>3 DEF ToSet
<1> QED BY <1>1, <1>2

LEMMA WholeIsPrefix ==
  ASSUME NEW S, NEW s \in Seq(S)
  PROVE  IsPrefix(s, s) /\ Len(s) >= Len(s) - 1
<1>1. Len(s) \in Nat
  BY LenProperties
<1> QED BY <1>1, PrefixFacts

LEMMA ExtensionFacts ==
  ASSUME NEW S, NEW s \in Seq(S), NEW t \in Seq(S), NEW u, u = s \o t
  PROVE  /\ u \in Seq(S) /\ Len(u) = Len(s) + Len(t)
         /\ \A i \in 1..Len(s) : u[i] = s[i]
         /\ \A i \in 1..Len(t) : u[Len(s) + i] = t[i]
BY ConcatProperties, LenProperties

LEMMA FrontFacts ==
  ASSUME NEW S, NEW s \in Seq(S), s # <<>>, NEW f, f = Front(s)
  PROVE  /\ f \in Seq(S) /\ Len(f) = Len(s) - 1
         /\ \A i \in 1..(Len(s) - 1) : f[i] = s[i]
<1>1. Len(s) \in Nat /\ Len(s) >= 1
  BY EmptySeq, LenProperties
<1>2. PICK m : m = Len(s) - 1 /\ f = SubSeq(s, 1, m)
  BY DEF Front
<1>3. 1 \in Int /\ m \in Int /\ \A i \in 1..m : s[i] \in S
  BY <1>1, <1>2, ElementOfSeq
<1>4. /\ f \in Seq(S) /\ Len(f) = (IF 1 <= m THEN m - 1 + 1 ELSE 0)
      /\ \A i \in 1..(m - 1 + 1) : f[i] = s[1 + i - 1]
  BY <1>2, <1>3, SubSeqProperties
<1>5. Len(f) = m /\ \A i \in 1..m : f[i] = s[i]
  BY <1>1, <1>2, <1>4
<1> QED BY <1>2, <1>4, <1>5

LEMMA AddedFacts ==
  ASSUME Typed, Chained(lines), NEW d \in Drafts, NEW n \in 0..Len(Added(d))
  PROVE  /\ Added(d) \in Seq(Line) /\ Len(Added(d)) \in {1, 2}
         /\ SubSeq(Added(d), 1, n) \in Seq(Line) /\ Len(SubSeq(Added(d), 1, n)) = n
         /\ \A i \in 1..n : SubSeq(Added(d), 1, n)[i] = Added(d)[i]
         /\ Chained(lines \o SubSeq(Added(d), 1, n))
<1> DEFINE full == Cardinality(InSegment(LastSegment)) >= MaxPerSegment
           seg == IF full THEN LastSegment + 1 ELSE LastSegment
           at == Len(lines)
           one == [draft |-> d, segment |-> seg, sequence |-> at + 1]
           mark == [draft |-> Checkpoint, segment |-> seg, sequence |-> at + 1]
           two == [draft |-> d, segment |-> seg, sequence |-> at + 2]
<1>1. /\ lines \in Seq(Line) /\ at \in Nat /\ LastSegment \in Nat /\ (lines = <<>> <=> at = 0)
      /\ lines = <<>> => LastSegment = 1
      /\ lines # <<>> => LastSegment = lines[at].segment
  <2>1. lines \in Seq(Line) /\ at \in Nat /\ (lines # <<>> => at \in 1..Len(lines))
    BY EmptySeq, LenProperties DEF Typed
  <2>2. lines # <<>> => lines[at] \in Line /\ LastSegment = lines[at].segment
    BY <2>1, ElementOfSeq DEF LastSegment, Last
  <2> QED BY <2>1, <2>2 DEF LastSegment, Line
<1>2. Added(d) = IF full THEN <<mark, two>> ELSE <<one>>
  BY DEF Added
<1>3. lines = <<>> => ~full
  <2> SUFFICES ASSUME lines = <<>> PROVE ~full
    OBVIOUS
  <2>1. InSegment(LastSegment) = {}
    BY DEF InSegment
  <2> QED BY <2>1, FS_EmptySet, JournalAssumption
<1>4. one \in Line /\ mark \in Line /\ two \in Line /\ d # Checkpoint
  BY <1>1, JournalAssumption DEF Line
<1> HIDE DEF full
<1>5. /\ Added(d) \in Seq(Line) /\ Len(Added(d)) \in {1, 2}
      /\ \A i \in 1..Len(Added(d)) :
           /\ Added(d)[i].sequence = at + i /\ Added(d)[i].segment = seg
           /\ Added(d)[i].draft = Checkpoint <=> i = 1 /\ full
  <2>1. CASE full
    BY <1>2, <1>4, <2>1
  <2>2. CASE ~full
    BY <1>2, <1>4, <2>2
  <2> QED BY <2>1, <2>2
<1>6. PICK added : added = Added(d)
  OBVIOUS
<1>7. PICK part : part = SubSeq(added, 1, n)
  OBVIOUS
<1>8. part \in Seq(Line) /\ Len(part) = n /\ \A i \in 1..n : part[i] = added[i]
  BY <1>5, <1>6, <1>7
<1>9. PICK next : next = lines \o part
  OBVIOUS
<1>10. /\ next \in Seq(Line) /\ Len(next) = at + n
       /\ \A i \in 1..at : next[i] = lines[i]
       /\ \A i \in 1..n : next[at + i] = part[i]
  <2>1. n \in Nat /\ Len(lines) = at
    BY <1>5, <1>6
  <2> HIDE DEF at
  <2>2. PICK s : s = lines
    OBVIOUS
  <2>3. s \in Seq(Line) /\ part \in Seq(Line)
    BY <1>1, <1>8, <2>2
  <2>4. /\ next \in Seq(Line) /\ Len(next) = Len(s) + Len(part)
        /\ \A i \in 1..Len(s) : next[i] = s[i]
        /\ \A i \in 1..Len(part) : next[Len(s) + i] = part[i]
    BY <1>9, <2>2, <2>3, ExtensionFacts
  <2> QED BY <1>8, <1>9, <2>1, <2>2, <2>4
<1>11. Chained(next)
  <2> HIDE DEF at, seg, one, two, mark
  <2>4. DOMAIN next = 1..(at + n) /\ DOMAIN lines = 1..at /\ n \in Nat
    BY <1>1, <1>5, <1>6, <1>10, LenProperties DEF at
  <2> SUFFICES ASSUME NEW i \in 1..(at + n)
               PROVE  LET before == IF i = 1 THEN 1 ELSE next[i - 1].segment IN
                      /\ next[i].sequence = i
                      /\ next[i].segment \in {before, before + 1} /\ (i = 1 => next[i].segment = 1)
                      /\ next[i].draft = Checkpoint <=> next[i].segment # before
    BY <2>4 DEF Chained
  <2>1. CASE i \in 1..at
    <3>1. next[i] = lines[i] /\ (i # 1 => next[i - 1] = lines[i - 1]) /\ i \in DOMAIN lines
      BY <1>1, <1>10, <2>1, <2>4
    <3> QED BY <3>1 DEF Chained
  <2>2. CASE i = at + 1
    <3>1. /\ next[i].sequence = i /\ next[i].segment = seg
          /\ next[i].draft = Checkpoint <=> full
      BY <1>1, <1>5, <1>6, <1>8, <1>10, <2>2
    <3>2. (IF i = 1 THEN 1 ELSE next[i - 1].segment) = LastSegment
      <4>1. CASE at = 0
        BY <1>1, <2>2, <4>1
      <4>2. CASE at # 0
        <5>1. i - 1 = at /\ at \in 1..at /\ i # 1
          BY <1>1, <2>2, <4>2
        <5> QED BY <1>1, <1>10, <4>2, <5>1
      <4> QED BY <4>1, <4>2
    <3>3. seg \in {LastSegment, LastSegment + 1} /\ (full <=> seg # LastSegment)
          /\ (i = 1 => seg = 1)
      BY <1>1, <1>3, <2>2 DEF seg
    <3> QED BY <3>1, <3>2, <3>3
  <2>3. CASE i = at + 2
    <3>1. n = 2 /\ full
      BY <1>1, <1>2, <1>5, <1>6, <2>3
    <3>2. /\ next[i].sequence = i /\ next[i].segment = seg /\ next[i].draft # Checkpoint
          /\ next[i - 1].segment = seg /\ i # 1
      BY <1>1, <1>5, <1>6, <1>8, <1>10, <2>3, <3>1
    <3> QED BY <3>1, <3>2
  <2> QED BY <1>1, <1>5, <1>6, <2>1, <2>2, <2>3
<1> QED BY <1>5, <1>6, <1>7, <1>8, <1>9, <1>11

-----------------------------------------------------------------------------
(* What a filter returns, by induction on the lines it has read.  The      *)
(* library's induction theorems take an operator; the least element of a   *)
(* set of natural numbers does not.                                        *)

LEMMA LeastNumber ==
  ASSUME NEW T \in SUBSET Nat, T # {}
  PROVE  \E n \in T : \A m \in T : n <= m
<1>1. PICK R : R = OpToRel(<, Nat)
  OBVIOUS
<1>2. IsWellFoundedOn(R, Nat)
  BY <1>1, NatLessThanWellFounded
<1>3. PICK n \in T : \A m \in T : <<m, n>> \notin R
  BY <1>2, WFMin
<1>4. \A m, k \in Nat : m < k => <<m, k>> \in R
  BY <1>1 DEF OpToRel
<1>5. ASSUME NEW m \in T PROVE n <= m
  <2>1. m \in Nat /\ n \in Nat
    OBVIOUS
  <2>2. ~(m < n)
    BY <1>3, <1>4, <2>1
  <2> QED BY <2>1, <2>2
<1> QED BY <1>3, <1>5

LEMMA CountingUp ==
  ASSUME NEW S, 0 \in S, \A n \in Nat : n \in S => n + 1 \in S
  PROVE  Nat \subseteq S
<1> SUFFICES ASSUME NEW k \in Nat, k \notin S PROVE FALSE
  OBVIOUS
<1>1. PICK T : T = {n \in Nat : n \notin S}
  OBVIOUS
<1>2. T \in SUBSET Nat /\ T # {}
  BY <1>1
<1>3. PICK n \in T : \A m \in T : n <= m
  BY <1>2, LeastNumber
<1>4. n \in Nat /\ n # 0 /\ n - 1 \in Nat /\ n - 1 \notin T
  BY <1>1, <1>3
<1>5. n - 1 \in S
  BY <1>1, <1>4
<1> QED BY <1>1, <1>3, <1>4, <1>5

\* got[n] is what is left of the first n lines.
Filters(got, s, drafts, n) ==
  got[n] = IF n = 0 THEN <<>>
           ELSE IF s[n].draft \in drafts THEN Append(got[n - 1], s[n]) ELSE got[n - 1]

IsFilter(got, s, drafts, m) ==
  got = [n \in 0..m |-> IF n = 0 THEN <<>>
                        ELSE IF s[n].draft \in drafts THEN Append(got[n - 1], s[n])
                        ELSE got[n - 1]]

LEMMA FilterExists ==
  ASSUME NEW s, NEW drafts
  PROVE  \A m \in Nat : \E got : IsFilter(got, s, drafts, m)
<1>1. PICK S : S = {m \in Nat : \E got : IsFilter(got, s, drafts, m)}
  OBVIOUS
<1>2. 0 \in S
  <2>1. PICK got : got = [n \in 0..0 |-> <<>>]
    OBVIOUS
  <2>2. IsFilter(got, s, drafts, 0)
    BY <2>1 DEF IsFilter
  <2> QED BY <1>1, <2>2
<1>3. ASSUME NEW m \in Nat, m \in S PROVE m + 1 \in S
  <2>1. PICK got : IsFilter(got, s, drafts, m)
    BY <1>1, <1>3
  <2>2. PICK k : k = m + 1
    OBVIOUS
  <2>3. PICK last : last = IF s[k].draft \in drafts THEN Append(got[m], s[k]) ELSE got[m]
    OBVIOUS
  <2>4. PICK next : next = [n \in 0..k |-> IF n = k THEN last ELSE got[n]]
    OBVIOUS
  <2>5. ASSUME NEW n \in 0..k PROVE Filters(next, s, drafts, n)
    <3>1. CASE n = k
      <4>1. n # 0 /\ n - 1 = m /\ m # k /\ m \in 0..k
        BY <2>2, <3>1
      <4>2. next[n] = last /\ next[m] = got[m]
        BY <2>4, <3>1, <4>1
      <4> QED BY <2>3, <3>1, <4>1, <4>2 DEF Filters
    <3>2. CASE n # k
      <4>1. n \in 0..m /\ (n # 0 => n - 1 \in 0..m /\ n - 1 \in 0..k /\ n - 1 # k)
        BY <2>2, <3>2
      <4>2. next[n] = got[n] /\ (n # 0 => next[n - 1] = got[n - 1])
        BY <2>4, <3>2, <4>1
      <4> QED BY <2>1, <4>1, <4>2 DEF IsFilter, Filters
    <3> QED BY <3>1, <3>2
  <2>6. IsFilter(next, s, drafts, k)
    BY <2>4, <2>5 DEF IsFilter, Filters
  <2> QED BY <1>1, <2>2, <2>6
<1> QED BY <1>1, <1>2, <1>3, CountingUp

LEMMA HoldingFilters ==
  ASSUME NEW S, NEW s \in Seq(S), NEW drafts
  PROVE  \E got : /\ \A n \in 0..Len(s) : Filters(got, s, drafts, n)
                  /\ Holding(s, drafts) = got[Len(s)]
<1> DEFINE upTo[n \in 0..Len(s)] ==
             IF n = 0 THEN <<>>
             ELSE IF s[n].draft \in drafts THEN Append(upTo[n - 1], s[n]) ELSE upTo[n - 1]
<1>1. PICK got : IsFilter(got, s, drafts, Len(s))
  BY FilterExists, LenProperties
<1>2. got = [n \in 0..Len(s) |-> IF n = 0 THEN <<>>
                                 ELSE IF s[n].draft \in drafts THEN Append(got[n - 1], s[n])
                                 ELSE got[n - 1]]
  BY <1>1 DEF IsFilter
<1>3. upTo = [n \in 0..Len(s) |-> IF n = 0 THEN <<>>
                                  ELSE IF s[n].draft \in drafts THEN Append(upTo[n - 1], s[n])
                                  ELSE upTo[n - 1]]
  BY <1>2
<1>4. Holding(s, drafts) = upTo[Len(s)]
  BY DEF Holding
<1> HIDE DEF upTo
<1>5. \A n \in 0..Len(s) : Filters(upTo, s, drafts, n)
  BY <1>3 DEF Filters
<1> QED BY <1>4, <1>5

LEMMA UpTo ==
  ASSUME NEW m \in Nat, NEW S, 0 \in S, \A n \in 0..(m - 1) : n \in S => n + 1 \in S
  PROVE  0..m \subseteq S
<1>1. PICK T : T = S \cup {n \in Nat : n > m}
  OBVIOUS
<1>2. ASSUME NEW n \in Nat, n \in T PROVE n + 1 \in T
  <2>1. CASE n < m
    <3>1. n \in S /\ n \in 0..(m - 1)
      BY <1>1, <1>2, <2>1
    <3> QED BY <1>1, <3>1
  <2>2. CASE ~(n < m)
    <3>1. n + 1 > m /\ n + 1 \in Nat
      BY <2>2
    <3> QED BY <1>1, <3>1
  <2> QED BY <2>1, <2>2
<1>3. Nat \subseteq T
  BY <1>1, <1>2, CountingUp
<1> QED BY <1>1, <1>3

\* One more line is one more result, or none.
LEMMA AppendFacts ==
  ASSUME NEW S, NEW s \in Seq(S), NEW e \in S, NEW t, t = Append(s, e)
  PROVE  /\ t \in Seq(S) /\ Len(t) = Len(s) + 1 /\ Len(s) \in Nat
         /\ \A i \in 1..Len(s) : t[i] = s[i]
         /\ t[Len(t)] = e
BY AppendProperties, LenProperties

\* What is left of n lines are lines of them that hold one of the drafts, and all of
\* those; lines that differ are left apart.
Sifted(all, s, drafts, n) ==
  /\ \A k \in 1..Len(all) : \E i \in 1..n : all[k] = s[i] /\ s[i].draft \in drafts
  /\ \A i \in 1..n : s[i].draft \in drafts => \E k \in 1..Len(all) : all[k] = s[i]
  /\ (\A i, j \in DOMAIN s : s[i] = s[j] => i = j) =>
        \A j, k \in 1..Len(all) : all[j] = all[k] => j = k

LEMMA FilterSteps ==
  ASSUME NEW S, NEW s \in Seq(S), NEW drafts, NEW got,
         \A n \in 0..Len(s) : Filters(got, s, drafts, n)
  PROVE  \A n \in 0..Len(s) : got[n] \in Seq(S) /\ Sifted(got[n], s, drafts, n)
<1>1. PICK m \in Nat : m = Len(s)
  BY LenProperties
<1>2. PICK T : T = {n \in 0..m : got[n] \in Seq(S) /\ Sifted(got[n], s, drafts, n)}
  OBVIOUS
<1>3. 0 \in T
  <2>1. got[0] = <<>>
    BY <1>1 DEF Filters
  <2>2. got[0] \in Seq(S) /\ Len(got[0]) = 0
    BY <2>1, EmptySeq
  <2>3. Sifted(got[0], s, drafts, 0)
    BY <2>2 DEF Sifted
  <2> QED BY <1>1, <1>2, <2>2, <2>3
<1>4. ASSUME NEW n \in 0..(m - 1), n \in T PROVE n + 1 \in T
  <2>1. PICK k : k = n + 1
    OBVIOUS
  <2>2. k \in 1..m /\ k - 1 = n /\ n \in Nat /\ k \in Nat /\ k # 0 /\ k \in 0..Len(s)
    BY <1>1, <2>1
  <2>3. PICK old : old = got[n]
    OBVIOUS
  <2>4. old \in Seq(S) /\ Sifted(old, s, drafts, n)
    BY <1>2, <1>4, <2>3
  <2>5. s[k] \in S /\ DOMAIN s = 1..m
    BY <1>1, <2>2, ElementOfSeq, LenProperties
  <2>6. got[k] = IF s[k].draft \in drafts THEN Append(old, s[k]) ELSE old
    BY <2>2, <2>3 DEF Filters
  <2>7. CASE s[k].draft \notin drafts
    <3>1. got[k] = old
      BY <2>6, <2>7
    <3>2. \A i \in 1..n : i \in 1..k
      BY <2>2
    <3>3. \A i \in 1..k : i \in 1..n \/ i = k
      BY <2>2
    <3>4. Sifted(old, s, drafts, k)
      BY <2>4, <2>7, <3>2, <3>3 DEF Sifted
    <3> QED BY <1>2, <2>1, <2>2, <2>4, <3>1, <3>4
  <2>8. CASE s[k].draft \in drafts
    <3>1. PICK new : new = Append(old, s[k])
      OBVIOUS
    <3>2. got[k] = new
      BY <2>6, <2>8, <3>1
    <3>3. /\ new \in Seq(S) /\ Len(new) = Len(old) + 1 /\ Len(old) \in Nat
          /\ \A i \in 1..Len(old) : new[i] = old[i]
          /\ new[Len(new)] = s[k]
      BY <2>4, <2>5, <3>1, AppendFacts
    <3>4. PICK last \in Nat : last = Len(new)
      BY <3>3
    <3>5. \A j \in 1..last : j \in 1..Len(old) \/ j = last
      BY <3>3, <3>4
    <3>6. ASSUME NEW j \in 1..last
          PROVE  \E i \in 1..k : new[j] = s[i] /\ s[i].draft \in drafts
      <4>1. CASE j = last
        BY <2>2, <2>8, <3>3, <3>4, <4>1
      <4>2. CASE j \in 1..Len(old)
        <5>1. PICK i \in 1..n : old[j] = s[i] /\ s[i].draft \in drafts
          BY <2>4, <4>2 DEF Sifted
        <5>2. i \in 1..k /\ new[j] = s[i]
          BY <2>2, <3>3, <4>2, <5>1
        <5> QED BY <5>1, <5>2
      <4> QED BY <3>5, <4>1, <4>2
    <3>7. ASSUME NEW i \in 1..k, s[i].draft \in drafts
          PROVE  \E j \in 1..last : new[j] = s[i]
      <4>1. CASE i = k
        <5>1. last \in 1..last
          BY <3>3, <3>4
        <5> QED BY <3>3, <3>4, <4>1, <5>1
      <4>2. CASE i # k
        <5>1. i \in 1..n
          BY <2>2, <4>2
        <5>2. PICK j \in 1..Len(old) : old[j] = s[i]
          BY <2>4, <3>7, <5>1 DEF Sifted
        <5>3. j \in 1..last /\ new[j] = s[i]
          BY <3>3, <3>4, <5>2
        <5> QED BY <5>3
      <4> QED BY <4>1, <4>2
    <3>8. ASSUME \A i, j \in DOMAIN s : s[i] = s[j] => i = j,
                 NEW a \in 1..last, NEW b \in 1..last, new[a] = new[b]
          PROVE  a = b
      <4>1. ASSUME NEW j \in 1..Len(old), new[j] = new[last] PROVE FALSE
        <5>1. PICK i \in 1..n : old[j] = s[i]
          BY <2>4 DEF Sifted
        <5>2. s[i] = s[k] /\ i \in DOMAIN s /\ k \in DOMAIN s /\ i # k
          BY <2>2, <2>5, <3>3, <3>4, <4>1, <5>1
        <5> QED BY <3>8, <5>2
      <4>2. CASE a \in 1..Len(old) /\ b \in 1..Len(old)
        BY <2>4, <3>3, <3>8, <4>2 DEF Sifted
      <4>3. CASE a = last /\ b = last
        BY <4>3
      <4> QED BY <3>5, <3>8, <4>1, <4>2, <4>3
    <3>9. Sifted(new, s, drafts, k)
      BY <3>4, <3>6, <3>7, <3>8 DEF Sifted
    <3> QED BY <1>2, <2>1, <2>2, <3>2, <3>3, <3>9
  <2> QED BY <2>7, <2>8
<1>5. 0..m \subseteq T
  BY <1>3, <1>4, UpTo
<1> QED BY <1>1, <1>2, <1>5

Agree(s, t, m) == \A i \in 1..m : s[i] = t[i]
FiltersUpTo(got, s, drafts, m) == \A n \in 0..m : Filters(got, s, drafts, n)

LEMMA SameStart ==
  ASSUME NEW s, NEW t, NEW drafts, NEW got, NEW more, NEW m \in Nat,
         Agree(s, t, m), FiltersUpTo(got, s, drafts, m), FiltersUpTo(more, t, drafts, m)
  PROVE  got[m] = more[m]
<1>1. PICK T : T = {n \in 0..m : got[n] = more[n]}
  OBVIOUS
<1>2. 0 \in T
  BY <1>1 DEF Filters, FiltersUpTo
<1>3. ASSUME NEW n \in 0..(m - 1), n \in T PROVE n + 1 \in T
  <2>1. PICK k : k = n + 1
    OBVIOUS
  <2>2. k \in 1..m /\ k \in 0..m /\ k - 1 = n /\ k # 0
    BY <2>1
  <2>3. got[k] = more[k]
    BY <1>1, <1>3, <2>2 DEF Filters, FiltersUpTo, Agree
  <2> QED BY <1>1, <2>1, <2>2, <2>3
<1>4. 0..m \subseteq T
  BY <1>2, <1>3, UpTo
<1> QED BY <1>1, <1>4

LEMMA FilterGrows ==
  ASSUME NEW S, NEW s \in Seq(S), NEW drafts, NEW got,
         \A n \in 0..Len(s) : Filters(got, s, drafts, n),
         NEW m \in 0..Len(s)
  PROVE  IsPrefix(got[m], got[Len(s)])
<1>1. PICK len \in Nat : len = Len(s)
  BY LenProperties
<1>2. \A n \in 0..len : got[n] \in Seq(S)
  BY <1>1, FilterSteps
<1>3. PICK T : T = {n \in 0..len : n >= m => IsPrefix(got[m], got[n])}
  OBVIOUS
<1>4. m \in Nat /\ m <= len /\ m \in 0..len
  BY <1>1
<1>5. IsPrefix(got[m], got[m])
  BY <1>2, <1>4, WholeIsPrefix
<1>6. 0 \in T
  <2>1. 0 >= m => m = 0
    BY <1>4
  <2> QED BY <1>3, <1>5, <2>1
<1>7. ASSUME NEW n \in 0..(len - 1), n \in T PROVE n + 1 \in T
  <2>1. PICK k : k = n + 1
    OBVIOUS
  <2>2. k \in 1..len /\ k \in 0..len /\ k - 1 = n /\ k # 0 /\ n \in 0..len /\ n \in Nat
    BY <2>1
  <2>3. CASE k <= m
    <3>1. k >= m => k = m
      BY <1>4, <2>2, <2>3
    <3> QED BY <1>3, <1>5, <2>1, <2>2, <3>1
  <2>4. CASE ~(k <= m)
    <3>1. n >= m
      BY <1>4, <2>1, <2>2, <2>4
    <3>2. PICK a, b, c : a = got[m] /\ b = got[n] /\ c = got[k]
      OBVIOUS
    <3>3. a \in Seq(S) /\ b \in Seq(S) /\ IsPrefix(a, b)
      BY <1>2, <1>3, <1>4, <1>7, <2>2, <3>1, <3>2
    <3>4. c = b \/ (c = Append(b, s[k]) /\ s[k] \in S)
      BY <1>1, <2>2, <3>2, ElementOfSeq DEF Filters
    <3>5. CASE c = b
      BY <1>3, <2>1, <2>2, <3>2, <3>3, <3>5
    <3>6. CASE c = Append(b, s[k]) /\ s[k] \in S
      <4>1. /\ c \in Seq(S) /\ Len(c) = Len(b) + 1 /\ Len(b) \in Nat
            /\ \A i \in 1..Len(b) : c[i] = b[i]
        BY <3>3, <3>6, AppendFacts
      <4>2. Len(a) <= Len(b) /\ \A i \in 1..Len(a) : a[i] = b[i]
        BY <3>3, PrefixFacts
      <4>3. Len(a) \in Nat
        BY <3>3, LenProperties
      <4>4. Len(a) <= Len(c)
        BY <4>1, <4>2, <4>3
      <4>5. \A i \in 1..Len(a) : a[i] = c[i]
        BY <4>1, <4>2, <4>3
      <4>6. IsPrefix(a, c)
        BY <3>3, <4>1, <4>4, <4>5, PrefixFacts
      <4> QED BY <1>3, <2>1, <2>2, <3>2, <4>6
    <3> QED BY <3>4, <3>5, <3>6
  <2> QED BY <2>3, <2>4
<1>8. 0..len \subseteq T
  BY <1>6, <1>7, UpTo
<1>9. len \in T /\ len >= m
  BY <1>4, <1>8
<1> QED BY <1>1, <1>3, <1>9

\* What is left of lines is made of them; what is left of the first of them comes
\* first; one line more is one result more, or none.
LEMMA HoldingFacts ==
  ASSUME NEW S, NEW s \in Seq(S), NEW drafts
  PROVE  Holding(s, drafts) \in Seq(S) /\ Sifted(Holding(s, drafts), s, drafts, Len(s))
<1>1. PICK got : /\ \A n \in 0..Len(s) : Filters(got, s, drafts, n)
                 /\ Holding(s, drafts) = got[Len(s)]
  BY HoldingFilters
<1>2. Len(s) \in 0..Len(s)
  BY LenProperties
<1> QED BY <1>1, <1>2, FilterSteps

LEMMA HoldingPrefix ==
  ASSUME NEW S, NEW s \in Seq(S), NEW t \in Seq(S), IsPrefix(s, t), NEW drafts
  PROVE  IsPrefix(Holding(s, drafts), Holding(t, drafts))
<1>1. PICK got : /\ \A n \in 0..Len(s) : Filters(got, s, drafts, n)
                 /\ Holding(s, drafts) = got[Len(s)]
  BY HoldingFilters
<1>2. PICK more : /\ \A n \in 0..Len(t) : Filters(more, t, drafts, n)
                  /\ Holding(t, drafts) = more[Len(t)]
  BY HoldingFilters
<1>3. PICK m \in Nat : m = Len(s)
  BY LenProperties
<1>4. /\ m <= Len(t) /\ Len(t) \in Nat
      /\ \A i \in 1..m : s[i] = t[i]
  BY <1>3, PrefixFacts, LenProperties
<1>5. FiltersUpTo(got, s, drafts, m) /\ FiltersUpTo(more, t, drafts, m)
  BY <1>1, <1>2, <1>3, <1>4 DEF FiltersUpTo
<1>6. Agree(s, t, m)
  BY <1>4 DEF Agree
<1>7. got[m] = more[m]
  BY <1>5, <1>6, SameStart
<1>8. m \in 0..Len(t)
  BY <1>4
<1>9. IsPrefix(more[m], more[Len(t)])
  BY <1>2, <1>8, FilterGrows
<1> QED BY <1>1, <1>2, <1>3, <1>7, <1>9

Takes(drafts, e) == e.draft \in drafts
IsLonger(t, s, e) == t = Append(s, e)

LEMMA HoldingAppend ==
  ASSUME NEW S, NEW s \in Seq(S), NEW e \in S, NEW t, IsLonger(t, s, e), NEW drafts
  PROVE  /\ Takes(drafts, e) => IsLonger(Holding(t, drafts), Holding(s, drafts), e)
         /\ ~Takes(drafts, e) => Holding(t, drafts) = Holding(s, drafts)
<1>1. PICK got : /\ \A n \in 0..Len(s) : Filters(got, s, drafts, n)
                 /\ Holding(s, drafts) = got[Len(s)]
  BY HoldingFilters
<1>2. /\ t \in Seq(S) /\ Len(t) = Len(s) + 1 /\ Len(s) \in Nat
      /\ \A i \in 1..Len(s) : t[i] = s[i]
      /\ t[Len(t)] = e
  BY AppendFacts DEF IsLonger
<1>3. PICK more : /\ \A n \in 0..Len(t) : Filters(more, t, drafts, n)
                  /\ Holding(t, drafts) = more[Len(t)]
  BY <1>2, HoldingFilters
<1>4. PICK m \in Nat : m = Len(s)
  BY <1>2
<1>5. PICK k \in Nat : k = Len(t) /\ k = m + 1 /\ k # 0 /\ k - 1 = m
  BY <1>2, <1>4
<1>6. FiltersUpTo(got, s, drafts, m) /\ FiltersUpTo(more, t, drafts, m)
  BY <1>1, <1>3, <1>4, <1>5 DEF FiltersUpTo
<1>7. Agree(s, t, m)
  BY <1>2, <1>4 DEF Agree
<1>9. got[m] = more[m]
  BY <1>6, <1>7, SameStart
<1>10. Filters(more, t, drafts, k)
  BY <1>3, <1>5
<1>11. t[k] = e
  BY <1>2, <1>5
<1>12. more[k] = IF t[k].draft \in drafts THEN Append(more[m], t[k]) ELSE more[m]
  BY <1>5, <1>10 DEF Filters
<1> QED BY <1>1, <1>3, <1>4, <1>5, <1>9, <1>11, <1>12 DEF Takes, IsLonger

LEMMA HoldingNothing ==
  ASSUME NEW drafts PROVE Holding(<<>>, drafts) = <<>>
<1>1. <<>> \in Seq(Line) /\ Len(<<>>) = 0
  BY EmptySeq
<1>2. PICK got : /\ \A n \in 0..Len(<<>>) : Filters(got, <<>>, drafts, n)
                 /\ Holding(<<>>, drafts) = got[Len(<<>>)]
  BY <1>1, HoldingFilters
<1> QED BY <1>1, <1>2 DEF Filters

-----------------------------------------------------------------------------
(* The invariants, operation by operation. *)

LEMMA SameChain ==
  ASSUME LossInv, UNCHANGED <<files, confirmed, losses>>
  PROVE  LossInv'
<1>1. /\ lines' = lines /\ torn' = torn /\ manifest' = manifest /\ confirmed' = confirmed
      /\ losses' = losses
  BY DEF files
<1> QED BY <1>1 DEF LossInv, ChainInv, Typed, ManifestFollows, ManifestCovers

LEMMA OpenKeeps ==
  ASSUME ChainInv, Open
  PROVE  ChainInv' /\ (ManifestCovers => ManifestCovers')
<1>1. /\ lines' = lines /\ torn' = torn /\ losses' = losses /\ confirmed' = confirmed
      /\ \/ manifest' = manifest
         \/ manifest = Absent /\ lines = <<>> /\ ~torn /\ manifest' = <<lines>>
  BY DEF Open, KeepHistory
<1>2. CASE manifest' = manifest
  BY <1>1, <1>2 DEF ChainInv, Typed, ManifestFollows, ManifestCovers
<1>3. CASE manifest = Absent /\ lines = <<>> /\ ~torn /\ manifest' = <<lines>>
  <2>1. lines \in Seq(Line) /\ IsPrefix(lines, lines) /\ Len(lines) >= Len(lines) - 1
    BY WholeIsPrefix DEF ChainInv, Typed
  <2>2. manifest' # Absent /\ manifest'[1] = lines
    BY <1>3 DEF Absent
  <2>3. Typed'
    BY <1>1, <1>3, <2>1 DEF ChainInv, Typed
  <2>4. ManifestFollows'
    BY <1>1, <2>1, <2>2 DEF ChainInv, ManifestFollows
  <2>5. ManifestCovers => ManifestCovers'
    BY <1>1, <1>3, <2>2 DEF ManifestCovers
  <2> QED BY <2>3, <2>4, <2>5 DEF ChainInv
<1> QED BY <1>1, <1>2, <1>3

LEMMA KnownKeeps ==
  ASSUME ChainInv, Recoverable, NEW first \in DOMAIN lines,
         UNCHANGED <<lines, torn, losses>>,
         \/ manifest' = <<lines>> /\ confirmed' = confirmed \cup {lines[first]}
         \/ manifest' \in {manifest, <<lines>>} /\ confirmed' = confirmed
  PROVE  ChainInv' /\ (ManifestCovers => ManifestCovers')
<1>1. /\ lines \in Seq(Line) /\ manifest # Absent /\ Chained(lines)
      /\ IsPrefix(manifest[1], lines)
  BY DEF ChainInv, Typed, Recoverable, Sound, Chained
<1>2. PICK chain \in Seq(Line) : manifest = <<chain>>
  BY <1>1 DEF ChainInv, Typed
<1>3. IsPrefix(lines, lines) /\ Len(lines) >= Len(lines) - 1 /\ IsPrefix(chain, lines)
      /\ ToSet(chain) \subseteq ToSet(lines)
  BY <1>1, <1>2, WholeIsPrefix, PrefixFacts
<1>4. CASE manifest' = manifest /\ confirmed' = confirmed
  BY <1>4 DEF ChainInv, Typed, ManifestFollows, ManifestCovers
<1>5. CASE manifest' = <<lines>> /\ confirmed' \subseteq confirmed \cup {lines[first]}
  <2>1. manifest' # Absent /\ manifest'[1] = lines
    BY <1>5 DEF Absent
  <2>2. Typed'
    BY <1>1, <1>5 DEF ChainInv, Typed
  <2>3. ManifestFollows'
    BY <1>1, <1>3, <2>1 DEF ManifestFollows
  <2>4. lines[first] \in ToSet(lines)
    BY DEF ToSet
  <2>5. ManifestCovers => ManifestCovers'
    BY <1>1, <1>2, <1>3, <1>5, <2>1, <2>4 DEF ManifestCovers
  <2> QED BY <2>2, <2>3, <2>5 DEF ChainInv
<1> QED BY <1>4, <1>5

LEMMA ExtendKeeps ==
  ASSUME ChainInv, Recoverable, NEW d \in Drafts, Extend(d), losses' = losses
  PROVE  ChainInv' /\ (ManifestCovers => ManifestCovers')
<1>1. /\ Typed /\ lines \in Seq(Line) /\ manifest # Absent /\ Chained(lines)
      /\ IsPrefix(manifest[1], lines)
  BY DEF ChainInv, Typed, Recoverable, Sound, Chained
<1>2. PICK chain \in Seq(Line) : manifest = <<chain>>
  BY <1>1 DEF ChainInv, Typed
<1>3. PICK added : added = Added(d)
  OBVIOUS
<1>4. PICK n \in 0..Len(added) :
        /\ lines' = lines \o SubSeq(added, 1, n)
        /\ \/ manifest' = <<lines'>> /\ torn' \in {FALSE, n < Len(added)}
           \/ n = 0 /\ manifest' = manifest /\ torn' = torn
           \/ n > 0 /\ manifest' = <<Front(lines')>> /\ torn' = FALSE
        /\ \/ confirmed' = confirmed
           \/ /\ n = Len(added) /\ manifest' = <<lines'>>
              /\ confirmed' = confirmed \cup {Last(added)}
  BY <1>3 DEF Extend
<1>5. PICK part, next : part = SubSeq(added, 1, n) /\ next = lines \o part
  OBVIOUS
<1>6. /\ added \in Seq(Line) /\ Len(added) \in {1, 2} /\ part \in Seq(Line) /\ Len(part) = n
      /\ \A i \in 1..n : part[i] = added[i]
      /\ Chained(next)
  BY <1>1, <1>3, <1>5, AddedFacts
<1>7. PICK old : old = lines
  OBVIOUS
<1>8. /\ old \in Seq(Line) /\ next \in Seq(Line) /\ Len(next) = Len(old) + n /\ IsPrefix(old, next)
      /\ \A i \in 1..n : next[Len(old) + i] = added[i]
      /\ Len(old) \in Nat /\ n \in Nat
  <2>1. old \in Seq(Line) /\ part \in Seq(Line) /\ next = old \o part
    BY <1>1, <1>5, <1>6, <1>7
  <2>2. /\ next \in Seq(Line) /\ Len(next) = Len(old) + Len(part)
        /\ \A i \in 1..Len(old) : next[i] = old[i]
        /\ \A i \in 1..Len(part) : next[Len(old) + i] = part[i]
    BY <2>1, ExtensionFacts
  <2>3. Len(old) \in Nat /\ Len(part) \in Nat
    BY <2>1, LenProperties
  <2>4. Len(old) <= Len(next) /\ \A i \in 1..Len(old) : old[i] = next[i]
    BY <2>2, <2>3
  <2>5. old \in Seq(Line)
    BY <2>1
  <2>6. IsPrefix(old, next)
    BY <2>2, <2>4, <2>5, PrefixFacts
  <2> QED BY <1>6, <2>2, <2>3, <2>5, <2>6
<1>9. lines' = next
  BY <1>4, <1>5
<1>10. IsPrefix(chain, old) /\ ToSet(chain) \subseteq ToSet(old) /\ ToSet(old) \subseteq ToSet(next)
  BY <1>1, <1>2, <1>7, <1>8, PrefixFacts
<1>11. torn' \in BOOLEAN
  <2>1. (n < Len(added)) \in BOOLEAN /\ torn \in BOOLEAN
    BY <1>1 DEF Typed
  <2> QED BY <1>4, <2>1
<1>12. CASE manifest' = <<next>>
  <2>1. manifest' # Absent /\ manifest'[1] = next
    BY <1>12 DEF Absent
  <2>2. Typed'
    BY <1>1, <1>8, <1>9, <1>11, <1>12 DEF Typed
  <2>3. ManifestFollows'
    BY <1>6, <1>8, <1>9, <2>1, WholeIsPrefix DEF ManifestFollows
  <2>4. n = Len(added) => Last(added) \in ToSet(next)
    <3> SUFFICES ASSUME n = Len(added) PROVE Last(added) \in ToSet(next)
      OBVIOUS
    <3>1. n \in 1..n /\ Last(added) = added[n]
      BY <1>6 DEF Last
    <3>2. Len(old) + n \in DOMAIN next /\ next[Len(old) + n] = added[n]
      BY <1>6, <1>8, <3>1, LenProperties
    <3> QED BY <3>1, <3>2 DEF ToSet
  <2>5. ManifestCovers => ManifestCovers'
    BY <1>1, <1>2, <1>4, <1>10, <2>1, <2>4 DEF ManifestCovers
  <2> QED BY <2>2, <2>3, <2>5 DEF ChainInv
<1>13. CASE n = 0 /\ manifest' = manifest /\ torn' = torn
  <2>1. Len(next) = Len(old) /\ \A i \in 1..Len(next) : next[i] = old[i]
    BY <1>8, <1>13, PrefixFacts
  <2>2. next = old
    BY <1>8, <2>1, SeqEqual
  <2>3. lines' = lines /\ manifest' # <<lines'>> => confirmed' = confirmed
    BY <1>4, <1>7, <1>9, <2>2
  <2>4. manifest' = <<next>> \/ (lines' = lines /\ confirmed' = confirmed)
    BY <1>4, <1>7, <1>9, <2>2
  <2>5. CASE lines' = lines /\ confirmed' = confirmed
    BY <1>13, <2>5 DEF ChainInv, Typed, ManifestFollows, ManifestCovers
  <2> QED BY <1>12, <2>4, <2>5
<1>14. CASE n > 0 /\ manifest' = <<Front(next)>> /\ torn' = FALSE
  <2>1. PICK front : front = Front(next)
    OBVIOUS
  <2>2. next \in Seq(Line) /\ next # <<>>
    BY <1>8, <1>14, EmptySeq
  <2>3. /\ front \in Seq(Line) /\ Len(front) = Len(next) - 1 /\ IsPrefix(front, next)
        /\ \A i \in 1..(Len(next) - 1) : front[i] = next[i]
    <3>1. /\ front \in Seq(Line) /\ Len(front) = Len(next) - 1
          /\ \A i \in 1..(Len(next) - 1) : front[i] = next[i]
      BY <2>1, <2>2, FrontFacts
    <3>2. Len(front) <= Len(next) /\ \A i \in 1..Len(front) : front[i] = next[i]
      BY <1>8, <3>1
    <3>3. IsPrefix(front, next)
      BY <2>2, <3>1, <3>2, PrefixFacts
    <3> QED BY <3>1, <3>3
  <2>4. ToSet(old) \subseteq ToSet(front)
    <3>1. Len(old) <= Len(front) /\ Len(front) \in Nat
      BY <1>8, <1>14, <2>3
    <3>2. old \in Seq(Line) /\ next \in Seq(Line) /\ IsPrefix(old, next)
      BY <1>8
    <3>3. \A i \in 1..Len(old) : old[i] = next[i]
      BY <3>2, PrefixFacts
    <3>4. \A i \in 1..Len(front) : front[i] = next[i]
      BY <2>3
    <3>5. \A i \in 1..Len(old) : old[i] = front[i]
      BY <1>8, <3>1, <3>3, <3>4
    <3>6. front \in Seq(Line)
      BY <2>3
    <3>7. IsPrefix(old, front)
      BY <3>1, <3>2, <3>5, <3>6, PrefixFacts
    <3> QED BY <3>2, <3>6, <3>7, PrefixFacts
  <2>5. manifest' # Absent /\ manifest'[1] = front
    BY <1>14, <2>1 DEF Absent
  <2>6. Typed'
    BY <1>1, <1>8, <1>9, <1>14, <2>1, <2>3 DEF Typed
  <2>7. ManifestFollows'
    BY <1>6, <1>8, <1>9, <2>3, <2>5 DEF ManifestFollows
  <2>8. confirmed' = confirmed
    <3>1. manifest' # <<next>>
      BY <1>8, <1>14, <2>1, <2>3
    <3> QED BY <1>4, <1>9, <3>1
  <2>9. ManifestCovers => ManifestCovers'
    BY <1>1, <1>2, <1>10, <2>4, <2>5, <2>8 DEF ManifestCovers
  <2> QED BY <2>6, <2>7, <2>9 DEF ChainInv
<1> QED BY <1>4, <1>9, <1>12, <1>13, <1>14

LEMMA AppendKeeps ==
  ASSUME ChainInv, NEW d \in Drafts, AppendDraft(d)
  PROVE  ChainInv' /\ (ManifestCovers => ManifestCovers')
<1>1. CASE ~Recoverable
  <2>1. /\ lines' = lines /\ torn' = torn /\ manifest' = manifest /\ confirmed' = confirmed
        /\ losses' = losses
    BY <1>1 DEF AppendDraft, files
  <2> QED BY <2>1 DEF ChainInv, Typed, ManifestFollows, ManifestCovers
<1>2. CASE Recoverable /\ Known(d) # {}
  <2>1. PICK first \in Known(d) :
          /\ UNCHANGED <<lines, torn, losses>>
          /\ \/ manifest' = <<lines>> /\ confirmed' = confirmed \cup {lines[first]}
             \/ manifest' \in {manifest, <<lines>>} /\ confirmed' = confirmed
    BY <1>2 DEF AppendDraft
  <2>2. first \in DOMAIN lines
    BY DEF Known
  <2> QED BY <1>2, <2>1, <2>2, KnownKeeps
<1>3. CASE Recoverable /\ Known(d) = {}
  BY <1>3, ExtendKeeps DEF AppendDraft
<1> QED BY <1>1, <1>2, <1>3

LEMMA LoseKeeps ==
  ASSUME ChainInv, Lose
  PROVE  ChainInv' /\ (ManifestCovers /\ MaxLosses <= 1 => ManifestCovers')
<1>1. /\ losses' = losses + 1 /\ losses < MaxLosses /\ confirmed' = confirmed
      /\ losses \in Nat /\ MaxLosses \in Nat
  BY JournalAssumption DEF Lose, ChainInv, Typed
<1>2. ManifestFollows'
  BY <1>1 DEF ManifestFollows
<1>3. CASE manifest # Absent /\ manifest' = Absent /\ UNCHANGED <<lines, torn>>
  <2>1. Typed'
    BY <1>1, <1>3 DEF ChainInv, Typed
  <2>2. ASSUME ManifestCovers, MaxLosses <= 1, lines = <<>> PROVE confirmed = {}
    <3>1. losses = 0
      BY <1>1, <2>2
    <3>2. PICK chain \in Seq(Line) : manifest = <<chain>>
      BY <1>3 DEF ChainInv, Typed
    <3>3. IsPrefix(chain, lines) /\ lines \in Seq(Line) /\ confirmed \subseteq ToSet(chain)
      BY <1>3, <2>2, <3>1, <3>2 DEF ChainInv, Typed, ManifestFollows, ManifestCovers
    <3>4. ToSet(chain) \subseteq ToSet(lines)
      BY <3>3, PrefixFacts
    <3>5. ToSet(lines) = {}
      BY <2>2 DEF ToSet
    <3> QED BY <3>3, <3>4, <3>5
  <2>3. ManifestCovers /\ MaxLosses <= 1 => ManifestCovers'
    BY <1>1, <1>3, <2>2 DEF ManifestCovers
  <2> QED BY <1>2, <2>1, <2>3 DEF ChainInv
<1>4. ASSUME NEW first \in DOMAIN lines, NEW last \in DOMAIN lines,
             lines' = SubSeq(lines, 1, first - 1) \o SubSeq(lines, last + 1, Len(lines)),
             torn' = (torn /\ last # Len(lines)), manifest' = manifest
      PROVE  ChainInv' /\ (ManifestCovers /\ MaxLosses <= 1 => ManifestCovers')
  <2>1. lines \in Seq(Line) /\ DOMAIN lines = 1..Len(lines) /\ Len(lines) \in Nat
    BY LenProperties DEF ChainInv, Typed
  <2>2. PICK old, head, rest : /\ old = lines /\ head = SubSeq(old, 1, first - 1)
                               /\ rest = SubSeq(old, last + 1, Len(old))
    OBVIOUS
  <2>3. old \in Seq(Line) /\ Len(old) \in Nat /\ first \in 1..Len(old) /\ last \in 1..Len(old)
    BY <2>1, <2>2
  <2>4. \A i \in 1..Len(old) : old[i] \in Line
    BY <2>3, ElementOfSeq
  <2>5. head \in Seq(Line)
    <3>1. PICK m \in Int : m = first - 1
      BY <2>3
    <3>2. \A i \in 1..m : old[i] \in Line
      BY <2>3, <2>4, <3>1
    <3> QED BY <2>2, <3>1, <3>2, SubSeqProperties
  <2>6. rest \in Seq(Line)
    <3>1. PICK m \in Int : m = last + 1
      BY <2>3
    <3>2. PICK k \in Int : k = Len(old)
      BY <2>3
    <3>3. \A i \in m..k : old[i] \in Line
      BY <2>3, <2>4, <3>1, <3>2
    <3> QED BY <2>2, <3>1, <3>2, <3>3, SubSeqProperties
  <2>7. lines' \in Seq(Line)
    BY <1>4, <2>2, <2>5, <2>6, ConcatProperties
  <2>8. torn' \in BOOLEAN
    BY <1>4
  <2>9. Typed'
    BY <1>1, <1>4, <2>7, <2>8 DEF ChainInv, Typed
  <2>10. ASSUME ManifestCovers, MaxLosses <= 1 PROVE ManifestCovers'
    <3>1. losses = 0
      BY <1>1, <2>10
    <3>2. manifest # Absent
      <4> SUFFICES ASSUME manifest = Absent PROVE FALSE
        OBVIOUS
      <4>1. lines = <<>>
        BY <3>1 DEF ChainInv, ManifestFollows
      <4> QED BY <2>3, <2>2, <4>1
    <3> QED BY <1>1, <1>4, <2>10, <3>2 DEF ManifestCovers
  <2> QED BY <1>2, <2>9, <2>10 DEF ChainInv
<1> QED BY <1>3, <1>4 DEF Lose

LEMMA InitChain == Init => LossInv
<1> SUFFICES ASSUME Init PROVE LossInv
  OBVIOUS
<1>1. /\ lines = <<>> /\ torn = FALSE /\ manifest = Absent /\ confirmed = {} /\ losses = 0
  BY DEF Init
<1>2. lines \in Seq(Line) /\ losses \in Nat /\ losses <= MaxLosses
  BY <1>1, EmptySeq, JournalAssumption
<1>3. Chained(lines)
  BY <1>1 DEF Chained
<1> QED BY <1>1, <1>2, <1>3 DEF LossInv, ChainInv, Typed, ManifestFollows, ManifestCovers

LEMMA ChainSteps ==
  ASSUME ChainInv, [Next]_allVars
  PROVE  ChainInv' /\ (ManifestCovers /\ MaxLosses <= 1 => ManifestCovers')
<1>1. CASE Open
  BY <1>1, OpenKeeps
<1>2. CASE Lose
  BY <1>2, LoseKeeps
<1>3. CASE \E d \in Drafts : AppendDraft(d)
  BY <1>3, AppendKeeps
<1>4. CASE \/ Verify \/ Query \/ NewQuery \/ UNCHANGED allVars
           \/ \E record \in confirmed : Inspect(record)
  <2>1. /\ lines' = lines /\ torn' = torn /\ manifest' = manifest /\ confirmed' = confirmed
        /\ losses' = losses
    BY <1>4 DEF Verify, Query, NewQuery, Inspect, KeepHistory, files, allVars
  <2> QED BY <2>1 DEF ChainInv, Typed, ManifestFollows, ManifestCovers
<1> QED BY <1>1, <1>2, <1>3, <1>4 DEF Next

-----------------------------------------------------------------------------
(* Segments: an append fills the last one or opens another, and a segment  *)
(* that is lost is lost whole.                                             *)

Segment(s, seg) == {i \in DOMAIN s : s[i].segment = seg}
Ordered(s) == \A i, j \in DOMAIN s : i <= j => s[i].segment <= s[j].segment
Fits(s) == \A i \in DOMAIN s : Cardinality(Segment(s, s[i].segment)) <= MaxPerSegment
Told == confirmed \subseteq Line /\ reader.at \in Nat /\ reader.got \in Seq(Line)

ShapeInv == ChainInv /\ Ordered(lines) /\ Fits(lines) /\ Told

LEMMA LinesFacts ==
  ASSUME Typed
  PROVE  /\ lines \in Seq(Line) /\ Len(lines) \in Nat /\ DOMAIN lines = 1..Len(lines)
         /\ \A i \in 1..Len(lines) : lines[i] \in Line /\ lines[i].segment \in Nat
         /\ LastSegment \in Nat
         /\ Len(lines) = 0 <=> lines = <<>>
         /\ lines # <<>> => LastSegment = lines[Len(lines)].segment
<1>1. /\ lines \in Seq(Line) /\ Len(lines) \in Nat /\ DOMAIN lines = 1..Len(lines)
      /\ Len(lines) = 0 <=> lines = <<>>
  BY EmptySeq, LenProperties DEF Typed
<1>2. \A i \in 1..Len(lines) : lines[i] \in Line /\ lines[i].segment \in Nat
  <2>1. \A i \in 1..Len(lines) : lines[i] \in Line
    BY <1>1, ElementOfSeq
  <2> QED BY <2>1 DEF Line
<1>3. lines # <<>> => Len(lines) \in 1..Len(lines)
  BY <1>1
<1>4. lines # <<>> => LastSegment = lines[Len(lines)].segment
  BY DEF LastSegment, Last
<1>5. LastSegment \in Nat
  BY <1>2, <1>3, <1>4 DEF LastSegment
<1> QED BY <1>1, <1>2, <1>4, <1>5

LEMMA AddedLines ==
  ASSUME Typed, NEW d \in Drafts
  PROVE  /\ Added(d) \in Seq(Line) /\ Len(Added(d)) \in {1, 2}
         /\ \A i \in 1..Len(Added(d)) : Added(d)[i].sequence = Len(lines) + i
         /\ Added(d)[Len(Added(d))].draft = d
         /\ Len(Added(d)) = 2 => Added(d)[1].draft = Checkpoint
         /\ \E seg \in Nat :
              /\ \A i \in 1..Len(Added(d)) : Added(d)[i].segment = seg
              /\ \/ /\ Len(Added(d)) = 1 /\ seg = LastSegment
                    /\ ~(Cardinality(InSegment(LastSegment)) >= MaxPerSegment)
                 \/ Len(Added(d)) = 2 /\ seg = LastSegment + 1
<1> DEFINE full == Cardinality(InSegment(LastSegment)) >= MaxPerSegment
           seg == IF full THEN LastSegment + 1 ELSE LastSegment
           at == Len(lines)
           one == [draft |-> d, segment |-> seg, sequence |-> at + 1]
           mark == [draft |-> Checkpoint, segment |-> seg, sequence |-> at + 1]
           two == [draft |-> d, segment |-> seg, sequence |-> at + 2]
<1>1. at \in Nat /\ LastSegment \in Nat
  BY LinesFacts
<1>2. Added(d) = IF full THEN <<mark, two>> ELSE <<one>>
  BY DEF Added
<1>3. one \in Line /\ mark \in Line /\ two \in Line /\ seg \in Nat
  BY <1>1, JournalAssumption DEF Line
<1> HIDE DEF full
<1>4. CASE full
  BY <1>2, <1>3, <1>4
<1>5. CASE ~full
  BY <1>2, <1>3, <1>5 DEF full
<1> QED BY <1>4, <1>5

LEMMA SegmentsAreFinite ==
  ASSUME NEW S, NEW s \in Seq(S), NEW seg
  PROVE  IsFiniteSet(Segment(s, seg)) /\ Cardinality(Segment(s, seg)) \in Nat
<1>1. PICK n \in Nat : n = Len(s) /\ DOMAIN s = 1..n
  BY LenProperties
<1>2. 1 \in Int /\ n \in Int
  OBVIOUS
<1>3. IsFiniteSet(1..n)
  BY <1>2, FS_Interval
<1>4. Segment(s, seg) \subseteq 1..n
  BY <1>1 DEF Segment
<1> QED BY <1>3, <1>4, FS_Subset, FS_CardinalityType

LEMMA OneElementMore ==
  ASSUME NEW S, IsFiniteSet(S), NEW e, NEW T, T \subseteq S \cup {e}
  PROVE  IsFiniteSet(T) /\ Cardinality(T) \in Nat /\ Cardinality(T) <= Cardinality(S) + 1
<1>1. PICK U : U = S \cup {e}
  OBVIOUS
<1>2. /\ IsFiniteSet(U)
      /\ Cardinality(U) = IF e \in S THEN Cardinality(S) ELSE Cardinality(S) + 1
  BY <1>1, FS_AddElement
<1>3. Cardinality(S) \in Nat
  BY FS_CardinalityType
<1>4. IsFiniteSet(T) /\ Cardinality(T) <= Cardinality(U)
  BY <1>1, <1>2, FS_Subset
<1>5. Cardinality(T) \in Nat /\ Cardinality(U) \in Nat
  BY <1>2, <1>4, FS_CardinalityType
<1> QED BY <1>2, <1>3, <1>4, <1>5

\* The lines of an append go to a segment that has room for them.
LEMMA ExtensionFits ==
  ASSUME Typed, Ordered(lines), Fits(lines), NEW d \in Drafts, NEW n \in 0..Len(Added(d)),
         NEW next \in Seq(Line), Len(next) = Len(lines) + n,
         \A i \in 1..Len(lines) : next[i] = lines[i],
         \A i \in 1..n : next[Len(lines) + i] = Added(d)[i]
  PROVE  Ordered(next) /\ Fits(next)
<1>1. /\ lines \in Seq(Line) /\ Len(lines) \in Nat /\ DOMAIN lines = 1..Len(lines)
      /\ \A i \in 1..Len(lines) : lines[i] \in Line /\ lines[i].segment \in Nat
      /\ LastSegment \in Nat
      /\ Len(lines) = 0 <=> lines = <<>>
      /\ lines # <<>> => LastSegment = lines[Len(lines)].segment
  BY LinesFacts
<1>2. DOMAIN next = 1..Len(next)
  BY LenProperties
<1>3. PICK at \in Nat : at = Len(lines)
  BY <1>1
<1>4. PICK len : len \in {1, 2} /\ len = Len(Added(d))
  BY AddedLines
<1>5. PICK seg \in Nat :
        /\ \A i \in 1..len : Added(d)[i].segment = seg
        /\ \/ /\ len = 1 /\ seg = LastSegment
              /\ ~(Cardinality(InSegment(LastSegment)) >= MaxPerSegment)
           \/ len = 2 /\ seg = LastSegment + 1
  BY <1>4, AddedLines
<1>6. n \in Nat /\ n <= len /\ n \in 0..len
  BY <1>4
<1>7. \A i \in 1..(at + n) : i \in 1..at \/ i - at \in 1..n
  BY <1>6
<1>8. \A i \in 1..at : next[i].segment = lines[i].segment
  BY <1>3
<1>9. ASSUME NEW i \in 1..(at + n), i \notin 1..at PROVE next[i].segment = seg
  <2>1. PICK k \in 1..n : k = i - at
    BY <1>7, <1>9
  <2>2. i = at + k /\ k \in 1..len
    BY <1>3, <1>4, <1>6, <2>1
  <2> QED BY <1>3, <1>5, <2>2
<1>10. \A i \in 1..at : lines[i].segment <= LastSegment
  <2> SUFFICES ASSUME NEW i \in 1..at PROVE lines[i].segment <= LastSegment
    OBVIOUS
  <2>1. at \in 1..at /\ i <= at /\ lines # <<>>
    BY <1>1, <1>3
  <2> QED BY <1>1, <1>3, <2>1 DEF Ordered
<1>11. LastSegment <= seg
  BY <1>1, <1>5
<1>12. Ordered(next)
  <2> SUFFICES ASSUME NEW i \in 1..(at + n), NEW j \in 1..(at + n), i <= j
               PROVE  next[i].segment <= next[j].segment
    BY <1>2, <1>3 DEF Ordered
  <2>1. CASE j \in 1..at
    <3>1. i \in 1..at
      BY <2>1
    <3> QED BY <1>1, <1>3, <1>8, <2>1, <3>1 DEF Ordered
  <2>2. CASE j \notin 1..at /\ i \in 1..at
    <3>1. next[i].segment = lines[i].segment /\ next[j].segment = seg
      BY <1>8, <1>9, <2>2
    <3>2. lines[i].segment <= LastSegment /\ lines[i].segment \in Nat
      BY <1>1, <1>3, <1>10, <2>2
    <3> QED BY <1>1, <1>11, <3>1, <3>2
  <2>3. CASE j \notin 1..at /\ i \notin 1..at
    BY <1>9, <2>3
  <2> QED BY <2>1, <2>2, <2>3
<1>13. ASSUME NEW i \in 1..(at + n), next[i].segment # seg
       PROVE  Cardinality(Segment(next, next[i].segment)) <= MaxPerSegment
  <2>1. i \in 1..at
    BY <1>9, <1>13
  <2>2. PICK s : s = lines[i].segment /\ s = next[i].segment /\ s # seg
    BY <1>8, <1>13, <2>1
  <2>3. Segment(next, s) = Segment(lines, s)
    BY <1>1, <1>2, <1>3, <1>6, <1>8, <1>9, <2>2 DEF Segment
  <2>4. Cardinality(Segment(lines, s)) <= MaxPerSegment
    BY <1>1, <1>3, <2>1, <2>2 DEF Fits
  <2> QED BY <2>2, <2>3, <2>4
<1>14. Cardinality(Segment(next, seg)) <= MaxPerSegment
  <2>1. Segment(next, seg) \subseteq Segment(lines, seg) \cup {at + i : i \in 1..n}
    <3> SUFFICES ASSUME NEW i \in 1..(at + n), next[i].segment = seg
                 PROVE  i \in Segment(lines, seg) \cup {at + k : k \in 1..n}
      BY <1>2, <1>3 DEF Segment
    <3>1. CASE i \in 1..at
      BY <1>1, <1>3, <1>8, <3>1 DEF Segment
    <3>2. CASE i \notin 1..at
      <4>1. i - at \in 1..n /\ i = at + (i - at)
        BY <1>3, <1>7, <3>2
      <4> QED BY <4>1
    <3> QED BY <3>1, <3>2
  <2>2. PICK old, new : old = Segment(lines, seg) /\ new = Segment(next, seg)
    OBVIOUS
  <2>3. IsFiniteSet(old) /\ Cardinality(old) \in Nat
    BY <1>1, <2>2, SegmentsAreFinite
  <2>4. MaxPerSegment \in Nat /\ MaxPerSegment >= 2
    BY JournalAssumption
  <2>5. CASE len = 1 /\ seg = LastSegment
    <3>1. Cardinality(old) < MaxPerSegment
      <4>1. old = InSegment(LastSegment)
        BY <2>2, <2>5 DEF Segment, InSegment
      <4> QED BY <1>5, <2>3, <2>4, <2>5, <4>1
    <3>2. new \subseteq old \cup {at + 1}
      <4>1. \A k \in 1..n : k = 1
        BY <1>6, <2>5
      <4> QED BY <2>1, <2>2, <4>1
    <3>3. Cardinality(new) \in Nat /\ Cardinality(new) <= Cardinality(old) + 1
      BY <2>3, <3>2, OneElementMore
    <3> QED BY <2>2, <2>3, <2>4, <3>1, <3>3
  <2>6. CASE len = 2 /\ seg = LastSegment + 1
    <3>1. old = {}
      <4>1. \A i \in 1..at : lines[i].segment # seg
        BY <1>1, <1>3, <1>10, <2>6
      <4> QED BY <1>1, <1>3, <2>2, <4>1 DEF Segment
    <3>2. new \subseteq {at + 1, at + 2}
      <4>1. \A k \in 1..n : k = 1 \/ k = 2
        BY <1>6, <2>6
      <4> QED BY <2>1, <2>2, <3>1, <4>1
    <3>3. IsFiniteSet({at + 1}) /\ Cardinality({at + 1}) = 1
      BY FS_Singleton
    <3>4. new \subseteq {at + 1} \cup {at + 2}
      BY <3>2
    <3>5. Cardinality(new) \in Nat /\ Cardinality(new) <= Cardinality({at + 1}) + 1
      BY <3>3, <3>4, OneElementMore
    <3> QED BY <2>2, <2>4, <3>3, <3>5
  <2> QED BY <1>5, <2>5, <2>6
<1>15. Fits(next)
  <2> SUFFICES ASSUME NEW i \in 1..(at + n)
               PROVE  Cardinality(Segment(next, next[i].segment)) <= MaxPerSegment
    BY <1>2, <1>3 DEF Fits
  <2>1. CASE next[i].segment = seg
    BY <1>14, <2>1
  <2> QED BY <1>13, <2>1
<1> QED BY <1>12, <1>15

\* A segment that is lost leaves the others in their order, and none of them longer.
LEMMA LossFits ==
  ASSUME NEW s \in Seq(Line), Ordered(s), Fits(s), NEW next \in Seq(Line),
         NEW first \in 1..Len(s), NEW last \in 1..Len(s), first <= last,
         Len(next) = Len(s) - (last - first + 1),
         \A i \in 1..Len(next) : next[i] = s[IF i < first THEN i ELSE i + (last - first + 1)]
  PROVE  Ordered(next) /\ Fits(next)
<1>1. PICK n \in Nat : n = Len(s) /\ DOMAIN s = 1..n
  BY LenProperties
<1>2. PICK m \in Nat : m = Len(next) /\ DOMAIN next = 1..m
  BY LenProperties
<1>3. PICK gap \in Nat : gap = last - first + 1
  BY <1>1
<1>4. first \in Nat /\ n = m + gap
  BY <1>1, <1>2, <1>3
<1>5. PICK from : from = [i \in 1..m |-> IF i < first THEN i ELSE i + gap]
  OBVIOUS
<1>6. \A i \in 1..m : from[i] \in 1..n /\ next[i] = s[from[i]]
  BY <1>2, <1>3, <1>4, <1>5
<1>7. \A i, j \in 1..m : i <= j => from[i] <= from[j]
  BY <1>4, <1>5
<1>8. \A i, j \in 1..m : from[i] = from[j] => i = j
  BY <1>4, <1>5
<1>9. Ordered(next)
  <2> SUFFICES ASSUME NEW i \in 1..m, NEW j \in 1..m, i <= j
               PROVE  next[i].segment <= next[j].segment
    BY <1>2 DEF Ordered
  <2>1. PICK a \in 1..n, b \in 1..n : a = from[i] /\ b = from[j] /\ a <= b
    BY <1>6, <1>7
  <2>2. s[a].segment <= s[b].segment
    BY <1>1, <2>1 DEF Ordered
  <2> QED BY <1>6, <2>1, <2>2
<1>10. ASSUME NEW i \in 1..m
       PROVE  Cardinality(Segment(next, next[i].segment)) <= MaxPerSegment
  <2>1. PICK seg, new, old : /\ seg = next[i].segment /\ seg = s[from[i]].segment
                             /\ new = Segment(next, seg) /\ old = Segment(s, seg)
    BY <1>6
  <2>2. IsFiniteSet(old) /\ IsFiniteSet(new)
    BY <2>1, SegmentsAreFinite
  <2>3. PICK f : f = [k \in new |-> from[k]]
    OBVIOUS
  <2>4. \A k \in new : k \in 1..m /\ from[k] \in old
    BY <1>1, <1>2, <1>6, <2>1 DEF Segment
  <2>5. f \in [new -> old]
    BY <2>3, <2>4
  <2>6. \A j, k \in new : f[j] = f[k] => j = k
    BY <1>8, <2>3, <2>4
  <2>7. f \in Injection(new, old)
    BY <2>5, <2>6 DEF Injection, IsInjective
  <2>8. Cardinality(new) <= Cardinality(old)
    BY <2>2, <2>7, FS_Injection
  <2>9. Cardinality(old) <= MaxPerSegment
    BY <1>1, <1>6, <2>1 DEF Fits
  <2>10. Cardinality(old) \in Nat /\ Cardinality(new) \in Nat /\ MaxPerSegment \in Nat
    BY <2>2, FS_CardinalityType, JournalAssumption
  <2> QED BY <2>1, <2>8, <2>9, <2>10
<1> QED BY <1>2, <1>9, <1>10 DEF Fits

LEMMA LesserOf ==
  ASSUME NEW a \in Nat, NEW b \in Nat
  PROVE  Min({a, b}) \in Nat /\ Min({a, b}) <= a /\ Min({a, b}) <= b
         /\ (Min({a, b}) = a \/ Min({a, b}) = b)
<1>1. \E x \in {a, b} : \A y \in {a, b} : x <= y
  <2>1. CASE a <= b
    BY <2>1
  <2>2. CASE ~(a <= b)
    BY <2>2
  <2> QED BY <2>1, <2>2
<1>2. Min({a, b}) \in {a, b} /\ \A y \in {a, b} : Min({a, b}) <= y
  BY <1>1 DEF Min
<1> QED BY <1>2

LEMMA PartFacts ==
  ASSUME NEW S, NEW s \in Seq(S), NEW from \in Nat \ {0}, NEW to \in Nat, to <= Len(s),
         NEW part, part = SubSeq(s, from, to)
  PROVE  /\ part \in Seq(S)
         /\ Len(part) = IF from <= to THEN to - from + 1 ELSE 0
         /\ \A i \in 1..Len(part) : part[i] = s[from + i - 1]
<1>1. Len(s) \in Nat
  BY LenProperties
<1>2. \A i \in from..to : s[i] \in S
  <2> SUFFICES ASSUME NEW i \in from..to PROVE s[i] \in S
    OBVIOUS
  <2>1. i \in 1..Len(s)
    BY <1>1
  <2> QED BY <2>1, ElementOfSeq
<1>3. /\ part \in Seq(S) /\ Len(part) = (IF from <= to THEN to - from + 1 ELSE 0)
      /\ \A i \in 1..(to - from + 1) : part[i] = s[from + i - 1]
  BY <1>2, SubSeqProperties
<1>4. ASSUME NEW i \in 1..Len(part) PROVE part[i] = s[from + i - 1]
  <2>1. i \in 1..(to - from + 1)
    BY <1>3
  <2> QED BY <1>3, <2>1
<1> QED BY <1>3, <1>4

\* A page is the next results, as many as there are up to the limit.
LEMMA PageFacts ==
  ASSUME Typed, Told, Page
  PROVE  /\ reader'.at \in Nat /\ reader'.got \in Seq(Line)
         /\ reader'.at <= Len(Matching) /\ reader'.more = (reader'.at < Len(Matching))
         /\ (reader.at = Len(reader.got) /\ IsPrefix(reader.got, Matching) =>
               reader'.at = Len(reader'.got) /\ IsPrefix(reader'.got, Matching))
<1>1. PICK all \in Seq(Line) : all = Matching
  BY HoldingFacts DEF Typed, Matching
<1>2. PICK len \in Nat, at \in Nat : len = Len(all) /\ at = reader.at
  BY <1>1, LenProperties DEF Told
<1>3. PICK got \in Seq(Line) : got = reader.got
  BY DEF Told
<1>4. PICK end : end = Min({at + Limit, len})
  OBVIOUS
<1>5. at + Limit \in Nat
  BY <1>2, JournalAssumption
<1>6. end \in Nat /\ end <= at + Limit /\ end <= len /\ (end = at + Limit \/ end = len)
  BY <1>2, <1>4, <1>5, LesserOf
<1>7. PICK from \in Nat \ {0} : from = at + 1
  BY <1>2
<1>8. PICK part : part = SubSeq(all, from, end) /\ part = SubSeq(all, at + 1, end)
  BY <1>7
<1>9. /\ part \in Seq(Line)
      /\ Len(part) = IF from <= end THEN end - from + 1 ELSE 0
      /\ \A i \in 1..Len(part) : part[i] = all[from + i - 1]
  <2>1. end \in Nat /\ end <= Len(all)
    BY <1>2, <1>6
  <2>2. part = SubSeq(all, from, end)
    BY <1>8
  <2>3. part \in Seq(Line) /\ Len(part) = IF from <= end THEN end - from + 1 ELSE 0
    BY <2>1, <2>2, PartFacts
  <2>4. \A i \in 1..Len(part) : part[i] = all[from + i - 1]
    BY <2>1, <2>2, PartFacts
  <2> QED BY <2>3, <2>4
<1>10. PICK both : both = got \o part
  OBVIOUS
<1>11. /\ both \in Seq(Line) /\ Len(both) = Len(got) + Len(part)
       /\ \A i \in 1..Len(got) : both[i] = got[i]
       /\ \A i \in 1..Len(part) : both[Len(got) + i] = part[i]
  BY <1>9, <1>10, ExtensionFacts
<1>12. reader' = [at |-> end, more |-> end < len, got |-> both]
  BY <1>1, <1>2, <1>3, <1>4, <1>8, <1>10 DEF Page
<1>13. reader'.at = end /\ reader'.more = (end < len) /\ reader'.got = both
  BY <1>12
<1>14. ASSUME at = Len(got), IsPrefix(got, all)
       PROVE  end = Len(both) /\ IsPrefix(both, all)
  <2>1. at <= len /\ \A i \in 1..at : got[i] = all[i]
    BY <1>1, <1>2, <1>3, <1>14, PrefixFacts
  <2>2. at <= end
    BY <1>2, <1>6, <2>1, JournalAssumption
  <2>3. Len(part) = end - at
    <3>1. from <= end => end - from + 1 = end - at
      BY <1>2, <1>6, <1>7
    <3>2. ~(from <= end) => end - at = 0
      BY <1>2, <1>6, <1>7, <2>2
    <3> QED BY <1>9, <3>1, <3>2
  <2>4. Len(both) = end
    BY <1>2, <1>6, <1>11, <1>14, <2>3
  <2>5. ASSUME NEW i \in 1..end PROVE both[i] = all[i]
    <3>1. CASE i <= at
      BY <1>2, <1>11, <1>14, <2>1, <3>1
    <3>2. CASE ~(i <= at)
      <4>1. PICK k \in 1..(end - at) : k = i - at
        BY <1>2, <1>6, <3>2
      <4>2. i = at + k /\ from + k - 1 = i
        <5>1. i \in Int /\ k \in Int /\ at \in Int /\ from \in Int
          BY <1>6
        <5> QED BY <1>7, <4>1, <5>1
      <4>3. both[at + k] = part[k] /\ part[k] = all[from + k - 1]
        BY <1>9, <1>11, <1>14, <2>3, <4>1
      <4> QED BY <4>2, <4>3
    <3> QED BY <3>1, <3>2
  <2>6. Len(both) <= Len(all) /\ \A i \in 1..Len(both) : both[i] = all[i]
    BY <1>2, <1>6, <2>4, <2>5
  <2> QED BY <1>1, <1>11, <2>4, <2>6, PrefixFacts
<1> QED BY <1>1, <1>2, <1>3, <1>6, <1>11, <1>13, <1>14

\* What an append does: nothing to the files, or the manifest moves on along the chain;
\* the lines are those there were, with the first n of the lines added.
LEMMA AppendEffect ==
  ASSUME ChainInv, NEW d \in Drafts, AppendDraft(d)
  PROVE  /\ UNCHANGED <<reader, losses>>
         /\ \/ UNCHANGED files /\ confirmed' = confirmed
            \/ /\ Recoverable /\ Known(d) # {} /\ UNCHANGED <<lines, torn>>
               /\ manifest' = manifest \/ manifest' = <<lines>>
               /\ \/ confirmed' = confirmed
                  \/ \E first \in Known(d) : confirmed' = confirmed \cup {lines[first]}
            \/ /\ Recoverable /\ Known(d) = {}
               /\ \E n \in 0..Len(Added(d)) :
                    /\ lines' = lines \o SubSeq(Added(d), 1, n)
                    /\ \/ manifest' = <<lines'>>
                       \/ n = 0 /\ manifest' = manifest
                       \/ n > 0 /\ manifest' = <<Front(lines')>>
                    /\ \/ confirmed' = confirmed
                       \/ n = Len(Added(d)) /\ confirmed' = confirmed \cup {Last(Added(d))}
<1>1. reader' = reader /\ losses' = losses
  BY DEF AppendDraft
<1>2. CASE ~Recoverable
  BY <1>1, <1>2 DEF AppendDraft
<1>3. CASE Recoverable /\ Known(d) # {}
  <2>1. /\ UNCHANGED <<lines, torn>> /\ (manifest' = manifest \/ manifest' = <<lines>>)
        /\ \/ confirmed' = confirmed
           \/ \E first \in Known(d) : confirmed' = confirmed \cup {lines[first]}
    BY <1>3 DEF AppendDraft
  <2> QED BY <1>1, <1>3, <2>1
<1>4. CASE Recoverable /\ Known(d) = {}
  <2>1. Extend(d)
    BY <1>4 DEF AppendDraft
  <2>2. PICK added : added = Added(d)
    OBVIOUS
  <2>3. \E n \in 0..Len(added) :
          /\ lines' = lines \o SubSeq(added, 1, n)
          /\ \/ manifest' = <<lines'>>
             \/ n = 0 /\ manifest' = manifest
             \/ n > 0 /\ manifest' = <<Front(lines')>>
          /\ \/ confirmed' = confirmed
             \/ n = Len(added) /\ confirmed' = confirmed \cup {Last(added)}
    BY <2>1, <2>2 DEF Extend
  <2> QED BY <1>1, <1>4, <2>2, <2>3
<1> QED BY <1>2, <1>3, <1>4

\* The lines after n of the lines of an append were written.
LEMMA ExtensionEffect ==
  ASSUME Typed, NEW d \in Drafts, NEW n \in 0..Len(Added(d)), NEW next,
         next = lines \o SubSeq(Added(d), 1, n)
  PROVE  /\ next \in Seq(Line) /\ Len(next) = Len(lines) + n /\ IsPrefix(lines, next)
         /\ \A i \in 1..Len(lines) : next[i] = lines[i]
         /\ \A i \in 1..n : next[Len(lines) + i] = Added(d)[i]
<1>1. PICK added \in Seq(Line) : added = Added(d)
  BY AddedLines
<1>2. PICK len \in Nat : len = Len(added) /\ n \in 0..len
  BY <1>1, LenProperties
<1>3. PICK part : part = SubSeq(added, 1, n)
  OBVIOUS
<1>4. part \in Seq(Line) /\ Len(part) = n /\ \A i \in 1..n : part[i] = added[i]
  <2>1. 1 \in Nat \ {0} /\ n \in Nat /\ n <= Len(added)
    BY <1>2
  <2>2. part \in Seq(Line) /\ Len(part) = IF 1 <= n THEN n - 1 + 1 ELSE 0
    BY <1>3, <2>1, PartFacts
  <2>3. \A i \in 1..Len(part) : part[i] = added[1 + i - 1]
    BY <1>3, <2>1, PartFacts
  <2>4. Len(part) = n
    BY <2>1, <2>2
  <2>5. ASSUME NEW i \in 1..n PROVE part[i] = added[i]
    <3>1. i \in Int /\ 1 + i - 1 = i
      BY <2>1
    <3> QED BY <2>3, <2>4, <3>1
  <2> QED BY <2>2, <2>4, <2>5
<1>5. PICK old \in Seq(Line) : old = lines
  BY DEF Typed
<1>6. next = old \o part
  BY <1>1, <1>3, <1>5
<1>7. /\ next \in Seq(Line) /\ Len(next) = Len(old) + Len(part)
      /\ \A i \in 1..Len(old) : next[i] = old[i]
      /\ \A i \in 1..Len(part) : next[Len(old) + i] = part[i]
  <2>1. old \in Seq(Line) /\ part \in Seq(Line) /\ next = old \o part
    BY <1>4, <1>5, <1>6
  <2> QED BY ONLY <2>1, ExtensionFacts
<1>8. Len(old) \in Nat /\ Len(old) <= Len(next) /\ \A i \in 1..Len(old) : old[i] = next[i]
  BY <1>2, <1>4, <1>5, <1>7, LenProperties
<1>9. IsPrefix(old, next)
  BY <1>5, <1>7, <1>8, PrefixFacts
<1> QED BY <1>1, <1>4, <1>5, <1>7, <1>9

LEMMA AppendShape ==
  ASSUME ShapeInv, NEW d \in Drafts, AppendDraft(d)
  PROVE  Ordered(lines)' /\ Fits(lines)' /\ Told'
<1>1. ChainInv /\ Typed /\ Ordered(lines) /\ Fits(lines) /\ Told
  BY DEF ShapeInv, ChainInv
<1>2. reader' = reader
  BY <1>1, AppendEffect
<1>3. CASE UNCHANGED files /\ confirmed' = confirmed
  BY <1>1, <1>2, <1>3 DEF files, Told
<1>4. CASE /\ Known(d) # {} /\ UNCHANGED <<lines, torn>>
           /\ \/ confirmed' = confirmed
              \/ \E first \in Known(d) : confirmed' = confirmed \cup {lines[first]}
  <2>1. \A first \in Known(d) : lines[first] \in Line
    BY <1>1, LinesFacts DEF Known
  <2>2. confirmed' \subseteq Line
    BY <1>1, <1>4, <2>1 DEF Told
  <2> QED BY <1>1, <1>2, <1>4, <2>2 DEF Told
<1>5. ASSUME NEW n \in 0..Len(Added(d)), lines' = lines \o SubSeq(Added(d), 1, n),
             confirmed' = confirmed \/ confirmed' = confirmed \cup {Last(Added(d))}
      PROVE  Ordered(lines)' /\ Fits(lines)' /\ Told'
  <2>1. PICK next : next = lines'
    OBVIOUS
  <2>2. next = lines \o SubSeq(Added(d), 1, n)
    BY <1>5, <2>1
  <2>3. /\ next \in Seq(Line) /\ Len(next) = Len(lines) + n
        /\ \A i \in 1..Len(lines) : next[i] = lines[i]
        /\ \A i \in 1..n : next[Len(lines) + i] = Added(d)[i]
    BY <1>1, <2>2, ExtensionEffect
  <2>4. Ordered(next) /\ Fits(next)
    BY <1>1, <2>3, ExtensionFits
  <2>5. Last(Added(d)) \in Line
    <3>1. PICK added \in Seq(Line) : added = Added(d) /\ Len(added) \in {1, 2}
      BY <1>1, AddedLines
    <3>2. Len(added) \in 1..Len(added) /\ Last(added) = added[Len(added)]
      BY <3>1 DEF Last
    <3>3. added[Len(added)] \in Line
      BY <3>1, <3>2, ElementOfSeq
    <3> QED BY <3>1, <3>2, <3>3
  <2>6. confirmed' \subseteq Line
    BY <1>1, <1>5, <2>5 DEF Told
  <2> QED BY <1>1, <1>2, <2>1, <2>4, <2>6 DEF Told
<1> QED BY <1>1, <1>3, <1>4, <1>5, AppendEffect

LEMMA LoseShape ==
  ASSUME ShapeInv, Lose
  PROVE  Ordered(lines)' /\ Fits(lines)' /\ Told'
<1>1. ChainInv /\ Typed /\ Ordered(lines) /\ Fits(lines) /\ Told
  BY DEF ShapeInv, ChainInv
<1>2. Told'
  BY <1>1 DEF Lose, Told
<1>3. CASE lines' = lines
  BY <1>1, <1>2, <1>3
<1>4. ASSUME NEW first \in DOMAIN lines, NEW last \in DOMAIN lines,
             InSegment(lines[first].segment) = first..last,
             lines' = SubSeq(lines, 1, first - 1) \o SubSeq(lines, last + 1, Len(lines))
      PROVE  Ordered(lines)' /\ Fits(lines)'
  <2>1. PICK s \in Seq(Line), n \in Nat :
          s = lines /\ n = Len(s) /\ DOMAIN lines = 1..n /\ DOMAIN s = 1..n
    BY <1>1, LinesFacts
  <2>2. first \in 1..n /\ last \in 1..n /\ first <= last
    <3>1. first \in first..last
      BY <1>4 DEF InSegment
    <3> QED BY <2>1, <3>1
  <2>3. PICK m \in Nat, from \in Nat \ {0} : m = first - 1 /\ from = last + 1
    BY <2>2
  <2>4. PICK head, rest, next : /\ head = SubSeq(s, 1, m) /\ rest = SubSeq(s, from, n)
                                /\ next = head \o rest
    OBVIOUS
  <2>5. next = lines'
    BY <1>4, <2>1, <2>3, <2>4
  <2>6. head \in Seq(Line) /\ Len(head) = m /\ \A i \in 1..m : head[i] = s[i]
    <3>1. 1 \in Nat \ {0} /\ m <= Len(s)
      BY <2>1, <2>2, <2>3
    <3>2. head \in Seq(Line) /\ Len(head) = IF 1 <= m THEN m - 1 + 1 ELSE 0
      BY <2>4, <3>1, PartFacts
    <3>3. \A i \in 1..Len(head) : head[i] = s[1 + i - 1]
      BY <2>4, <3>1, PartFacts
    <3>4. Len(head) = m
      BY <3>2
    <3>5. ASSUME NEW i \in 1..m PROVE head[i] = s[i]
      <4>1. i \in Int /\ 1 + i - 1 = i
        OBVIOUS
      <4> QED BY <3>3, <3>4, <4>1
    <3> QED BY <3>2, <3>4, <3>5
  <2>7. rest \in Seq(Line) /\ Len(rest) = n - last /\ \A i \in 1..(n - last) : rest[i] = s[last + i]
    <3>1. n <= Len(s)
      BY <2>1
    <3>2. rest \in Seq(Line) /\ Len(rest) = IF from <= n THEN n - from + 1 ELSE 0
      BY <2>4, <3>1, PartFacts
    <3>3. \A i \in 1..Len(rest) : rest[i] = s[from + i - 1]
      BY <2>4, <3>1, PartFacts
    <3>4. Len(rest) = n - last
      <4>1. from <= n => n - from + 1 = n - last
        BY <2>2, <2>3
      <4>2. ~(from <= n) => n - last = 0
        BY <2>2, <2>3
      <4> QED BY <3>2, <4>1, <4>2
    <3>5. ASSUME NEW i \in 1..(n - last) PROVE rest[i] = s[last + i]
      <4>1. i \in Int /\ last \in Int /\ from + i - 1 = last + i
        BY <2>2, <2>3
      <4> QED BY <3>3, <3>4, <4>1
    <3> QED BY <3>2, <3>4, <3>5
  <2>8. /\ next \in Seq(Line) /\ Len(next) = Len(head) + Len(rest)
        /\ \A i \in 1..Len(head) : next[i] = head[i]
        /\ \A i \in 1..Len(rest) : next[Len(head) + i] = rest[i]
    <3>1. head \in Seq(Line) /\ rest \in Seq(Line) /\ next = head \o rest
      BY <2>4, <2>6, <2>7
    <3> QED BY ONLY <3>1, ExtensionFacts
  <2>9. Len(next) = Len(s) - (last - first + 1)
    BY <2>1, <2>2, <2>3, <2>6, <2>7, <2>8
  <2>10. ASSUME NEW i \in 1..Len(next)
         PROVE  next[i] = s[IF i < first THEN i ELSE i + (last - first + 1)]
    <3>1. i \in Int /\ Len(next) = m + (n - last)
      BY <2>2, <2>6, <2>7, <2>8
    <3>2. CASE i < first
      <4>1. i \in 1..m
        BY <2>2, <2>3, <3>1, <3>2
      <4> QED BY <2>6, <2>8, <3>2, <4>1
    <3>3. CASE ~(i < first)
      <4>1. PICK k \in 1..(n - last) : k = i - m
        BY <2>2, <2>3, <3>1, <3>3
      <4>2. k \in Int /\ m + k = i /\ last + k = i + (last - first + 1)
        <5>1. /\ k \in Int /\ m \in Int /\ i \in Int /\ last \in Int /\ first \in Int
              /\ m = first - 1 /\ k = i - m
          BY <2>1, <2>2, <2>3, <3>1, <4>1
        <5> QED BY ONLY <5>1
      <4>3. next[m + k] = rest[k] /\ rest[k] = s[last + k]
        BY <2>6, <2>7, <2>8, <4>1
      <4> QED BY <3>3, <4>2, <4>3
    <3> QED BY <3>2, <3>3
  <2>11. Ordered(s) /\ Fits(s) /\ first \in 1..Len(s) /\ last \in 1..Len(s)
    BY <1>1, <2>1, <2>2
  <2>12. Ordered(next) /\ Fits(next)
    BY <2>2, <2>8, <2>9, <2>10, <2>11, LossFits
  <2> QED BY <2>5, <2>12
<1> QED BY <1>2, <1>3, <1>4 DEF Lose

LEMMA InitShape == Init => ShapeInv
<1> SUFFICES ASSUME Init PROVE ShapeInv
  OBVIOUS
<1>1. ChainInv
  BY InitChain DEF LossInv
<1>2. lines = <<>> /\ confirmed = {} /\ reader = NewReader
  BY DEF Init
<1>3. DOMAIN lines = {}
  BY <1>2
<1>4. Ordered(lines) /\ Fits(lines)
  BY <1>3 DEF Ordered, Fits
<1>5. Told
  BY <1>2, EmptySeq DEF Told, NewReader
<1> QED BY <1>1, <1>4, <1>5 DEF ShapeInv

LEMMA ShapeSteps == ShapeInv /\ [Next]_allVars => ShapeInv'
<1> SUFFICES ASSUME ShapeInv, [Next]_allVars PROVE ShapeInv'
  OBVIOUS
<1>1. ChainInv'
  BY ChainSteps DEF ShapeInv
<1>2. CASE Lose
  BY <1>1, <1>2, LoseShape DEF ShapeInv
<1>3. CASE \E d \in Drafts : AppendDraft(d)
  BY <1>1, <1>3, AppendShape DEF ShapeInv
<1>4. CASE Query
  <2>1. lines' = lines /\ confirmed' = confirmed
    BY <1>4 DEF Query, files
  <2>2. CASE reader' = reader
    BY <1>1, <2>1, <2>2 DEF ShapeInv, Told
  <2>3. CASE Page
    <3>1. reader'.at \in Nat /\ reader'.got \in Seq(Line)
      BY <2>3, PageFacts DEF ShapeInv, ChainInv
    <3> QED BY <1>1, <2>1, <3>1 DEF ShapeInv, Told
  <2> QED BY <1>4, <2>2, <2>3 DEF Query
<1>5. CASE NewQuery
  <2>1. lines' = lines /\ confirmed' = confirmed /\ reader' = NewReader
    BY <1>5 DEF NewQuery, files
  <2>2. Told'
    BY <2>1, EmptySeq DEF ShapeInv, Told, NewReader
  <2> QED BY <1>1, <2>1, <2>2 DEF ShapeInv
<1>6. CASE Open \/ Verify \/ UNCHANGED allVars \/ \E record \in confirmed : Inspect(record)
  <2>1. lines' = lines /\ confirmed' = confirmed /\ reader' = reader
    BY <1>6 DEF Open, Verify, Inspect, KeepHistory, files, allVars
  <2> QED BY <1>1, <2>1 DEF ShapeInv, Told
<1> QED BY <1>2, <1>3, <1>4, <1>5, <1>6 DEF Next

-----------------------------------------------------------------------------
(* A query read in pages.  The manifest commits to what was read, as it    *)
(* does to what was confirmed.                                             *)

ReadInv ==
  /\ reader.at = Len(reader.got)
  /\ manifest # Absent => IsPrefix(reader.got, Holding(manifest[1], Wanted))
  /\ manifest = Absent /\ lines = <<>> /\ ~torn => reader.got = <<>>

PageInv == ShapeInv /\ ReadInv

LEMMA PrefixOfPrefix ==
  ASSUME NEW S, NEW s \in Seq(S), NEW t \in Seq(S), NEW u \in Seq(S),
         IsPrefix(s, t), IsPrefix(t, u)
  PROVE  IsPrefix(s, u)
<1>1. Len(s) \in Nat /\ Len(t) \in Nat /\ Len(u) \in Nat
  BY LenProperties
<1>2. Len(s) <= Len(t) /\ \A i \in 1..Len(s) : s[i] = t[i]
  BY PrefixFacts
<1>3. Len(t) <= Len(u) /\ \A i \in 1..Len(t) : t[i] = u[i]
  BY PrefixFacts
<1>4. Len(s) <= Len(u) /\ \A i \in 1..Len(s) : s[i] = u[i]
  BY <1>1, <1>2, <1>3
<1> QED BY <1>4, PrefixFacts

LEMMA NothingIsPrefix ==
  ASSUME NEW S, NEW s \in Seq(S) PROVE IsPrefix(<<>>, s)
<1>1. <<>> \in Seq(S) /\ Len(<<>>) = 0 /\ Len(s) \in Nat
  BY EmptySeq, LenProperties
<1>2. Len(<<>>) <= Len(s) /\ \A i \in 1..Len(<<>>) : <<>>[i] = s[i]
  BY <1>1
<1> QED BY <1>1, <1>2, PrefixFacts

LEMMA PrefixOfNothing ==
  ASSUME NEW S, NEW s \in Seq(S), IsPrefix(s, <<>>) PROVE s = <<>>
<1>1. <<>> \in Seq(S) /\ Len(<<>>) = 0 /\ Len(s) \in Nat
  BY EmptySeq, LenProperties
<1>2. Len(s) <= Len(<<>>)
  BY <1>1, PrefixFacts
<1> QED BY <1>1, <1>2, EmptySeq

\* An append moves the manifest on along the chain, or leaves the files alone.
LEMMA AppendGrows ==
  ASSUME ChainInv, NEW d \in Drafts, AppendDraft(d)
  PROVE  \/ UNCHANGED files
         \/ /\ manifest # Absent
            /\ \E chain \in Seq(Line) :
                 manifest' = <<chain>> /\ IsPrefix(manifest[1], chain)
<1>1. CASE UNCHANGED files
  BY <1>1
<1>2. CASE Recoverable
  <2>1. lines \in Seq(Line) /\ manifest # Absent /\ IsPrefix(manifest[1], lines) /\ Typed
    BY <1>2 DEF ChainInv, Typed, Recoverable
  <2>2. PICK old \in Seq(Line) : manifest = <<old>>
    BY <2>1 DEF Typed
  <2>3. IsPrefix(old, lines) /\ IsPrefix(old, old)
    BY <2>1, <2>2, WholeIsPrefix
  <2>4. CASE manifest' = manifest
    BY <2>1, <2>2, <2>3, <2>4
  <2>5. CASE manifest' = <<lines>>
    BY <2>1, <2>2, <2>3, <2>5
  <2>6. ASSUME NEW n \in 0..Len(Added(d)), lines' = lines \o SubSeq(Added(d), 1, n),
               \/ manifest' = <<lines'>>
               \/ n = 0 /\ manifest' = manifest
               \/ n > 0 /\ manifest' = <<Front(lines')>>
        PROVE  \E chain \in Seq(Line) : manifest' = <<chain>> /\ IsPrefix(manifest[1], chain)
    <3>1. PICK next : next = lines' /\ next = lines \o SubSeq(Added(d), 1, n)
      BY <2>6
    <3>2. next \in Seq(Line) /\ Len(next) = Len(lines) + n /\ IsPrefix(lines, next)
      BY <2>1, <3>1, ExtensionEffect
    <3>3. IsPrefix(old, next)
      BY <2>1, <2>3, <3>2, PrefixOfPrefix
    <3>4. CASE manifest' = <<next>>
      BY <2>2, <3>2, <3>3, <3>4
    <3>5. CASE n > 0 /\ manifest' = <<Front(next)>>
      <4>1. PICK front : front = Front(next)
        OBVIOUS
      <4>2. Len(lines) \in Nat /\ n \in Nat /\ Len(old) \in Nat
        BY <2>1, <2>2, AddedLines, LenProperties
      <4>3. next # <<>>
        BY <3>2, <3>5, <4>2, EmptySeq
      <4>4. /\ front \in Seq(Line) /\ Len(front) = Len(next) - 1
            /\ \A i \in 1..(Len(next) - 1) : front[i] = next[i]
        BY <3>2, <4>1, <4>3, FrontFacts
      <4>5. Len(old) <= Len(lines) /\ \A i \in 1..Len(old) : old[i] = next[i]
        BY <2>1, <2>3, <3>2, <3>3, PrefixFacts
      <4>6. Len(old) <= Len(front) /\ \A i \in 1..Len(old) : old[i] = front[i]
        BY <3>2, <3>5, <4>2, <4>4, <4>5
      <4>7. IsPrefix(old, front)
        BY <4>4, <4>6, PrefixFacts
      <4> QED BY <2>2, <3>5, <4>1, <4>4, <4>7
    <3>6. CASE manifest' = manifest
      BY <2>2, <2>3, <3>6
    <3> QED BY <2>6, <3>1, <3>4, <3>5, <3>6
  <2> QED BY <1>2, <2>1, <2>4, <2>5, <2>6, AppendEffect
<1> QED BY <1>1, <1>2, AppendEffect

LEMMA ReadSteps ==
  ASSUME PageInv, MaxLosses <= 1, [Next]_allVars
  PROVE  ReadInv'
<1>1. /\ ChainInv /\ Typed /\ Told /\ reader.got \in Seq(Line) /\ lines \in Seq(Line)
      /\ reader.at = Len(reader.got)
  BY DEF PageInv, ReadInv, ShapeInv, ChainInv, Typed, Told
<1>2. PICK got \in Seq(Line) : got = reader.got
  BY <1>1
<1>3. ASSUME NEW chain, manifest = <<chain>>
      PROVE  chain \in Seq(Line) /\ Holding(chain, Wanted) \in Seq(Line)
             /\ IsPrefix(got, Holding(chain, Wanted))
  <2>1. manifest # Absent /\ manifest[1] = chain
    BY <1>3 DEF Absent
  <2>2. chain \in Seq(Line)
    BY <1>1, <2>1 DEF Typed
  <2> QED BY <1>2, <2>1, <2>2, HoldingFacts DEF PageInv, ReadInv
<1>4. CASE UNCHANGED <<files, reader>>
  BY <1>4 DEF files, PageInv, ReadInv
<1>5. ASSUME reader' = reader, NEW chain \in Seq(Line), manifest' = <<chain>>,
             IsPrefix(got, Holding(chain, Wanted))
      PROVE  ReadInv'
  <2>1. manifest' # Absent /\ manifest'[1] = chain
    BY <1>5 DEF Absent
  <2> QED BY <1>1, <1>2, <1>5, <2>1 DEF ReadInv
<1>6. CASE Open
  <2>1. reader' = reader /\ lines' = lines /\ torn' = torn
    BY <1>6 DEF Open, KeepHistory
  <2>2. CASE manifest' = manifest
    BY <1>4, <2>1, <2>2 DEF files
  <2>3. CASE manifest = Absent /\ lines = <<>> /\ ~torn /\ manifest' = <<lines>>
    <3>1. got = <<>>
      BY <1>2, <2>3 DEF PageInv, ReadInv
    <3>2. IsPrefix(got, Holding(lines, Wanted))
      BY <1>1, <3>1, HoldingFacts, NothingIsPrefix
    <3> QED BY <1>1, <1>5, <2>1, <2>3, <3>2
  <2> QED BY <1>6, <2>2, <2>3 DEF Open
<1>7. CASE \E d \in Drafts : AppendDraft(d)
  <2>1. PICK d \in Drafts : AppendDraft(d)
    BY <1>7
  <2>2. reader' = reader
    BY <1>1, <2>1, AppendEffect
  <2>3. CASE UNCHANGED files
    BY <1>4, <2>2, <2>3
  <2>4. ASSUME manifest # Absent, NEW chain \in Seq(Line),
               manifest' = <<chain>>, IsPrefix(manifest[1], chain)
        PROVE  ReadInv'
    <3>1. PICK old \in Seq(Line) : manifest = <<old>>
      BY <1>1, <2>4 DEF Typed
    <3>2. IsPrefix(old, chain)
      BY <2>4, <3>1
    <3>3. IsPrefix(Holding(old, Wanted), Holding(chain, Wanted))
      BY <3>1, <3>2, HoldingPrefix
    <3>4. Holding(chain, Wanted) \in Seq(Line)
      BY HoldingFacts
    <3>5. IsPrefix(got, Holding(chain, Wanted))
      BY <1>3, <3>1, <3>3, <3>4, PrefixOfPrefix
    <3> QED BY <1>5, <2>2, <2>4, <3>5
  <2> QED BY <1>1, <2>1, <2>3, <2>4, AppendGrows
<1>8. CASE Lose
  <2>1. reader' = reader /\ losses = 0
    BY <1>1, <1>8, JournalAssumption DEF Lose, Typed
  <2>2. CASE manifest # Absent /\ manifest' = Absent /\ UNCHANGED <<lines, torn>>
    <3>1. PICK chain \in Seq(Line) : manifest = <<chain>>
      BY <1>1, <2>2 DEF Typed
    <3>2. IsPrefix(chain, lines)
      BY <1>1, <2>1, <2>2, <3>1 DEF ChainInv, ManifestFollows
    <3>3. lines = <<>> => got = <<>>
      <4> SUFFICES ASSUME lines = <<>> PROVE got = <<>>
        OBVIOUS
      <4>1. chain = <<>>
        BY <3>2, PrefixOfNothing
      <4>2. IsPrefix(got, <<>>)
        BY <1>3, <3>1, <4>1, HoldingNothing
      <4> QED BY <4>2, PrefixOfNothing
    <3> QED BY <1>1, <1>2, <2>1, <2>2, <3>3 DEF ReadInv
  <2>3. CASE manifest' = manifest /\ \E first \in DOMAIN lines : TRUE
    <3>1. lines # <<>>
      BY <2>3
    <3>2. manifest # Absent
      BY <1>1, <2>1, <3>1 DEF ChainInv, ManifestFollows
    <3> QED BY <2>1, <2>3, <3>2 DEF PageInv, ReadInv
  <2> QED BY <1>8, <2>2, <2>3 DEF Lose
<1>9. CASE Query
  <2>1. UNCHANGED files
    BY <1>9 DEF Query
  <2>2. CASE reader' = reader
    BY <1>4, <2>1, <2>2
  <2>3. CASE Current /\ Page
    <3>1. manifest = <<lines>> /\ ~torn
      BY <2>3 DEF Current, Sound
    <3>2. IsPrefix(reader.got, Matching)
      BY <1>2, <1>3, <3>1 DEF Matching
    <3>3. reader'.at = Len(reader'.got) /\ IsPrefix(reader'.got, Matching)
      BY <1>1, <2>3, <3>2, PageFacts
    <3>4. manifest' # Absent /\ manifest'[1] = lines
      BY <2>1, <3>1 DEF files, Absent
    <3> QED BY <3>3, <3>4 DEF ReadInv, Matching
  <2> QED BY <1>9, <2>2, <2>3 DEF Query
<1>10. CASE NewQuery
  <2>1. manifest' = manifest /\ lines' = lines /\ torn' = torn /\ reader' = NewReader
    BY <1>10 DEF NewQuery, files
  <2>2. reader'.at = Len(reader'.got) /\ reader'.got = <<>>
    BY <2>1, EmptySeq DEF NewReader
  <2>3. ASSUME manifest # Absent PROVE IsPrefix(<<>>, Holding(manifest[1], Wanted))
    <3>1. PICK chain \in Seq(Line) : manifest = <<chain>>
      BY <1>1, <2>3 DEF Typed
    <3> QED BY <1>3, <3>1, NothingIsPrefix
  <2> QED BY <2>1, <2>2, <2>3 DEF ReadInv
<1>11. CASE Verify \/ UNCHANGED allVars \/ \E record \in confirmed : Inspect(record)
  <2>1. UNCHANGED <<files, reader>>
    BY <1>11 DEF Verify, Inspect, KeepHistory, allVars
  <2> QED BY <1>4, <2>1
<1> QED BY <1>6, <1>7, <1>8, <1>9, <1>10, <1>11 DEF Next

-----------------------------------------------------------------------------
(* The log the writers rely on.                                            *)

DraftsOf(s) == [i \in DOMAIN s |-> s[i].draft]
Positions(s, set) == {i \in DOMAIN s : s[i] \in set}

\* As long as no file is lost, what was confirmed is on disk.
KeptInv == ChainInv /\ (losses = 0 => confirmed \subseteq ToSet(lines))

\* The lines of an append hold its draft last, after a checkpoint or after nothing.
LEMMA ExtensionHolds ==
  ASSUME Typed, NEW d \in Drafts, NEW n \in 0..Len(Added(d)), NEW next,
         next = lines \o SubSeq(Added(d), 1, n)
  PROVE  Holding(next, Drafts) = IF n = Len(Added(d))
                                   THEN Append(Holding(lines, Drafts), Last(Added(d)))
                                 ELSE Holding(lines, Drafts)
<1>1. /\ next \in Seq(Line) /\ Len(next) = Len(lines) + n
      /\ \A i \in 1..Len(lines) : next[i] = lines[i]
      /\ \A i \in 1..n : next[Len(lines) + i] = Added(d)[i]
  BY ExtensionEffect
<1>2. PICK old \in Seq(Line), at \in Nat : old = lines /\ at = Len(old)
  BY LinesFacts
<1>3. PICK added \in Seq(Line), len \in {1, 2} :
        /\ added = Added(d) /\ len = Len(added) /\ added[len].draft = d
        /\ len = 2 => added[1].draft = Checkpoint
  BY AddedLines
<1>4. \A i \in 1..len : added[i] \in Line
  BY <1>3, ElementOfSeq
<1>5. d \in Drafts /\ Checkpoint \notin Drafts /\ Last(added) = added[len] /\ n \in 0..len
  BY <1>3, JournalAssumption DEF Last
<1>6. CASE n = 0
  <2>1. Len(next) = Len(old) /\ \A i \in 1..Len(next) : next[i] = old[i]
    BY <1>1, <1>2, <1>6
  <2>2. next = old
    BY <1>1, <1>2, <2>1, SeqEqual
  <2>3. Holding(next, Drafts) = Holding(lines, Drafts)
    BY <1>2, <2>2
  <2>4. n # Len(Added(d))
    BY <1>3, <1>6
  <2> QED BY <2>3, <2>4
<1>7. PICK first \in Line : first = added[1]
  <2>1. 1 \in 1..len
    BY <1>3
  <2> QED BY <1>4, <2>1
<1>13. PICK one : one = Append(old, first)
  OBVIOUS
<1>8. /\ one \in Seq(Line) /\ Len(one) = at + 1 /\ \A i \in 1..at : one[i] = old[i]
      /\ one[at + 1] = first
  BY <1>2, <1>13, AppendFacts
<1>9. /\ Takes(Drafts, first) => IsLonger(Holding(one, Drafts), Holding(old, Drafts), first)
      /\ ~Takes(Drafts, first) => Holding(one, Drafts) = Holding(old, Drafts)
  <2>1. old \in Seq(Line) /\ first \in Line /\ IsLonger(one, old, first)
    BY <1>13 DEF IsLonger
  <2> QED BY ONLY <2>1, HoldingAppend
<1>10. CASE n = 1
  <2>1. Len(next) = at + 1 /\ next[at + 1] = first /\ \A i \in 1..at : next[i] = old[i]
    BY <1>1, <1>2, <1>3, <1>7, <1>10
  <2>2. \A i \in 1..(at + 1) : i \in 1..at \/ i = at + 1
    OBVIOUS
  <2>3. Len(next) = Len(one) /\ \A i \in 1..Len(next) : next[i] = one[i]
    BY <1>8, <2>1, <2>2
  <2>4. next = one
    BY <1>1, <1>8, <2>3, SeqEqual
  <2>5. CASE len = 1
    <3>1. first.draft \in Drafts /\ first = Last(Added(d)) /\ n = Len(Added(d))
      BY <1>3, <1>5, <1>7, <1>10, <2>5
    <3> QED BY <1>2, <1>9, <2>4, <3>1 DEF Takes, IsLonger
  <2>6. CASE len = 2
    <3>1. first.draft \notin Drafts /\ n # Len(Added(d))
      BY <1>3, <1>5, <1>7, <1>10, <2>6
    <3> QED BY <1>2, <1>9, <2>4, <3>1 DEF Takes, IsLonger
  <2> QED BY <2>5, <2>6
<1>11. CASE n = 2
  <2>1. len = 2
    BY <1>3, <1>5, <1>11
  <2>2. PICK second \in Line : second = added[2]
    <3>1. 2 \in 1..len
      BY <2>1
    <3> QED BY <1>4, <3>1
  <2>11. PICK two : two = Append(one, second)
    OBVIOUS
  <2>3. /\ first.draft \notin Drafts /\ second.draft \in Drafts
        /\ second = Last(Added(d)) /\ n = Len(Added(d))
    BY <1>3, <1>5, <1>7, <1>11, <2>1, <2>2
  <2>4. /\ two \in Seq(Line) /\ Len(two) = at + 2
        /\ \A i \in 1..(at + 1) : two[i] = one[i]
        /\ two[at + 2] = second
    <3>1. /\ two \in Seq(Line) /\ Len(two) = Len(one) + 1
          /\ \A i \in 1..Len(one) : two[i] = one[i]
          /\ two[Len(two)] = second
      BY <1>8, <2>11, AppendFacts
    <3>2. Len(two) = at + 2
      BY <1>8, <3>1
    <3> QED BY <1>8, <3>1, <3>2
  <2>5. Len(next) = at + 2 /\ next[at + 1] = first /\ next[at + 2] = second
        /\ \A i \in 1..at : next[i] = old[i]
    BY <1>1, <1>2, <1>3, <1>7, <1>11, <2>2
  <2>6. \A i \in 1..(at + 2) : i \in 1..at \/ i = at + 1 \/ i = at + 2
    OBVIOUS
  <2>7. (\A i \in 1..at : i \in 1..(at + 1)) /\ at + 1 \in 1..(at + 1)
    OBVIOUS
  <2>8. Len(next) = Len(two) /\ \A i \in 1..Len(next) : next[i] = two[i]
    BY <1>8, <2>4, <2>5, <2>6, <2>7
  <2>9. next = two
    BY <1>1, <2>4, <2>8, SeqEqual
  <2>10. Takes(Drafts, second) => IsLonger(Holding(two, Drafts), Holding(one, Drafts), second)
    <3>1. one \in Seq(Line) /\ second \in Line /\ IsLonger(two, one, second)
      BY <1>8, <2>11 DEF IsLonger
    <3> QED BY ONLY <3>1, HoldingAppend
  <2> QED BY <1>2, <1>9, <2>3, <2>9, <2>10 DEF Takes, IsLonger
<1>12. n = 0 \/ n = 1 \/ n = 2
  <2>1. CASE len = 1
    BY <1>5, <2>1
  <2>2. CASE len = 2
    BY <1>5, <2>2
  <2> QED BY <1>3, <2>1, <2>2
<1> QED BY <1>6, <1>10, <1>11, <1>12

\* Chained lines are all different.
LEMMA LinesDiffer ==
  ASSUME Chained(lines) PROVE \A i, j \in DOMAIN lines : lines[i] = lines[j] => i = j
<1>1. \A i \in DOMAIN lines : lines[i].sequence = i
  BY DEF Chained
<1> QED BY <1>1

LEMMA KeptFacts ==
  ASSUME ChainInv, losses = 0
  PROVE  /\ Kept = Holding(lines, Drafts) /\ Kept \in Seq(Line)
         /\ Len(Kept) \in Nat /\ DOMAIN Kept = 1..Len(Kept)
         /\ \A k \in 1..Len(Kept) : \E i \in DOMAIN lines : Kept[k] = lines[i]
         /\ \A i \in DOMAIN lines : lines[i].draft \in Drafts =>
                                      \E k \in 1..Len(Kept) : Kept[k] = lines[i]
         /\ \A j, k \in 1..Len(Kept) : Kept[j] = Kept[k] => j = k
<1>1. Typed /\ Chained(lines) /\ Kept = Holding(lines, Drafts)
  BY DEF ChainInv, ManifestFollows, Kept
<1>2. lines \in Seq(Line) /\ DOMAIN lines = 1..Len(lines)
  BY <1>1, LinesFacts
<1>3. Kept \in Seq(Line) /\ Sifted(Kept, lines, Drafts, Len(lines))
  BY <1>1, <1>2, HoldingFacts
<1>4. Len(Kept) \in Nat /\ DOMAIN Kept = 1..Len(Kept)
  BY <1>3, LenProperties
<1>5. \A i, j \in DOMAIN lines : lines[i] = lines[j] => i = j
  BY <1>1, LinesDiffer
<1>6. PICK kept, n : kept = Kept /\ n = Len(lines)
  OBVIOUS
<1>7. Sifted(kept, lines, Drafts, n) /\ DOMAIN lines = 1..n
  BY <1>2, <1>3, <1>6
<1>8. \A k \in 1..Len(kept) : \E i \in DOMAIN lines : kept[k] = lines[i]
  BY <1>7 DEF Sifted
<1>9. \A i \in DOMAIN lines : lines[i].draft \in Drafts =>
                                \E k \in 1..Len(kept) : kept[k] = lines[i]
  BY <1>7 DEF Sifted
<1>10. \A j, k \in 1..Len(kept) : kept[j] = kept[k] => j = k
  BY <1>5, <1>7 DEF Sifted
<1> QED BY <1>1, <1>3, <1>4, <1>6, <1>8, <1>9, <1>10

LEMMA FunctionAsSequence ==
  ASSUME NEW n \in Nat, NEW S, NEW f, f = [i \in 1..n |-> f[i]], \A i \in 1..n : f[i] \in S
  PROVE  f \in Seq(S) /\ Len(f) = n
<1>1. f \in [1..n -> S]
  OBVIOUS
<1> QED BY <1>1, SeqDef, LenProperties

LEMMA DraftsOfAppend ==
  ASSUME NEW s \in Seq(Line), NEW e \in Line, NEW t, t = Append(s, e)
  PROVE  DraftsOf(t) = Append(DraftsOf(s), e.draft)
<1>1. PICK n \in Nat : n = Len(s) /\ DOMAIN s = 1..n
  BY LenProperties
<1>2. t \in Seq(Line) /\ Len(t) = n + 1 /\ (\A i \in 1..n : t[i] = s[i]) /\ t[n + 1] = e
  BY <1>1, AppendFacts
<1>3. DOMAIN t = 1..(n + 1)
  BY <1>2, LenProperties
<1>4. PICK D, a, b, u : /\ D = Drafts \cup {Checkpoint} /\ a = DraftsOf(s) /\ b = DraftsOf(t)
                        /\ u = Append(a, e.draft)
  OBVIOUS
<1>5. (\A i \in 1..n : s[i].draft \in D) /\ e.draft \in D
  <2>1. \A i \in 1..n : s[i] \in Line
    BY <1>1, ElementOfSeq
  <2> QED BY <1>4, <2>1 DEF Line
<1>6. \A i \in 1..(n + 1) : t[i].draft \in D
  BY <1>2, <1>5
<1>7. a = [i \in 1..n |-> s[i].draft] /\ b = [i \in 1..(n + 1) |-> t[i].draft]
  BY <1>1, <1>3, <1>4 DEF DraftsOf
<1>8. a \in Seq(D) /\ Len(a) = n
  <2>1. a = [i \in 1..n |-> a[i]] /\ \A i \in 1..n : a[i] \in D
    BY <1>5, <1>7
  <2> QED BY <2>1, FunctionAsSequence
<1>9. b \in Seq(D) /\ Len(b) = n + 1
  <2>1. PICK m \in Nat : m = n + 1
    BY <1>1
  <2>2. b = [i \in 1..m |-> b[i]] /\ \A i \in 1..m : b[i] \in D
    BY <1>6, <1>7, <2>1
  <2>3. b \in Seq(D) /\ Len(b) = m
    BY <2>2, FunctionAsSequence
  <2> QED BY <2>1, <2>3
<1>10. u \in Seq(D) /\ Len(u) = n + 1 /\ (\A i \in 1..n : u[i] = a[i]) /\ u[n + 1] = e.draft
  BY <1>4, <1>5, <1>8, AppendFacts
<1>11. \A i \in 1..(n + 1) : b[i] = u[i]
  BY <1>2, <1>7, <1>10
<1>12. b = u
  BY <1>9, <1>10, <1>11, SeqEqual
<1> QED BY <1>4, <1>12

\* One step of the log, of its three values before and after.
LogStep(intact, intact2, log, log2, told, told2) ==
  \/ \E d \in Drafts :
       /\ intact /\ intact2 /\ log2 = Append(log, d)
       /\ d \in Once => ~\E i \in DOMAIN log : log[i] = d
       /\ told2 = told \/ told2 = told \cup {Len(log2)}
  \/ \E i \in DOMAIN log : intact /\ intact2 /\ log2 = log /\ told2 = told \cup {i}
  \/ ~intact2 /\ log2 = <<>> /\ told2 = {}
  \/ intact2 = intact /\ log2 = log /\ told2 = told

LEMMA StepOfLog ==
  ASSUME NEW kept, NEW kept2, kept = Kept, kept2 = Kept',
         LogStep(losses = 0, losses' = 0, DraftsOf(kept), DraftsOf(kept2),
                 Positions(kept, confirmed), Positions(kept2, confirmed'))
  PROVE  [Log!Next]_(Log!logVars)
<1>1. PICK log, log2, told, told2 :
        /\ log = DraftsOf(kept) /\ log2 = DraftsOf(kept2)
        /\ told = Positions(kept, confirmed) /\ told2 = Positions(kept2, confirmed')
  OBVIOUS
<1>2. /\ log = [i \in DOMAIN Kept |-> Kept[i].draft]
      /\ log2 = [i \in DOMAIN Kept |-> Kept[i].draft]'
      /\ told = {i \in DOMAIN Kept : Kept[i] \in confirmed}
      /\ told2 = {i \in DOMAIN Kept : Kept[i] \in confirmed}'
  BY <1>1 DEF DraftsOf, Positions
<1>3. LogStep(losses = 0, losses' = 0, log, log2, told, told2)
  BY <1>1
<1>4. CASE losses = 0 /\ losses' = 0 /\ \E d \in Drafts :
             /\ log2 = Append(log, d)
             /\ d \in Once => ~\E i \in DOMAIN log : log[i] = d
             /\ told2 = told \/ told2 = told \cup {Len(log2)}
  <2>1. PICK d \in Drafts :
             /\ log2 = Append(log, d)
             /\ d \in Once => ~\E i \in DOMAIN log : log[i] = d
             /\ told2 = told \/ told2 = told \cup {Len(log2)}
    BY <1>4
  <2>2. Log!Add(d)
    BY <1>2, <1>4, <2>1 DEF Log!Add, Log!Retained
  <2> QED BY <2>2 DEF Log!Next
<1>5. CASE losses = 0 /\ losses' = 0 /\ log2 = log /\ \E i \in DOMAIN log : told2 = told \cup {i}
  <2>1. PICK i \in DOMAIN log : told2 = told \cup {i}
    BY <1>5
  <2>2. Log!Confirm(i)
    BY <1>2, <1>5, <2>1 DEF Log!Confirm
  <2> QED BY <1>2, <2>2 DEF Log!Next
<1>6. CASE losses' # 0 /\ log2 = <<>> /\ told2 = {}
  <2>1. Log!Ruin
    BY <1>2, <1>6 DEF Log!Ruin
  <2> QED BY <2>1 DEF Log!Next
<1>7. CASE (losses = 0) = (losses' = 0) /\ log2 = log /\ told2 = told
  BY <1>2, <1>7 DEF Log!logVars
<1> QED BY <1>3, <1>4, <1>5, <1>6, <1>7 DEF LogStep

Lacks(s, e) == \A k \in 1..Len(s) : s[k] # e

LEMMA PositionsOfAppend ==
  ASSUME NEW kept \in Seq(Line), NEW e \in Line, NEW more, IsLonger(more, kept, e), NEW told,
         e \notin told, Lacks(kept, e)
  PROVE  /\ Positions(more, told) = Positions(kept, told)
         /\ Positions(more, told \cup {e}) = Positions(kept, told) \cup {Len(kept) + 1}
<1>1. PICK n \in Nat : n = Len(kept) /\ DOMAIN kept = 1..n
  BY LenProperties
<1>2. more \in Seq(Line) /\ Len(more) = n + 1 /\ (\A i \in 1..n : more[i] = kept[i])
      /\ more[n + 1] = e
  BY <1>1, AppendFacts DEF IsLonger
<1>3. DOMAIN more = 1..(n + 1)
  BY <1>2, LenProperties
<1>4. /\ n + 1 \in 1..(n + 1) /\ n + 1 \notin 1..n
      /\ \A i \in 1..(n + 1) : i \in 1..n \/ i = n + 1
      /\ \A i \in 1..n : i \in 1..(n + 1)
  BY <1>1
<1>5. Positions(more, told) = Positions(kept, told)
  BY <1>1, <1>2, <1>3, <1>4 DEF Positions, Lacks
<1>6. Positions(more, told \cup {e}) = Positions(kept, told) \cup {n + 1}
  BY <1>1, <1>2, <1>3, <1>4 DEF Positions, Lacks
<1> QED BY <1>1, <1>5, <1>6

LEMMA KeptSteps == KeptInv /\ [Next]_allVars => KeptInv'
<1> SUFFICES ASSUME KeptInv, [Next]_allVars PROVE KeptInv'
  OBVIOUS
<1>1. ChainInv /\ ChainInv' /\ Typed /\ (losses = 0 => confirmed \subseteq ToSet(lines))
  BY ChainSteps DEF KeptInv, ChainInv
<1>2. CASE UNCHANGED <<lines, confirmed, losses>>
  BY <1>1, <1>2 DEF KeptInv, ToSet
<1>3. CASE \E d \in Drafts : AppendDraft(d)
  <2>1. PICK d \in Drafts : AppendDraft(d)
    BY <1>3
  <2>2. losses' = losses
    BY <1>1, <2>1, AppendEffect
  <2>3. CASE UNCHANGED files /\ confirmed' = confirmed
    BY <1>2, <2>2, <2>3 DEF files
  <2>4. CASE /\ lines' = lines
             /\ \/ confirmed' = confirmed
                \/ \E first \in Known(d) : confirmed' = confirmed \cup {lines[first]}
    <3>1. \A first \in Known(d) : lines[first] \in ToSet(lines)
      BY DEF Known, ToSet
    <3> QED BY <1>1, <2>2, <2>4, <3>1 DEF KeptInv, ToSet
  <2>5. ASSUME NEW n \in 0..Len(Added(d)), lines' = lines \o SubSeq(Added(d), 1, n),
               \/ confirmed' = confirmed
               \/ n = Len(Added(d)) /\ confirmed' = confirmed \cup {Last(Added(d))}
        PROVE  losses' = 0 => confirmed' \subseteq ToSet(lines')
    <3>1. PICK next : next = lines'
      OBVIOUS
    <3>2. next = lines \o SubSeq(Added(d), 1, n)
      BY <2>5, <3>1
    <3>3. /\ next \in Seq(Line) /\ Len(next) = Len(lines) + n /\ IsPrefix(lines, next)
          /\ \A i \in 1..n : next[Len(lines) + i] = Added(d)[i]
      BY <1>1, <3>2, ExtensionEffect
    <3>4. ToSet(lines) \subseteq ToSet(next)
      BY <1>1, <3>3, PrefixFacts, LinesFacts
    <3>5. n = Len(Added(d)) => Last(Added(d)) \in ToSet(next)
      <4> SUFFICES ASSUME n = Len(Added(d)) PROVE Last(Added(d)) \in ToSet(next)
        OBVIOUS
      <4>1. DOMAIN next = 1..Len(next)
        BY <3>3, LenProperties
      <4>2. Len(lines) \in Nat /\ n \in {1, 2}
        BY <1>1, LinesFacts, AddedLines
      <4>3. Len(lines) \in Nat /\ n \in {1, 2} /\ DOMAIN next = 1..(Len(lines) + n)
        BY <3>3, <4>1, <4>2
      <4>4. n \in 1..n /\ Len(lines) + n \in 1..(Len(lines) + n)
        BY <4>3
      <4>5. Last(Added(d)) = next[Len(lines) + n]
        BY <3>3, <4>4 DEF Last
      <4> QED BY <4>3, <4>4, <4>5 DEF ToSet
    <3> QED BY <1>1, <2>2, <2>5, <3>1, <3>4, <3>5
  <2>6. losses' = 0 => confirmed' \subseteq ToSet(lines')
    BY <1>1, <2>1, <2>3, <2>4, <2>5, AppendEffect DEF KeptInv, ToSet
  <2> QED BY <1>1, <2>6 DEF KeptInv, ToSet
<1>4. CASE Lose
  BY <1>1, <1>4 DEF Lose, Typed, KeptInv
<1>5. CASE \/ Open \/ Verify \/ Query \/ NewQuery \/ UNCHANGED allVars
           \/ \E record \in confirmed : Inspect(record)
  BY <1>2, <1>5 DEF Open, Verify, Query, NewQuery, Inspect, KeepHistory, files, allVars
<1> QED BY <1>3, <1>4, <1>5 DEF Next

\* The positions of what was confirmed grow by the line that was found again.
LEMMA ConfirmIsLogged ==
  ASSUME KeptInv, losses = 0, NEW first \in DOMAIN lines, lines[first].draft \in Drafts
  PROVE  \E k \in 1..Len(Kept) : Positions(Kept, confirmed \cup {lines[first]}) =
                                 Positions(Kept, confirmed) \cup {k}
<1>1. PICK kept \in Seq(Line), n \in Nat :
        /\ kept = Kept /\ n = Len(Kept) /\ DOMAIN kept = 1..n
        /\ \A i \in DOMAIN lines : lines[i].draft \in Drafts =>
                                     \E k \in 1..n : kept[k] = lines[i]
        /\ \A j, k \in 1..n : kept[j] = kept[k] => j = k
  BY KeptFacts DEF KeptInv
<1>2. PICK k \in 1..n : kept[k] = lines[first]
  BY <1>1
<1>3. Positions(kept, confirmed \cup {lines[first]}) = Positions(kept, confirmed) \cup {k}
  BY <1>1, <1>2 DEF Positions
<1> QED BY <1>1, <1>3

\* A whole append adds one draft to the log, which was not retained if it is to be
\* retained once; a part of one adds none.
LEMMA ExtensionIsLogged ==
  ASSUME KeptInv, losses = 0, losses' = 0, NEW d \in Drafts, Known(d) = {},
         NEW n \in 0..Len(Added(d)), lines' = lines \o SubSeq(Added(d), 1, n),
         \/ confirmed' = confirmed
         \/ n = Len(Added(d)) /\ confirmed' = confirmed \cup {Last(Added(d))}
  PROVE  \E kept, kept2 :
           /\ kept = Kept /\ kept2 = Kept'
           /\ LogStep(TRUE, TRUE, DraftsOf(kept), DraftsOf(kept2),
                      Positions(kept, confirmed), Positions(kept2, confirmed'))
<1>1. Typed /\ Chained(lines) /\ confirmed \subseteq ToSet(lines)
  BY DEF KeptInv, ChainInv, ManifestFollows
<1>2. PICK next, kept, kept2 : next = lines' /\ kept = Kept /\ kept2 = Kept'
  OBVIOUS
<1>3. /\ kept = Holding(lines, Drafts) /\ kept2 = Holding(next, Drafts)
      /\ next = lines \o SubSeq(Added(d), 1, n)
  BY <1>2 DEF Kept
<1>4. /\ kept \in Seq(Line) /\ Len(kept) \in Nat /\ DOMAIN kept = 1..Len(kept)
      /\ \A k \in 1..Len(kept) : \E i \in DOMAIN lines : kept[k] = lines[i]
  BY <1>2, KeptFacts DEF KeptInv
<1>5. CASE n # Len(Added(d))
  <2>1. kept2 = kept
    BY <1>1, <1>3, <1>5, ExtensionHolds
  <2>2. confirmed' = confirmed
    BY <1>5
  <2> QED BY <1>2, <2>1, <2>2 DEF LogStep
<1>6. CASE n = Len(Added(d))
  <2>1. PICK added \in Seq(Line), len \in {1, 2} :
          /\ added = Added(d) /\ len = Len(added) /\ added[len].draft = d
          /\ added[len].sequence = Len(lines) + len
    <3>1. PICK added \in Seq(Line), len \in {1, 2} :
            /\ added = Added(d) /\ len = Len(added) /\ added[len].draft = d
            /\ \A i \in 1..len : added[i].sequence = Len(lines) + i
      BY <1>1, AddedLines
    <3>2. len \in 1..len
      OBVIOUS
    <3> QED BY <3>1, <3>2
  <2>2. PICK e \in Line : e = added[len] /\ e = Last(Added(d))
    <3>1. len \in 1..Len(added)
      BY <2>1
    <3>2. added[len] \in Line
      BY <2>1, <3>1, ElementOfSeq
    <3> QED BY <2>1, <3>2 DEF Last
  <2>3. e.draft = d /\ e.sequence = Len(lines) + len
    BY <2>1, <2>2
  <2>4. kept2 = Append(kept, e)
    BY <1>1, <1>3, <1>6, <2>2, ExtensionHolds
  <2>5. \A i \in DOMAIN lines : lines[i] # e
    <3>1. \A i \in DOMAIN lines : lines[i].sequence = i
      BY <1>1 DEF Chained
    <3>2. DOMAIN lines = 1..Len(lines) /\ Len(lines) \in Nat
      BY <1>1, LinesFacts
    <3>3. \A i \in 1..Len(lines) : i # Len(lines) + len
      BY <2>1, <3>2
    <3> QED BY <2>3, <3>1, <3>2, <3>3
  <2>6. e \notin confirmed /\ Lacks(kept, e)
    BY <1>1, <1>4, <2>5 DEF ToSet, Lacks
  <2>7. PICK told : told = Positions(kept, confirmed)
    OBVIOUS
  <2>8. /\ Positions(kept2, confirmed) = told
        /\ Positions(kept2, confirmed \cup {e}) = told \cup {Len(kept) + 1}
    <3>1. /\ kept \in Seq(Line) /\ e \in Line /\ IsLonger(kept2, kept, e)
          /\ e \notin confirmed /\ Lacks(kept, e)
      BY <1>4, <2>4, <2>6 DEF IsLonger
    <3>2. /\ Positions(kept2, confirmed) = Positions(kept, confirmed)
          /\ Positions(kept2, confirmed \cup {e}) = Positions(kept, confirmed) \cup {Len(kept) + 1}
      BY ONLY <3>1, PositionsOfAppend
    <3> QED BY <2>7, <3>2
  <2>9. DraftsOf(kept2) = Append(DraftsOf(kept), d)
    BY <1>4, <2>3, <2>4, DraftsOfAppend
  <2>10. Len(DraftsOf(kept2)) = Len(kept) + 1
    <3>1. kept2 \in Seq(Line) /\ Len(kept2) = Len(kept) + 1
      BY <1>4, <2>4, AppendFacts
    <3>2. DOMAIN kept2 = 1..Len(kept2) /\ Len(kept2) \in Nat
      BY <3>1, LenProperties
    <3>3. PICK m \in Nat : m = Len(kept2)
      BY <3>2
    <3>4. PICK of : of = DraftsOf(kept2)
      OBVIOUS
    <3>5. of = [i \in 1..m |-> of[i]] /\ \A i \in 1..m : of[i] \in {of[j] : j \in 1..m}
      BY <3>2, <3>3, <3>4 DEF DraftsOf
    <3>6. Len(of) = m
      BY <3>5, FunctionAsSequence
    <3> QED BY <3>1, <3>3, <3>4, <3>6
  <2>11. d \in Once => ~\E k \in DOMAIN DraftsOf(kept) : DraftsOf(kept)[k] = d
    <3> SUFFICES ASSUME d \in Once, NEW k \in DOMAIN DraftsOf(kept), DraftsOf(kept)[k] = d
                 PROVE  FALSE
      OBVIOUS
    <3>1. k \in DOMAIN kept /\ kept[k].draft = d
      BY DEF DraftsOf
    <3>2. PICK i \in DOMAIN lines : kept[k] = lines[i]
      BY <1>4, <3>1
    <3>3. i \in Known(d)
      BY <3>1, <3>2 DEF Known
    <3> QED BY <3>3
  <2>12. \/ Positions(kept2, confirmed') = told
         \/ Positions(kept2, confirmed') = told \cup {Len(DraftsOf(kept2))}
    BY <2>2, <2>8, <2>10
  <2>13. PICK log, log2, told2 :
           log = DraftsOf(kept) /\ log2 = DraftsOf(kept2) /\ told2 = Positions(kept2, confirmed')
    OBVIOUS
  <2>14. LogStep(TRUE, TRUE, log, log2, told, told2)
    BY <2>9, <2>11, <2>12, <2>13 DEF LogStep
  <2>15. LogStep(TRUE, TRUE, DraftsOf(kept), DraftsOf(kept2),
                 Positions(kept, confirmed), Positions(kept2, confirmed'))
    BY <2>7, <2>13, <2>14
  <2> QED BY <1>2, <2>15
<1> QED BY <1>5, <1>6

LEMMA LogSteps == KeptInv /\ [Next]_allVars => [Log!Next]_(Log!logVars)
<1> SUFFICES ASSUME KeptInv, [Next]_allVars PROVE [Log!Next]_(Log!logVars)
  OBVIOUS
<1>1. PICK kept, kept2 : kept = Kept /\ kept2 = Kept'
  OBVIOUS
<1>2. Typed /\ losses \in Nat
  BY DEF KeptInv, ChainInv, Typed
<1>3. CASE UNCHANGED <<lines, confirmed, losses>>
  <2>1. kept2 = kept
    BY <1>1, <1>3 DEF Kept
  <2>2. LogStep(losses = 0, losses' = 0, DraftsOf(kept), DraftsOf(kept2),
                Positions(kept, confirmed), Positions(kept2, confirmed'))
    BY <1>3, <2>1 DEF LogStep
  <2> QED BY <1>1, <2>2, StepOfLog
<1>4. CASE losses' # 0
  <2>1. kept2 = <<>>
    <3>1. losses' > 0
      <4>1. losses' \in Nat
        BY ChainSteps DEF KeptInv, ChainInv, Typed
      <4> QED BY <1>4, <4>1
    <3> QED BY <1>1, <3>1 DEF Kept
  <2>2. DraftsOf(kept2) = <<>> /\ Positions(kept2, confirmed') = {}
    BY <2>1 DEF DraftsOf, Positions
  <2>3. LogStep(losses = 0, losses' = 0, DraftsOf(kept), DraftsOf(kept2),
                Positions(kept, confirmed), Positions(kept2, confirmed'))
    BY <1>4, <2>2 DEF LogStep
  <2> QED BY <1>1, <2>3, StepOfLog
<1>5. CASE losses' = 0 /\ \E d \in Drafts : AppendDraft(d)
  <2>1. PICK d \in Drafts : AppendDraft(d)
    BY <1>5
  <2>2. losses' = losses
    BY <2>1, AppendEffect DEF KeptInv
  <2>3. CASE UNCHANGED files /\ confirmed' = confirmed
    BY <1>3, <2>2, <2>3 DEF files
  <2>4. CASE lines' = lines /\ confirmed' = confirmed
    BY <1>3, <2>2, <2>4
  <2>5. CASE lines' = lines /\ \E first \in Known(d) : confirmed' = confirmed \cup {lines[first]}
    <3>1. PICK first \in DOMAIN lines :
            lines[first].draft = d /\ confirmed' = confirmed \cup {lines[first]}
      BY <2>5 DEF Known
    <3>2. kept2 = kept
      BY <1>1, <2>2, <2>5 DEF Kept
    <3>3. PICK k \in 1..Len(kept) :
            Positions(kept, confirmed \cup {lines[first]}) = Positions(kept, confirmed) \cup {k}
      BY <1>1, <1>5, <2>2, <3>1, ConfirmIsLogged
    <3>4. k \in DOMAIN DraftsOf(kept)
      BY <1>1, <1>5, <2>2, <3>3, KeptFacts DEF DraftsOf, KeptInv
    <3>5. LogStep(TRUE, TRUE, DraftsOf(kept), DraftsOf(kept2),
                  Positions(kept, confirmed), Positions(kept2, confirmed'))
      BY <3>1, <3>2, <3>3, <3>4 DEF LogStep
    <3>6. LogStep(losses = 0, losses' = 0, DraftsOf(kept), DraftsOf(kept2),
                  Positions(kept, confirmed), Positions(kept2, confirmed'))
      BY <1>5, <2>2, <3>5
    <3> QED BY <1>1, <3>6, StepOfLog
  <2>6. ASSUME Known(d) = {}, NEW n \in 0..Len(Added(d)),
               lines' = lines \o SubSeq(Added(d), 1, n),
               \/ confirmed' = confirmed
               \/ n = Len(Added(d)) /\ confirmed' = confirmed \cup {Last(Added(d))}
        PROVE  [Log!Next]_(Log!logVars)
    <3>1. PICK old, new :
            /\ old = Kept /\ new = Kept'
            /\ LogStep(TRUE, TRUE, DraftsOf(old), DraftsOf(new),
                       Positions(old, confirmed), Positions(new, confirmed'))
      BY <1>5, <2>2, <2>6, ExtensionIsLogged
    <3>2. LogStep(losses = 0, losses' = 0, DraftsOf(old), DraftsOf(new),
                  Positions(old, confirmed), Positions(new, confirmed'))
      BY <1>5, <2>2, <3>1
    <3> QED BY <3>1, <3>2, StepOfLog
  <2> QED BY <2>1, <2>3, <2>4, <2>5, <2>6, AppendEffect DEF KeptInv
<1>6. CASE Lose
  BY <1>2, <1>4, <1>6 DEF Lose
<1>7. CASE \/ Open \/ Verify \/ Query \/ NewQuery \/ UNCHANGED allVars
           \/ \E record \in confirmed : Inspect(record)
  BY <1>3, <1>7 DEF Open, Verify, Query, NewQuery, Inspect, KeepHistory, files, allVars
<1> QED BY <1>4, <1>5, <1>6, <1>7 DEF Next

-----------------------------------------------------------------------------
(* The theorems. *)

\* Wherever an append or a rotation fails or crashes, short of cutting a line, the next
\* append can go on: the chain reads back and the manifest is at most one line behind.
THEOREM CrashesAreRecoverable == Spec => []CrashIsRecoverable
<1>1. Init => ChainInv
  BY InitChain DEF LossInv
<1>2. ChainInv /\ [Next]_allVars => ChainInv'
  BY ChainSteps
<1>3. ChainInv => CrashIsRecoverable
  <2> SUFFICES ASSUME ChainInv, losses = 0, ~torn, manifest # Absent
               PROVE  Recoverable /\ Len(manifest[1]) >= Len(lines) - 1
    BY DEF CrashIsRecoverable
  <2>1. Chained(lines) /\ IsPrefix(manifest[1], lines) /\ Len(manifest[1]) >= Len(lines) - 1
    BY DEF ChainInv, ManifestFollows
  <2> QED BY <2>1 DEF Recoverable, Sound, Chained
<1> QED BY <1>1, <1>2, <1>3, PTL DEF Spec

\* If at most one file is ever lost, a journal that answers "valid", or "missing" to an
\* inspection, has kept every record whose append returned.
THEOREM NoLossIsHidden == ASSUME MaxLosses <= 1 PROVE Spec => NothingConfirmedIsLost
<1>1. LossInv /\ [Next]_allVars => LossInv'
  BY ChainSteps DEF LossInv
<1>2. ASSUME LossInv, [Next]_allVars
      PROVE  [reply' \in {<<"verify", "valid">>, <<"inspect", "missing">>} =>
                confirmed \subseteq ToSet(lines)]_allVars
  <2> SUFFICES ASSUME Next, reply' \in {<<"verify", "valid">>, <<"inspect", "missing">>}
               PROVE  confirmed \subseteq ToSet(lines)
    BY <1>2
  <2>1. Current
    <3>1. CASE Verify
      BY <3>1 DEF Verify
    <3>2. CASE \E record \in confirmed : Inspect(record)
      BY <3>2 DEF Inspect
    <3>3. CASE \/ Open \/ Query \/ NewQuery \/ Lose \/ \E d \in Drafts : AppendDraft(d)
      <4>1. CASE Open \/ Query \/ NewQuery \/ Lose
        BY <4>1 DEF Open, Query, Page, NewQuery, Lose
      <4>2. CASE \E d \in Drafts : AppendDraft(d)
        <5>1. PICK d \in Drafts : AppendDraft(d)
          BY <4>2
        <5>2. reply' = <<"append", "failed">> \/ reply' = <<"append", "done">>
          <6>1. CASE ~Recoverable
            BY <5>1, <6>1 DEF AppendDraft
          <6>2. CASE Recoverable /\ Known(d) # {}
            BY <5>1, <6>2 DEF AppendDraft
          <6>3. CASE Recoverable /\ Known(d) = {}
            BY <5>1, <6>3 DEF AppendDraft, Extend
          <6> QED BY <6>1, <6>2, <6>3
        <5> QED BY <5>2
      <4> QED BY <3>3, <4>1, <4>2
    <3> QED BY <3>1, <3>2, <3>3 DEF Next
  <2>2. manifest # Absent /\ manifest[1] = lines
    BY <2>1 DEF Current, Absent
  <2> QED BY <1>2, <2>2 DEF LossInv, ManifestCovers
<1> QED BY <1>1, <1>2, InitChain, PTL DEF Spec, NothingConfirmedIsLost

\* The journal keeps its shape: whole lines of drafts and checkpoints in ordered segments
\* of at most max_records_per_segment, wherever appends fail and files are lost.
THEOREM JournalTyped == Spec => []TypeOK
<1>1. ShapeInv => TypeOK
  <2> SUFFICES ASSUME ShapeInv PROVE TypeOK
    OBVIOUS
  <2>1. Typed /\ Fits(lines) /\ Told
    BY DEF ShapeInv, ChainInv
  <2>2. manifest = Absent \/ (Len(manifest) = 1 /\ manifest[1] \in Seq(Line))
    <3>1. ASSUME NEW chain \in Seq(Line), manifest = <<chain>>
          PROVE  Len(manifest) = 1 /\ manifest[1] \in Seq(Line)
      BY <3>1
    <3> QED BY <2>1, <3>1 DEF Typed
  <2>3. \A i \in DOMAIN lines : Cardinality(InSegment(lines[i].segment)) <= MaxPerSegment
    BY <2>1 DEF Fits, Segment, InSegment
  <2> QED BY <2>1, <2>2, <2>3 DEF TypeOK, Typed, Told
<1> QED BY <1>1, InitShape, ShapeSteps, PTL DEF Spec

\* If at most one file is ever lost, a query read in pages has returned the matching
\* records in their order, each once, and its last page ends with the last of them.
THEOREM QueriesAreExact == ASSUME MaxLosses <= 1 PROVE Spec => PagesAreExact
<1>1. Init => PageInv
  <2> SUFFICES ASSUME Init PROVE PageInv
    OBVIOUS
  <2>1. reader.at = 0 /\ reader.got = <<>> /\ manifest = Absent
    BY DEF Init, NewReader
  <2> QED BY <2>1, InitShape, EmptySeq DEF PageInv, ReadInv
<1>2. PageInv /\ [Next]_allVars => PageInv'
  BY ShapeSteps, ReadSteps DEF PageInv
<1>3. ASSUME PageInv, [Next]_allVars
      PROVE  [reply' = <<"query", "page">> =>
                IF reader'.more THEN IsPrefix(reader'.got, Matching)
                ELSE reader'.got = Matching]_allVars
  <2> SUFFICES ASSUME Next, reply' = <<"query", "page">>
               PROVE  IF reader'.more THEN IsPrefix(reader'.got, Matching)
                      ELSE reader'.got = Matching
    BY <1>3
  <2>1. Current /\ Page
    <3>1. CASE Query
      BY <3>1 DEF Query
    <3>2. CASE Open \/ Verify \/ NewQuery \/ Lose \/ \E record \in confirmed : Inspect(record)
      BY <3>2 DEF Open, Verify, NewQuery, Lose, Inspect
    <3>3. CASE \E d \in Drafts : AppendDraft(d)
      <4>1. PICK d \in Drafts : AppendDraft(d)
        BY <3>3
      <4>2. reply' = <<"append", "failed">> \/ reply' = <<"append", "done">>
        <5>1. CASE ~Recoverable
          BY <4>1, <5>1 DEF AppendDraft
        <5>2. CASE Recoverable /\ Known(d) # {}
          BY <4>1, <5>2 DEF AppendDraft
        <5>3. CASE Recoverable /\ Known(d) = {}
          BY <4>1, <5>3 DEF AppendDraft, Extend
        <5> QED BY <5>1, <5>2, <5>3
      <4> QED BY <4>2
    <3> QED BY <3>1, <3>2, <3>3 DEF Next
  <2>2. manifest # Absent /\ manifest[1] = lines
    BY <2>1 DEF Current, Absent
  <2>3. Typed /\ Told /\ reader.at = Len(reader.got) /\ IsPrefix(reader.got, Matching)
    BY <1>3, <2>2 DEF PageInv, ReadInv, ShapeInv, ChainInv, Matching
  <2>4. PICK got : got = reader'.got
    OBVIOUS
  <2>5. /\ got \in Seq(Line) /\ IsPrefix(got, Matching)
        /\ reader'.more = (Len(got) < Len(Matching)) /\ Len(got) <= Len(Matching)
    BY <2>1, <2>3, <2>4, PageFacts
  <2>6. ~(Len(got) < Len(Matching)) => got = Matching
    <3>1. PICK all \in Seq(Line) : all = Matching
      BY <2>3, LinesFacts, HoldingFacts DEF Matching
    <3>2. Len(got) \in Nat /\ Len(all) \in Nat
      BY <2>5, LenProperties
    <3>3. \A i \in 1..Len(got) : got[i] = all[i]
      BY <2>5, <3>1, PrefixFacts
    <3>4. ~(Len(got) < Len(all)) => Len(got) = Len(all)
      BY <2>5, <3>1, <3>2
    <3> QED BY <2>5, <3>1, <3>3, <3>4, SeqEqual
  <2> QED BY <2>4, <2>5, <2>6
<1> QED BY <1>1, <1>2, <1>3, PTL DEF Spec, PagesAreExact

\* The journal implements the log its writers rely on: until a file is lost, drafts are
\* retained one at a time in one order, those to be retained once appear once, and what
\* is confirmed is retained, whatever is rotated, fails, crashes or is repeated.
THEOREM JournalIsALog == Spec => ImplementsAuditLog
<1>1. Init => KeptInv
  <2> SUFFICES ASSUME Init PROVE KeptInv
    OBVIOUS
  <2> QED BY InitChain DEF LossInv, KeptInv, Init
<1>2. Init => Log!Init
  <2> SUFFICES ASSUME Init PROVE Log!Init
    OBVIOUS
  <2>1. losses = 0 /\ lines = <<>>
    BY DEF Init
  <2>2. Kept = <<>>
    BY <2>1, HoldingNothing DEF Kept
  <2>3. DOMAIN Kept = {}
    BY <2>2
  <2> QED BY <2>1, <2>3 DEF Log!Init
<1> QED BY <1>1, <1>2, KeptSteps, LogSteps, PTL DEF Spec, ImplementsAuditLog, Log!Spec
=============================================================================
