------------------------ MODULE LifecycleRoutesProofs ------------------------
(***************************************************************************)
(* Theorems of LifecycleRoutes, for any requests and watches.              *)
(***************************************************************************)
EXTENDS LifecycleRoutes, TLAPS

-----------------------------------------------------------------------------
(* The deque of contexts. *)

Elements(q) == {q[i] : i \in DOMAIN q}
Once(q) == \A i, j \in DOMAIN q : q[i] = q[j] => i = j
Before(q, a, b) == \A i, j \in DOMAIN q : q[i] = a /\ q[j] = b => i < j

\* Discarding by identity removes that context alone and keeps the order of the others.
LEMMA WithoutOne ==
  ASSUME contexts \in Seq(Requests), Once(contexts), NEW r
  PROVE  /\ Without(r) \in Seq(Requests) /\ Once(Without(r))
         /\ Elements(Without(r)) = Retained \ {r}
         /\ \A a, b : Before(contexts, a, b) => Before(Without(r), a, b)
<1>1. CASE r \notin Retained
  BY <1>1 DEF Without, Retained, Elements
<1>2. CASE r \in Retained
  <2> DEFINE k == CHOOSE i \in DOMAIN contexts : contexts[i] = r
             from(i) == IF i < k THEN i ELSE i + 1
             n == Len(contexts)
  <2>1. k \in DOMAIN contexts /\ contexts[k] = r
    BY <1>2 DEF Retained
  <2>2. DOMAIN contexts = 1..n /\ n \in Nat /\ \A i \in 1..n : contexts[i] \in Requests
    OBVIOUS
  <2> HIDE DEF k
  <2>3. k \in 1..n
    BY <2>1, <2>2
  <2>4. Without(r) = [i \in 1..(n - 1) |-> contexts[from(i)]]
    BY <1>2 DEF Without, k
  <2>5. \A i \in 1..(n - 1) : from(i) \in 1..n /\ from(i) # k
    BY <2>2, <2>3
  <2>6. \A i, j \in 1..(n - 1) : from(i) = from(j) => i = j
    BY <2>2, <2>3
  <2>7. \A i, j \in 1..(n - 1) : from(i) < from(j) => i < j
    BY <2>2, <2>3
  <2>8. \A j \in 1..n : j # k => \E i \in 1..(n - 1) : from(i) = j
    <3> SUFFICES ASSUME NEW j \in 1..n, j # k
                 PROVE  \E i \in 1..(n - 1) : from(i) = j
      OBVIOUS
    <3>1. CASE j < k
      <4>1. j \in 1..(n - 1) /\ from(j) = j
        BY <3>1, <2>2, <2>3
      <4> QED BY <4>1
    <3>2. CASE j > k
      <4>1. j - 1 \in 1..(n - 1) /\ from(j - 1) = j
        BY <3>2, <2>2, <2>3
      <4> QED BY <4>1
    <3> QED BY <3>1, <3>2, <2>2, <2>3
  <2> HIDE DEF from, n
  <2>9. n - 1 \in Nat
    BY <2>2, <2>3
  <2>10. Without(r) \in Seq(Requests) /\ DOMAIN Without(r) = 1..(n - 1)
    BY <2>4, <2>5, <2>2, <2>9
  <2>11. \A i \in 1..(n - 1) : Without(r)[i] = contexts[from(i)]
    BY <2>4
  <2>12. Once(Without(r))
    BY <2>10, <2>11, <2>5, <2>6, <2>2 DEF Once
  <2>13. Elements(Without(r)) = Retained \ {r}
    <3>1. ASSUME NEW i \in 1..(n - 1) PROVE Without(r)[i] \in Retained \ {r}
      BY <2>11, <2>5, <2>2, <2>1 DEF Once, Retained
    <3>2. ASSUME NEW x \in Retained \ {r} PROVE x \in Elements(Without(r))
      <4>1. PICK j \in 1..n : contexts[j] = x
        BY <2>2 DEF Retained
      <4>2. PICK i \in 1..(n - 1) : from(i) = j
        BY <4>1, <2>8, <2>1
      <4> QED BY <4>1, <4>2, <2>10, <2>11 DEF Elements
    <3> QED BY <3>1, <3>2, <2>10 DEF Elements
  <2>14. ASSUME NEW a, NEW b, Before(contexts, a, b) PROVE Before(Without(r), a, b)
    BY <2>14, <2>10, <2>11, <2>5, <2>7, <2>2 DEF Before
  <2> QED BY <2>10, <2>12, <2>13, <2>14
<1> QED BY <1>1, <1>2

\* Taking the oldest context leaves the others as they were.
LEMMA WithoutHead ==
  ASSUME contexts \in Seq(Requests), Once(contexts), contexts # <<>>
  PROVE  /\ Tail(contexts) \in Seq(Requests) /\ Once(Tail(contexts))
         /\ Elements(Tail(contexts)) = Retained \ {contexts[1]}
         /\ \A a, b : Before(contexts, a, b) => Before(Tail(contexts), a, b)
<1> DEFINE n == Len(contexts)
           t == Tail(contexts)
<1>1. n \in Nat /\ n >= 1 /\ DOMAIN contexts = 1..n /\ \A i \in 1..n : contexts[i] \in Requests
  OBVIOUS
<1>2. t \in Seq(Requests) /\ DOMAIN t = 1..(n - 1) /\ \A i \in 1..(n - 1) : t[i] = contexts[i + 1]
  BY <1>1
<1>0. \A i \in 1..(n - 1) : i + 1 \in 1..n /\ i + 1 # 1 /\ 1 \in 1..n
  BY <1>1
<1> HIDE DEF n, t
<1>3. Once(t)
  <2> SUFFICES ASSUME NEW i \in 1..(n - 1), NEW j \in 1..(n - 1), t[i] = t[j] PROVE i = j
    BY <1>2 DEF Once
  <2>1. i + 1 = j + 1
    BY <1>0, <1>1, <1>2 DEF Once
  <2> QED BY <2>1
<1>4. Elements(t) = Retained \ {contexts[1]}
  <2>1. ASSUME NEW i \in 1..(n - 1) PROVE t[i] \in Retained \ {contexts[1]}
    BY <1>0, <1>1, <1>2 DEF Once, Retained
  <2>2. ASSUME NEW x \in Retained \ {contexts[1]} PROVE x \in Elements(t)
    <3>1. PICK j \in 1..n : contexts[j] = x
      BY <1>1 DEF Retained
    <3>2. j - 1 \in 1..(n - 1) /\ t[j - 1] = x
      BY <3>1, <1>1, <1>2
    <3> QED BY <3>2, <1>2 DEF Elements
  <2> QED BY <2>1, <2>2, <1>2 DEF Elements
<1>5. ASSUME NEW a, NEW b, Before(contexts, a, b) PROVE Before(t, a, b)
  <2> SUFFICES ASSUME NEW i \in 1..(n - 1), NEW j \in 1..(n - 1), t[i] = a, t[j] = b
               PROVE  i < j
    BY <1>2 DEF Before
  <2>1. i + 1 < j + 1
    BY <1>0, <1>1, <1>2, <1>5 DEF Before
  <2> QED BY <2>1
<1> QED BY <1>2, <1>3, <1>4, <1>5 DEF t

\* A context that is appended comes after all others.
LEMMA WithLast ==
  ASSUME NEW q \in Seq(Requests), Once(q), NEW r \in Requests, r \notin Elements(q)
  PROVE  /\ Append(q, r) \in Seq(Requests) /\ Once(Append(q, r))
         /\ Elements(Append(q, r)) = Elements(q) \cup {r}
         /\ \A a : a # r => Before(Append(q, r), a, r)
         /\ \A a, b : b # r /\ Before(q, a, b) /\ a # r => Before(Append(q, r), a, b)
<1> DEFINE n == Len(q)
           u == Append(q, r)
<1>1. n \in Nat /\ DOMAIN q = 1..n /\ \A i \in 1..n : q[i] \in Requests
  OBVIOUS
<1>2. /\ u \in Seq(Requests) /\ DOMAIN u = 1..(n + 1)
      /\ \A i \in 1..n : u[i] = q[i]
      /\ u[n + 1] = r
  BY <1>1
<1> HIDE DEF n, u
<1>3. \A i \in 1..n : u[i] # r
  BY <1>1, <1>2 DEF Elements
<1>4. \A i \in 1..(n + 1) : i \in 1..n \/ i = n + 1
  BY <1>1
<1>5. Once(u)
  BY <1>1, <1>2, <1>3, <1>4 DEF Once
<1>6. Elements(u) = Elements(q) \cup {r}
  <2>1. ASSUME NEW i \in 1..(n + 1) PROVE u[i] \in Elements(q) \cup {r}
    BY <1>1, <1>2, <1>4 DEF Elements
  <2>2. ASSUME NEW x \in Elements(q) PROVE x \in Elements(u)
    <3>1. PICK i \in 1..n : q[i] = x
      BY <1>1 DEF Elements
    <3>2. i \in 1..(n + 1) /\ u[i] = x
      BY <3>1, <1>1, <1>2
    <3> QED BY <3>2, <1>2 DEF Elements
  <2>3. n + 1 \in 1..(n + 1)
    BY <1>1
  <2> QED BY <2>1, <2>2, <2>3, <1>2 DEF Elements
<1>7. ASSUME NEW a, a # r PROVE Before(u, a, r)
  BY <1>7, <1>1, <1>2, <1>3, <1>4 DEF Before
<1>8. ASSUME NEW a, NEW b, b # r, Before(q, a, b), a # r PROVE Before(u, a, b)
  BY <1>8, <1>1, <1>2, <1>3, <1>4 DEF Before
<1> QED BY <1>2, <1>5, <1>6, <1>7, <1>8 DEF u

-----------------------------------------------------------------------------
(* The inductive invariant. *)

\* The request on the screen is the prepared one, or the one that is running.
ScreenHolds ==
  /\ screen.pending # NoRequest =>
       /\ screen.route = "apply"
       /\ stage[screen.pending] = IF screen.progress THEN "applying" ELSE "pending"
  /\ screen.progress => screen.pending # NoRequest
  /\ Doing("pending") \subseteq {screen.pending}

\* One Apply runs at a time, and it was prepared before the request on the screen.
OneRuns ==
  /\ \A r, x \in Doing("applying") : r = x
  /\ \A r \in Requests : r \in taken => stage[r] \in {"applying", "cancelled", "ended"}
  /\ Once(contexts)
  /\ \A r \in Doing("applying") \ taken : \A x \in Doing("pending") : Before(contexts, r, x)

RequestInv ==
  /\ screen \in Screens /\ stage \in [Requests -> Stages] /\ taken \subseteq Requests
  /\ contexts \in Seq(Requests)
  /\ ScreenHolds /\ OneRuns /\ ContactsAreHeld

-----------------------------------------------------------------------------
(* The requests through each kind of step. *)

LEMMA FreshScreen ==
  ASSUME NEW route \in Routes, NEW input \in Inputs
  PROVE  /\ Fresh(route, input) \in Screens
         /\ Fresh(route, input).pending = NoRequest /\ Fresh(route, input).progress = FALSE
         /\ Fresh(route, input).route = route /\ Fresh(route, input).result = "none"
BY DEF Fresh, Screens

\* The screen no longer holds a request: one that was prepared is abandoned, one that
\* runs goes on.
LEMMA Released ==
  ASSUME RequestInv, DiscardPending, UNCHANGED taken, screen' \in Screens,
         screen'.pending = NoRequest, screen'.progress = FALSE
  PROVE  RequestInv'
<1> USE RoutesAssumption DEF RequestInv, ScreenHolds, OneRuns, ContactsAreHeld, Doing
<1> DEFINE a == Abandoned
<1>1. a = NoRequest \/ (a \in Requests /\ stage[a] = "pending" /\ a = screen.pending)
  BY DEF Abandoned, Screens
<1>2. /\ stage' \in [Requests -> Stages]
      /\ \A r \in Requests : stage'[r] = IF r = a THEN "ended" ELSE stage[r]
  BY DEF DiscardPending, Stages
<1>3. /\ contexts' \in Seq(Requests) /\ Once(contexts)'
      /\ Retained' = Retained \ {a}
      /\ \A x, y : Before(contexts, x, y) => Before(contexts', x, y)
  <2>1. contexts' = Without(a)
    BY DEF DiscardPending
  <2>2. Retained' = Elements(contexts')
    BY DEF Retained, Elements
  <2> HIDE DEF a
  <2> QED BY <2>1, <2>2, WithoutOne DEF Once
<1> HIDE DEF a
<1>4. \A r \in Requests : stage'[r] # "pending"
  <2> SUFFICES ASSUME NEW r \in Requests, stage'[r] = "pending" PROVE FALSE
    OBVIOUS
  <2>1. r # a /\ stage[r] = "pending"
    BY <1>2
  <2>2. r = screen.pending /\ screen.progress = FALSE
    BY <2>1 DEF Screens
  <2> QED BY <2>1, <2>2 DEF a, Abandoned
<1>5. \A r \in Requests : stage'[r] = "applying" <=> stage[r] = "applying"
  BY <1>1, <1>2
<1>6. ScreenHolds'
  BY <1>4
<1>7. OneRuns'
  BY <1>1, <1>2, <1>3, <1>4, <1>5
<1>8. ContactsAreHeld'
  <2>1. \A r \in Retained' : stage'[r] \in {"applying", "cancelled"}
    <3> SUFFICES ASSUME NEW r \in Retained, r # a PROVE stage'[r] \in {"applying", "cancelled"}
      BY <1>3
    <3>1. r \in Requests
      BY DEF Retained
    <3>2. CASE stage[r] \in {"applying", "cancelled"}
      BY <3>1, <3>2, <1>2
    <3>3. CASE r = screen.pending
      BY <3>1, <3>3, <1>2 DEF a, Abandoned, Screens
    <3> QED BY <3>2, <3>3
  <2> QED BY <2>1, <1>1, <1>3, <1>4, <1>5
<1> QED BY <1>2, <1>3, <1>6, <1>7, <1>8

LEMMA PrepareKeeps ==
  ASSUME RequestInv, NEW r \in Requests, Prepare(r) \/ PrepareFails(r)
  PROVE  RequestInv'
<1> USE RoutesAssumption
<1>1. /\ UNCHANGED <<taken, contexts>> /\ stage' \in [Requests -> Stages]
      /\ \A x \in Requests :
           \/ stage'[x] = stage[x]
           \/ stage[x] \in {"new", "preparing"} /\ stage'[x] \in {"new", "preparing"}
  BY DEF Prepare, PrepareFails, workers, RequestInv, Stages
<1>2. /\ screen' \in Screens /\ screen'.route = screen.route
      /\ screen'.pending = screen.pending /\ screen'.progress = screen.progress
  BY DEF Prepare, PrepareFails, RequestInv
<1>3. \A x \in Requests, s \in {"pending", "applying", "cancelled", "ended"} :
         stage'[x] = s <=> stage[x] = s
  BY <1>1
<1>4. ScreenHolds'
  BY <1>2, <1>3 DEF RequestInv, ScreenHolds, Doing, Screens
<1>5. OneRuns'
  BY <1>1, <1>3 DEF RequestInv, OneRuns, Doing, Once, Before
<1>6. ContactsAreHeld'
  <2>1. Retained' = Retained /\ Retained \subseteq Requests
    BY <1>1 DEF Retained, RequestInv
  <2> QED BY <2>1, <1>1, <1>2, <1>3 DEF RequestInv, ContactsAreHeld, Doing
<1> QED BY <1>1, <1>2, <1>4, <1>5, <1>6 DEF RequestInv

LEMMA PreparedKeeps ==
  ASSUME RequestInv, NEW r \in Requests, Prepared(r)
  PROVE  RequestInv'
<1> USE RoutesAssumption DEF Doing
<1> DEFINE a == Abandoned
<1>1. a = NoRequest \/ (a \in Requests /\ stage[a] = "pending" /\ a = screen.pending)
  BY DEF Abandoned, Screens, RequestInv, ScreenHolds
<1>2. /\ stage' \in [Requests -> Stages] /\ stage[r] = "preparing"
      /\ \A x \in Requests : stage'[x] = IF x = r THEN "pending"
                                       ELSE IF x = a THEN "ended" ELSE stage[x]
  BY DEF Prepared, Stages, RequestInv
<1>3. /\ screen' \in Screens /\ screen'.pending = r /\ screen'.progress = FALSE
      /\ screen'.route = "apply" /\ taken' = taken
  <2>1. screen' = [Fresh("apply", "none") EXCEPT !.pending = r] /\ taken' = taken
    BY DEF Prepared, Enter
  <2> QED BY <2>1 DEF Fresh, Screens, Routes, Inputs
<1>4. r \notin Retained
  BY <1>2 DEF RequestInv, ContactsAreHeld, ScreenHolds, Retained, Screens
<1>5. /\ contexts' \in Seq(Requests) /\ Once(contexts)'
      /\ Retained' = (Retained \ {a}) \cup {r}
      /\ \A x : x # r => Before(contexts', x, r)
  <2>1. contexts' = Append(Without(a), r)
    BY DEF Prepared, Retain
  <2>2. Retained' = Elements(contexts')
    BY DEF Retained, Elements
  <2>3. contexts \in Seq(Requests) /\ Once(contexts)
    BY DEF RequestInv, OneRuns
  <2> HIDE DEF a
  <2>4. /\ Without(a) \in Seq(Requests) /\ Once(Without(a))
        /\ Elements(Without(a)) = Retained \ {a}
    BY <2>3, WithoutOne
  <2>5. Once(contexts)' = Once(contexts')
    BY DEF Once
  <2> QED BY <2>1, <2>2, <2>4, <2>5, <1>4, WithLast
<1> HIDE DEF a
<1>6. \A x \in Requests : stage'[x] = "pending" <=> x = r
  <2> SUFFICES ASSUME NEW x \in Requests, stage'[x] = "pending", x # r PROVE FALSE
    BY <1>2
  <2>1. x # a /\ stage[x] = "pending"
    BY <1>2
  <2>2. x = screen.pending /\ screen.progress = FALSE
    BY <2>1 DEF Screens, RequestInv, ScreenHolds
  <2> QED BY <2>1, <2>2 DEF a, Abandoned
<1>7. \A x \in Requests : stage'[x] = "applying" <=> stage[x] = "applying"
  BY <1>1, <1>2
<1>8. ScreenHolds'
  BY <1>3, <1>6 DEF ScreenHolds
<1>9. OneRuns'
  <2>1. \A x \in Requests : x \in taken' => stage'[x] \in {"applying", "cancelled", "ended"}
    BY <1>1, <1>2, <1>3 DEF RequestInv, OneRuns
  <2> QED BY <2>1, <1>2, <1>3, <1>5, <1>6, <1>7 DEF RequestInv, OneRuns
<1>10. ContactsAreHeld'
  <2>1. \A x \in Retained \ {a} : x \in Requests /\ stage'[x] \in {"applying", "cancelled"}
    <3> SUFFICES ASSUME NEW x \in Retained, x # a
                 PROVE  x \in Requests /\ stage'[x] \in {"applying", "cancelled"}
      OBVIOUS
    <3>1. x \in Requests /\ x # r
      BY <1>4 DEF Retained, RequestInv
    <3>2. CASE stage[x] \in {"applying", "cancelled"}
      BY <3>1, <3>2, <1>2
    <3>3. CASE x = screen.pending
      BY <3>1, <3>3, <1>2 DEF a, Abandoned, Screens, RequestInv, ScreenHolds
    <3> QED BY <3>1, <3>2, <3>3 DEF RequestInv, ContactsAreHeld
  <2>2. \A x \in Requests : stage[x] = "applying" /\ x \notin taken => x \in Retained \ {a}
    BY <1>1 DEF RequestInv, ContactsAreHeld
  <2> QED BY <2>1, <2>2, <1>3, <1>5, <1>6, <1>7 DEF ContactsAreHeld
<1> QED BY <1>2, <1>3, <1>5, <1>8, <1>9, <1>10 DEF RequestInv

LEMMA SubmitKeeps ==
  ASSUME RequestInv, SubmitApply
  PROVE  RequestInv'
<1> USE RoutesAssumption DEF Doing
<1> DEFINE p == screen.pending
<1>1. p \in Requests /\ stage[p] = "pending" /\ p \notin taken /\ screen.route = "apply"
  BY DEF SubmitApply, RequestInv, ScreenHolds, OneRuns, Screens
<1>2. /\ screen' \in Screens /\ screen'.pending = p /\ screen'.progress = TRUE
      /\ screen'.route = "apply" /\ UNCHANGED <<taken, contexts>>
  BY <1>1 DEF SubmitApply, RequestInv, Screens
<1>3. /\ stage' \in [Requests -> Stages]
      /\ \A r \in Requests : stage'[r] = IF r = p THEN "applying"
                                       ELSE IF stage[r] = "applying" THEN "cancelled" ELSE stage[r]
  BY DEF SubmitApply, RequestInv, Stages
<1> HIDE DEF p
<1>4. \A r \in Requests : stage'[r] # "pending"
  BY <1>3 DEF RequestInv, ScreenHolds, p
<1>5. \A r \in Requests : stage'[r] = "applying" <=> r = p
  BY <1>3
<1>6. ScreenHolds'
  BY <1>1, <1>2, <1>4, <1>5 DEF ScreenHolds
<1>7. OneRuns'
  <2>1. \A r \in Requests : r \in taken' => stage'[r] \in {"applying", "cancelled", "ended"}
    BY <1>2, <1>3 DEF RequestInv, OneRuns
  <2> QED BY <2>1, <1>2, <1>4, <1>5 DEF RequestInv, OneRuns, Once
<1>8. ContactsAreHeld'
  <2>1. Retained' = Retained /\ Retained \subseteq Requests
    BY <1>2 DEF Retained, RequestInv
  <2>2. \A r \in Retained : r = p \/ stage'[r] \in {"applying", "cancelled"}
    BY <2>1, <1>3 DEF RequestInv, ContactsAreHeld, p
  <2>3. p \in Retained
    BY <1>1 DEF RequestInv, ContactsAreHeld
  <2> QED BY <2>1, <2>2, <2>3, <1>2, <1>4, <1>5 DEF ContactsAreHeld
<1> QED BY <1>2, <1>3, <1>6, <1>7, <1>8 DEF RequestInv

\* The oldest context is the request's own or that of an Apply that was cancelled.
LEMMA RefreshKeeps ==
  ASSUME RequestInv, NEW r \in Requests, RefreshContact(r)
  PROVE  RequestInv'
<1> USE DEF Doing
<1>1. /\ stage[r] = "applying" /\ r \notin taken /\ contexts # <<>>
      /\ contexts' = Tail(contexts) /\ taken' = taken \cup {r} /\ UNCHANGED <<screen, stage>>
  BY DEF RefreshContact, Take
<1>2. r \in Retained
  BY <1>1 DEF RequestInv, ContactsAreHeld
<1>3. /\ contexts' \in Seq(Requests) /\ Once(contexts)'
      /\ Retained' = Retained \ {contexts[1]}
  <2>1. contexts \in Seq(Requests) /\ Once(contexts) /\ contexts # <<>>
    BY <1>1 DEF RequestInv, OneRuns
  <2>2. Retained' = Elements(contexts') /\ Once(contexts)' = Once(contexts')
    BY DEF Retained, Elements, Once
  <2> QED BY <2>1, <2>2, <1>1, WithoutHead
<1>4. \A x \in Doing("pending") : x # contexts[1]
  <2> SUFFICES ASSUME NEW x \in Requests, stage[x] = "pending", x = contexts[1] PROVE FALSE
    OBVIOUS
  <2>1. PICK i \in DOMAIN contexts : contexts[i] = r
    BY <1>2 DEF Retained
  <2>2. 1 \in DOMAIN contexts /\ i >= 1
    BY <1>1, <2>1 DEF RequestInv
  <2>3. i < 1
    BY <2>1, <2>2, <1>1 DEF RequestInv, OneRuns, Before
  <2> QED BY <2>2, <2>3, <2>1 DEF RequestInv
<1>5. \A x \in Requests : stage[x] = "applying" /\ x \notin taken' => FALSE
  BY <1>1 DEF RequestInv, OneRuns
<1>6. ScreenHolds'
  BY <1>1 DEF RequestInv, ScreenHolds
<1>7. OneRuns'
  BY <1>1, <1>3, <1>5 DEF RequestInv, OneRuns
<1>8. ContactsAreHeld'
  BY <1>1, <1>3, <1>4, <1>5 DEF RequestInv, ContactsAreHeld
<1> QED BY <1>1, <1>3, <1>6, <1>7, <1>8 DEF RequestInv

\* A worker of an Apply ends, and its request leaves the screen if it is still there.
LEMMA EndKeeps ==
  ASSUME RequestInv, NEW r \in Requests, stage[r] \in {"applying", "cancelled"}, Ended(r),
         screen' \in Screens,
         IF Owns(r) THEN screen'.pending = NoRequest /\ screen'.progress = FALSE
         ELSE UNCHANGED screen
  PROVE  RequestInv'
<1> USE RoutesAssumption DEF Doing
<1>1. /\ stage' \in [Requests -> Stages] /\ taken' = taken
      /\ \A x \in Requests : stage'[x] = IF x = r THEN "ended" ELSE stage[x]
  BY DEF Ended, RequestInv, Stages
<1>2. /\ contexts' \in Seq(Requests) /\ Once(contexts)'
      /\ Retained' = Retained \ {r}
      /\ \A x, y : Before(contexts, x, y) => Before(contexts', x, y)
  <2>1. contexts' = Without(r)
    BY DEF Ended
  <2>2. Retained' = Elements(contexts') /\ Once(contexts)' = Once(contexts')
    BY DEF Retained, Elements, Once
  <2> QED BY <2>1, <2>2, WithoutOne DEF RequestInv, OneRuns
<1>3. Owns(r) <=> r = screen.pending
  BY DEF Owns, RequestInv, ScreenHolds, Screens
<1>4. r = screen.pending => \A x \in Requests : stage[x] # "pending"
  BY DEF RequestInv, ScreenHolds
<1>5. ScreenHolds'
  <2>1. CASE Owns(r)
    BY <2>1, <1>1, <1>3, <1>4 DEF ScreenHolds
  <2>2. CASE ~Owns(r)
    BY <2>2, <1>1, <1>3 DEF RequestInv, ScreenHolds, Screens
  <2> QED BY <2>1, <2>2
<1>6. OneRuns'
  BY <1>1, <1>2 DEF RequestInv, OneRuns
<1>7. ContactsAreHeld'
  <2>1. Retained \subseteq Requests
    BY DEF Retained, RequestInv
  <2> QED BY <2>1, <1>1, <1>2, <1>3 DEF RequestInv, ContactsAreHeld
<1> QED BY <1>1, <1>2, <1>5, <1>6, <1>7 DEF RequestInv

-----------------------------------------------------------------------------
(* The screen, the watches and the reads. *)

\* A route is always shown in the Quotas workspace.
ReadInv == (screen.route # "none" => workspace = "quotas") /\ PaintsAreCurrent

\* What the steps of the operator and of the reads decide.
ScreenTypeOK ==
  /\ workspace \in {"quotas", "obtainability", "audit"} /\ screen \in Screens
  /\ streams \subseteq Watches /\ stopped \subseteq Watches
  /\ reads \in [Groups -> Read] /\ reconciling \in BOOLEAN /\ unwinding \in Nat
  /\ shown \subseteq Requests
ScreenInv == ScreenTypeOK /\ WatchIsToldToStop /\ ReadInv

LEMMA ClaimedReads ==
  ASSUME reads \in [Groups -> Read]
  PROVE  /\ Claimed \in [Groups -> Read]
         /\ \A g \in Groups : Claimed[g].owner # "view"
BY DEF Claimed, Groups, Read

LEMMA EnterKeeps ==
  ASSUME ScreenInv, NEW new \in Screens, Enter(new)
  PROVE  ScreenInv'
<1>1. /\ workspace' = "quotas" /\ screen' = new /\ reads' = Claimed /\ streams' = streams
      /\ stopped' = stopped \cup ({screen.watch} \ {NoRequest})
      /\ UNCHANGED <<reconciling, unwinding, shown>>
  BY DEF Enter, CancelWatch
<1>2. ScreenTypeOK'
  BY <1>1, ClaimedReads DEF ScreenInv, ScreenTypeOK, Screens
<1>3. WatchIsToldToStop'
  BY RoutesAssumption, <1>1 DEF ScreenInv, ScreenTypeOK, WatchIsToldToStop
<1>4. ReadInv'
  BY <1>1, ClaimedReads DEF ScreenInv, ScreenTypeOK, ReadInv, PaintsAreCurrent
<1> QED BY <1>2, <1>3, <1>4 DEF ScreenInv

LEMMA LeaveKeeps ==
  ASSUME ScreenInv, NEW result, Leave(result, shown'), screen.route # "none",
         shown' \subseteq Requests
  PROVE  ScreenInv'
<1> USE DEF Groups
<1>1. /\ workspace' = workspace /\ screen' = Fresh("none", "none") /\ streams' = streams
      /\ stopped' = stopped \cup ({screen.watch} \ {NoRequest})
  BY DEF Leave, Clear, CancelWatch
<1>2. screen' \in Screens /\ screen'.route = "none" /\ workspace = "quotas"
  BY <1>1, FreshScreen DEF Routes, Inputs, ScreenInv, ReadInv
<1>3. /\ reads' \in [Groups -> Read] /\ reconciling' \in BOOLEAN /\ unwinding' \in Nat
      /\ \A g \in Groups : reads'[g].owner = "view" => shown' \subseteq reads'[g].knows
  <2>1. CASE result = "affecting"
    <3>1. /\ reads' = [Claimed EXCEPT !["post-apply-refresh"] =
                          [owner |-> "view", knows |-> shown']]
          /\ reconciling' = TRUE
          /\ unwinding' = unwinding + (IF reads["post-apply-refresh"] = NoRead THEN 0 ELSE 1)
      BY <2>1 DEF Leave
    <3>2. reads' \in [Groups -> Read]
          /\ \A g \in Groups : reads'[g].owner = "view" => shown' \subseteq reads'[g].knows
      BY <3>1, ClaimedReads DEF ScreenInv, ScreenTypeOK, Read
    <3> QED BY <3>1, <3>2 DEF ScreenInv, ScreenTypeOK
  <2>2. CASE result # "affecting"
    <3>1. UNCHANGED <<reads, reconciling, unwinding>>
      BY <2>2 DEF Leave, ledger
    <3>2. \A g \in Groups : reads[g].owner # "view"
      BY DEF ScreenInv, ReadInv, PaintsAreCurrent, OnLedger
    <3> QED BY <3>1, <3>2 DEF ScreenInv, ScreenTypeOK
  <2> QED BY <2>1, <2>2
<1>4. ScreenTypeOK'
  BY <1>1, <1>2, <1>3 DEF ScreenInv, ScreenTypeOK, Screens
<1>5. WatchIsToldToStop'
  BY RoutesAssumption, <1>1 DEF ScreenInv, ScreenTypeOK, WatchIsToldToStop
<1>6. ReadInv'
  BY <1>1, <1>2, <1>3 DEF ReadInv, PaintsAreCurrent, OnLedger
<1> QED BY <1>4, <1>5, <1>6 DEF ScreenInv

\* A step of a worker that leaves the route on the screen where it is, and the result
\* of an Apply shown on its route.
LEMMA StaysKeeps ==
  ASSUME ScreenInv, UNCHANGED <<workspace, watching, ledger>>, screen' \in Screens,
         screen'.route = screen.route, screen'.watch = screen.watch,
         shown' \subseteq Requests, shown' = shown \/ screen.route # "none"
  PROVE  ScreenInv'
<1>1. UNCHANGED <<workspace, streams, stopped, reads, reconciling, unwinding>>
  BY DEF watching, ledger
<1>2. ScreenTypeOK' /\ WatchIsToldToStop'
  BY <1>1 DEF ScreenInv, ScreenTypeOK, WatchIsToldToStop
<1>3. ReadInv'
  BY <1>1 DEF ScreenInv, ReadInv, PaintsAreCurrent, OnLedger
<1> QED BY <1>2, <1>3 DEF ScreenInv

LEMMA SwitchKeeps ==
  ASSUME ScreenInv, NEW to \in {"quotas", "obtainability", "audit"}, Switch(to)
  PROVE  ScreenInv'
<1>1. /\ screen' = screen \/ screen' = Fresh("none", "none")
      /\ screen.route = "none" => screen' = screen /\ UNCHANGED stopped
      /\ screen.route # "none" => screen'.route = "none"
      /\ streams' = streams
      /\ stopped' = stopped \/ stopped' = stopped \cup ({screen.watch} \ {NoRequest})
      /\ screen' = Fresh("none", "none") =>
           screen' = screen \/ stopped' = stopped \cup ({screen.watch} \ {NoRequest})
  BY FreshScreen DEF Switch, Clear, CancelWatch, watching, Routes, Inputs
<1>2. screen' \in Screens /\ screen'.route = "none"
  BY <1>1, FreshScreen DEF Routes, Inputs, ScreenInv, ScreenTypeOK
<1>3. /\ workspace' = to /\ UNCHANGED <<reconciling, unwinding, shown>>
      /\ reads' = IF to = "audit" \/ (to # workspace /\ workspace # "audit") THEN Claimed ELSE reads
  BY DEF Switch
<1>4. ScreenTypeOK'
  BY <1>1, <1>2, <1>3, ClaimedReads DEF ScreenInv, ScreenTypeOK, Screens
<1>5. WatchIsToldToStop'
  BY RoutesAssumption, <1>1 DEF ScreenInv, ScreenTypeOK, WatchIsToldToStop
<1>6. PaintsAreCurrent'
  <2> SUFFICES ASSUME NEW g \in Groups, reads'[g].owner = "view"
               PROVE  workspace' = "quotas" /\ shown \subseteq reads'[g].knows
    BY <1>2, <1>3 DEF PaintsAreCurrent, OnLedger
  <2>4. reads' # Claimed
    BY ClaimedReads DEF ScreenInv, ScreenTypeOK
  <2>1. reads' = reads
    BY <1>3, <2>4
  <2>2. OnLedger /\ shown \subseteq reads[g].knows
    BY <2>1 DEF ScreenInv, ReadInv, PaintsAreCurrent
  <2>3. to # "audit" /\ (to = workspace \/ workspace = "audit")
    BY <1>3, <2>4
  <2> QED BY <1>3, <2>1, <2>2, <2>3 DEF OnLedger
<1> QED BY <1>2, <1>4, <1>5, <1>6 DEF ScreenInv, ReadInv

LEMMA ReadsKeep ==
  ASSUME ScreenInv,
         Load \/ CancelRead \/ LoadEnds \/ ReconciliationEnds \/ ReconciliationUnwinds
  PROVE  ScreenInv'
<1>1. UNCHANGED <<workspace, screen, streams, stopped, shown>>
  BY DEF Load, CancelRead, LoadEnds, ReconciliationEnds, ReconciliationUnwinds, watching
<1>2. /\ reads' \in [Groups -> Read] /\ reconciling' \in BOOLEAN /\ unwinding' \in Nat
      /\ \A g \in Groups : reads'[g].owner = "view" =>
            reads'[g] = reads[g] \/ (OnLedger /\ reads'[g].knows = shown)
  <2> USE ClaimedReads DEF ScreenInv, ScreenTypeOK, Groups, Read, NoRead
  <2>0. NoRead \in Read /\ NoRead.owner # "view"
    OBVIOUS
  <2>1. CASE Load
    BY <2>1 DEF Load
  <2>2. CASE CancelRead
    BY <2>2 DEF CancelRead
  <2>3. CASE LoadEnds
    <3>1. /\ reads' = [reads EXCEPT !["quota-load"] = NoRead]
          /\ UNCHANGED <<reconciling, unwinding>>
      BY <2>3 DEF LoadEnds
    <3>2. /\ reads' \in [Groups -> Read]
          /\ \A g \in Groups : reads'[g] = IF g = "quota-load" THEN NoRead ELSE reads[g]
      BY <3>1, <2>0
    <3> QED BY <3>1, <3>2, <2>0
  <2>4. CASE ReconciliationEnds
    BY <2>4 DEF ReconciliationEnds
  <2>5. CASE ReconciliationUnwinds
    <3>1. /\ reads' = reads /\ unwinding > 0 /\ unwinding' = unwinding - 1
          /\ reconciling' = FALSE
      BY <2>5 DEF ReconciliationUnwinds
    <3>2. unwinding' \in Nat
      BY <3>1
    <3> QED BY <3>1, <3>2
  <2> QED BY <2>1, <2>2, <2>3, <2>4, <2>5
<1>3. ScreenTypeOK' /\ WatchIsToldToStop'
  BY <1>1, <1>2 DEF ScreenInv, ScreenTypeOK, WatchIsToldToStop
<1>4. ReadInv'
  BY <1>1, <1>2 DEF ScreenInv, ReadInv, PaintsAreCurrent, OnLedger
<1> QED BY <1>3, <1>4 DEF ScreenInv

-----------------------------------------------------------------------------
(* The theorems. *)

IInv == enabled \subseteq Buttons /\ ScreenInv /\ RequestInv

LEMMA InvStarts == Init => IInv
<1> SUFFICES ASSUME Init PROVE IInv
  OBVIOUS
<1> USE DEF Init
<1>1. /\ screen \in Screens /\ screen.pending = NoRequest /\ screen.progress = FALSE
      /\ screen.route = "none" /\ screen.watch = NoRequest
  BY FreshScreen DEF Routes, Inputs, Fresh
<1>2. \A g \in Groups : reads[g] \in Read /\ reads[g].owner # "view"
  BY DEF NoRead, Read
<1>3. ScreenInv
  BY <1>1, <1>2
     DEF ScreenInv, ScreenTypeOK, WatchIsToldToStop, ReadInv, PaintsAreCurrent
<1>4. stage \in [Requests -> Stages] /\ \A r \in Requests : stage[r] = "new"
  BY DEF Stages
<1>5. taken = {} /\ contexts \in Seq(Requests) /\ \A i \in DOMAIN contexts : FALSE
  OBVIOUS
<1> HIDE DEF Init
<1>6. Doing("pending") = {} /\ Doing("applying") = {} /\ Retained = {}
  BY <1>4, <1>5 DEF Doing, Retained
<1>8. Once(contexts)
  BY <1>5 DEF Once
<1>9. ScreenHolds /\ OneRuns /\ ContactsAreHeld
  BY <1>1, <1>5, <1>6, <1>8 DEF ScreenHolds, OneRuns, ContactsAreHeld
<1>7. RequestInv
  BY <1>1, <1>4, <1>5, <1>9 DEF RequestInv
<1> QED BY <1>3, <1>7 DEF Init, IInv, Buttons

\* Handlers that open a route.
LEMMA ArriveSteps ==
  ASSUME IInv, NEW new \in Screens, Arrive(new), enabled' \subseteq Buttons,
         new.pending = NoRequest, new.progress = FALSE
  PROVE  IInv'
<1>1. ScreenInv' /\ UNCHANGED taken /\ screen' = new
  BY EnterKeeps DEF IInv, Arrive, Enter
<1>2. RequestInv'
  BY <1>1, Released DEF IInv, Arrive
<1> QED BY <1>1, <1>2 DEF IInv

LEMMA OpenSteps ==
  ASSUME IInv, NEW new \in Screens, Open(new), new.pending = NoRequest, new.progress = FALSE
  PROVE  IInv'
BY ArriveSteps DEF Open, IInv

LEMMA OperatorSteps ==
  ASSUME IInv
  PROVE  /\ OpenCompose \/ OpenReview \/ OpenWatch \/ Preview \/ Review => IInv'
         /\ \A w \in Watches : PrepareWatch(w) => IInv'
<1>1. OpenCompose \/ OpenReview \/ OpenWatch => IInv'
  BY FreshScreen, OpenSteps DEF OpenCompose, OpenReview, OpenWatch, Routes, Inputs
<1>2. Preview => IInv'
  BY FreshScreen, OpenSteps DEF Preview, Routes, Inputs
<1>4. ASSUME Review PROVE IInv'
  <2>1. CASE Open(Fresh("plan-review", "none"))
    BY <2>1, FreshScreen, OpenSteps DEF Routes, Inputs
  <2>2. CASE /\ Arrive(Fresh("plan-review", "plan"))
             /\ enabled' \in {enabled \cup {"prepare"}, enabled \ {"prepare"}}
    <3>1. enabled' \subseteq Buttons
      BY <2>2 DEF IInv, Buttons
    <3> QED BY <2>2, <3>1, FreshScreen, ArriveSteps DEF Routes, Inputs
  <2> QED BY <1>4, <2>1, <2>2 DEF Review
<1>3. ASSUME NEW w \in Watches, PrepareWatch(w) PROVE IInv'
  <2> DEFINE new == [Fresh("watch", "none") EXCEPT !.watch = w]
  <2>1. new \in Screens /\ new.pending = NoRequest /\ new.progress = FALSE
    BY DEF Fresh, Screens, Routes, Inputs
  <2>2. Open(new)
    BY <1>3 DEF PrepareWatch
  <2> HIDE DEF new
  <2> QED BY <2>1, <2>2, OpenSteps
<1> QED BY <1>1, <1>2, <1>3, <1>4

LEMMA LeavingSteps ==
  ASSUME IInv
  PROVE  /\ Back => IInv'
         /\ \A to \in {"quotas", "obtainability", "audit"} : Switch(to) => IInv'
<1>0. /\ Fresh("none", "none") \in Screens /\ Fresh("none", "none").pending = NoRequest
      /\ Fresh("none", "none").progress = FALSE
  BY FreshScreen DEF Routes, Inputs
<1>1. ASSUME Back PROVE IInv'
  <2>1. ScreenInv'
    BY <1>1, LeaveKeeps DEF Back, IInv, ScreenInv, ScreenTypeOK
  <2>2. RequestInv'
    BY <1>0, <1>1, Released DEF Back, Leave, Clear, IInv
  <2> QED BY <1>1, <2>1, <2>2 DEF Back, Leave, IInv
<1>2. ASSUME NEW to \in {"quotas", "obtainability", "audit"}, Switch(to) PROVE IInv'
  <2>1. ScreenInv' /\ enabled' = enabled
    BY <1>2, SwitchKeeps DEF Switch, IInv
  <2>2. CASE screen.route = "none"
    <3>1. UNCHANGED <<screen, stage, contexts, taken>>
      BY <1>2, <2>2 DEF Switch
    <3> QED BY <3>1, <2>1 DEF IInv, RequestInv, ScreenHolds, OneRuns, ContactsAreHeld,
                              Doing, Retained, Once, Before
  <2>3. CASE screen.route # "none"
    <3>1. DiscardPending /\ screen' = Fresh("none", "none") /\ UNCHANGED taken
      BY <1>2, <2>3 DEF Switch, Clear
    <3> QED BY <3>1, <2>1, <1>0, Released DEF IInv
  <2> QED BY <2>2, <2>3
<1> QED BY <1>1, <1>2

LEMMA RequestsRest ==
  ASSUME RequestInv, UNCHANGED <<screen, stage, taken, contexts>>
  PROVE  RequestInv'
BY DEF RequestInv, ScreenHolds, OneRuns, ContactsAreHeld, Doing, Retained, Once, Before

LEMMA WorkerSteps ==
  ASSUME IInv
  PROVE  /\ Compose \/ Composed \/ SubmitApply \/ StartWatch => IInv'
         /\ \A w \in Watches : StreamEnds(w) => IInv'
<1>1. ASSUME Compose PROVE IInv'
  <2>1. enabled' \subseteq Buttons
    BY <1>1 DEF Compose, IInv
  <2> QED BY <1>1, <2>1, StaysKeeps, RequestsRest DEF Compose, IInv, ScreenInv, ScreenTypeOK
<1>2. ASSUME Composed PROVE IInv'
  <2>0. enabled' \subseteq Buttons
    BY <1>2 DEF Composed, IInv, Buttons
  <2>1. ASSUME NEW preview \in BOOLEAN,
               Enter([Fresh("compose", "none") EXCEPT !.preview = preview]), DiscardPending
        PROVE  IInv'
    <3> DEFINE new == [Fresh("compose", "none") EXCEPT !.preview = preview]
    <3>1. new \in Screens /\ new.pending = NoRequest /\ new.progress = FALSE
      BY DEF Fresh, Screens, Routes, Inputs
    <3>2. screen' = new
      BY <2>1 DEF Enter
    <3>3. ScreenInv'
      BY <2>1, <3>1, EnterKeeps DEF IInv
    <3>4. RequestInv'
      BY <1>2, <2>1, <3>1, <3>2, Released DEF Composed, IInv
    <3> QED BY <2>0, <3>3, <3>4 DEF IInv
  <2>2. ASSUME UNCHANGED <<workspace, screen, stage, contexts, watching, ledger, shown>>
        PROVE  IInv'
    BY <1>2, <2>0, <2>2, StaysKeeps, RequestsRest DEF Composed, IInv, ScreenInv, ScreenTypeOK
  <2> QED BY <1>2, <2>1, <2>2 DEF Composed
<1>3. ASSUME SubmitApply PROVE IInv'
  <2>1. RequestInv'
    BY <1>3, SubmitKeeps DEF IInv
  <2>2. screen'.route = screen.route /\ screen'.watch = screen.watch /\ screen' \in Screens
    BY <1>3, <2>1 DEF SubmitApply, RequestInv, IInv, ScreenInv, ScreenTypeOK, Screens
  <2>3. ScreenInv'
    BY <1>3, <2>2, StaysKeeps DEF SubmitApply, IInv, ScreenInv, ScreenTypeOK
  <2> QED BY <1>3, <2>1, <2>3 DEF SubmitApply, IInv
<1>4. ASSUME StartWatch \/ \E w \in Watches : StreamEnds(w) PROVE IInv'
  <2>1. UNCHANGED <<workspace, screen, enabled, stage, taken, contexts, reads, reconciling,
                    unwinding, shown>>
    BY <1>4 DEF StartWatch, StreamEnds, workers, ledger
  <2>2. /\ streams' \subseteq Watches /\ stopped' \subseteq Watches
        /\ WatchIsToldToStop'
    BY <1>4 DEF StartWatch, StreamEnds, IInv, ScreenInv, ScreenTypeOK, WatchIsToldToStop, Screens
  <2>3. ScreenInv'
    BY <2>1, <2>2 DEF IInv, ScreenInv, ScreenTypeOK, ReadInv, PaintsAreCurrent, OnLedger
  <2>4. RequestInv'
    BY <2>1, RequestsRest DEF IInv
  <2> QED BY <2>1, <2>3, <2>4 DEF IInv
<1> QED BY <1>1, <1>2, <1>3, <1>4

LEMMA RequestSteps ==
  ASSUME IInv, NEW r \in Requests
  PROVE  /\ Prepare(r) \/ Prepared(r) \/ PrepareFails(r) \/ RefreshContact(r) => IInv'
         /\ Result(r) \/ Interrupted(r) => IInv'
<1> USE DEF IInv
<1>1. ASSUME Prepare(r) \/ PrepareFails(r) PROVE IInv'
  <2>1. RequestInv'
    BY <1>1, PrepareKeeps
  <2>2. enabled' \subseteq Buttons
    BY <1>1 DEF Prepare, PrepareFails, Reenabled, Buttons
  <2>3. ScreenInv'
    BY <1>1, StaysKeeps DEF Prepare, PrepareFails, ScreenInv, ScreenTypeOK
  <2> QED BY <2>1, <2>2, <2>3
<1>2. ASSUME Prepared(r) PROVE IInv'
  <2> DEFINE new == [Fresh("apply", "none") EXCEPT !.pending = r]
  <2>1. new \in Screens
    BY DEF Fresh, Screens, Routes, Inputs
  <2>2. ScreenInv'
    BY <1>2, <2>1, EnterKeeps DEF Prepared
  <2> QED BY <1>2, <2>2, PreparedKeeps DEF Prepared
<1>3. ASSUME RefreshContact(r) PROVE IInv'
  BY <1>3, RefreshKeeps, StaysKeeps DEF RefreshContact, ScreenInv, ScreenTypeOK
<1>4. ASSUME Interrupted(r) PROVE IInv'
  <2>1. /\ stage[r] \in {"applying", "cancelled"} /\ Ended(r) /\ enabled' = enabled
        /\ UNCHANGED <<workspace, watching, ledger, shown>>
    BY <1>4 DEF Interrupted, Ended
  <2>2. /\ screen' \in Screens /\ screen'.route = screen.route /\ screen'.watch = screen.watch
        /\ IF Owns(r) THEN screen'.pending = NoRequest /\ screen'.progress = FALSE
           ELSE UNCHANGED screen
    BY <1>4 DEF Interrupted, ScreenInv, ScreenTypeOK, Screens
  <2>3. RequestInv'
    BY <2>1, <2>2, EndKeeps
  <2>4. ScreenInv'
    BY <2>1, <2>2, StaysKeeps DEF ScreenInv, ScreenTypeOK
  <2> QED BY <2>1, <2>3, <2>4
<1>5. ASSUME Result(r) PROVE IInv'
  <2>1. stage[r] = "applying" /\ Ended(r) /\ enabled' = enabled
    BY <1>5 DEF Result, Ended
  <2>2. CASE ~Owns(r)
    <3>1. UNCHANGED <<workspace, screen, watching, ledger, shown>>
      BY <1>5, <2>2 DEF Result
    <3> QED BY <2>1, <2>2, <3>1, EndKeeps, StaysKeeps DEF ScreenInv, ScreenTypeOK
  <2>3. CASE Owns(r)
    <3>1. PICK result \in {"plain", "affecting"} :
            /\ shown' = shown \cup {r}
            /\ \/ /\ screen' = [screen EXCEPT !.progress = FALSE, !.pending = NoRequest,
                                              !.result = result, !.input = "watch"]
                  /\ UNCHANGED <<workspace, watching, ledger>>
               \/ Leave(result, shown')
      BY <1>5, <2>3 DEF Result
    <3>2. screen.route = "apply" /\ shown' \subseteq Requests
      BY <2>3, <3>1 DEF Owns, ScreenInv, ScreenTypeOK
    <3>3. CASE UNCHANGED <<workspace, watching, ledger>>
               /\ screen' = [screen EXCEPT !.progress = FALSE, !.pending = NoRequest,
                                           !.result = result, !.input = "watch"]
      <4>1. /\ screen' \in Screens /\ screen'.route = screen.route
            /\ screen'.watch = screen.watch /\ screen'.pending = NoRequest
            /\ screen'.progress = FALSE
        BY <3>3 DEF ScreenInv, ScreenTypeOK, Screens, Inputs
      <4>2. ScreenInv'
        BY <3>2, <3>3, <4>1, StaysKeeps
      <4> QED BY <2>1, <2>3, <4>1, <4>2, EndKeeps
    <3>4. CASE Leave(result, shown')
      <4>1. /\ screen' = Fresh("none", "none") /\ screen' \in Screens
            /\ screen'.pending = NoRequest /\ screen'.progress = FALSE
        BY <3>4, FreshScreen DEF Leave, Clear, Routes, Inputs
      <4>2. ScreenInv'
        BY <3>2, <3>4, LeaveKeeps
      <4> QED BY <2>1, <2>3, <4>1, <4>2, EndKeeps
    <3> QED BY <3>1, <3>3, <3>4
  <2> QED BY <2>2, <2>3
<1> QED BY <1>1, <1>2, <1>3, <1>4, <1>5

LEMMA InvSteps == IInv /\ [Next]_vars => IInv'
<1> SUFFICES ASSUME IInv, [Next]_vars PROVE IInv'
  OBVIOUS
<1>1. CASE Load \/ CancelRead \/ LoadEnds \/ ReconciliationEnds \/ ReconciliationUnwinds
  <2>1. UNCHANGED <<screen, enabled, stage, taken, contexts>>
    BY <1>1 DEF Load, CancelRead, LoadEnds, ReconciliationEnds, ReconciliationUnwinds, workers
  <2> QED BY <1>1, <2>1, ReadsKeep, RequestsRest DEF IInv
<1>2. CASE UNCHANGED vars
  <2>1. /\ UNCHANGED <<workspace, screen, watching, ledger, shown>>
        /\ UNCHANGED <<enabled, stage, taken, contexts>>
    BY <1>2 DEF vars, workers
  <2> QED BY <2>1, StaysKeeps, RequestsRest DEF IInv, ScreenInv, ScreenTypeOK
<1> QED BY <1>1, <1>2, OperatorSteps, LeavingSteps, WorkerSteps, RequestSteps DEF Next

\* The routes, their requests, watches and reads, whatever the operator and the workers
\* do and in whatever order.
THEOREM RoutesInvariant == Spec => []IInv
BY InvStarts, InvSteps, PTL DEF Spec

\* The state is well typed, and an Apply awaits its confirmation or goes on only on its
\* own route.
THEOREM RoutesTyped == Spec => []TypeOK
<1>1. IInv => TypeOK
  BY DEF IInv, ScreenInv, ScreenTypeOK, RequestInv, ScreenHolds, TypeOK
<1> QED BY <1>1, RoutesInvariant, PTL

\* No protected contact outlives the request it was given for, and none that is still to
\* be applied has lost its own.
THEOREM ContactsFollowRequests == Spec => []ContactsAreHeld
<1>1. IInv => ContactsAreHeld
  BY DEF IInv, RequestInv
<1> QED BY <1>1, RoutesInvariant, PTL

\* Nothing goes on polling behind a route that was left or replaced.
THEOREM AbandonedWatchesStop == Spec => []WatchIsToldToStop
<1>1. IInv => WatchIsToldToStop
  BY DEF IInv, ScreenInv
<1> QED BY <1>1, RoutesInvariant, PTL

\* No superseded read paints the ledger.
THEOREM LedgerIsCurrent == Spec => []PaintsAreCurrent
<1>1. IInv => PaintsAreCurrent
  BY DEF IInv, ScreenInv, ReadInv
<1> QED BY <1>1, RoutesInvariant, PTL
=============================================================================
