---------------------------- MODULE QueueProofs ----------------------------
(***************************************************************************)
(* Proofs about the processor with its representation queue.               *)
(*                                                                         *)
(* Without and Reprocessed go through a list by recursive functions: the   *)
(* first part shows that such a function exists and what it collects.  The *)
(* rest is an invariant of QSpec with a part for each theorem:             *)
(* QueueTypeOK, NothingQueuedIsConfirmed in every state, and, as long as   *)
(* no adjustment was cut short, a queue that is fit for the next plot      *)
(* whenever the tip is the one that the adjustment began with.             *)
(***************************************************************************)
EXTENDS QueuedProcessor, ProcessorProofs

NotRoots == {r \in Representation : ~IsPlotroot(r)}

Imbalances == [Key -> Nat]

Caches == [Key -> Nat \cup {None}]

----------------------------------------------------------------------------
(* Recursion *)

IsStep(step, S, k) == \A n \in 1..k, s \in S : step[<<n, s>>] \in S

Recursive(f, base, step, k) ==
    f[0] = base /\ \A n \in 1..k : f[n] = step[<<n, f[n-1]>>]

LEMMA RecursionExists ==
    ASSUME NEW S, NEW base \in S, NEW k \in Nat, NEW step, IsStep(step, S, k)
    PROVE  \E f : f \in [0..k -> S] /\ Recursive(f, base, step, k)
<1> DEFINE A == {m \in Nat : m <= k => \E f \in [0..m -> S] : Recursive(f, base, step, m)}
<1>1. 0 \in A
  <2>1. Recursive([n \in 0..0 |-> base], base, step, 0)
    BY DEF Recursive
  <2> QED
    BY <2>1
<1>2. ASSUME NEW m \in Nat, m \in A PROVE m + 1 \in A
  <2> SUFFICES ASSUME m + 1 <= k PROVE \E f \in [0..m+1 -> S] : Recursive(f, base, step, m + 1)
    OBVIOUS
  <2>1. PICK f \in [0..m -> S] : Recursive(f, base, step, m)
    BY <1>2
  <2> DEFINE g == [n \in 0..m+1 |-> IF n = m + 1 THEN step[<<n, f[m]>>] ELSE f[n]]
  <2>2. f[m] \in S /\ m + 1 \in 1..k
    BY <2>1
  <2>3. step[<<m+1, f[m]>>] \in S
    BY <2>2 DEF IsStep
  <2>4. g \in [0..m+1 -> S]
    BY <2>1, <2>3
  <2>5. g[0] = base
    BY <2>1 DEF Recursive
  <2>6. ASSUME NEW n \in 1..m+1 PROVE g[n] = step[<<n, g[n-1]>>]
    <3>1. CASE n = m + 1
      <4>1. g[n] = step[<<n, f[m]>>] /\ n - 1 = m
        BY <3>1
      <4>2. g[m] = f[m]
        OBVIOUS
      <4> QED
        BY <4>1, <4>2
    <3>2. CASE n \in 1..m
      <4>1. g[n] = f[n] /\ g[n-1] = f[n-1]
        BY <3>2
      <4> QED
        BY <2>1, <3>2, <4>1 DEF Recursive
    <3> QED
      BY <3>1, <3>2
  <2> HIDE DEF g
  <2> QED
    BY <2>4, <2>5, <2>6 DEF Recursive
<1>3. Nat \subseteq A
  <2> HIDE DEF A
  <2> QED
    BY <1>1, <1>2, Induction
<1> QED
  BY <1>3

----------------------------------------------------------------------------
(* The rest of the list *)

LeavesOut(f, reps) ==
    f = [n \in 0..Len(queue) |->
           IF n = 0 THEN <<>>
           ELSE IF queue[n] \in Range(reps) THEN f[n-1]
           ELSE Append(f[n-1], queue[n])]

LEMMA RestIsComputed ==
    ASSUME queue \in Seq(NotRoots), NEW reps
    PROVE  \E f : LeavesOut(f, reps) /\ Without(reps) = f[Len(queue)]
<1> DEFINE S == Seq(NotRoots)
           k == Len(queue)
           step == [c \in (1..k) \X S |->
                      IF queue[c[1]] \in Range(reps) THEN c[2] ELSE Append(c[2], queue[c[1]])]
<1>1. k \in Nat /\ <<>> \in S /\ \A n \in 1..k : queue[n] \in NotRoots
  OBVIOUS
<1>2. IsStep(step, S, k)
  <2>1. ASSUME NEW c \in (1..k) \X S PROVE step[c] \in S
    <3>1. c[1] \in 1..k /\ c[2] \in S
      OBVIOUS
    <3>2. queue[c[1]] \in NotRoots
      BY <1>1, <3>1
    <3>3. Append(c[2], queue[c[1]]) \in S
      BY <3>1, <3>2, AppendProperties
    <3> QED
      BY <3>1, <3>3
  <2> QED
    BY <2>1 DEF IsStep
<1>3. \A n \in 1..k, s \in S :
        step[<<n, s>>] = IF queue[n] \in Range(reps) THEN s ELSE Append(s, queue[n])
  OBVIOUS
<1> DEFINE none == <<>>
<1>3a. none \in S
  BY <1>1
<1> HIDE DEF S, k, step, none
<1>4. PICK f : f \in [0..k -> S] /\ Recursive(f, none, step, k)
  BY Zenon, <1>1, <1>2, <1>3a, RecursionExists
<1> DEFINE g == [n \in 0..k |-> IF n = 0 THEN <<>>
                                ELSE IF queue[n] \in Range(reps) THEN f[n-1]
                                ELSE Append(f[n-1], queue[n])]
<1>5. ASSUME NEW n \in 0..k PROVE f[n] = g[n]
  <2>1. CASE n = 0
    BY <1>4, <2>1 DEF none, Recursive
  <2>2. CASE n # 0
    <3>1. n \in 1..k /\ n - 1 \in 0..k
      BY <1>1, <2>2
    <3>2. f[n-1] \in S /\ f[n] = step[<<n, f[n-1]>>]
      BY <1>4, <3>1 DEF Recursive
    <3> QED
      BY <1>3, <2>2, <3>1, <3>2
  <2> QED
    BY <2>1, <2>2
<1>6. f = g
  BY <1>4, <1>5
<1>7. LeavesOut(f, reps)
  BY <1>6 DEF LeavesOut, k
<1> DEFINE h == CHOOSE h : LeavesOut(h, reps)
<1>8. LeavesOut(h, reps)
  BY <1>7
<1>9. Without(reps) = h[Len(queue)]
  BY Zenon DEF Without, LeavesOut
<1> HIDE DEF h
<1> QED
  BY <1>8, <1>9

LeavesOutByOne(f, reps) ==
    /\ f[0] = <<>>
    /\ \A n \in Nat : n + 1 <= Len(queue) =>
         f[n+1] = IF queue[n+1] \in Range(reps) THEN f[n] ELSE Append(f[n], queue[n+1])

LEMMA LeavesOutSteps ==
    ASSUME Len(queue) \in Nat, NEW reps, NEW f, LeavesOut(f, reps)
    PROVE  LeavesOutByOne(f, reps)
<1> DEFINE Value(n) == IF n = 0 THEN <<>>
                      ELSE IF queue[n] \in Range(reps) THEN f[n-1]
                      ELSE Append(f[n-1], queue[n])
           g == [n \in 0..Len(queue) |-> Value(n)]
<1>1. f = g
  BY Zenon DEF LeavesOut
<1> HIDE DEF Value
<1>2. g[0] = Value(0) /\ \A n \in Nat : n + 1 <= Len(queue) => g[n+1] = Value(n+1)
  OBVIOUS
<1> HIDE DEF g
<1>3. f[0] = Value(0) /\ \A n \in Nat : n + 1 <= Len(queue) => f[n+1] = Value(n+1)
  BY <1>1, <1>2
<1>4. \A n \in Nat : n + 1 # 0 /\ n + 1 - 1 = n
  OBVIOUS
<1> QED
  BY <1>3, <1>4 DEF Value, LeavesOutByOne

LEMMA OneMore ==
    ASSUME NEW S, NEW s \in Seq(S), NEW e \in S
    PROVE  /\ Append(s, e) \in Seq(S)
           /\ Len(Append(s, e)) = Len(s) + 1
           /\ Range(Append(s, e)) = Range(s) \cup {e}
           /\ IsInjective(s) /\ e \notin Range(s) => IsInjective(Append(s, e))
<1> DEFINE t == Append(s, e)
<1>1. /\ t \in Seq(S) /\ Len(s) \in Nat /\ Len(t) = Len(s) + 1
      /\ DOMAIN t = 1..Len(s) + 1 /\ DOMAIN s = 1..Len(s)
      /\ t[Len(s) + 1] = e
      /\ \A i \in 1..Len(s) : t[i] = s[i]
  BY AppendProperties
<1> HIDE DEF t
<1>2. \A i : i \in 1..Len(s) + 1 <=> i \in 1..Len(s) \/ i = Len(s) + 1
  BY <1>1
<1>3. Range(t) = Range(s) \cup {e}
  BY <1>1, <1>2 DEF Range
<1>4. ASSUME IsInjective(s), e \notin Range(s) PROVE IsInjective(t)
  <2>1. \A i \in 1..Len(s) : s[i] # e
    BY <1>1, <1>4 DEF Range
  <2> QED
    BY <1>1, <1>2, <1>4, <2>1 DEF IsInjective
<1> QED
  BY <1>1, <1>3, <1>4 DEF t

LEMMA OneAfterTheOther ==
    ASSUME NEW S, NEW s \in Seq(S), NEW t \in Seq(S)
    PROVE  /\ s \o t \in Seq(S)
           /\ Range(s \o t) = Range(s) \cup Range(t)
           /\ IsInjective(s) /\ IsInjective(t) /\ Range(s) \cap Range(t) = {} =>
                IsInjective(s \o t)
<1> DEFINE u == s \o t
           m == Len(s)
           n == Len(t)
<1>1. /\ u \in Seq(S) /\ m \in Nat /\ n \in Nat
      /\ DOMAIN u = 1..m + n /\ DOMAIN s = 1..m /\ DOMAIN t = 1..n
      /\ \A i \in 1..m : u[i] = s[i]
      /\ \A i \in m+1..m+n : u[i] = t[i-m]
  BY ConcatProperties, LenProperties
<1> HIDE DEF u, m, n
<1>2. /\ \A i \in 1..m + n : i \in 1..m \/ (i \in m+1..m+n /\ i - m \in 1..n)
      /\ \A i \in 1..m : i \in 1..m + n
      /\ \A i \in 1..n : i + m \in m+1..m+n /\ i + m \in 1..m+n /\ i + m - m = i
  BY <1>1
<1>3. Range(u) = Range(s) \cup Range(t)
  <2>1. ASSUME NEW i \in 1..m + n PROVE u[i] \in Range(s) \cup Range(t)
    BY <1>1, <1>2 DEF Range
  <2>2. ASSUME NEW i \in 1..m PROVE s[i] \in Range(u)
    BY <1>1, <1>2 DEF Range
  <2>3. ASSUME NEW i \in 1..n PROVE t[i] \in Range(u)
    <3>1. u[i + m] = t[i]
      BY <1>1, <1>2
    <3> QED
      BY <1>1, <1>2, <3>1 DEF Range
  <2>4. /\ Range(u) = {u[i] : i \in 1..m + n}
        /\ Range(s) = {s[i] : i \in 1..m}
        /\ Range(t) = {t[i] : i \in 1..n}
    BY <1>1 DEF Range
  <2> QED
    BY <2>1, <2>2, <2>3, <2>4
<1>4. ASSUME IsInjective(s), IsInjective(t), Range(s) \cap Range(t) = {},
             NEW i \in 1..m + n, NEW j \in 1..m + n, u[i] = u[j]
      PROVE  i = j
  <2>1. \A a \in 1..m, b \in 1..n : s[a] # t[b]
    BY <1>1, <1>4 DEF Range
  <2>2. CASE i \in 1..m /\ j \in 1..m
    BY <1>1, <1>4, <2>2 DEF IsInjective
  <2>3. CASE i \in m+1..m+n /\ j \in m+1..m+n
    <3>1. u[i] = t[i-m] /\ u[j] = t[j-m]
      BY <1>1, <2>3
    <3>2. i - m \in 1..n /\ j - m \in 1..n
      BY <1>1, <2>3
    <3>3. i - m = j - m
      BY <1>1, <1>4, <3>1, <3>2 DEF IsInjective
    <3> QED
      BY <1>1, <3>3
  <2>4. CASE i \in 1..m /\ j \in m+1..m+n
    BY <1>1, <1>2, <1>4, <2>1, <2>4
  <2>5. CASE i \in m+1..m+n /\ j \in 1..m
    BY <1>1, <1>2, <1>4, <2>1, <2>5
  <2> QED
    BY <1>2, <2>2, <2>3, <2>4, <2>5
<1> QED
  BY <1>1, <1>3, <1>4 DEF u, IsInjective

\* What Without is for.
LEMMA RestOfList ==
    ASSUME queue \in Seq(NotRoots), IsInjective(queue), NEW reps
    PROVE  /\ Without(reps) \in Seq(NotRoots)
           /\ IsInjective(Without(reps))
           /\ Range(Without(reps)) = Range(queue) \ Range(reps)
<1> DEFINE k == Len(queue)
<1>1. /\ k \in Nat /\ DOMAIN queue = 1..k
      /\ \A n \in 1..k : queue[n] \in NotRoots
  OBVIOUS
<1>2. PICK f : LeavesOut(f, reps) /\ Without(reps) = f[k]
  BY RestIsComputed
<1>3. LeavesOutByOne(f, reps)
  BY <1>1, <1>2, LeavesOutSteps
<1> HIDE DEF k
<1> DEFINE Good(n) == /\ f[n] \in Seq(NotRoots)
                      /\ IsInjective(f[n])
                      /\ Range(f[n]) = {queue[i] : i \in 1..n} \ Range(reps)
           A == {n \in Nat : n <= k => Good(n)}
<1>4. 0 \in A
  <2>1. f[0] = <<>>
    BY <1>3 DEF LeavesOutByOne
  <2>2. {queue[i] : i \in 1..0} = {}
    OBVIOUS
  <2>3. Good(0)
    BY <2>1, <2>2 DEF IsInjective, Range
  <2> QED
    BY <2>3
<1>5. ASSUME NEW n \in Nat, n \in A PROVE n + 1 \in A
  <2> SUFFICES ASSUME n + 1 <= k PROVE Good(n + 1)
    OBVIOUS
  <2> DEFINE r == queue[n+1]
  <2>1. Good(n) /\ n + 1 \in 1..k
    BY <1>1, <1>5
  <2>2. r \in NotRoots
    BY <1>1, <2>1
  <2>3. f[n+1] = IF r \in Range(reps) THEN f[n] ELSE Append(f[n], r)
    BY <1>3 DEF LeavesOutByOne, k
  <2>4. {queue[i] : i \in 1..n+1} = {queue[i] : i \in 1..n} \cup {r}
    <3>1. \A i : i \in 1..n+1 <=> i \in 1..n \/ i = n + 1
      OBVIOUS
    <3> QED
      BY <3>1
  <2>5. r \notin {queue[i] : i \in 1..n}
    BY <1>1, <2>1 DEF IsInjective
  <2> HIDE DEF r
  <2>6. CASE r \in Range(reps)
    BY <2>1, <2>3, <2>4, <2>6
  <2>7. CASE r \notin Range(reps)
    <3>1. f[n+1] = Append(f[n], r) /\ r \notin Range(f[n])
      BY <2>1, <2>3, <2>5, <2>7
    <3>2. /\ f[n+1] \in Seq(NotRoots) /\ IsInjective(f[n+1])
          /\ Range(f[n+1]) = Range(f[n]) \cup {r}
      BY <2>1, <2>2, <3>1, OneMore
    <3> QED
      BY <2>1, <2>4, <2>7, <3>2
  <2> QED
    BY <2>6, <2>7
<1>6. Nat \subseteq A
  <2> HIDE DEF A
  <2> QED
    BY <1>4, <1>5, Induction
<1>7. Good(k)
  <2>1. k \in A
    BY <1>1, <1>6
  <2> QED
    BY <2>1, <1>1
<1>8. {queue[i] : i \in 1..k} = Range(queue)
  BY <1>1 DEF Range
<1> QED
  BY <1>2, <1>7, <1>8

----------------------------------------------------------------------------
(* The cache *)

LEMMA NotRootHasKeys ==
    ASSUME NEW r \in NotRoots
    PROVE  r \in Representation /\ r.By \in Key /\ r.For \in Key
BY RepresentationAssumption DEF NotRoots, IsPlotroot

LEMMA ViewType ==
    ASSUME NEW c \in Caches, NEW ledger \in Imbalances
    PROVE  View(c, ledger) \in Imbalances
BY DEF Caches, Imbalances, View

LEMMA EmptyView ==
    ASSUME NEW ledger \in Imbalances
    PROVE  EmptyCache \in Caches /\ View(EmptyCache, ledger) = ledger
BY DEF Caches, Imbalances, View, EmptyCache

\* To the queue, applying to the cache is applying to what it sees.
LEMMA AppliedToCache ==
    ASSUME NEW c \in Caches, NEW ledger \in Imbalances, NEW r \in NotRoots,
           CanApply(View(c, ledger), r)
    PROVE  /\ ApplyCached(c, ledger, r) \in Caches
           /\ View(ApplyCached(c, ledger, r), ledger) = Apply(View(c, ledger), r)
<1> DEFINE v == View(c, ledger)
           d == ApplyCached(c, ledger, r)
           a == Apply(v, r)
<1>1. v \in [Key -> Nat] /\ r.By \in Key
  BY ViewType, NotRootHasKeys DEF Imbalances
<1>2. v[r.By] >= 1
  BY DEF CanApply, NotRoots
<1>3. \A k \in Key : a[k] \in Nat /\ (k \notin {r.By, r.For} => a[k] = v[k])
  <2> HIDE DEF v
  <2> QED
    BY <1>1, <1>2 DEF Apply
<1>4. \A k \in Key : d[k] = IF k \in {r.By, r.For} THEN a[k] ELSE c[k]
  BY DEF ApplyCached
<1>5. \A k \in Key : v[k] = IF c[k] = None THEN ledger[k] ELSE c[k]
  BY DEF View
<1>6. d \in Caches
  <2>1. \A k \in Key : c[k] \in Nat \cup {None}
    BY DEF Caches
  <2>2. \A k \in Key : d[k] \in Nat \cup {None}
    BY <1>3, <1>4, <2>1
  <2> QED
    BY <2>2 DEF Caches, ApplyCached
<1>7. \A k \in Key : (IF d[k] = None THEN ledger[k] ELSE d[k]) = a[k]
  <2>1. None \notin Nat
    BY QueueAssumption
  <2> HIDE DEF a, d, v
  <2> QED
    BY <1>3, <1>4, <1>5, <2>1
<1>8. View(d, ledger) = a
  BY <1>7 DEF View, Apply
<1> QED
  BY <1>6, <1>8

\* The keys that a cache sees can pay for a list, and have.
Funds(c, ledger, reps) ==
    /\ CanApplyAll(ledger, reps)
    /\ View(c, ledger) = Applied(ledger, reps, Len(reps))

LEMMA FundsNothing ==
    ASSUME NEW ledger \in Imbalances
    PROVE  Funds(EmptyCache, ledger, <<>>)
<1>1. Applied(ledger, <<>>, 0) = ledger
  BY AppliedCalls DEF Imbalances
<1> QED
  BY <1>1, EmptyView DEF Funds, CanApplyAll

LEMMA FundsOneMore ==
    ASSUME NEW c \in Caches, NEW ledger \in Imbalances, NEW r \in NotRoots,
           NEW reps \in Seq(NotRoots),
           Funds(c, ledger, reps), CanApply(View(c, ledger), r)
    PROVE  Funds(ApplyCached(c, ledger, r), ledger, Append(reps, r))
<1> DEFINE t == Append(reps, r)
           k == Len(reps)
<1>1. /\ k \in Nat /\ Len(t) = k + 1 /\ t[k+1] = r
      /\ DOMAIN t = 1..k+1 /\ DOMAIN reps = 1..k
      /\ \A i \in 1..k : t[i] = reps[i]
  BY OneMore
<1>2. ledger \in [Key -> Int]
  BY DEF Imbalances
<1> HIDE DEF t, k
<1>3. ASSUME NEW n \in 0..k PROVE Applied(ledger, t, n) = Applied(ledger, reps, n)
  <2>1. \A m \in 1..n : t[m] = reps[m]
    BY <1>1
  <2>2. \A q : {m \in 1..n : t[m].For = q} = {m \in 1..n : reps[m].For = q}
    BY <2>1
  <2>3. \A q : {m \in 1..n : t[m].By = q} = {m \in 1..n : reps[m].By = q}
    BY <2>1
  <2> QED
    BY <2>2, <2>3 DEF Applied, Received, Sent
<1>4. Applied(ledger, t, k + 1) = Apply(Applied(ledger, t, k), r)
  <2>1. k + 1 \in Nat \ {0} /\ (k + 1) - 1 = k
    BY <1>1
  <2>2. \A n \in Nat \ {0} : Applied(ledger, t, n) = Apply(Applied(ledger, t, n - 1), t[n])
    BY <1>2, AppliedCalls
  <2>3. Applied(ledger, t, k + 1) = Apply(Applied(ledger, t, (k + 1) - 1), t[k+1])
    BY <2>1, <2>2
  <2> QED
    BY <1>1, <2>1, <2>3
<1>5. Applied(ledger, t, k) = View(c, ledger)
  BY <1>1, <1>3 DEF Funds, k
<1>6. View(ApplyCached(c, ledger, r), ledger) = Applied(ledger, t, k + 1)
  BY <1>4, <1>5, AppliedToCache
<1>7. ASSUME NEW n \in 1..k+1 PROVE CanApply(Applied(ledger, t, n - 1), t[n])
  <2>1. CASE n = k + 1
    <3>1. n - 1 = k
      BY <1>1, <2>1
    <3> QED
      BY <1>1, <1>5, <2>1, <3>1
  <2>2. CASE n \in 1..k
    <3>1. n - 1 \in 0..k
      BY <1>1, <2>2
    <3> QED
      BY <1>1, <1>3, <2>2, <3>1 DEF Funds, CanApplyAll
  <2> QED
    BY <1>1, <2>1, <2>2
<1> QED
  BY <1>1, <1>6, <1>7 DEF Funds, CanApplyAll, t

----------------------------------------------------------------------------
(* Considering the list once more *)

States == [kept : Seq(NotRoots), cache : Caches, drifted : BOOLEAN]

Restart == [kept |-> <<>>, cache |-> EmptyCache, drifted |-> FALSE]

\* What is kept of a list is fit for the next plot.
Fit(s, height, ledger) ==
    /\ \A r \in Range(s.kept) : IsEligible(r, height)
    /\ ~s.drifted => Funds(s.cache, ledger, s.kept)

LEMMA RestartIsFit ==
    ASSUME NEW height, NEW ledger \in Imbalances
    PROVE  Restart \in States /\ Fit(Restart, height, ledger)
<1>1. Range(<<>>) = {}
  BY DEF Range
<1> QED
  BY <1>1, EmptyView, FundsNothing DEF Restart, States, Fit

LEMMA ReconsiderStep ==
    ASSUME NEW s \in States, NEW r \in NotRoots, NEW height, NEW ledger \in Imbalances
    PROVE  LET t == Reconsider(s, r, height, ledger)
           IN  /\ t \in States
               /\ t.kept = s.kept \/ t.kept = Append(s.kept, r)
               /\ Fit(s, height, ledger) => Fit(t, height, ledger)
<1> DEFINE t == Reconsider(s, r, height, ledger)
<1>1. CASE ~(IsEligible(r, height) /\ CanApply(View(s.cache, ledger), r))
  BY <1>1 DEF Reconsider
<1>2. CASE IsEligible(r, height) /\ CanApply(View(s.cache, ledger), r)
  <2>1. s.kept \in Seq(NotRoots) /\ s.cache \in Caches /\ s.drifted \in BOOLEAN
    BY DEF States
  <2> DEFINE c == ApplyCached(s.cache, ledger, r)
  <2>2. c \in Caches
    BY <1>2, <2>1, AppliedToCache
  <2>3. Append(s.kept, r) \in Seq(NotRoots) /\ Range(Append(s.kept, r)) = Range(s.kept) \cup {r}
    BY <2>1, OneMore
  <2> HIDE DEF c
  <2>4. CASE ClosesCycle(r)
    <3>1. t = [kept |-> s.kept, cache |-> c, drifted |-> TRUE]
      BY <1>2, <2>1, <2>4 DEF Reconsider, c
    <3> HIDE DEF t
    <3> QED
      BY <2>1, <2>2, <3>1 DEF States, Fit, t
  <2>5. CASE ~ClosesCycle(r)
    <3>1. t = [kept |-> Append(s.kept, r), cache |-> c, drifted |-> s.drifted]
      <4>1. (s.drifted \/ ClosesCycle(r)) = s.drifted
        BY <2>1, <2>5
      <4> QED
        BY <1>2, <2>5, <4>1 DEF Reconsider, c
    <3>2. ~s.drifted /\ Fit(s, height, ledger) => Funds(c, ledger, Append(s.kept, r))
      BY <1>2, <2>1, FundsOneMore DEF Fit, c
    <3> HIDE DEF t
    <3>3. t \in States /\ t.kept = Append(s.kept, r)
      BY <2>1, <2>2, <2>3, <3>1 DEF States
    <3>4. Fit(s, height, ledger) => Fit(t, height, ledger)
      BY <1>2, <2>3, <3>1, <3>2 DEF Fit
    <3> QED
      BY <3>3, <3>4 DEF t
  <2> QED
    BY <2>4, <2>5
<1> QED
  BY <1>1, <1>2

Redoes(f, reps, height, ledger) ==
    f = [n \in 0..Len(reps) |->
           IF n = 0 THEN [kept |-> <<>>, cache |-> EmptyCache, drifted |-> FALSE]
           ELSE Reconsider(f[n-1], reps[n], height + 1, ledger)]

LEMMA ReprocessedIsComputed ==
    ASSUME NEW reps \in Seq(NotRoots), NEW height \in Int, NEW ledger \in Imbalances
    PROVE  \E f : Redoes(f, reps, height, ledger) /\ Reprocessed(reps, height, ledger) = f[Len(reps)]
<1> DEFINE k == Len(reps)
           step == [c \in (1..k) \X States |-> Reconsider(c[2], reps[c[1]], height + 1, ledger)]
<1>1. k \in Nat /\ \A n \in 1..k : reps[n] \in NotRoots
  OBVIOUS
<1>2. Restart \in States
  BY RestartIsFit
<1>3. IsStep(step, States, k)
  <2>1. ASSUME NEW n \in 1..k, NEW s \in States PROVE step[<<n, s>>] \in States
    <3>1. reps[n] \in NotRoots
      BY <1>1
    <3>2. Reconsider(s, reps[n], height + 1, ledger) \in States
      BY <3>1, ReconsiderStep
    <3>3. step[<<n, s>>] = Reconsider(s, reps[n], height + 1, ledger)
      OBVIOUS
    <3> QED
      BY <3>2, <3>3
  <2> HIDE DEF step
  <2> QED
    BY <2>1 DEF IsStep
<1>4. \A n \in 1..k, s \in States :
        step[<<n, s>>] = Reconsider(s, reps[n], height + 1, ledger)
  OBVIOUS
<1> HIDE DEF k, step
<1>5. PICK f : f \in [0..k -> States] /\ Recursive(f, Restart, step, k)
  BY Zenon, <1>1, <1>2, <1>3, RecursionExists
<1> DEFINE g == [n \in 0..k |->
                   IF n = 0 THEN [kept |-> <<>>, cache |-> EmptyCache, drifted |-> FALSE]
                   ELSE Reconsider(f[n-1], reps[n], height + 1, ledger)]
<1>6. ASSUME NEW n \in 0..k PROVE f[n] = g[n]
  <2>1. CASE n = 0
    BY <1>5, <2>1 DEF Restart, Recursive
  <2>2. CASE n # 0
    <3>1. n \in 1..k /\ n - 1 \in 0..k
      BY <1>1, <2>2
    <3>2. f[n-1] \in States /\ f[n] = step[<<n, f[n-1]>>]
      BY <1>5, <3>1 DEF Recursive
    <3> QED
      BY <1>4, <2>2, <3>1, <3>2
  <2> QED
    BY <2>1, <2>2
<1>7. f = g
  BY <1>5, <1>6
<1>8. Redoes(f, reps, height, ledger)
  BY <1>7 DEF Redoes, k
<1> DEFINE h == CHOOSE h : Redoes(h, reps, height, ledger)
<1>9. Redoes(h, reps, height, ledger)
  BY <1>8
<1>10. Reprocessed(reps, height, ledger) = h[Len(reps)]
  BY Zenon DEF Reprocessed, Redoes
<1> HIDE DEF h
<1> QED
  BY <1>9, <1>10

RedoesByOne(f, reps, height, ledger) ==
    /\ f[0] = Restart
    /\ \A n \in Nat : n + 1 <= Len(reps) =>
         f[n+1] = Reconsider(f[n], reps[n+1], height + 1, ledger)

LEMMA RedoesSteps ==
    ASSUME NEW reps, Len(reps) \in Nat, NEW height, NEW ledger, NEW f,
           Redoes(f, reps, height, ledger)
    PROVE  RedoesByOne(f, reps, height, ledger)
<1> DEFINE Value(n) == IF n = 0 THEN [kept |-> <<>>, cache |-> EmptyCache, drifted |-> FALSE]
                      ELSE Reconsider(f[n-1], reps[n], height + 1, ledger)
           g == [n \in 0..Len(reps) |-> Value(n)]
<1>1. f = g
  BY Zenon DEF Redoes
<1> HIDE DEF Value
<1>2. g[0] = Value(0) /\ \A n \in Nat : n + 1 <= Len(reps) => g[n+1] = Value(n+1)
  OBVIOUS
<1> HIDE DEF g
<1>3. f[0] = Value(0) /\ \A n \in Nat : n + 1 <= Len(reps) => f[n+1] = Value(n+1)
  BY <1>1, <1>2
<1>4. \A n \in Nat : n + 1 # 0 /\ n + 1 - 1 = n
  OBVIOUS
<1> QED
  BY <1>3, <1>4 DEF Value, RedoesByOne, Restart

\* What reprocessQueue leaves of a list.
LEMMA ReprocessedList ==
    ASSUME NEW reps \in Seq(NotRoots), IsInjective(reps),
           NEW height \in Int, NEW ledger \in Imbalances
    PROVE  LET done == Reprocessed(reps, height, ledger)
           IN  /\ done \in States
               /\ IsInjective(done.kept)
               /\ Range(done.kept) \subseteq Range(reps)
               /\ Fit(done, height + 1, ledger)
<1> DEFINE k == Len(reps)
<1>1. /\ k \in Nat /\ DOMAIN reps = 1..k
      /\ \A n \in 1..k : reps[n] \in NotRoots
  OBVIOUS
<1>2. PICK f : Redoes(f, reps, height, ledger) /\ Reprocessed(reps, height, ledger) = f[k]
  BY ReprocessedIsComputed
<1>3. RedoesByOne(f, reps, height, ledger)
  BY <1>1, <1>2, RedoesSteps
<1> HIDE DEF k
<1> DEFINE Good(n) == /\ f[n] \in States
                      /\ IsInjective(f[n].kept)
                      /\ Range(f[n].kept) \subseteq {reps[i] : i \in 1..n}
                      /\ Fit(f[n], height + 1, ledger)
           A == {n \in Nat : n <= k => Good(n)}
<1>4. 0 \in A
  <2>1. f[0] = Restart
    BY <1>3 DEF RedoesByOne
  <2>2. Restart.kept = <<>> /\ IsInjective(<<>>) /\ Range(<<>>) = {}
    BY DEF Restart, IsInjective, Range
  <2>3. Good(0)
    BY <2>1, <2>2, RestartIsFit
  <2> QED
    BY <2>3
<1>5. ASSUME NEW n \in Nat, n \in A PROVE n + 1 \in A
  <2> SUFFICES ASSUME n + 1 <= k PROVE Good(n + 1)
    OBVIOUS
  <2> DEFINE r == reps[n+1]
  <2>1. Good(n) /\ n + 1 \in 1..k
    BY <1>1, <1>5
  <2>2. r \in NotRoots
    BY <1>1, <2>1
  <2>3. f[n+1] = Reconsider(f[n], r, height + 1, ledger)
    BY <1>3 DEF RedoesByOne, k
  <2>4. {reps[i] : i \in 1..n+1} = {reps[i] : i \in 1..n} \cup {r}
    <3>1. \A i : i \in 1..n+1 <=> i \in 1..n \/ i = n + 1
      OBVIOUS
    <3> QED
      BY <3>1
  <2>5. r \notin {reps[i] : i \in 1..n}
    BY <1>1, <2>1 DEF IsInjective
  <2> HIDE DEF r
  <2>6. /\ f[n+1] \in States
        /\ f[n+1].kept = f[n].kept \/ f[n+1].kept = Append(f[n].kept, r)
        /\ Fit(f[n+1], height + 1, ledger)
    BY <2>1, <2>2, <2>3, ReconsiderStep
  <2>7. CASE f[n+1].kept = f[n].kept
    BY <2>1, <2>4, <2>6, <2>7
  <2>8. CASE f[n+1].kept = Append(f[n].kept, r)
    <3>1. f[n].kept \in Seq(NotRoots) /\ r \notin Range(f[n].kept)
      BY <2>1, <2>5 DEF States
    <3>2. IsInjective(f[n+1].kept) /\ Range(f[n+1].kept) = Range(f[n].kept) \cup {r}
      BY <2>1, <2>2, <2>8, <3>1, OneMore
    <3> QED
      BY <2>1, <2>4, <2>6, <3>2
  <2> QED
    BY <2>6, <2>7, <2>8
<1>6. Nat \subseteq A
  <2> HIDE DEF A
  <2> QED
    BY <1>4, <1>5, Induction
<1>7. Good(k)
  <2>1. k \in A
    BY <1>1, <1>6
  <2> QED
    BY <2>1, <1>1
<1>8. {reps[i] : i \in 1..k} = Range(reps)
  BY <1>1 DEF Range
<1> QED
  BY <1>2, <1>7, <1>8

\* One representation spends one unit of its sender's, and is kept if it may.
LEMMA ReconsiderSpends ==
    ASSUME NEW s \in States, NEW r \in NotRoots, NEW height, NEW ledger \in Imbalances
    PROVE  LET t == Reconsider(s, r, height, ledger)
           IN  /\ \A k \in Key : View(t.cache, ledger)[k] >=
                                   View(s.cache, ledger)[k] - (IF r.By = k THEN 1 ELSE 0)
               /\ Range(s.kept) \subseteq Range(t.kept)
               /\ \/ r \in Range(t.kept)
                  \/ ~IsEligible(r, height)
                  \/ ClosesCycle(r)
                  \/ View(s.cache, ledger)[r.By] = 0
<1> DEFINE t == Reconsider(s, r, height, ledger)
           v == View(s.cache, ledger)
<1>1. s.kept \in Seq(NotRoots) /\ s.cache \in Caches /\ r.By \in Key
  BY NotRootHasKeys DEF States
<1>2. v \in [Key -> Nat]
  BY <1>1, ViewType DEF Imbalances
<1>3. CASE ~(IsEligible(r, height) /\ CanApply(v, r))
  <2>1. t = s
    BY <1>3 DEF Reconsider
  <2>2. ~CanApply(v, r) => v[r.By] = 0
    <3> HIDE DEF v
    <3> QED
      BY <1>1, <1>2 DEF CanApply
  <2>3. \A k \in Key : v[k] >= v[k] - (IF r.By = k THEN 1 ELSE 0)
    <3> HIDE DEF v
    <3> QED
      BY <1>2
  <2> HIDE DEF t
  <2>4. View(t.cache, ledger) = v /\ t.kept = s.kept
    BY <2>1
  <2> QED
    BY <1>3, <2>2, <2>3, <2>4 DEF t
<1>4. CASE IsEligible(r, height) /\ CanApply(v, r)
  <2>1. t.cache = ApplyCached(s.cache, ledger, r)
    BY <1>4 DEF Reconsider
  <2>2. View(t.cache, ledger) = Apply(v, r)
    BY <1>1, <1>4, <2>1, AppliedToCache
  <2>3. t.kept = IF ClosesCycle(r) THEN s.kept ELSE Append(s.kept, r)
    BY <1>4 DEF Reconsider
  <2>4. Range(Append(s.kept, r)) = Range(s.kept) \cup {r}
    BY <1>1, OneMore
  <2> HIDE DEF t, v
  <2>5. \A k \in Key : Apply(v, r)[k] >= v[k] - (IF r.By = k THEN 1 ELSE 0)
    BY <1>2 DEF Apply
  <2> QED
    BY <2>2, <2>3, <2>4, <2>5 DEF t, v
<1> QED
  BY <1>3, <1>4

\* Why reprocessQueue leaves out what it leaves out.
LEMMA ReprocessedDrops ==
    ASSUME NEW reps \in Seq(NotRoots), NEW height \in Int, NEW ledger \in Imbalances,
           NEW i \in 1..Len(reps)
    PROVE  \/ reps[i] \in Range(Reprocessed(reps, height, ledger).kept)
           \/ ~IsEligible(reps[i], height + 1)
           \/ ClosesCycle(reps[i])
           \/ ledger[reps[i].By] <= Sent(reps, reps[i].By, 1, i - 1)
<1> DEFINE k == Len(reps)
           Refused(j) == \/ ~IsEligible(reps[j], height + 1)
                         \/ ClosesCycle(reps[j])
                         \/ ledger[reps[j].By] <= Sent(reps, reps[j].By, 1, j - 1)
<1>1. /\ k \in Nat /\ DOMAIN reps = 1..k
      /\ \A n \in 1..k : reps[n] \in NotRoots
  OBVIOUS
<1>2. PICK f : Redoes(f, reps, height, ledger) /\ Reprocessed(reps, height, ledger) = f[k]
  BY ReprocessedIsComputed
<1>3. RedoesByOne(f, reps, height, ledger)
  BY <1>1, <1>2, RedoesSteps
<1> HIDE DEF k, Refused
<1> DEFINE Good(n) ==
             /\ f[n] \in States
             /\ \A q \in Key : View(f[n].cache, ledger)[q] >= ledger[q] - Sent(reps, q, 1, n)
             /\ \A j \in 1..n : reps[j] \in Range(f[n].kept) \/ Refused(j)
           A == {n \in Nat : n <= k => Good(n)}
<1>4. 0 \in A
  <2>1. f[0] = Restart
    BY <1>3 DEF RedoesByOne
  <2>2. View(Restart.cache, ledger) = ledger
    BY EmptyView DEF Restart
  <2>3. \A q \in Key : ledger[q] >= ledger[q] - Sent(reps, q, 1, 0)
    <3>1. \A q : Sent(reps, q, 1, 0) = 0
      BY CountsOfCalls
    <3> QED
      BY <3>1 DEF Imbalances
  <2>4. Restart \in States
    BY RestartIsFit
  <2>5. Good(0)
    BY <2>1, <2>2, <2>3, <2>4
  <2> QED
    BY <2>5
<1>5. ASSUME NEW n \in Nat, n \in A PROVE n + 1 \in A
  <2> SUFFICES ASSUME n + 1 <= k PROVE Good(n + 1)
    OBVIOUS
  <2> DEFINE r == reps[n+1]
             v == View(f[n].cache, ledger)
             w == View(f[n+1].cache, ledger)
  <2>1. Good(n) /\ n + 1 \in 1..k
    BY <1>1, <1>5
  <2>2. r \in NotRoots /\ r.By \in Key
    BY <1>1, <2>1, NotRootHasKeys
  <2>3. f[n+1] = Reconsider(f[n], r, height + 1, ledger)
    BY <1>3 DEF RedoesByOne, k
  <2>4. f[n+1] \in States
    BY <2>1, <2>2, <2>3, ReconsiderStep
  <2>5. v \in Imbalances /\ w \in Imbalances
    BY <2>1, <2>4, ViewType DEF States
  <2> HIDE DEF r
  <2>6. /\ \A q \in Key : w[q] >= v[q] - (IF r.By = q THEN 1 ELSE 0)
        /\ Range(f[n].kept) \subseteq Range(f[n+1].kept)
        /\ r \in Range(f[n+1].kept) \/ ~IsEligible(r, height + 1) \/ ClosesCycle(r) \/ v[r.By] = 0
    BY <2>1, <2>2, <2>3, ReconsiderSpends
  <2>7. \A q : /\ Sent(reps, q, 1, n) \in Nat
               /\ Sent(reps, q, 1, n + 1) = Sent(reps, q, 1, n) + (IF r.By = q THEN 1 ELSE 0)
    <3> SUFFICES ASSUME NEW q
                 PROVE  /\ Sent(reps, q, 1, n) \in Nat
                        /\ Sent(reps, q, 1, n + 1) =
                             Sent(reps, q, 1, n) + (IF r.By = q THEN 1 ELSE 0)
      OBVIOUS
    <3> DEFINE j == n + 1
    <3>1. j \in Int /\ n \in Int /\ 1 <= j /\ j - 1 = n
      OBVIOUS
    <3> HIDE DEF j
    <3>2. Sent(reps, q, 1, n) \in Nat
      BY CountsOfCalls
    <3>3. Sent(reps, q, 1, j) = Sent(reps, q, 1, j - 1) + (IF reps[j].By = q THEN 1 ELSE 0)
      BY <3>1, CountsOfCalls
    <3> QED
      BY <3>1, <3>2, <3>3 DEF j, r
  <2>8. \A q \in Key : v[q] >= ledger[q] - Sent(reps, q, 1, n)
    BY <2>1
  <2> HIDE DEF v, w
  <2>9. ASSUME NEW q \in Key PROVE w[q] >= ledger[q] - Sent(reps, q, 1, n + 1)
    <3> DEFINE one == IF r.By = q THEN 1 ELSE 0
               before == Sent(reps, q, 1, n)
    <3>1. w[q] \in Nat /\ v[q] \in Nat /\ ledger[q] \in Nat /\ one \in Nat
      BY <2>5 DEF Imbalances
    <3>2. before \in Nat /\ Sent(reps, q, 1, n + 1) = before + one
      BY <2>7
    <3>3. w[q] >= v[q] - one /\ v[q] >= ledger[q] - before
      BY <2>6, <2>8
    <3> HIDE DEF one, before
    <3> QED
      BY <3>1, <3>2, <3>3
  <2>10. ASSUME NEW j \in 1..n+1 PROVE reps[j] \in Range(f[n+1].kept) \/ Refused(j)
    <3>1. CASE j \in 1..n
      BY <2>1, <2>6, <3>1
    <3>2. CASE j = n + 1
      <4>1. j - 1 = n /\ reps[j] = r
        BY <3>2 DEF r
      <4>2. v[r.By] = 0 => ledger[r.By] <= Sent(reps, r.By, 1, n)
        BY <2>2, <2>5, <2>7, <2>8 DEF Imbalances
      <4> QED
        BY <2>6, <4>1, <4>2 DEF Refused
    <3> QED
      BY <3>1, <3>2
  <2> QED
    BY <2>4, <2>9, <2>10 DEF w
<1>6. Nat \subseteq A
  <2> HIDE DEF A
  <2> QED
    BY <1>4, <1>5, Induction
<1>7. Good(k)
  <2>1. k \in A
    BY <1>1, <1>6
  <2> QED
    BY <2>1, <1>1
<1>8. reps[i] \in Range(f[k].kept) \/ Refused(i)
  BY <1>7 DEF k
<1> QED
  BY <1>2, <1>8 DEF Refused

----------------------------------------------------------------------------
(* The thread and the queue *)

\* A plot's representations but its plotroot.
LEMMA TailOfPlot ==
    ASSUME NEW p \in Plot, Checked(p)
    PROVE  LET reps == Tail(Representations[p])
           IN  /\ reps \in Seq(NotRoots)
               /\ IsInjective(reps)
               /\ Range(reps) = {r \in RepresentationsOf(p) : ~IsPlotroot(r)}
<1> DEFINE all == Representations[p]
           reps == Tail(all)
           k == Len(all)
<1>1. /\ all \in Seq(Representation) /\ k \in Nat /\ k >= 1
      /\ \A i \in DOMAIN all : IsPlotroot(all[i]) <=> i = 1
      /\ IsInjective(all)
  <2>1. CheckPlotContents(p) /\ all \in Seq(Representation)
    BY TreeAssumption DEF Checked
  <2> QED
    BY <2>1 DEF CheckPlotContents
<1> HIDE DEF all
<1>2. /\ DOMAIN all = 1..k
      /\ reps \in Seq(Representation) /\ Len(reps) = k - 1
      /\ \A i \in 1..k-1 : reps[i] = all[i+1]
  <2>1. all # <<>>
    BY <1>1
  <2> QED
    BY <1>1, <2>1, HeadTailProperties
<1> HIDE DEF reps, k
<1>3. /\ DOMAIN reps = 1..k-1
      /\ \A i \in 1..k-1 : i + 1 \in 1..k /\ i + 1 # 1
      /\ \A i \in 1..k : i # 1 => i - 1 \in 1..k-1 /\ i - 1 + 1 = i
  BY <1>1, <1>2
<1>4. \A i \in 1..k-1 : reps[i] \in NotRoots
  BY <1>1, <1>2, <1>3 DEF NotRoots
<1>5. reps \in Seq(NotRoots)
  <2>1. reps \in [1..k-1 -> Representation] /\ k - 1 \in Nat
    BY <1>1, <1>2, LenProperties
  <2>2. reps \in [1..k-1 -> NotRoots]
    BY <1>4, <2>1
  <2> QED
    BY <2>1, <2>2, SeqDef
<1>6. IsInjective(reps)
  <2> SUFFICES ASSUME NEW i \in 1..k-1, NEW j \in 1..k-1, reps[i] = reps[j] PROVE i = j
    BY <1>3 DEF IsInjective
  <2>1. i + 1 = j + 1
    BY <1>1, <1>2, <1>3 DEF IsInjective
  <2> QED
    BY <2>1
<1>7. Range(reps) = {r \in Range(all) : ~IsPlotroot(r)}
  <2>1. ASSUME NEW i \in 1..k-1 PROVE reps[i] \in Range(all) /\ ~IsPlotroot(reps[i])
    <3>1. reps[i] = all[i+1] /\ i + 1 \in DOMAIN all /\ i + 1 # 1
      BY <1>2, <1>3
    <3>2. ~IsPlotroot(all[i+1])
      BY <1>1, <3>1
    <3> QED
      BY <3>1, <3>2 DEF Range
  <2>2. ASSUME NEW i \in 1..k, ~IsPlotroot(all[i]) PROVE all[i] \in Range(reps)
    <3>1. i # 1
      BY <1>1, <1>2, <2>2
    <3>2. all[i] = reps[i-1]
      BY <1>2, <1>3, <3>1
    <3> QED
      BY <1>3, <3>1, <3>2 DEF Range
  <2> QED
    BY <1>2, <1>3, <2>1, <2>2 DEF Range
<1> QED
  BY <1>5, <1>6, <1>7 DEF reps, all, RepresentationsOf

LEMMA ConfirmedShrinks ==
    ASSUME Node, Disconnect
    PROVE  /\ Checked(tip)
           /\ Confirmed' \subseteq Confirmed
           /\ Confirmed' \cap RepresentationsOf(tip) = {}
<1>1. Careful /\ NoDoubleConfirmation
  BY DEF Node, LedgerIsSound, Indexed
<1>2. /\ tip \in Known /\ tip \in Plot
      /\ tipHeight \in Nat \ {0} /\ tipHeight' = tipHeight - 1
      /\ heightIndex[tipHeight] = tip
      /\ \A h \in 0..tipHeight - 1 : heightIndex'[h] = heightIndex[h]
  BY NodeIsLocated, DisconnectShrinks DEF Shrinks
<1>3. Checked(tip)
  BY <1>1, <1>2 DEF Careful, LedgerIsKnown, Vetted, Known
<1>4. ASSUME NEW r \in Confirmed'
      PROVE  r \in Confirmed /\ r \notin RepresentationsOf(tip)
  <2>1. PICK h \in 0..tipHeight - 1 : r \in RepresentationsOf(heightIndex[h])
    BY <1>2, <1>4 DEF Confirmed
  <2>2. h \in 0..tipHeight /\ tipHeight \in 0..tipHeight /\ h # tipHeight
    BY <1>2
  <2> QED
    BY <1>1, <1>2, <2>1, <2>2 DEF Confirmed, NoDoubleConfirmation
<1> QED
  BY <1>3, <1>4

LEMMA ConfirmedGrows ==
    ASSUME Node, Connect
    PROVE  /\ NextToConnect \in Plot /\ Checked(NextToConnect)
           /\ Confirmed' \subseteq Confirmed \cup RepresentationsOf(NextToConnect)
           /\ tipHeight' = Height[NextToConnect]
<1> DEFINE p == NextToConnect
<1>1. Careful /\ Located
  BY NodeIsLocated
<1>2. ConnectPlot(p) /\ phase = "adjust"
  BY DEF Connect
<1>3. p \in Plot /\ Checked(p)
  BY <1>1, <1>2, NextIsOneOfThem DEF Careful, WorkIsVetted
<1>4. /\ tipHeight \in Int /\ tipHeight >= -1 /\ tipHeight' = tipHeight + 1
      /\ heightIndex'[tipHeight + 1] = p
      /\ \A h \in 0..tipHeight : heightIndex'[h] = heightIndex[h]
  BY <1>1, ConnectGrows DEF Grows
<1>5. tipHeight' = Height[p]
  BY <1>2 DEF ConnectPlot
<1> HIDE DEF p
<1>6. ASSUME NEW r \in Confirmed' PROVE r \in Confirmed \cup RepresentationsOf(p)
  <2>1. PICK h \in 0..tipHeight + 1 : r \in RepresentationsOf(heightIndex'[h])
    BY <1>4, <1>6 DEF Confirmed, RepresentationsOf
  <2>2. CASE h = tipHeight + 1
    BY <1>4, <2>1, <2>2
  <2>3. CASE h \in 0..tipHeight
    BY <1>4, <2>1, <2>3 DEF Confirmed
  <2> QED
    BY <1>4, <2>2, <2>3
<1> QED
  BY <1>3, <1>5, <1>6 DEF p

\* What the index does not know and what is eligible is not on the thread, not
\* even at a height that has been pruned.
LEMMA AdmittedIsNew ==
    ASSUME Node, NEW r \in NotRoots, repIndex[r] = None, IsEligible(r, tipHeight + 1)
    PROVE  r \notin Confirmed
<1>1. Indexed /\ Located
  BY DEF Node, LedgerIsSound, Indexed
<1> SUFFICES ASSUME NEW h \in 0..tipHeight, r \in RepresentationsOf(heightIndex[h])
             PROVE  FALSE
  BY DEF Confirmed
<1>2. /\ heightIndex[h] \in Plot
      /\ Checked(heightIndex[h])
      /\ Height[heightIndex[h]] = h
  BY <1>1, OnThreadAreChecked
<1>3. tipHeight \in Int /\ PLOTS_UNTIL_NEW_SERIES \in Nat /\ h \in Nat
  BY <1>1, ParametersAssumption DEF Located, ThreadTypeOK
<1>4. CASE h \in RetainedHeights
  <2>1. PICK i \in DOMAIN Representations[heightIndex[h]] :
          Representations[heightIndex[h]][i] = r
    BY DEF RepresentationsOf, Range
  <2>2. repIndex[r] = <<h, i>>
    BY <1>1, <1>4, <2>1 DEF Indexed, RepIndexIsExact
  <2>3. h \in 0..MAX_NUMBER /\ i \in Nat
    BY <1>1, <1>2, <2>1, OwnList, ParametersAssumption DEF Located, ThreadTypeOK
  <2> QED
    BY <2>2, <2>3, LedgerAssumption
<1>5. CASE h \notin RetainedHeights
  <2>1. h + 2 * PLOTS_UNTIL_NEW_SERIES <= tipHeight + 1 /\ tipHeight + 1 \in Nat
    BY <1>3, <1>5 DEF RetainedHeights
  <2>2. SeriesAt(h) < SeriesAt(tipHeight + 1) - 1
    BY <1>3, <2>1, SeriesMovesOn
  <2>3. SeriesAt(h) \in Int /\ r.Series \in Int /\ r.Series <= SeriesAt(h)
    BY <1>2, SeriesOfChecked
  <2>4. SeriesAt(tipHeight + 1) \in Int
    BY <2>1, ParametersAssumption DEF SeriesAt
  <2>5. r.Series >= SeriesAt(tipHeight + 1) - 1
    BY <2>3, <2>4 DEF IsEligible, CheckRepresentationSeries, NotRoots
  <2> QED
    BY <2>2, <2>3, <2>4, <2>5
<1> QED
  BY <1>4, <1>5

----------------------------------------------------------------------------
(* The invariant *)

\* Not only between two requests.
NothingTwice == Range(queue) \cap Confirmed = {}

\* Nothing is admitted before the genesis plot.
BeginsEmpty == tip = None => queue = <<>> /\ cache = EmptyCache

\* What the queue holds is meant for the plot after the tip.
Ready ==
    ~disturbed /\ (phase = "idle" \/ tip = oldTip) =>
      /\ \A r \in Range(queue) : IsEligible(r, tipHeight + 1)
      /\ ~drifted => Funds(cache, imbalance, queue)

Queued == QueueTypeOK /\ NothingTwice /\ BeginsEmpty /\ Ready

LEMMA QueueTypes ==
    QueueTypeOK <=> /\ queue \in Seq(NotRoots)
                    /\ IsInjective(queue)
                    /\ cache \in Caches
                    /\ drifted \in BOOLEAN
BY DEF QueueTypeOK, NotRoots, Caches

LEMMA NothingQueued ==
    ASSUME queue = <<>>, cache = EmptyCache, drifted = FALSE, imbalance \in Imbalances
    PROVE  Queued
<1>1. Range(queue) = {} /\ IsInjective(queue) /\ queue \in Seq(NotRoots)
  BY DEF Range, IsInjective
<1>2. cache \in Caches /\ Funds(cache, imbalance, queue)
  BY EmptyView, FundsNothing
<1> QED
  BY <1>1, <1>2, QueueTypes DEF Queued, NothingTwice, BeginsEmpty, Ready

NoDebts == imbalance \in Imbalances

LEMMA NodeHasImbalances == Node => NoDebts
BY FundedTypes DEF Node, LedgerIsSound, Imbalances, NoDebts

LEMMA NodeKeepsImbalances == Node' => NoDebts'
BY NodeHasImbalances, PTL

LEMMA QueuedInit == QInit => Queued
<1> SUFFICES ASSUME QInit PROVE Queued
  OBVIOUS
<1>1. imbalance \in Imbalances
  BY NodeInit, NodeHasImbalances DEF QInit, NoDebts
<1> QED
  BY <1>1, NothingQueued DEF QInit, QueueInit

LEMMA QueuedAdmit ==
    ASSUME Node, Queued, NEW r \in Representation, ProcessRepresentation(r)
    PROVE  Queued'
<1>1. /\ r \in NotRoots /\ phase = "idle" /\ repIndex[r] = None /\ tip # None
      /\ IsEligible(r, tipHeight + 1)
      /\ r \notin Range(queue)
      /\ CanApply(View(cache, imbalance), r)
      /\ cache' = ApplyCached(cache, imbalance, r)
      /\ queue' = IF ClosesCycle(r) THEN queue ELSE Append(queue, r)
      /\ drifted' = (drifted \/ ClosesCycle(r))
      /\ UNCHANGED vars
  BY DEF ProcessRepresentation, Add, NotRoots
<1>2. UNCHANGED <<tip, tipHeight, heightIndex, imbalance, phase, oldTip, disturbed>>
  BY <1>1 DEF vars, ledgerVars, workVars, pastVars
<1>3. /\ queue \in Seq(NotRoots) /\ IsInjective(queue) /\ cache \in Caches /\ drifted \in BOOLEAN
      /\ imbalance \in Imbalances
  BY QueueTypes, NodeHasImbalances DEF Queued, NoDebts
<1>4. cache' \in Caches
  BY <1>1, <1>3, AppliedToCache
<1>5. r \notin Confirmed /\ Confirmed' = Confirmed
  BY <1>1, <1>2, AdmittedIsNew DEF Confirmed
<1>6. CASE ClosesCycle(r)
  <2>1. queue' = queue /\ drifted'
    BY <1>1, <1>6
  <2>2. QueueTypeOK'
    BY <1>3, <1>4, <2>1, QueueTypes DEF QueueTypeOK, Caches, NotRoots
  <2> QED
    BY <1>1, <1>2, <1>5, <2>1, <2>2 DEF Queued, NothingTwice, BeginsEmpty, Ready
<1>7. CASE ~ClosesCycle(r)
  <2>1. queue' = Append(queue, r) /\ drifted' = drifted
    BY <1>1, <1>3, <1>7
  <2>2. /\ queue' \in Seq(NotRoots)
        /\ Range(queue') = Range(queue) \cup {r}
        /\ IsInjective(queue')
    BY <1>1, <1>3, <2>1, OneMore
  <2>3. QueueTypeOK'
    BY <1>3, <1>4, <2>1, <2>2 DEF QueueTypeOK, Caches, NotRoots
  <2>4. NothingTwice'
    BY <1>5, <2>2 DEF Queued, NothingTwice, Range
  <2>5. ASSUME ~disturbed', ~drifted' PROVE Funds(cache', imbalance', queue')
    <3>1. Funds(cache, imbalance, queue)
      BY <1>1, <1>2, <2>1, <2>5 DEF Queued, Ready
    <3> QED
      BY <1>1, <1>2, <1>3, <2>1, <3>1, FundsOneMore
  <2>6. Ready'
    <3>1. ASSUME ~disturbed', NEW q \in Range(queue') PROVE IsEligible(q, tipHeight' + 1)
      BY <1>1, <1>2, <2>2, <3>1 DEF Queued, Ready
    <3> QED
      BY <2>5, <3>1 DEF Ready, Range, Funds
  <2> QED
    BY <1>1, <1>2, <2>3, <2>4, <2>6 DEF Queued, BeginsEmpty
<1> QED
  BY <1>6, <1>7

LEMMA QueuedDisconnect ==
    ASSUME Node, Queued, Disconnect, AddBatch(NextToDisconnect)
    PROVE  Queued'
<1> DEFINE p == NextToDisconnect
           reps == Tail(Representations[p])
           rest == Without(reps)
<1>1. /\ p = tip /\ tip \in Plot /\ tip \in Known /\ tip # Genesis /\ tip' = Previous[tip]
      /\ phase' = "adjust" /\ oldTip' = oldTip /\ disturbed' = disturbed
  BY NodeIsLocated, DisconnectShrinks
<1>2. /\ Checked(p)
      /\ Confirmed' \subseteq Confirmed /\ Confirmed' \cap RepresentationsOf(p) = {}
  BY <1>1, ConfirmedShrinks
<1>3. /\ reps \in Seq(NotRoots) /\ IsInjective(reps)
      /\ Range(reps) = {r \in RepresentationsOf(p) : ~IsPlotroot(r)}
  BY <1>1, <1>2, TailOfPlot
<1>4. /\ queue \in Seq(NotRoots) /\ IsInjective(queue) /\ cache \in Caches /\ drifted \in BOOLEAN
  BY QueueTypes DEF Queued
<1>5. queue' = reps \o rest /\ cache' = cache /\ drifted' = drifted
  BY DEF AddBatch
<1> HIDE DEF p, reps
<1>6. rest \in Seq(NotRoots) /\ IsInjective(rest) /\ Range(rest) = Range(queue) \ Range(reps)
  BY <1>4, RestOfList
<1> HIDE DEF rest
<1>7. /\ queue' \in Seq(NotRoots) /\ IsInjective(queue')
      /\ Range(queue') = Range(reps) \cup Range(rest)
  BY <1>3, <1>5, <1>6, OneAfterTheOther
<1>8. QueueTypeOK'
  BY <1>4, <1>5, <1>7 DEF QueueTypeOK, Caches, NotRoots
<1>9. NothingTwice'
  BY <1>2, <1>3, <1>6, <1>7 DEF Queued, NothingTwice, Range
<1>10. BeginsEmpty'
  BY <1>1, TreeAssumption DEF BeginsEmpty
<1>11. Ready'
  BY <1>1, NotYetThere DEF Ready
<1> QED
  BY <1>8, <1>9, <1>10, <1>11 DEF Queued

LEMMA QueuedConnect ==
    ASSUME Node, Node', Aside, Queued, Connect,
           RemoveBatch(NextToConnect, toConnect # {NextToConnect})
    PROVE  Queued'
<1> DEFINE p == NextToConnect
           reps == Tail(Representations[p])
           rest == Without(reps)
           done == Reprocessed(rest, Height[p], imbalance')
<1>1. /\ tip' = p /\ p \in Plot /\ disturbed' = disturbed
      /\ Checked(p)
      /\ Confirmed' \subseteq Confirmed \cup RepresentationsOf(p)
      /\ tipHeight' = Height[p]
  BY NodeIsLocated, ConnectGrows, ConfirmedGrows
<1>2. Range(reps) = {r \in RepresentationsOf(p) : ~IsPlotroot(r)}
  BY <1>1, TailOfPlot
<1>3. /\ queue \in Seq(NotRoots) /\ IsInjective(queue) /\ cache \in Caches /\ drifted \in BOOLEAN
  BY QueueTypes DEF Queued
<1>4. IF toConnect # {p}
      THEN queue' = rest /\ cache' = cache /\ drifted' = drifted
      ELSE queue' = done.kept /\ cache' = done.cache /\ drifted' = done.drifted
  BY DEF RemoveBatch
<1>5. imbalance' \in Imbalances /\ Height[p] \in Int
  <2>1. imbalance' \in Imbalances
    BY NodeKeepsImbalances DEF NoDebts
  <2> QED
    BY <1>1, <2>1, TreeAssumption, ParametersAssumption
<1>6. rest \in Seq(NotRoots) /\ IsInjective(rest) /\ Range(rest) = Range(queue) \ Range(reps)
  BY <1>3, RestOfList
<1>7. \A r \in NotRoots : ~IsPlotroot(r)
  BY DEF NotRoots
<1> HIDE DEF reps, rest
<1>8. /\ done \in States
      /\ IsInjective(done.kept)
      /\ Range(done.kept) \subseteq Range(rest)
      /\ Fit(done, Height[p] + 1, imbalance')
  BY <1>5, <1>6, ReprocessedList
<1> HIDE DEF p, done
<1>9. /\ queue' \in Seq(NotRoots) /\ IsInjective(queue') /\ Range(queue') \subseteq Range(rest)
      /\ cache' \in Caches /\ drifted' \in BOOLEAN
  BY <1>3, <1>4, <1>6, <1>8 DEF States
<1>10. QueueTypeOK'
  BY <1>9 DEF QueueTypeOK, Caches, NotRoots
<1>11. NothingTwice'
  <2>1. \A r \in Range(queue) : r \in NotRoots
    BY <1>3 DEF Range
  <2>2. Range(rest) \cap (Confirmed \cup RepresentationsOf(p)) = {}
    BY <1>2, <1>6, <1>7, <2>1 DEF Queued, NothingTwice
  <2> QED
    BY <1>1, <1>9, <2>2 DEF NothingTwice, Range
<1>12. BeginsEmpty'
  BY <1>1, TreeAssumption DEF BeginsEmpty
<1>13. Ready'
  <2> SUFFICES ASSUME ~disturbed', phase' = "idle" \/ tip' = oldTip'
               PROVE  /\ \A r \in Range(queue') : IsEligible(r, tipHeight' + 1)
                      /\ ~drifted' => Funds(cache', imbalance', queue')
    BY DEF Ready, Range, Funds
  <2>1. toConnect = {p}
    BY LastArrives DEF p
  <2> QED
    BY <1>1, <1>4, <1>8, <2>1 DEF Fit
<1> QED
  BY <1>10, <1>11, <1>12, <1>13 DEF Queued

\* Steps of the processor that leave the thread alone.
ThreadStays == UNCHANGED <<tip, tipHeight, heightIndex, imbalance>>

LEMMA LeavingSteps ==
    LeaveThread \/ UNCHANGED vars => [Next]_vars /\ ThreadStays
<1>1. UNCHANGED vars => ThreadStays
  BY DEF vars, ledgerVars, ThreadStays
<1>2. ASSUME NEW now \in Clock, ProcessGenesis(now) PROVE ThreadStays
  BY <1>2 DEF ProcessGenesis, ledgerVars, ThreadStays
<1>3. ASSUME NEW p \in Plot, NEW now \in Clock, AcceptPlot(p, now) PROVE ThreadStays
  BY <1>3 DEF AcceptPlot, ledgerVars, ThreadStays
<1>4. KeepTip \/ FlagSideBranch \/ ChooseNewThread \/ ReconnectTip \/ GiveUp => ThreadStays
  BY DEF KeepTip, FlagSideBranch, SetBranchType, ChooseNewThread, ReconnectTip, GiveUp,
         ledgerVars, ThreadStays
<1>5. ASSUME NEW p \in Plot, Index(p) PROVE ThreadStays
  BY <1>5 DEF Index, IndexLinks, ThreadStays
<1>6. LeaveThread => ThreadStays
  BY <1>2, <1>3, <1>4, <1>5 DEF LeaveThread
<1>7. LeaveThread => Next
  BY DEF LeaveThread, Next, Step
<1> QED
  BY <1>1, <1>6, <1>7

LEMMA QueuedLeave ==
    ASSUME Node, Queued, [Next]_vars, ThreadStays, UNCHANGED queueVars
    PROVE  Queued'
<1>1. /\ UNCHANGED <<tip, tipHeight, heightIndex, imbalance>>
      /\ UNCHANGED <<queue, cache, drifted>>
  BY DEF ThreadStays, queueVars
<1>2. QueueTypeOK' /\ BeginsEmpty'
  BY <1>1 DEF Queued, QueueTypeOK, BeginsEmpty
<1>3. NothingTwice'
  <2>1. Confirmed' = Confirmed
    BY <1>1 DEF Confirmed
  <2> QED
    BY <1>1, <2>1 DEF Queued, NothingTwice
<1>4. Ready'
  <2> SUFFICES ASSUME ~disturbed', phase' = "idle" \/ tip' = oldTip'
               PROVE  /\ \A r \in Range(queue) : IsEligible(r, tipHeight + 1)
                      /\ ~drifted => Funds(cache, imbalance, queue)
    BY <1>1 DEF Ready, Funds
  <2>1. CASE tip = None
    <3>1. queue = <<>> /\ cache = EmptyCache
      BY <2>1 DEF Queued, BeginsEmpty
    <3>2. Range(queue) = {} /\ Funds(cache, imbalance, queue)
      BY <3>1, FundsNothing, NodeHasImbalances DEF Range, NoDebts
    <3> QED
      BY <3>2
  <2>2. CASE tip # None
    <3>1. ~disturbed /\ (phase = "idle" \/ tip = oldTip)
      BY <1>1, <2>2, OldTipStays
    <3> QED
      BY <3>1 DEF Queued, Ready
  <2> QED
    BY <2>1, <2>2
<1> QED
  BY <1>2, <1>3, <1>4 DEF Queued

LEMMA QueuedCrash ==
    ASSUME Node', LoseQueue
    PROVE  Queued'
<1>1. /\ queue' = <<>> /\ cache' = EmptyCache /\ drifted' = FALSE /\ imbalance' \in Imbalances
  BY NodeKeepsImbalances DEF LoseQueue, NoDebts
<1>2. Range(<<>>) = {} /\ IsInjective(<<>>) /\ <<>> \in Seq(NotRoots)
  BY DEF Range, IsInjective
<1>3. EmptyCache \in Caches /\ Funds(EmptyCache, imbalance', <<>>)
  BY <1>1, EmptyView, FundsNothing
<1>4. QueueTypeOK'
  BY <1>1, <1>2, <1>3 DEF QueueTypeOK, NotRoots, Caches
<1> QED
  BY <1>1, <1>2, <1>3, <1>4 DEF Queued, NothingTwice, BeginsEmpty, Ready, EmptyCache

\* The processor does not notice its queue.
LEMMA QueueKeepsProcessor == [QNext]_qvars => [Next]_vars
<1>1. \A r \in Representation : ProcessRepresentation(r) => UNCHANGED vars
  BY DEF ProcessRepresentation
<1>2. ChangeThread => Next
  BY DEF ChangeThread, Next, Step
<1>3. UNCHANGED qvars => UNCHANGED vars
  BY DEF qvars
<1>4. Crash => Next
  BY DEF Next
<1> QED
  BY <1>1, <1>2, <1>3, <1>4, LeavingSteps DEF QNext

QueueInvariant == Node /\ Aside /\ Queued

LEMMA QueueInvariantInit == QInit => QueueInvariant
BY NodeInit, QueuedInit DEF QInit, Init, Aside, QueueInvariant

LEMMA QueueInvariantNext == QueueInvariant /\ [QNext]_qvars => QueueInvariant'
<1> SUFFICES ASSUME QueueInvariant, [QNext]_qvars PROVE QueueInvariant'
  OBVIOUS
<1>1. Node /\ Aside /\ Queued /\ [Next]_vars
  BY QueueKeepsProcessor DEF QueueInvariant
<1>2. Node' /\ Aside'
  BY <1>1, NodeNext, AsideNext
<1> SUFFICES Queued'
  BY <1>2 DEF QueueInvariant
<1>3. ASSUME NEW r \in Representation, ProcessRepresentation(r) PROVE Queued'
  BY <1>1, <1>3, QueuedAdmit
<1>4. CASE Disconnect /\ AddBatch(NextToDisconnect)
  BY <1>1, <1>4, QueuedDisconnect
<1>5. CASE Connect /\ RemoveBatch(NextToConnect, toConnect # {NextToConnect})
  BY <1>1, <1>2, <1>5, QueuedConnect
<1>6. CASE LeaveThread /\ UNCHANGED queueVars
  BY <1>1, <1>6, LeavingSteps, QueuedLeave
<1>7. CASE Crash /\ LoseQueue
  BY <1>2, <1>7, QueuedCrash
<1>8. CASE UNCHANGED qvars
  <2>1. UNCHANGED vars /\ UNCHANGED queueVars
    BY <1>8 DEF qvars
  <2> QED
    BY <1>1, <2>1, LeavingSteps, QueuedLeave
<1> QED
  BY <1>1, <1>2, <1>3, <1>4, <1>5, <1>6, <1>7, <1>8 DEF QNext, ChangeThread

LEMMA QueueInvariantAlways == QSpec => []QueueInvariant
BY QueueInvariantInit, QueueInvariantNext, PTL DEF QSpec

----------------------------------------------------------------------------
(* What is forgotten *)

LEMMA SendersOfList ==
    ASSUME NEW reps \in Seq(NotRoots), IsInjective(reps), NEW i \in 1..Len(reps),
           NEW T, IsFiniteSet(T), \A r \in Range(reps) : r.By = reps[i].By => r \in T
    PROVE  Cardinality(T) > Sent(reps, reps[i].By, 1, i - 1)
<1> DEFINE k == reps[i].By
           S == {m \in 1..i : reps[m].By = k}
           f == [m \in S |-> reps[m]]
<1>1. DOMAIN reps = 1..Len(reps) /\ i \in Nat /\ 1 <= i /\ \A m \in 1..i : m \in 1..Len(reps)
  OBVIOUS
<1>2. f \in Injection(S, T)
  <2>1. ASSUME NEW m \in S PROVE reps[m] \in T
    <3>1. m \in 1..Len(reps) /\ reps[m].By = k
      BY <1>1
    <3>2. reps[m] \in Range(reps)
      BY <1>1, <3>1 DEF Range
    <3> QED
      BY <3>1, <3>2
  <2>2. f \in [S -> T]
    BY <2>1
  <2>3. \A m \in S, n \in S : f[m] = f[n] => m = n
    BY <1>1 DEF IsInjective
  <2> QED
    BY <2>2, <2>3 DEF Injection, IsInjective
<1>3. Cardinality(S) <= Cardinality(T)
  BY <1>2, FS_Injection
<1>4. Sent(reps, k, 1, i) = Cardinality(S)
  BY DEF Sent
<1> HIDE DEF S, f, k
<1>5. /\ Sent(reps, k, 1, i) = Sent(reps, k, 1, i - 1) + (IF reps[i].By = k THEN 1 ELSE 0)
      /\ Sent(reps, k, 1, i - 1) \in Nat
  <2>1. i \in Int /\ i - 1 \in Int /\ 1 <= i
    BY <1>1
  <2>2. Sent(reps, k, 1, i - 1) \in Nat
    BY <2>1, CountsOfCalls
  <2>3. Sent(reps, k, 1, i) = Sent(reps, k, 1, i - 1) + (IF reps[i].By = k THEN 1 ELSE 0)
    BY <2>1, CountsOfCalls
  <2> QED
    BY <2>2, <2>3
<1>6. Cardinality(T) \in Nat
  BY FS_CardinalityType
<1> QED
  BY <1>3, <1>4, <1>5, <1>6 DEF k

LEMMA ListIsFinite ==
    ASSUME NEW S, NEW s \in Seq(S)
    PROVE  IsFiniteSet(Range(s))
<1>1. DOMAIN s = 1..Len(s) /\ Len(s) \in Nat
  OBVIOUS
<1>2. s \in Surjection(1..Len(s), Range(s))
  BY <1>1 DEF Surjection, Range
<1>3. IsFiniteSet(1..Len(s))
  BY <1>1, FS_Interval
<1> QED
  BY <1>2, <1>3, FS_Surjection

\* What NothingIsForgotten says of a step.
Remembered ==
    \A r \in Pending \ Pending' :
      /\ phase' = "idle"
      /\ IsInvalid(r)' \/ Cardinality(Rivals(r)) > imbalance'[r.By]

LEMMA ConfirmedLeave ==
    ASSUME Node, Disconnect
    PROVE  Confirmed \subseteq Confirmed' \cup RepresentationsOf(tip)
<1>1. /\ tipHeight \in Nat \ {0} /\ tipHeight' = tipHeight - 1
      /\ heightIndex[tipHeight] = tip
      /\ \A h \in 0..tipHeight - 1 : heightIndex'[h] = heightIndex[h]
  BY NodeIsLocated, DisconnectShrinks DEF Shrinks
<1>2. ASSUME NEW h \in 0..tipHeight, NEW r \in RepresentationsOf(heightIndex[h])
      PROVE  r \in Confirmed' \cup RepresentationsOf(tip)
  <2>1. h = tipHeight \/ h \in 0..tipHeight - 1
    BY <1>1
  <2>2. CASE h = tipHeight
    BY <1>1, <1>2, <2>2
  <2>3. CASE h \in 0..tipHeight - 1
    BY <1>1, <1>2, <2>3 DEF Confirmed, RepresentationsOf
  <2> QED
    BY <2>1, <2>2, <2>3
<1> QED
  BY <1>2 DEF Confirmed

LEMMA ConfirmedJoin ==
    ASSUME Node, Connect
    PROVE  Confirmed \cup RepresentationsOf(NextToConnect) \subseteq Confirmed'
<1> DEFINE p == NextToConnect
<1>1. /\ tipHeight \in Int /\ tipHeight >= -1 /\ tipHeight' = tipHeight + 1
      /\ heightIndex'[tipHeight + 1] = p
      /\ \A h \in 0..tipHeight : heightIndex'[h] = heightIndex[h]
  BY NodeIsLocated, ConnectGrows DEF Grows
<1> HIDE DEF p
<1>2. \A h \in 0..tipHeight : h \in 0..tipHeight'
  BY <1>1
<1>3. tipHeight + 1 \in 0..tipHeight'
  BY <1>1
<1>4. ASSUME NEW h \in 0..tipHeight, NEW r \in RepresentationsOf(heightIndex[h]) PROVE r \in Confirmed'
  BY <1>1, <1>2, <1>4 DEF Confirmed, RepresentationsOf
<1>5. ASSUME NEW r \in RepresentationsOf(p) PROVE r \in Confirmed'
  BY <1>1, <1>3, <1>5 DEF Confirmed, RepresentationsOf
<1> QED
  BY <1>4, <1>5 DEF Confirmed, p

LEMMA RememberedInConnect ==
    ASSUME Node, Node', Queued, Connect,
           RemoveBatch(NextToConnect, toConnect # {NextToConnect})
    PROVE  Remembered
<1> DEFINE p == NextToConnect
           reps == Tail(Representations[p])
           rest == Without(reps)
           done == Reprocessed(rest, Height[p], imbalance')
<1> SUFFICES ASSUME NEW r \in Pending, r \notin Pending'
             PROVE  /\ phase' = "idle"
                    /\ IsInvalid(r)' \/ Cardinality(Rivals(r)) > imbalance'[r.By]
  BY DEF Remembered
<1>1. /\ p \in Plot /\ Checked(p) /\ tipHeight' = Height[p] /\ graph' = graph
      /\ Confirmed \cup RepresentationsOf(p) \subseteq Confirmed'
  BY NodeIsLocated, ConnectGrows, ConfirmedGrows, ConfirmedJoin
<1>2. Range(reps) = {q \in RepresentationsOf(p) : ~IsPlotroot(q)}
  BY <1>1, TailOfPlot
<1>3. queue \in Seq(NotRoots) /\ IsInjective(queue)
  BY QueueTypes DEF Queued
<1>4. rest \in Seq(NotRoots) /\ IsInjective(rest) /\ Range(rest) = Range(queue) \ Range(reps)
  BY <1>3, RestOfList
<1>5. imbalance' \in Imbalances /\ Height[p] \in Int
  <2>1. imbalance' \in Imbalances
    BY NodeKeepsImbalances DEF NoDebts
  <2> QED
    BY <1>1, <2>1, TreeAssumption, ParametersAssumption
<1>6. IF toConnect # {p} THEN queue' = rest ELSE queue' = done.kept
  BY DEF RemoveBatch
<1>7. toConnect = {p} => phase' = "idle"
  BY DEF Connect, Rest
<1> HIDE DEF reps, rest
<1>8. r \in Range(queue) /\ r \notin Confirmed' /\ r \notin Range(queue') /\ ~IsPlotroot(r)
  <2>1. r \in Range(queue) \/ (r \in Confirmed /\ ~IsPlotroot(r))
    BY DEF Pending
  <2>2. r \notin Range(queue') /\ (r \notin Confirmed' \/ IsPlotroot(r))
    BY DEF Pending, Range
  <2>3. \A q \in Range(queue) : q \in NotRoots
    BY <1>3 DEF Range
  <2> QED
    BY <1>1, <2>1, <2>2, <2>3 DEF NotRoots
<1>9. r \in Range(rest)
  BY <1>1, <1>2, <1>4, <1>8
<1>10. toConnect = {p} /\ r \notin Range(done.kept)
  <2>1. toConnect # {p} => queue' = rest
    BY <1>6
  <2>2. toConnect = {p} => queue' = done.kept
    BY <1>6
  <2> HIDE DEF p, done
  <2> QED
    BY <1>8, <1>9, <2>1, <2>2
<1>11. PICK i \in 1..Len(rest) : rest[i] = r
  BY <1>4, <1>9 DEF Range
<1>12. \/ ~IsEligible(r, Height[p] + 1)
       \/ ClosesCycle(r)
       \/ imbalance'[r.By] <= Sent(rest, r.By, 1, i - 1)
  BY <1>4, <1>5, <1>10, <1>11, ReprocessedDrops
<1>13. CASE ~IsEligible(r, Height[p] + 1) \/ ClosesCycle(r)
  BY <1>1, <1>7, <1>10, <1>13 DEF IsInvalid, ClosesCycle
<1>14. CASE imbalance'[r.By] <= Sent(rest, r.By, 1, i - 1)
  <2>1. Range(rest) \cap Confirmed' = {}
    <3>1. Confirmed' \subseteq Confirmed \cup RepresentationsOf(p)
      BY ConfirmedGrows
    <3>2. \A q \in Range(queue) : ~IsPlotroot(q) /\ q \notin Confirmed
      BY <1>3 DEF Range, NotRoots, Queued, NothingTwice
    <3> HIDE DEF p
    <3> QED
      BY <1>2, <1>4, <3>1, <3>2
  <2>2. \A q \in Range(rest) : q.By = r.By => q \in Rivals(r)
    BY <1>4, <2>1 DEF Rivals, Pending
  <2>3. IsFiniteSet(Rivals(r))
    <3>1. IsFiniteSet(Range(queue))
      BY <1>3, ListIsFinite
    <3>2. Rivals(r) \subseteq Range(queue)
      BY <1>1 DEF Rivals, Pending
    <3> QED
      BY <3>1, <3>2, FS_Subset
  <2>4. Cardinality(Rivals(r)) > Sent(rest, r.By, 1, i - 1)
    BY <1>4, <1>11, <2>2, <2>3, SendersOfList
  <2>5. Sent(rest, r.By, 1, i - 1) \in Nat /\ Cardinality(Rivals(r)) \in Nat
    BY <2>3, CountsOfCalls, FS_CardinalityType
  <2>6. imbalance'[r.By] \in Nat
    <3>1. r \in NotRoots
      BY <1>4, <1>11
    <3> QED
      BY <1>5, <3>1, NotRootHasKeys DEF Imbalances
  <2> QED
    BY <1>7, <1>10, <1>14, <2>4, <2>5, <2>6
<1> QED
  BY <1>12, <1>13, <1>14

LEMMA RememberedNext ==
    ASSUME QueueInvariant, QueueInvariant', [QNext]_qvars
    PROVE  Crash \/ Remembered
<1>1. Node /\ Node' /\ Aside /\ Queued
  BY DEF QueueInvariant
<1>2. Pending \subseteq Pending' => Remembered
  BY DEF Remembered
<1>3. UNCHANGED <<tipHeight, heightIndex>> => Confirmed' = Confirmed
  BY DEF Confirmed
<1>4. UNCHANGED <<tipHeight, heightIndex>> /\ Range(queue) \subseteq Range(queue') =>
        Pending \subseteq Pending'
  BY <1>3 DEF Pending, Range
<1>5. ASSUME NEW r \in Representation, ProcessRepresentation(r) PROVE Remembered
  <2>1. /\ UNCHANGED <<tipHeight, heightIndex>>
        /\ queue' = IF ClosesCycle(r) THEN queue ELSE Append(queue, r)
        /\ r \in NotRoots
    BY <1>5 DEF ProcessRepresentation, Add, NotRoots, vars, ledgerVars
  <2>2. queue \in Seq(NotRoots)
    BY <1>1, QueueTypes DEF Queued
  <2>3. Range(Append(queue, r)) = Range(queue) \cup {r}
    BY <2>1, <2>2, OneMore
  <2>4. Range(queue) \subseteq Range(queue')
    BY <2>1, <2>3
  <2> QED
    BY <1>2, <1>4, <2>1, <2>4
<1>6. ASSUME Disconnect, AddBatch(NextToDisconnect) PROVE Remembered
  <2> DEFINE reps == Tail(Representations[tip])
             rest == Without(reps)
  <2>1. tip \in Plot /\ NextToDisconnect = tip /\ Checked(tip)
    BY <1>1, <1>6, NodeIsLocated, DisconnectShrinks, ConfirmedShrinks
  <2>2. queue' = reps \o rest
    BY <1>6, <2>1 DEF AddBatch
  <2>3. reps \in Seq(NotRoots) /\ Range(reps) = {r \in RepresentationsOf(tip) : ~IsPlotroot(r)}
    BY <2>1, TailOfPlot
  <2>4. rest \in Seq(NotRoots) /\ Range(rest) = Range(queue) \ Range(reps)
    BY <1>1, QueueTypes, RestOfList DEF Queued
  <2> HIDE DEF reps, rest
  <2>5. Range(queue') = Range(reps) \cup Range(rest)
    BY <2>2, <2>3, <2>4, OneAfterTheOther
  <2>6. Confirmed \subseteq Confirmed' \cup RepresentationsOf(tip)
    BY <1>1, <1>6, ConfirmedLeave
  <2>7. Pending \subseteq Pending'
    BY <2>3, <2>4, <2>5, <2>6 DEF Pending, Range
  <2> QED
    BY <1>2, <2>7
<1>7. ASSUME Connect, RemoveBatch(NextToConnect, toConnect # {NextToConnect}) PROVE Remembered
  BY <1>1, <1>7, RememberedInConnect
<1>8. ASSUME LeaveThread \/ UNCHANGED vars, UNCHANGED queueVars PROVE Remembered
  BY <1>2, <1>4, <1>8, LeavingSteps DEF ThreadStays, queueVars
<1>9. UNCHANGED qvars => UNCHANGED vars /\ UNCHANGED queueVars
  BY DEF qvars
<1> QED
  BY <1>5, <1>6, <1>7, <1>8, <1>9 DEF QNext, ChangeThread

----------------------------------------------------------------------------
(* Theorems *)

(* The list holds each representation once and no plotroot, and the cache  *)
(* never goes below zero.                                                  *)
THEOREM QueueTypesStay == QSpec => []QueueTypeOK
BY QueueInvariantAlways, PTL DEF QueueInvariant, Queued

(* What is queued is not on the thread: not between two requests, which is *)
(* what NothingQueuedIsConfirmed says, and in no other state either, so a  *)
(* crash or a plot that fails halfway leaves nothing to confirm twice.     *)
THEOREM QueuedOnce == QSpec => []NothingQueuedIsConfirmed
<1>1. QueueInvariant => NothingQueuedIsConfirmed
  BY DEF QueueInvariant, Queued, NothingTwice, NothingQueuedIsConfirmed
<1> QED
  BY <1>1, QueueInvariantAlways, PTL

(* After whatever reorganizations, everything queued may be in the next    *)
(* plot by its series and its expiration.                                  *)
THEOREM QueueStaysEligible == QSpec => []QueueIsEligible
<1>1. QueueInvariant => QueueIsEligible
  BY DEF QueueInvariant, Queued, Ready, QueueIsEligible, IsEligible
<1> QED
  BY <1>1, QueueInvariantAlways, PTL

(* The next plot can pay for the whole queue in its order, until the queue *)
(* refuses a representation for closing a cycle and keeps its effect.      *)
THEOREM QueueStaysFunded == QSpec => []QueueIsFundedUntilDrift
<1>1. QueueInvariant => QueueIsFundedUntilDrift
  BY DEF QueueInvariant, Queued, Ready, Funds, QueueIsFunded, QueueIsFundedUntilDrift
<1> QED
  BY <1>1, QueueInvariantAlways, PTL

(* What was queued or confirmed is forgotten only by a crash, or by the    *)
(* last step of an adjustment and for a reason: it may not be in the next  *)
(* plot, it closes a cycle, or its sender has not enough for all of those  *)
(* that wait.                                                              *)
THEOREM NothingGetsLost == QSpec => NothingIsForgotten
<1>1. QueueInvariant /\ QueueInvariant' /\ [QNext]_qvars =>
        [Crash \/ \A r \in Pending \ Pending' :
                    /\ phase' = "idle"
                    /\ IsInvalid(r)' \/ Cardinality(Rivals(r)) > imbalance'[r.By]]_qvars
  BY RememberedNext DEF Remembered
<1> QED
  BY <1>1, QueueInvariantAlways, PTL DEF QSpec, NothingIsForgotten

(* With its queue, the processor takes no step that it would not take      *)
(* alone: the theorems of ProcessorProofs hold of it as well.              *)
THEOREM QueuedProcessorIsProcessor == QSpec => Init /\ [][Next]_vars
BY QueueKeepsProcessor, PTL DEF QSpec, QInit
=============================================================================
