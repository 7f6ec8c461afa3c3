--------------------------- MODULE PeerSyncProofs ---------------------------
(***************************************************************************)
(* Proofs about the download of threads, for any peers, any tree of plots, *)
(* any limits of the queues and any loss of connections.                   *)
(***************************************************************************)
EXTENDS PeerSync, TLAPS, FiniteSetTheorems, SequenceTheorems, WellFoundedInduction

----------------------------------------------------------------------------
(* Natural numbers: induction is stated for sets of them *)

LEMMA LeastElement ==
    ASSUME NEW A, A \subseteq Nat, A # {}
    PROVE  \E n \in A : \A m \in A : n <= m
<1>1. PICK n \in A : \A m \in A : ~(<<m, n>> \in OpToRel(<, Nat))
  BY NatLessThanWellFounded, WFMin
<1>2. \A m \in A : ~(m < n)
  BY <1>1 DEF OpToRel
<1> QED
  BY <1>2

LEMMA Induction ==
    ASSUME NEW A, 0 \in A, \A n \in Nat : n \in A => n + 1 \in A
    PROVE  Nat \subseteq A
<1> SUFFICES ASSUME Nat \ A # {} PROVE FALSE
  OBVIOUS
<1>1. PICK n \in Nat \ A : \A m \in Nat \ A : n <= m
  BY LeastElement
<1>2. n # 0 /\ n - 1 \in Nat
  BY <1>1
<1>3. n - 1 \in A
  BY <1>1, <1>2
<1> QED
  BY <1>1, <1>2, <1>3

\* Positions that include every smaller one are the first ones.
LEMMA FirstPositions ==
    ASSUME NEW n \in Nat, NEW A, A \subseteq 1..n,
           \A i \in A : \A j \in 1..i : j \in A
    PROVE  /\ Cardinality(A) \in 0..n
           /\ A = 1..Cardinality(A)
<1>1. CASE A = {}
  BY <1>1, FS_EmptySet
<1>2. CASE A # {}
  <2> DEFINE B == {b \in Nat : n - b \in A}
  <2>1. B # {}
    <3>1. PICK i \in A : TRUE
      BY <1>2
    <3>2. i \in 1..n /\ n - i \in Nat /\ n - (n - i) = i
      OBVIOUS
    <3> QED
      BY <3>1, <3>2
  <2>2. PICK b \in B : \A c \in B : b <= c
    BY <2>1, LeastElement
  <2> DEFINE m == n - b
  <2>3. m \in A /\ m \in 1..n
    BY <2>2
  <2>4. ASSUME NEW i \in A PROVE i \in 1..m
    <3>1. i \in 1..n /\ n - i \in Nat /\ n - (n - i) = i
      OBVIOUS
    <3>2. b <= n - i
      BY <2>2, <3>1
    <3> QED
      BY <3>1, <3>2
  <2>5. A = 1..m /\ m \in 1..n
    BY <2>3, <2>4
  <2>6. Cardinality(1..m) = m
    BY <2>5, FS_Interval
  <2> QED
    BY <2>5, <2>6
<1> QED
  BY <1>1, <1>2

----------------------------------------------------------------------------
(* The IDs of the messages of one type *)

Extended(ids, message, type) == IF message.type = type THEN Append(ids, message.id) ELSE ids

Unfolds(f, messages, type, k) ==
    f = [n \in 0..k |->
           IF n = 0 THEN <<>>
           ELSE IF messages[n].type = type THEN Append(f[n-1], messages[n].id)
           ELSE f[n-1]]

ExtendsByOne(f, messages, type, k) ==
    /\ f[0] = <<>>
    /\ \A n \in Nat : n + 1 <= k => f[n+1] = Extended(f[n], messages[n+1], type)

LEMMA UnfoldingSteps ==
    ASSUME NEW messages, NEW type, NEW k \in Nat, NEW f, Unfolds(f, messages, type, k)
    PROVE  ExtendsByOne(f, messages, type, k)
<1> DEFINE Step(n) == IF n = 0 THEN <<>>
                      ELSE IF messages[n].type = type THEN Append(f[n-1], messages[n].id)
                      ELSE f[n-1]
           g == [n \in 0..k |-> Step(n)]
<1>1. f = g
  BY Zenon DEF Unfolds
<1> HIDE DEF Step
<1>2. g[0] = Step(0) /\ \A n \in Nat : n + 1 <= k => g[n+1] = Step(n+1)
  OBVIOUS
<1> HIDE DEF g
<1>3. f[0] = Step(0) /\ \A n \in Nat : n + 1 <= k => f[n+1] = Step(n+1)
  BY <1>1, <1>2
<1>4. \A n \in Nat : n + 1 # 0 /\ n + 1 - 1 = n
  OBVIOUS
<1> QED
  BY <1>3, <1>4 DEF Step, Extended, ExtendsByOne

LEMMA UnfoldingStep ==
    ASSUME NEW messages, NEW type, NEW k \in Nat, NEW f, Unfolds(f, messages, type, k),
           NEW n \in Nat, n + 1 <= k
    PROVE  f[n+1] = Extended(f[n], messages[n+1], type)
<1>1. ExtendsByOne(f, messages, type, k)
  BY UnfoldingSteps
<1> QED
  BY <1>1 DEF ExtendsByOne

LEMMA UnfoldingExists ==
    ASSUME NEW messages, NEW type, NEW k \in Nat
    PROVE  \E f : Unfolds(f, messages, type, k)
<1> DEFINE A == {n \in Nat : \E f : Unfolds(f, messages, type, n)}
<1>1. 0 \in A
  <2> DEFINE f == [n \in 0..0 |-> <<>>]
  <2>1. Unfolds(f, messages, type, 0)
    BY DEF Unfolds
  <2> QED
    BY <2>1
<1>2. ASSUME NEW n \in Nat, n \in A PROVE n + 1 \in A
  <2>1. PICK f : Unfolds(f, messages, type, n)
    BY <1>2
  <2> DEFINE new == IF messages[n+1].type = type THEN Append(f[n], messages[n+1].id) ELSE f[n]
             h == [i \in 0..n+1 |-> IF i = n + 1 THEN new ELSE f[i]]
  <2>2. ASSUME NEW i \in 0..n+1
        PROVE  h[i] = IF i = 0 THEN <<>>
                      ELSE IF messages[i].type = type THEN Append(h[i-1], messages[i].id)
                      ELSE h[i-1]
    <3>1. CASE i = n + 1
      <4>1. h[i] = new /\ h[i-1] = f[n] /\ i # 0
        BY <3>1
      <4> QED
        BY <3>1, <4>1
    <3>2. CASE i \in 0..n
      <4>1. h[i] = f[i]
        BY <3>2
      <4>2. i # 0 => h[i-1] = f[i-1]
        BY <3>2
      <4> HIDE DEF h
      <4> QED
        BY <3>2, <4>1, <4>2, <2>1 DEF Unfolds
    <3> QED
      BY <3>1, <3>2
  <2>3. Unfolds(h, messages, type, n + 1)
    <3> DEFINE g == [i \in 0..n+1 |->
                       IF i = 0 THEN <<>>
                       ELSE IF messages[i].type = type THEN Append(h[i-1], messages[i].id)
                       ELSE h[i-1]]
    <3>1. h = [i \in 0..n+1 |-> h[i]]
      OBVIOUS
    <3> HIDE DEF h
    <3>2. h = g
      BY <2>2, <3>1
    <3> QED
      BY <3>2 DEF Unfolds
  <2> QED
    BY <2>3
<1> HIDE DEF A
<1>3. Nat \subseteq A
  BY <1>1, <1>2, Induction
<1> QED
  BY <1>3 DEF A

LEMMA IDsUnfold ==
    ASSUME NEW messages, NEW type, Len(messages) \in Nat
    PROVE  \E f : Unfolds(f, messages, type, Len(messages)) /\ IDs(messages, type) = f[Len(messages)]
<1> DEFINE f == CHOOSE f : Unfolds(f, messages, type, Len(messages))
<1>1. Unfolds(f, messages, type, Len(messages))
  BY UnfoldingExists
<1>2. IDs(messages, type) = f[Len(messages)]
  BY Zenon DEF IDs, Unfolds
<1> HIDE DEF f
<1> QED
  BY <1>1, <1>2

HaveIDs(messages, type) ==
    \A n \in 1..Len(messages) : messages[n].type = type => messages[n].id \in Plot

LEMMA UnfoldingType ==
    ASSUME NEW messages, NEW type, NEW k \in Nat, NEW f, Unfolds(f, messages, type, k),
           \A n \in 1..k : messages[n].type = type => messages[n].id \in Plot
    PROVE  \A n \in 0..k : f[n] \in Seq(Plot)
<1> DEFINE A == {n \in Nat : n <= k => f[n] \in Seq(Plot)}
<1>1. 0 \in A
  BY DEF Unfolds
<1>2. ASSUME NEW n \in Nat, n \in A PROVE n + 1 \in A
  <2> SUFFICES ASSUME n + 1 <= k PROVE f[n+1] \in Seq(Plot)
    OBVIOUS
  <2>1. f[n] \in Seq(Plot) /\ n + 1 \in 1..k
    BY <1>2
  <2>2. f[n+1] = Extended(f[n], messages[n+1], type)
    BY UnfoldingStep
  <2>3. messages[n+1].type = type => messages[n+1].id \in Plot
    BY <2>1
  <2> QED
    BY <2>1, <2>2, <2>3, AppendProperties DEF Extended
<1> HIDE DEF A
<1>3. Nat \subseteq A
  BY <1>1, <1>2, Induction
<1> QED
  BY <1>3 DEF A

LEMMA IDsType ==
    ASSUME NEW messages, NEW type, Len(messages) \in Nat, HaveIDs(messages, type)
    PROVE  IDs(messages, type) \in Seq(Plot)
<1>1. PICK f : Unfolds(f, messages, type, Len(messages)) /\ IDs(messages, type) = f[Len(messages)]
  BY IDsUnfold
<1>2. \A n \in 0..Len(messages) : f[n] \in Seq(Plot)
  BY <1>1, UnfoldingType DEF HaveIDs
<1> QED
  BY <1>1, <1>2

LEMMA IDsOfNone == ASSUME NEW type PROVE IDs(<<>>, type) = <<>>
<1>1. Len(<<>>) = 0
  OBVIOUS
<1>2. PICK f : Unfolds(f, <<>>, type, 0) /\ IDs(<<>>, type) = f[0]
  BY <1>1, IDsUnfold
<1> QED
  BY <1>2 DEF Unfolds

\* Only the messages up to a position matter for the IDs up to it.
LEMMA UnfoldingsAgree ==
    ASSUME NEW s, NEW t, NEW type, NEW k \in Nat, NEW m \in Nat, k <= m,
           \A n \in 1..k : s[n] = t[n],
           NEW f, Unfolds(f, s, type, k), NEW g, Unfolds(g, t, type, m)
    PROVE  f[k] = g[k]
<1> DEFINE A == {n \in Nat : n <= k => f[n] = g[n]}
<1>1. ExtendsByOne(f, s, type, k)
  BY UnfoldingSteps
<1>2. ExtendsByOne(g, t, type, m)
  BY UnfoldingSteps
<1>3. 0 \in A
  BY <1>1, <1>2 DEF ExtendsByOne
<1>4. ASSUME NEW n \in Nat, n \in A PROVE n + 1 \in A
  <2> SUFFICES ASSUME n + 1 <= k PROVE f[n+1] = g[n+1]
    OBVIOUS
  <2>1. f[n] = g[n] /\ s[n+1] = t[n+1] /\ n + 1 <= m
    BY <1>4
  <2> QED
    BY <1>1, <1>2, <2>1 DEF ExtendsByOne
<1> HIDE DEF A
<1>5. Nat \subseteq A
  BY <1>3, <1>4, Induction
<1> QED
  BY <1>5 DEF A

LEMMA IDsOfAppend ==
    ASSUME NEW M, NEW s \in Seq(M), NEW e \in M, NEW type
    PROVE  IDs(Append(s, e), type) =
             IF e.type = type THEN Append(IDs(s, type), e.id) ELSE IDs(s, type)
<1> DEFINE t == Append(s, e)
           k == Len(s)
<1>1. /\ k \in Nat /\ Len(t) = k + 1 /\ t[k+1] = e
      /\ \A n \in 1..k : s[n] = t[n]
  BY AppendProperties
<1> HIDE DEF t, k
<1>2. PICK f : Unfolds(f, s, type, k) /\ IDs(s, type) = f[k]
  BY <1>1, IDsUnfold DEF k
<1>3. PICK g : Unfolds(g, t, type, k + 1) /\ IDs(t, type) = g[k+1]
  BY <1>1, IDsUnfold
<1>4. f[k] = g[k]
  BY <1>1, <1>2, <1>3, UnfoldingsAgree
<1>5. g[k+1] = Extended(g[k], t[k+1], type)
  <2>1. ExtendsByOne(g, t, type, k + 1)
    BY <1>1, <1>3, UnfoldingSteps
  <2> QED
    BY <1>1, <2>1 DEF ExtendsByOne
<1> QED
  BY <1>1, <1>2, <1>3, <1>4, <1>5 DEF t, Extended

LEMMA IDsOfTail ==
    ASSUME NEW M, NEW s \in Seq(M), s # <<>>, NEW type, HaveIDs(s, type)
    PROVE  /\ HaveIDs(Tail(s), type)
           /\ IDs(s, type) = IF Head(s).type = type
                             THEN <<Head(s).id>> \o IDs(Tail(s), type)
                             ELSE IDs(Tail(s), type)
<1> DEFINE t == Tail(s)
           k == Len(t)
           m == Len(s)
           first == IF s[1].type = type THEN <<s[1].id>> ELSE <<>>
<1>1. /\ k \in Nat /\ m \in Nat /\ m = k + 1 /\ t \in Seq(M)
      /\ \A n \in 1..k : t[n] = s[n+1]
      /\ Head(s) = s[1]
  BY HeadTailProperties, LenProperties
<1>2. HaveIDs(t, type)
  BY <1>1 DEF HaveIDs
<1>3. PICK f : Unfolds(f, s, type, m) /\ IDs(s, type) = f[m]
  <2> HIDE DEF t, k
  <2> QED
    BY <1>1, IDsUnfold
<1>4. PICK g : Unfolds(g, t, type, k) /\ IDs(t, type) = g[k]
  <2> HIDE DEF t
  <2> QED
    BY <1>1, IDsUnfold
<1>5. \A n \in 0..k : g[n] \in Seq(Plot)
  <2> HIDE DEF t
  <2> QED
    BY <1>1, <1>2, <1>4, UnfoldingType DEF HaveIDs
<1> HIDE DEF t, k, m
<1>6. ExtendsByOne(f, s, type, m)
  BY <1>1, <1>3, UnfoldingSteps
<1>7. ExtendsByOne(g, t, type, k)
  BY <1>1, <1>4, UnfoldingSteps
<1>8. first \in Seq(Plot)
  BY <1>1 DEF HaveIDs
<1> DEFINE A == {n \in Nat : n <= k => f[n+1] = first \o g[n]}
<1>9. 0 \in A
  <2>1. f[1] = Extended(f[0], s[1], type)
    <3>1. m \in Nat /\ 0 + 1 <= m /\ 0 \in Nat
      BY <1>1
    <3>2. f[0+1] = Extended(f[0], s[0+1], type)
      BY <3>1, <1>6 DEF ExtendsByOne
    <3> QED
      BY <3>2
  <2>2. f[0] = <<>> /\ g[0] = <<>>
    BY <1>6, <1>7 DEF ExtendsByOne
  <2>3. f[1] = first
    BY <2>1, <2>2 DEF Extended
  <2>4. first \o g[0] = first
    BY <2>2, <1>8, ConcatEmptySeq
  <2> HIDE DEF first
  <2> QED
    BY <2>3, <2>4
<1> HIDE DEF first
<1>10. ASSUME NEW n \in Nat, n \in A PROVE n + 1 \in A
  <2> SUFFICES ASSUME n + 1 <= k PROVE f[n+2] = first \o g[n+1]
    <3>1. (n + 1) + 1 = n + 2 /\ n + 1 \in Nat
      OBVIOUS
    <3> QED
      BY <3>1
  <2>1. f[n+1] = first \o g[n] /\ t[n+1] = s[n+2] /\ n + 1 \in 1..k
    BY <1>1, <1>10
  <2>2. f[n+2] = Extended(f[n+1], s[n+2], type)
    <3> DEFINE j == n + 1
    <3>1. j \in Nat /\ j + 1 <= m /\ m \in Nat /\ j + 1 = n + 2
      BY <1>1
    <3> HIDE DEF j
    <3>2. f[j+1] = Extended(f[j], s[j+1], type)
      BY <3>1, <1>3, UnfoldingStep
    <3> QED
      BY <3>1, <3>2 DEF j
  <2>3. g[n+1] = Extended(g[n], t[n+1], type)
    BY <1>1, <1>4, UnfoldingStep
  <2>4. g[n] \in Seq(Plot)
    BY <1>1, <1>5
  <2>5. CASE s[n+2].type = type
    <3>1. s[n+2].id \in Plot
      BY <2>5, <2>1, <1>1 DEF HaveIDs, m
    <3> DEFINE id == s[n+2].id
    <3>2. f[n+2] = Append(first \o g[n], id) /\ g[n+1] = Append(g[n], id)
      BY <2>1, <2>2, <2>3, <2>5 DEF Extended
    <3> HIDE DEF id
    <3>3. Append(first \o g[n], id) = first \o Append(g[n], id)
      <4>1. id \in Plot
        BY <3>1 DEF id
      <4>2. first \o g[n] \in Seq(Plot) /\ <<id>> \in Seq(Plot)
        BY <1>8, <2>4, <4>1, ConcatProperties
      <4>3. Append(first \o g[n], id) = (first \o g[n]) \o <<id>> /\ Append(g[n], id) = g[n] \o <<id>>
        BY <4>1, <4>2, <2>4, AppendIsConcat
      <4>4. (first \o g[n]) \o <<id>> = first \o (g[n] \o <<id>>)
        <5> DEFINE middle == g[n]
                   last == <<id>>
        <5>1. first \in Seq(Plot) /\ middle \in Seq(Plot) /\ last \in Seq(Plot)
          BY <4>2, <2>4, <1>8
        <5> HIDE DEF middle, last
        <5>2. (first \o middle) \o last = first \o (middle \o last)
          BY <5>1, ConcatAssociative
        <5> QED
          BY <5>2 DEF middle, last
      <4> QED
        BY <4>3, <4>4
    <3> QED
      BY <3>2, <3>3
  <2>6. CASE s[n+2].type # type
    BY <2>1, <2>2, <2>3, <2>6 DEF Extended
  <2> QED
    BY <2>5, <2>6
<1> HIDE DEF A
<1>11. Nat \subseteq A
  BY <1>9, <1>10, Induction
<1>12. f[k+1] = first \o g[k]
  <2>1. k \in A
    BY Zenon, <1>11, <1>1
  <2> QED
    BY <2>1, <1>1 DEF A
<1>13. g[k] \in Seq(Plot) /\ first \o g[k] = IF s[1].type = type THEN <<s[1].id>> \o g[k] ELSE g[k]
  <2>1. g[k] \in Seq(Plot)
    BY <1>5, <1>1
  <2>2. <<>> \o g[k] = g[k]
    BY <2>1, ConcatEmptySeq
  <2> QED
    BY <2>1, <2>2 DEF first
<1> QED
  BY <1>1, <1>2, <1>3, <1>4, <1>12, <1>13 DEF t

LEMMA IDsOfOthers ==
    ASSUME NEW M, NEW s \in Seq(M), NEW e \in M, NEW type, e.type # type
    PROVE  IDs(Append(s, e), type) = IDs(s, type)
BY IDsOfAppend

\* Only the first message is handled in part, and its type stays.
LEMMA IDsOfRest ==
    ASSUME NEW M, NEW s \in Seq(M), s # <<>>, NEW t \in Seq(M), t # <<>>, Tail(s) = Tail(t),
           NEW type, HaveIDs(s, type), HaveIDs(t, type), Head(s).type # type, Head(t).type # type
    PROVE  IDs(t, type) = IDs(s, type)
<1>1. IDs(s, type) = IDs(Tail(s), type)
  BY IDsOfTail
<1>2. IDs(t, type) = IDs(Tail(t), type)
  BY IDsOfTail
<1> QED
  BY <1>1, <1>2

----------------------------------------------------------------------------
(* Threads *)

LEMMA ThreadStep ==
    ASSUME NEW plot \in Plot \ {Genesis}
    PROVE  LET before == ThreadTo[Previous[plot]]
           IN  /\ Previous[plot] \in Plot /\ before \in Seq(Plot)
               /\ Len(ThreadTo[plot]) = Len(before) + 1
               /\ \A n \in 1..Len(before) : ThreadTo[plot][n] = before[n]
               /\ ThreadTo[plot][Len(before) + 1] = plot
<1>1. Previous[plot] \in Plot /\ ThreadTo[Previous[plot]] \in Seq(Plot)
  BY PeerSyncAssumption, ThreadAssumption
<1>2. ThreadTo[plot] = Append(ThreadTo[Previous[plot]], plot)
  BY ThreadAssumption
<1> QED
  BY <1>1, <1>2, AppendProperties

\* Each place of a thread holds the plot of that height.
InPlace(plot) ==
    /\ Len(ThreadTo[plot]) \in Nat \ {0}
    /\ ThreadTo[plot][1] = Genesis
    /\ \A n \in 1..Len(ThreadTo[plot]) : Height(ThreadTo[plot][n]) = n - 1

LEMMA ThreadIsInPlace == ASSUME NEW plot \in Plot PROVE InPlace(plot)
<1> DEFINE A == {n \in Nat : \A p \in Plot : Len(ThreadTo[p]) = n => InPlace(p)}
<1>1. InPlace(Genesis)
  <2>1. ThreadTo[Genesis] = <<Genesis>> /\ Len(<<Genesis>>) = 1 /\ <<Genesis>>[1] = Genesis
    BY ThreadAssumption
  <2>2. Height(Genesis) = 0 /\ \A n \in 1..1 : n = 1
    BY <2>1 DEF Height
  <2>3. \A n \in 1..1 : Height(ThreadTo[Genesis][n]) = n - 1
    BY <2>1, <2>2
  <2> QED
    BY <2>1, <2>3 DEF InPlace
<1>2. 0 \in A
  <2> SUFFICES ASSUME NEW p \in Plot, Len(ThreadTo[p]) = 0 PROVE InPlace(p)
    OBVIOUS
  <2>1. CASE p = Genesis
    BY <1>1, <2>1
  <2>2. CASE p # Genesis
    <3>1. Len(ThreadTo[Previous[p]]) \in Nat /\ Len(ThreadTo[p]) = Len(ThreadTo[Previous[p]]) + 1
      BY <2>2, ThreadStep, LenProperties
    <3> QED
      BY <3>1
  <2> QED
    BY <2>1, <2>2
<1>3. ASSUME NEW n \in Nat, n \in A PROVE n + 1 \in A
  <2> SUFFICES ASSUME NEW p \in Plot, Len(ThreadTo[p]) = n + 1 PROVE InPlace(p)
    OBVIOUS
  <2>1. CASE p = Genesis
    BY <1>1, <2>1
  <2>2. CASE p # Genesis
    <3> DEFINE q == Previous[p]
    <3>1. /\ q \in Plot /\ Len(ThreadTo[q]) \in Nat
          /\ Len(ThreadTo[p]) = Len(ThreadTo[q]) + 1
          /\ \A i \in 1..Len(ThreadTo[q]) : ThreadTo[p][i] = ThreadTo[q][i]
          /\ ThreadTo[p][Len(ThreadTo[q]) + 1] = p
      BY <2>2, ThreadStep, LenProperties
    <3> HIDE DEF q
    <3>2. Len(ThreadTo[q]) = n
      BY <3>1
    <3>3. InPlace(q)
      BY <1>3, <3>1, <3>2
    <3> QED
      BY <3>1, <3>2, <3>3 DEF InPlace, Height
  <2> QED
    BY <2>1, <2>2
<1> HIDE DEF A
<1>4. Nat \subseteq A
  BY <1>2, <1>3, Induction
<1>5. Len(ThreadTo[plot]) \in Nat
  BY ThreadAssumption, LenProperties
<1> QED
  BY <1>4, <1>5 DEF A

LEMMA ThreadType ==
    ASSUME NEW plot \in Plot
    PROVE  /\ ThreadTo[plot] \in Seq(Plot)
           /\ Len(ThreadTo[plot]) = Height(plot) + 1
           /\ Height(plot) \in Nat
           /\ Genesis \in Range(ThreadTo[plot])
<1>1. ThreadTo[plot] \in Seq(Plot)
  BY ThreadAssumption
<1>2. Len(ThreadTo[plot]) \in Nat \ {0} /\ ThreadTo[plot][1] = Genesis
  BY ThreadIsInPlace DEF InPlace
<1>3. Genesis \in Range(ThreadTo[plot])
  BY <1>1, <1>2, RangeEquality
<1> QED
  BY <1>1, <1>2, <1>3 DEF Height

----------------------------------------------------------------------------
(* The data of messages *)

LEMMA AncestorIDsType ==
    ASSUME NEW start \in Plot, tip \in Plot
    PROVE  /\ AncestorIDs(start) \in Seq(Plot)
           /\ Genesis \in Range(AncestorIDs(start))
<1> DEFINE height == CHOOSE height :
              height = [n \in Nat |-> IF n = 1 THEN Height(start) ELSE height[n - 1] - Gap(n - 1)]
           HasID(n) == height[n] \in 1 .. (IF n = 1 THEN Height(start) ELSE Height(tip))
           Ids == {n \in 1 .. Height(start) : \A m \in 1 .. n : HasID(m)}
           count == Cardinality(Ids)
           Place(n) == IF n = 1 THEN start ELSE ThreadTo[tip][height[n] + 1]
           ids == [n \in 1 .. count |-> Place(n)]
<1>1. AncestorIDs(start) = ids \o <<Genesis>>
  BY Zenon DEF AncestorIDs
<1> HIDE DEF height
<1>2. Height(start) \in Nat /\ Height(tip) \in Nat /\ Len(ThreadTo[tip]) = Height(tip) + 1
  BY ThreadType
<1>3. count \in Nat /\ Ids = 1 .. count
  <2> HIDE DEF HasID
  <2>1. Ids \subseteq 1..Height(start)
    OBVIOUS
  <2>2. ASSUME NEW i \in Ids, NEW j \in 1..i PROVE j \in Ids
    <3>1. i \in 1..Height(start) /\ \A m \in 1..i : HasID(m)
      OBVIOUS
    <3>2. j \in 1..Height(start) /\ \A m \in 1..j : m \in 1..i
      BY <3>1, <1>2
    <3> QED
      BY <3>1, <3>2
  <2> HIDE DEF Ids
  <2>3. \A i \in Ids : \A j \in 1..i : j \in Ids
    BY <2>2
  <2>4. /\ Cardinality(Ids) \in 0..Height(start)
        /\ Ids = 1..Cardinality(Ids)
    BY <2>1, <2>3, <1>2, FirstPositions
  <2> QED
    BY <2>4, <1>2
<1>4. ASSUME NEW n \in 1..count PROVE Place(n) \in Plot
  <2>1. HasID(n)
    <3>1. n \in Ids
      BY <1>3
    <3> HIDE DEF HasID
    <3>2. n \in 1..n
      BY <1>3
    <3> QED
      BY <3>1, <3>2
  <2>2. n # 1 => height[n] \in 1..Height(tip)
    BY <2>1
  <2>3. n # 1 => height[n] + 1 \in 1..Len(ThreadTo[tip])
    BY <2>2, <1>2
  <2> QED
    BY <2>3, ThreadType, ElementOfSeq
<1> HIDE DEF Place, count
<1>5. ids \in Seq(Plot)
  BY <1>3, <1>4
<1> HIDE DEF ids
<1> DEFINE root == <<Genesis>>
<1>6. root \in Seq(Plot) /\ Len(root) = 1 /\ root[1] = Genesis
  BY PeerSyncAssumption
<1> HIDE DEF root
<1>7. Genesis \in Range(root)
  BY <1>6, RangeEquality
<1>8. ids \o root \in Seq(Plot) /\ Range(ids \o root) = Range(ids) \cup Range(root)
  BY <1>5, <1>6, ConcatProperties, RangeConcatenation
<1> QED
  BY <1>1, <1>7, <1>8 DEF root

LEMMA MinOfTwo ==
    ASSUME NEW i \in Int, NEW j \in Int
    PROVE  Min({i, j}) = IF i <= j THEN i ELSE j
<1> DEFINE m == IF i <= j THEN i ELSE j
<1>1. m \in {i, j} /\ \A n \in {i, j} : m <= n
  OBVIOUS
<1>2. \A k \in {i, j} : (\A n \in {i, j} : k <= n) => k = m
  OBVIOUS
<1> HIDE DEF m
<1>3. Min({i, j}) = m
  BY <1>1, <1>2 DEF Min
<1> QED
  BY <1>3 DEF m

LEMMA PlotsAfterType ==
    ASSUME NEW p \in Peer, remoteTip[p] \in Plot,
           NEW ids \in Seq(Plot), Genesis \in Range(ids)
    PROVE  PlotsAfter(p, ids) \in Seq(Plot)
<1> DEFINE thread == ThreadTo[remoteTip[p]]
           I == {i \in 1..Len(ids) : ids[i] \in Range(thread)}
           ancestor == SelectInSeq(ids, LAMBDA id : id \in Range(thread))
           height == Height(ids[ancestor])
           last == Min({height + 1 + maxPlotsPerInv, Len(thread)})
<1>1. thread \in Seq(Plot) /\ Genesis \in Range(thread) /\ Len(thread) \in Nat
  BY ThreadType, LenProperties
<1>2. PICK g \in 1..Len(ids) : ids[g] = Genesis
  BY RangeEquality
<1>3. I \subseteq Nat /\ I # {}
  <2> HIDE DEF thread
  <2> QED
    BY <1>1, <1>2, LenProperties
<1>4. ancestor = CHOOSE i \in I : \A j \in I : i <= j
  <2>1. ancestor = Min(I)
    BY <1>3 DEF SelectInSeq
  <2> QED
    BY <2>1 DEF Min
<1>5. ancestor \in I
  <2> HIDE DEF ancestor, I
  <2>1. \E i \in I : \A j \in I : i <= j
    BY <1>3, LeastElement
  <2> QED
    BY <1>4, <2>1
<1>6. ids[ancestor] \in Plot
  BY <1>5, ElementOfSeq
<1> HIDE DEF ancestor, thread
<1>7. height \in Nat
  BY <1>6, ThreadType
<1> HIDE DEF height
<1>8. last \in Int /\ last <= Len(thread)
  <2>1. height + 1 + maxPlotsPerInv \in Int /\ Len(thread) \in Int
    BY <1>1, <1>7, PeerSyncAssumption
  <2> QED
    BY <2>1, MinOfTwo
<1> HIDE DEF last
<1>9. \A i \in height + 2 .. last : thread[i] \in Plot
  BY <1>1, <1>7, <1>8, ElementOfSeq
<1>10. SubSeq(thread, height + 2, last) \in Seq(Plot)
  BY <1>7, <1>8, <1>9, SubSeqProperties
<1> QED
  BY <1>10 DEF PlotsAfter, thread, ancestor, height, last

LEMMA RemoveFirstIsTail ==
    ASSUME NEW s \in Seq(Plot), s # <<>>
    PROVE  RemoveFirst(s, Head(s)) = Tail(s)
<1> DEFINE I == {i \in 1..Len(s) : s[i] = Head(s)}
<1>1. Len(s) \in Nat \ {0} /\ Head(s) = s[1]
  BY EmptySeq
<1>2. 1 \in I /\ \A i \in I : i \in Nat /\ 1 <= i
  BY <1>1
<1> HIDE DEF I
<1>3. \A j \in I : (\A i \in I : j <= i) => j = 1
  BY <1>2
<1>4. Min(I) = 1
  BY <1>2, <1>3 DEF Min
<1>5. SelectInSeq(s, LAMBDA v : v = Head(s)) = 1
  BY <1>2, <1>4 DEF SelectInSeq, I
<1>6. RemoveFirst(s, Head(s)) = RemoveAt(s, 1)
  <2>1. \E i \in 1..Len(s) : s[i] = Head(s)
    BY <1>1
  <2> QED
    BY <2>1, <1>5, Zenon DEF RemoveFirst
<1>7. SubSeq(s, 1, 0) = <<>> /\ SubSeq(s, 2, Len(s)) = Tail(s) /\ Tail(s) \in Seq(Plot)
  BY <1>1, SubSeqEmpty, TailIsSubSeq, HeadTailProperties
<1>8. RemoveAt(s, 1) = SubSeq(s, 1, 0) \o SubSeq(s, 2, Len(s))
  BY DEF RemoveAt
<1> QED
  BY <1>6, <1>7, <1>8, ConcatEmptySeq

----------------------------------------------------------------------------
(* The inductive invariant *)

Answers ==
    [type : {"inv_plot"}, ids : Seq(Plot) \ {<<>>}, length : Nat]
      \cup [type : {"plot"}, id : Plot]

Requests ==
    [type : {"get_plot"}, id : Plot]
      \cup [type : {"find_common_ancestor"}, ids : {ids \in Seq(Plot) : Genesis \in Range(ids)}]

PlotsTypeOK == known \subseteq stored /\ stored \subseteq Plot /\ tip \in known

LinksTypeOK ==
    /\ owner \in [Plot -> Peer \cup {None}]
    /\ link \in [Peer -> LinkType]
    /\ inbox \in [Peer -> Seq(Answers)]
    /\ outbox \in [Peer -> Seq(Requests)]

RemoteTipsOnThread ==
    /\ remoteTip \in [Peer -> Plot]
    /\ \A p \in Peer : remoteTip[p] \in Range(ThreadTo[FinalRemoteTip[p]])

\* What the reader's place in its loop says of its queues and of the first message.
ReaderOK(p) ==
    /\ link[p].conn = "down" => link[p] = Down
    /\ Len(link[p].inflight) <= inflightQueueMax
    /\ Len(link[p].download) <= downloadQueueMax
    /\ link[p].pc = "claim" => link[p].download # <<>> /\ Len(link[p].inflight) < inflightQueueMax
    /\ link[p].pc \in {"process", "remove"} => inbox[p] # <<>> /\ Head(inbox[p]).type = "plot"

Expected(p) == link[p].inflight = IDs(inbox[p], "plot") \o IDs(outbox[p], "get_plot")

SyncInv ==
    /\ PlotsTypeOK /\ LinksTypeOK /\ RemoteTipsOnThread
    /\ \A p \in Peer : ReaderOK(p) /\ Expected(p)
    /\ OwnersDownload

\* Every step is one of one connection.
LEMMA OneConnection ==
    ASSUME SyncInv, NEW p \in Peer, PlotsTypeOK', LinksTypeOK', RemoteTipsOnThread',
           \A q \in Peer \ {p} : link'[q] = link[q] /\ inbox'[q] = inbox[q] /\ outbox'[q] = outbox[q],
           ReaderOK(p)', Expected(p)', OwnersDownload'
    PROVE  SyncInv'
<1>1. ASSUME NEW q \in Peer \ {p} PROVE ReaderOK(q)' /\ Expected(q)'
  <2>1. ReaderOK(q) /\ Expected(q)
    BY DEF SyncInv
  <2> QED
    BY <2>1 DEF ReaderOK, Expected
<1> QED
  BY <1>1 DEF SyncInv

LEMMA OwnersStay ==
    ASSUME SyncInv, owner' = owner, \A q \in Peer : link'[q].inflight = link[q].inflight
    PROVE  OwnersDownload'
BY DEF SyncInv, LinksTypeOK, OwnersDownload

LEMMA ClosedKeepsInv ==
    ASSUME SyncInv, NEW p \in Peer, Closed(p), PlotsTypeOK'
    PROVE  SyncInv'
<1> USE DEF SyncInv
<1>1. Down \in LinkType /\ Down.inflight = <<>> /\ Down.download = <<>> /\ Down.pc = "read"
  BY DEF Down, LinkType
<1>2. LinksTypeOK'
  <2>1. <<>> \in Seq(Answers) /\ <<>> \in Seq(Requests)
    OBVIOUS
  <2>2. owner' \in [Plot -> Peer \cup {None}]
    BY DEF Closed, LinksTypeOK
  <2>3. link' \in [Peer -> LinkType]
    BY <1>1 DEF Closed, LinksTypeOK
  <2> QED
    BY <2>1, <2>2, <2>3 DEF Closed, LinksTypeOK
<1>3. link'[p] = Down /\ inbox'[p] = <<>> /\ outbox'[p] = <<>>
  BY DEF Closed, LinksTypeOK
<1>4. \A q \in Peer \ {p} : link'[q] = link[q] /\ inbox'[q] = inbox[q] /\ outbox'[q] = outbox[q]
  BY DEF Closed, LinksTypeOK
<1>5. RemoteTipsOnThread'
  BY DEF Closed, RemoteTipsOnThread
<1>6. ReaderOK(p)'
  <2>1. Len(<<>>) = 0 /\ inflightQueueMax \in Nat /\ downloadQueueMax \in Nat
    BY PeerSyncAssumption
  <2> QED
    BY <1>1, <1>3, <2>1 DEF ReaderOK
<1>7. Expected(p)'
  <2>1. <<>> \o <<>> = <<>>
    OBVIOUS
  <2> QED
    BY <1>1, <1>3, <2>1, IDsOfNone DEF Expected
<1>8. OwnersDownload'
  <2> SUFFICES ASSUME NEW id \in Plot, owner'[id] # None
               PROVE  id \in Range(link'[owner'[id]].inflight)
    BY DEF OwnersDownload
  <2>1. owner'[id] = owner[id] /\ ~(id \in Range(link[p].inflight) /\ owner[id] = p)
    BY DEF Closed
  <2>2. id \in Range(link[owner[id]].inflight) /\ owner[id] \in Peer
    BY <2>1 DEF OwnersDownload, LinksTypeOK
  <2> QED
    BY <2>1, <2>2, <1>4
<1> QED
  BY <1>2, <1>4, <1>5, <1>6, <1>7, <1>8, OneConnection

\* The reader moves on and no message is sent or read.
LEMMA QuietStep ==
    ASSUME SyncInv, NEW p \in Peer, NEW l \in LinkType, link' = [link EXCEPT ![p] = l],
           l.inflight = link[p].inflight, UNCHANGED <<inbox, outbox, owner, remoteTip>>,
           PlotsTypeOK', ReaderOK(p)'
    PROVE  SyncInv'
<1> USE DEF SyncInv
<1>1. link' \in [Peer -> LinkType] /\ link'[p] = l /\ \A q \in Peer \ {p} : link'[q] = link[q]
  BY DEF LinksTypeOK
<1>2. LinksTypeOK' /\ RemoteTipsOnThread'
  BY <1>1 DEF LinksTypeOK, RemoteTipsOnThread
<1>3. Expected(p)'
  BY <1>1 DEF Expected
<1>4. OwnersDownload'
  BY <1>1, OwnersStay
<1> QED
  BY <1>1, <1>2, <1>3, <1>4, OneConnection

\* A request that is no request for a plot is sent besides.
LEMMA AncestorRequestSent ==
    ASSUME SyncInv, NEW p \in Peer, NEW start \in Plot, SendFindCommonAncestor(p, start)
    PROVE  /\ outbox' \in [Peer -> Seq(Requests)]
           /\ \A q \in Peer \ {p} : outbox'[q] = outbox[q]
           /\ IDs(outbox'[p], "get_plot") = IDs(outbox[p], "get_plot")
<1> DEFINE message == FindCommonAncestor(AncestorIDs(start))
<1>1. tip \in Plot
  BY DEF SyncInv, PlotsTypeOK
<1>2. message \in Requests /\ message.type # "get_plot"
  BY <1>1, AncestorIDsType DEF FindCommonAncestor, Requests
<1>3. outbox' = [outbox EXCEPT ![p] = Append(@, message)]
  BY DEF SendFindCommonAncestor, Send
<1> HIDE DEF message
<1>4. outbox \in [Peer -> Seq(Requests)]
  BY DEF SyncInv, LinksTypeOK
<1>5. outbox'[p] = Append(outbox[p], message) /\ \A q \in Peer \ {p} : outbox'[q] = outbox[q]
  BY <1>3, <1>4
<1>6. Append(outbox[p], message) \in Seq(Requests)
  BY <1>2, <1>4, AppendProperties
<1>7. IDs(Append(outbox[p], message), "get_plot") = IDs(outbox[p], "get_plot")
  BY <1>2, <1>4, IDsOfOthers
<1> QED
  BY <1>3, <1>4, <1>5, <1>6, <1>7


LEMMA LinkIsTyped ==
    ASSUME SyncInv, NEW p \in Peer
    PROVE  /\ link[p] \in LinkType
           /\ link[p].pc # "read" => link[p].conn # "down"
BY DEF SyncInv, LinksTypeOK, ReaderOK, Down

LEMMA FirstMessageIsTyped ==
    ASSUME SyncInv, NEW p \in Peer, inbox[p] # <<>>
    PROVE  /\ Head(inbox[p]) \in Answers
           /\ Tail(inbox[p]) \in Seq(Answers)
           /\ Head(inbox[p]).type = "plot" => Head(inbox[p]).id \in Plot
<1>1. inbox[p] \in Seq(Answers)
  BY DEF SyncInv, LinksTypeOK
<1>2. Head(inbox[p]) \in Answers /\ Tail(inbox[p]) \in Seq(Answers)
  BY <1>1, HeadTailProperties
<1> QED
  BY <1>2 DEF Answers

LEMMA AnswersHaveIDs == ASSUME NEW s \in Seq(Answers) PROVE HaveIDs(s, "plot")
BY ElementOfSeq DEF HaveIDs, Answers

LEMMA RequestsHaveIDs == ASSUME NEW s \in Seq(Requests) PROVE HaveIDs(s, "get_plot")
BY ElementOfSeq DEF HaveIDs, Requests

LEMMA ConnectKeepsInv == ASSUME SyncInv, NEW p \in Peer, Connect(p) PROVE SyncInv'
<1> DEFINE l == [Down EXCEPT !.conn = "new", !.ibd = IsInitialPlotDownload]
<1>1. IsInitialPlotDownload \in BOOLEAN
  BY DEF IsInitialPlotDownload
<1>2. /\ l \in LinkType /\ l.inflight = <<>> /\ l.download = <<>>
      /\ l.conn = "new" /\ l.pc = "read"
  <2>1. ASSUME NEW b \in BOOLEAN, NEW new, new = [Down EXCEPT !.conn = "new", !.ibd = b]
        PROVE  /\ new \in LinkType /\ new.inflight = <<>> /\ new.download = <<>>
               /\ new.conn = "new" /\ new.pc = "read"
    <3>1. <<>> \in Seq(Plot)
      OBVIOUS
    <3> QED
      BY <2>1, <3>1 DEF Down, LinkType
  <2>2. PICK b : b = IsInitialPlotDownload
    OBVIOUS
  <2>3. l = [Down EXCEPT !.conn = "new", !.ibd = b]
    BY <2>2, Zenon
  <2> HIDE DEF l
  <2>4. b \in BOOLEAN
    BY <1>1, <2>2, Zenon
  <2> QED
    BY <2>1, <2>3, <2>4
<1> HIDE DEF l
<1>3. link[p].inflight = <<>>
  BY DEF Connect, SyncInv, ReaderOK, Down
<1>4. link' = [link EXCEPT ![p] = l]
  BY DEF Connect, l
<1>5. ReaderOK(p)'
  <2>1. Len(<<>>) = 0 /\ inflightQueueMax \in Nat /\ downloadQueueMax \in Nat
    BY PeerSyncAssumption
  <2>2. link'[p] = l
    BY <1>4 DEF SyncInv, LinksTypeOK
  <2> QED
    BY <1>2, <2>1, <2>2 DEF ReaderOK
<1>6. PlotsTypeOK'
  BY DEF SyncInv, PlotsTypeOK, Connect, ledgerVars
<1>7. UNCHANGED <<inbox, outbox, owner, remoteTip>>
  BY DEF Connect, remoteVars
<1> QED
  BY <1>2, <1>3, <1>4, <1>5, <1>6, <1>7, QuietStep

LEMMA FirstRequestKeepsInv == ASSUME SyncInv, NEW p \in Peer, FirstRequest(p) PROVE SyncInv'
<1> USE DEF SyncInv
<1>1. tip \in Plot /\ PlotsTypeOK'
  BY DEF PlotsTypeOK, FirstRequest, ledgerVars
<1>2. /\ outbox' \in [Peer -> Seq(Requests)]
      /\ \A q \in Peer \ {p} : outbox'[q] = outbox[q]
      /\ IDs(outbox'[p], "get_plot") = IDs(outbox[p], "get_plot")
  BY <1>1, AncestorRequestSent DEF FirstRequest
<1>3. /\ link' \in [Peer -> LinkType] /\ link'[p] = [link[p] EXCEPT !.conn = "up"]
      /\ \A q \in Peer \ {p} : link'[q] = link[q]
  BY DEF FirstRequest, LinksTypeOK, LinkType
<1>4. /\ link'[p].inflight = link[p].inflight /\ link'[p].download = link[p].download
      /\ link'[p].pc = link[p].pc /\ link'[p].conn = "up"
  BY <1>3, LinkIsTyped DEF LinkType
<1>5. UNCHANGED <<owner, inbox, remoteTip>>
  BY DEF FirstRequest, remoteVars
<1>6. LinksTypeOK' /\ RemoteTipsOnThread'
  BY <1>2, <1>3, <1>5 DEF LinksTypeOK, RemoteTipsOnThread
<1>7. ReaderOK(p)'
  BY <1>4, <1>5 DEF ReaderOK
<1>8. Expected(p)'
  BY <1>2, <1>4, <1>5 DEF Expected
<1>9. OwnersDownload'
  BY <1>3, <1>4, <1>5, OwnersStay
<1> QED
  BY <1>1, <1>2, <1>3, <1>5, <1>6, <1>7, <1>8, <1>9, OneConnection

LEMMA PongKeepsInv == ASSUME SyncInv, NEW p \in Peer, Pong(p) PROVE SyncInv'
<1> DEFINE l == IF link[p].ibd THEN [link[p] EXCEPT !.ibd = IsInitialPlotDownload]
                ELSE [link[p] EXCEPT !.pc = "drain"]
<1>1. link[p] \in LinkType /\ link[p].conn # "down" /\ link[p].pc = "read"
  BY LinkIsTyped DEF Pong, Reads
<1>2. IsInitialPlotDownload \in BOOLEAN
  BY DEF IsInitialPlotDownload
<1>3. /\ l \in LinkType /\ l.inflight = link[p].inflight /\ l.download = link[p].download
      /\ l.conn = link[p].conn /\ l.pc \in {"read", "drain"}
  BY <1>1, <1>2 DEF LinkType
<1>4. link' = [link EXCEPT ![p] = l]
  BY DEF Pong
<1> HIDE DEF l
<1>5. link'[p] = l
  BY <1>4 DEF SyncInv, LinksTypeOK
<1>6. ReaderOK(p)'
  BY <1>1, <1>3, <1>5 DEF SyncInv, ReaderOK
<1>7. PlotsTypeOK' /\ UNCHANGED <<inbox, outbox, owner, remoteTip>>
  BY DEF SyncInv, PlotsTypeOK, Pong, ledgerVars, remoteVars
<1> QED
  BY <1>3, <1>4, <1>6, <1>7, QuietStep

LEMMA DrainKeepsInv == ASSUME SyncInv, NEW p \in Peer, Drain(p) PROVE SyncInv'
<1> DEFINE queue == link[p].download
           l == IF Len(link[p].inflight) >= inflightQueueMax \/ queue = <<>>
                THEN [link[p] EXCEPT !.pc = "read"]
                ELSE IF Head(queue) \in known
                THEN [link[p] EXCEPT !.download = Tail(queue)]
                ELSE [link[p] EXCEPT !.pc = "claim"]
<1>1. link[p] \in LinkType /\ link[p].conn # "down" /\ link[p].pc = "drain"
  BY LinkIsTyped DEF Drain
<1>2. queue \in Seq(Plot) /\ Len(queue) \in Nat /\ Len(link[p].inflight) \in Nat /\ inflightQueueMax \in Nat
  BY <1>1, PeerSyncAssumption DEF LinkType
<1>3. queue # <<>> => Tail(queue) \in Seq(Plot) /\ Len(Tail(queue)) = Len(queue) - 1
  BY <1>2, HeadTailProperties
<1>4. /\ l \in LinkType /\ l.inflight = link[p].inflight /\ l.conn = link[p].conn
      /\ l.pc \in {"read", "drain", "claim"}
      /\ l.pc = "claim" => queue # <<>> /\ l.download = queue /\ Len(link[p].inflight) < inflightQueueMax
      /\ Len(l.download) <= Len(queue)
  <2>1. CASE Len(link[p].inflight) >= inflightQueueMax \/ queue = <<>>
    BY <1>1, <1>2, <2>1 DEF LinkType
  <2>2. CASE ~(Len(link[p].inflight) >= inflightQueueMax \/ queue = <<>>) /\ Head(queue) \in known
    <3>1. l = [link[p] EXCEPT !.download = Tail(queue)]
      BY <2>2
    <3> DEFINE rest == Tail(queue)
    <3>2. rest \in Seq(Plot) /\ Len(rest) <= Len(queue)
      BY <1>2, <1>3, <2>2
    <3>3. l = [link[p] EXCEPT !.download = rest]
      BY <3>1
    <3> HIDE DEF l, queue, rest
    <3>4. l \in LinkType /\ l.inflight = link[p].inflight /\ l.conn = link[p].conn /\ l.pc = link[p].pc
          /\ l.download = rest
      BY <1>1, <3>2, <3>3 DEF LinkType
    <3> QED
      BY <1>1, <3>2, <3>4
  <2>3. CASE ~(Len(link[p].inflight) >= inflightQueueMax \/ queue = <<>>) /\ Head(queue) \notin known
    BY <1>1, <1>2, <2>3 DEF LinkType
  <2> QED
    BY <2>1, <2>2, <2>3
<1>5. link' = [link EXCEPT ![p] = l]
  BY DEF Drain
<1> HIDE DEF l
<1>6. link'[p] = l
  BY <1>5 DEF SyncInv, LinksTypeOK
<1>7. ReaderOK(p)'
  <2>1. Len(link[p].inflight) <= inflightQueueMax /\ Len(queue) <= downloadQueueMax /\ downloadQueueMax \in Nat
    BY PeerSyncAssumption DEF SyncInv, ReaderOK
  <2>2. Len(l.download) <= downloadQueueMax
    <3>1. Len(l.download) \in Nat
      BY <1>4, LenProperties DEF LinkType
    <3> QED
      BY <3>1, <1>2, <1>4, <2>1
  <2> QED
    BY <1>1, <1>4, <1>6, <2>1, <2>2 DEF ReaderOK
<1>8. PlotsTypeOK' /\ UNCHANGED <<inbox, outbox, owner, remoteTip>>
  BY DEF SyncInv, PlotsTypeOK, Drain, ledgerVars, remoteVars
<1> QED
  BY <1>4, <1>5, <1>7, <1>8, QuietStep

LEMMA WaitKeepsInv == ASSUME SyncInv, NEW p \in Peer, Wait(p) PROVE SyncInv'
<1> DEFINE l == [link[p] EXCEPT !.pc = "read"]
<1>1. link[p] \in LinkType /\ link[p].conn # "down"
  BY LinkIsTyped DEF Wait
<1>2. /\ l \in LinkType /\ l.inflight = link[p].inflight /\ l.download = link[p].download
      /\ l.conn = link[p].conn /\ l.pc = "read"
  BY <1>1 DEF LinkType
<1>3. link' = [link EXCEPT ![p] = l]
  BY DEF Wait
<1> HIDE DEF l
<1>4. link'[p] = l
  BY <1>3 DEF SyncInv, LinksTypeOK
<1>5. ReaderOK(p)'
  BY <1>1, <1>2, <1>4 DEF SyncInv, ReaderOK
<1>6. PlotsTypeOK' /\ UNCHANGED <<inbox, outbox, owner, remoteTip>>
  BY DEF SyncInv, PlotsTypeOK, Wait, ledgerVars, remoteVars
<1> QED
  BY <1>2, <1>3, <1>5, <1>6, QuietStep


LEMMA RequestKeepsInv ==
    ASSUME SyncInv, NEW p \in Peer, link[p].pc = "claim", Request(p, NextDownload(p)),
           UNCHANGED <<ledgerVars, inbox, remoteVars>>
    PROVE  SyncInv'
<1> USE DEF SyncInv
<1> DEFINE id == NextDownload(p)
           queue == link[p].download
           flight == link[p].inflight
           l == [link[p] EXCEPT !.download = Tail(queue), !.inflight = Append(flight, id), !.pc = "drain"]
<1>1. /\ link[p] \in LinkType /\ link[p].conn # "down" /\ queue # <<>>
      /\ Len(flight) < inflightQueueMax /\ Len(queue) <= downloadQueueMax
  BY LinkIsTyped DEF ReaderOK
<1>2. queue \in Seq(Plot) /\ flight \in Seq(Plot)
  BY <1>1 DEF LinkType
<1>3. id \in Plot /\ Tail(queue) \in Seq(Plot) /\ Len(Tail(queue)) = Len(queue) - 1
  BY <1>1, <1>2, HeadTailProperties DEF NextDownload
<1>4. Append(flight, id) \in Seq(Plot) /\ Len(Append(flight, id)) = Len(flight) + 1
  BY <1>2, <1>3, AppendProperties
<1>5. link' = [link EXCEPT ![p] = l]
  BY DEF Request
<1>6. owner' = [owner EXCEPT ![id] = p] /\ outbox' = [outbox EXCEPT ![p] = Append(@, GetPlot(id))]
  BY DEF Request, Send
<1> HIDE DEF id
<1>7. /\ l \in LinkType /\ l.conn = link[p].conn /\ l.pc = "drain"
      /\ l.download = Tail(queue) /\ l.inflight = Append(flight, id)
  BY <1>1, <1>3, <1>4 DEF LinkType
<1> HIDE DEF l
<1>8. link' \in [Peer -> LinkType] /\ link'[p] = l /\ \A q \in Peer \ {p} : link'[q] = link[q]
  BY <1>5, <1>7 DEF LinksTypeOK
<1> DEFINE message == GetPlot(id)
<1>9. message \in Requests /\ message.type = "get_plot" /\ message.id = id
  BY <1>3 DEF Requests, GetPlot
<1>10. outbox \in [Peer -> Seq(Requests)] /\ outbox[p] \in Seq(Requests)
  BY DEF LinksTypeOK
<1>11. outbox'[p] = Append(outbox[p], message) /\ \A q \in Peer \ {p} : outbox'[q] = outbox[q]
  BY <1>6, <1>10
<1> HIDE DEF message
<1>12. outbox' \in [Peer -> Seq(Requests)]
  <2>1. Append(outbox[p], message) \in Seq(Requests)
    BY <1>9, <1>10, AppendProperties
  <2> QED
    BY <1>6, <1>10, <2>1 DEF message
<1>13. LinksTypeOK'
  BY <1>3, <1>6, <1>8, <1>12 DEF LinksTypeOK
<1>14. PlotsTypeOK' /\ RemoteTipsOnThread'
  BY DEF PlotsTypeOK, RemoteTipsOnThread, ledgerVars, remoteVars
<1>15. ReaderOK(p)'
  <2>1. /\ Len(flight) \in Nat /\ Len(queue) \in Nat
        /\ inflightQueueMax \in Nat /\ downloadQueueMax \in Nat
    BY <1>2, PeerSyncAssumption, LenProperties
  <2> QED
    <3>1. /\ link'[p].conn # "down" /\ link'[p].pc = "drain"
          /\ Len(link'[p].inflight) = Len(flight) + 1 /\ Len(link'[p].download) = Len(queue) - 1
      BY <1>1, <1>3, <1>4, <1>7, <1>8
    <3>2. Len(flight) < inflightQueueMax /\ Len(queue) <= downloadQueueMax
      BY <1>1
    <3> HIDE DEF flight, queue
    <3> QED
      BY <2>1, <3>1, <3>2 DEF ReaderOK
<1>16. Expected(p)'
  <2> DEFINE answers == IDs(inbox[p], "plot")
             asked == IDs(outbox[p], "get_plot")
             new == <<id>>
  <2>1. flight = answers \o asked
    BY DEF Expected
  <2>2. answers \in Seq(Plot) /\ asked \in Seq(Plot) /\ new \in Seq(Plot)
    <3>1. inbox[p] \in Seq(Answers) /\ outbox[p] \in Seq(Requests)
      BY DEF LinksTypeOK
    <3> QED
      BY <3>1, <1>3, AnswersHaveIDs, RequestsHaveIDs, IDsType, LenProperties
  <2>3. IDs(outbox'[p], "get_plot") = Append(asked, id)
    BY <1>9, <1>10, <1>11, IDsOfAppend
  <2>4. Append(asked, id) = asked \o new /\ Append(flight, id) = flight \o new
    BY <1>2, <1>3, <2>2, AppendIsConcat
  <2> HIDE DEF answers, asked, new
  <2>5. (answers \o asked) \o new = answers \o (asked \o new)
    BY <2>2, ConcatAssociative
  <2>6. inbox' = inbox
    OBVIOUS
  <2>7. link'[p].inflight = answers \o IDs(outbox'[p], "get_plot")
    BY <1>7, <1>8, <2>1, <2>3, <2>4, <2>5
  <2> QED
    BY <2>6, <2>7 DEF Expected, answers
<1>17. OwnersDownload'
  <2> SUFFICES ASSUME NEW other \in Plot, owner'[other] # None
               PROVE  other \in Range(link'[owner'[other]].inflight)
    BY DEF OwnersDownload
  <2>1. Range(Append(flight, id)) = Range(flight) \cup {id}
    <3>1. \A i \in 1..Len(flight) : Append(flight, id)[i] = flight[i]
      BY <1>2, <1>3, AppendProperties
    <3>2. Append(flight, id)[Len(flight) + 1] = id
      BY <1>2, <1>3, AppendProperties
    <3>3. Range(Append(flight, id)) = {Append(flight, id)[i] : i \in 1..Len(flight)+1}
      BY <1>4, RangeEquality
    <3>4. Range(flight) = {flight[i] : i \in 1..Len(flight)} /\ Len(flight) \in Nat
      BY <1>2, RangeEquality, LenProperties
    <3> QED
      BY <3>1, <3>2, <3>3, <3>4
  <2>2. CASE other = id
    <3>1. owner'[other] = p
      BY <1>3, <1>6, <2>2 DEF LinksTypeOK
    <3> QED
      BY <1>7, <1>8, <2>1, <2>2, <3>1
  <2>3. CASE other # id
    <3>1. owner'[other] = owner[other]
      BY <1>6, <2>3 DEF LinksTypeOK
    <3>2. other \in Range(link[owner[other]].inflight) /\ owner[other] \in Peer
      BY <3>1 DEF OwnersDownload, LinksTypeOK
    <3>3. link'[owner[other]].inflight = link[owner[other]].inflight
            \/ (owner[other] = p /\ link'[owner[other]].inflight = Append(flight, id))
      BY <1>7, <1>8, <3>2
    <3> QED
      BY <2>1, <3>1, <3>2, <3>3
  <2> QED
    BY <2>2, <2>3
<1>18. \A q \in Peer \ {p} : link'[q] = link[q] /\ inbox'[q] = inbox[q] /\ outbox'[q] = outbox[q]
  BY <1>8, <1>11
<1> QED
  BY <1>13, <1>14, <1>15, <1>16, <1>17, <1>18, OneConnection

LEMMA ClaimKeepsInv == ASSUME SyncInv, NEW p \in Peer, Claim(p) \/ TakeOver(p) PROVE SyncInv'
BY RequestKeepsInv DEF Claim, TakeOver


\* One ID of an inventory is handled: the first message stays an inventory or goes.
LEMMA InventoryShrinks ==
    ASSUME SyncInv, NEW p \in Peer, IsNext(p, "inv_plot"),
           \/ Consumed(p)
           \/ /\ Len(Head(inbox[p]).ids) # 1
              /\ inbox' = [inbox EXCEPT ![p][1].ids = Tail(@)]
    PROVE  /\ inbox' \in [Peer -> Seq(Answers)]
           /\ \A q \in Peer \ {p} : inbox'[q] = inbox[q]
           /\ IDs(inbox'[p], "plot") = IDs(inbox[p], "plot")
<1> DEFINE s == inbox[p]
           message == Head(s)
<1>1. inbox \in [Peer -> Seq(Answers)] /\ s \in Seq(Answers) /\ s # <<>>
  BY DEF SyncInv, LinksTypeOK, IsNext
<1>2. /\ message \in Answers /\ message.type = "inv_plot"
      /\ Tail(s) \in Seq(Answers) /\ message = s[1] /\ Len(s) \in Nat \ {0}
  BY <1>1, HeadTailProperties, LenProperties DEF IsNext
<1>3. HaveIDs(s, "plot")
  BY <1>1, AnswersHaveIDs
<1>4. IDs(Tail(s), "plot") = IDs(s, "plot")
  BY <1>1, <1>2, <1>3, IDsOfTail
<1>5. CASE Consumed(p)
  <2>1. inbox' = [inbox EXCEPT ![p] = Tail(s)]
    BY <1>5 DEF Consumed
  <2> QED
    BY <1>1, <1>2, <1>4, <2>1
<1>6. CASE Len(message.ids) # 1 /\ inbox' = [inbox EXCEPT ![p][1].ids = Tail(@)]
  <2> DEFINE rest == [message EXCEPT !.ids = Tail(message.ids)]
             t == [s EXCEPT ![1] = rest]
  <2>1. message.ids \in Seq(Plot) \ {<<>>}
    BY <1>2 DEF Answers
  <2>2. Tail(message.ids) \in Seq(Plot) /\ Tail(message.ids) # <<>>
    <3>1. Len(message.ids) \in Nat \ {0, 1}
      BY <1>6, <2>1, EmptySeq
    <3>2. Tail(message.ids) \in Seq(Plot) /\ Len(Tail(message.ids)) = Len(message.ids) - 1
      BY <2>1, HeadTailProperties
    <3> DEFINE ids == Tail(message.ids)
    <3>3. ids \in Seq(Plot) /\ Len(ids) # 0
      BY <3>1, <3>2
    <3> HIDE DEF ids
    <3>4. ids # <<>>
      BY <3>3
    <3> QED
      BY <3>3, <3>4 DEF ids
  <2>3. rest \in Answers /\ rest.type = "inv_plot"
    <3> DEFINE ids == Tail(message.ids)
    <3>1. ids \in Seq(Plot) \ {<<>>}
      BY <2>2
    <3> HIDE DEF ids, message
    <3>2. message \in [type : {"inv_plot"}, ids : Seq(Plot) \ {<<>>}, length : Nat]
      BY <1>2 DEF Answers
    <3>3. rest = [message EXCEPT !.ids = ids]
      BY DEF ids
    <3> QED
      BY <3>1, <3>2, <3>3 DEF Answers
  <2>4. inbox' = [inbox EXCEPT ![p] = t]
    BY <1>2, <1>6
  <2> HIDE DEF rest
  <2>5. /\ t \in Seq(Answers) /\ Len(t) = Len(s)
        /\ \A j \in 1..Len(s) : t[j] = IF j = 1 THEN rest ELSE s[j]
    <3>1. 1 \in 1..Len(s)
      BY <1>2
    <3> QED
      BY <1>1, <2>3, <3>1, ExceptSeq
  <2> HIDE DEF t
  <2>6. t # <<>> /\ Head(t) = rest
    BY <1>2, <2>5
  <2>7. Tail(t) = Tail(s)
    <3>1. /\ Tail(t) \in Seq(Answers) /\ Len(Tail(t)) = Len(s) - 1
          /\ \A i \in 1..Len(Tail(t)) : Tail(t)[i] = t[i+1]
      BY <2>5, <2>6, HeadTailProperties
    <3>2. /\ Tail(s) \in Seq(Answers) /\ Len(Tail(s)) = Len(s) - 1
          /\ \A i \in 1..Len(Tail(s)) : Tail(s)[i] = s[i+1]
      BY <1>1, HeadTailProperties
    <3>3. \A i \in 1..Len(s)-1 : t[i+1] = s[i+1]
      BY <1>2, <2>5
    <3>4. \A i \in 1..Len(Tail(t)) : Tail(t)[i] = Tail(s)[i]
      BY <3>1, <3>2, <3>3
    <3> QED
      BY <3>1, <3>2, <3>4, SeqEqual
  <2>8. HaveIDs(t, "plot")
    BY <2>5, AnswersHaveIDs
  <2>9. IDs(t, "plot") = IDs(s, "plot")
    <3>1. Head(s).type # "plot" /\ Head(t).type # "plot"
      BY <1>2, <2>3, <2>6
    <3>2. s \in Seq(Answers) /\ s # <<>> /\ t \in Seq(Answers) /\ t # <<>>
      BY <1>1, <2>5, <2>6
    <3> HIDE DEF s, message
    <3> QED
      BY <1>3, <2>7, <2>8, <3>1, <3>2, IDsOfRest
  <2> QED
    BY <1>1, <2>4, <2>5, <2>9
<1> QED
  BY <1>5, <1>6

LEMMA OnInvPlotKeepsInv == ASSUME SyncInv, NEW p \in Peer, OnInvPlot(p) PROVE SyncInv'
<1> USE DEF SyncInv
<1> DEFINE message == Head(inbox[p])
           id == Head(message.ids)
           queue == link[p].download
           l == [link[p] EXCEPT !.download = Append(queue, id), !.pc = "drain"]
<1>1. /\ link[p] \in LinkType /\ link[p].conn # "down" /\ link[p].pc = "read"
      /\ inbox[p] # <<>> /\ message.type = "inv_plot"
  BY LinkIsTyped DEF OnInvPlot, IsNext, Reads
<1>2. id \in Plot
  <2>1. message \in Answers
    BY <1>1, FirstMessageIsTyped
  <2>2. message.ids \in Seq(Plot) /\ message.ids # <<>>
    BY <1>1, <2>1 DEF Answers
  <2> HIDE DEF message
  <2> QED
    BY <2>2, HeadTailProperties
<1>3. /\ inbox' \in [Peer -> Seq(Answers)]
      /\ \A q \in Peer \ {p} : inbox'[q] = inbox[q]
      /\ IDs(inbox'[p], "plot") = IDs(inbox[p], "plot")
  <2>1. \/ Consumed(p)
        \/ /\ Len(Head(inbox[p]).ids) # 1
           /\ inbox' = [inbox EXCEPT ![p][1].ids = Tail(@)]
    BY DEF OnInvPlot
  <2>2. IsNext(p, "inv_plot")
    BY DEF OnInvPlot
  <2> QED
    BY <2>1, <2>2, InventoryShrinks
<1>4. /\ outbox' \in [Peer -> Seq(Requests)]
      /\ \A q \in Peer \ {p} : outbox'[q] = outbox[q]
      /\ IDs(outbox'[p], "get_plot") = IDs(outbox[p], "get_plot")
  <2>1. SendFindCommonAncestor(p, id) \/ UNCHANGED outbox
    BY DEF OnInvPlot
  <2> QED
    BY <1>2, <2>1, AncestorRequestSent DEF LinksTypeOK
<1>5. \/ link' = link
      \/ Len(queue) < downloadQueueMax /\ link' = [link EXCEPT ![p] = l]
  BY DEF OnInvPlot
<1>6. queue \in Seq(Plot)
  BY <1>1 DEF LinkType
<1>7. Append(queue, id) \in Seq(Plot) /\ Len(Append(queue, id)) = Len(queue) + 1
  BY <1>2, <1>6, AppendProperties
<1> HIDE DEF id, message
<1>8. /\ l \in LinkType /\ l.inflight = link[p].inflight /\ l.download = Append(queue, id)
      /\ l.conn = link[p].conn /\ l.pc = "drain"
  BY <1>1, <1>7 DEF LinkType
<1> HIDE DEF l
<1>9. link' \in [Peer -> LinkType] /\ (\A q \in Peer \ {p} : link'[q] = link[q]) /\ link'[p] \in {link[p], l}
  BY <1>5, <1>8 DEF LinksTypeOK
<1>10. UNCHANGED <<owner, remoteTip>> /\ PlotsTypeOK'
  BY DEF OnInvPlot, PlotsTypeOK, ledgerVars, remoteVars
<1>11. LinksTypeOK' /\ RemoteTipsOnThread'
  BY <1>3, <1>4, <1>9, <1>10 DEF LinksTypeOK, RemoteTipsOnThread
<1>12. ReaderOK(p)'
  <2>1. CASE link' = link
    BY <1>1, <2>1 DEF ReaderOK
  <2>2. CASE Len(queue) < downloadQueueMax /\ link' = [link EXCEPT ![p] = l]
    <3>1. link'[p] = l
      BY <2>2 DEF LinksTypeOK
    <3>2. Len(queue) \in Nat /\ downloadQueueMax \in Nat
      BY <1>6, PeerSyncAssumption, LenProperties
    <3>3. Len(l.download) <= downloadQueueMax
      BY <1>7, <1>8, <2>2, <3>2
    <3> HIDE DEF queue
    <3> QED
      BY <1>1, <1>8, <3>1, <3>3 DEF ReaderOK
  <2> QED
    BY <1>5, <2>1, <2>2
<1>13. Expected(p)'
  BY <1>3, <1>4, <1>8, <1>9 DEF Expected
<1>14. OwnersDownload'
  BY <1>8, <1>9, <1>10, OwnersStay
<1> QED
  BY <1>3, <1>4, <1>9, <1>10, <1>11, <1>12, <1>13, <1>14, OneConnection


\* The first message is a plot in flight: it leaves both, and the next plots follow.
LEMMA PlotHandled ==
    ASSUME SyncInv, NEW p \in Peer, inbox[p] # <<>>, Head(inbox[p]).type = "plot",
           link[p].conn # "down",
           Removed(p, Head(inbox[p]).id), Consumed(p), UNCHANGED remoteTip, PlotsTypeOK',
           outbox' \in [Peer -> Seq(Requests)],
           \A q \in Peer \ {p} : outbox'[q] = outbox[q],
           IDs(outbox'[p], "get_plot") = IDs(outbox[p], "get_plot")
    PROVE  SyncInv'
<1> USE DEF SyncInv
<1> DEFINE id == Head(inbox[p]).id
           flight == link[p].inflight
           rest == Tail(inbox[p])
           answers == IDs(rest, "plot")
           asked == IDs(outbox[p], "get_plot")
           l == [link[p] EXCEPT !.inflight = RemoveFirst(flight, id), !.pc = "drain"]
<1>1. /\ inbox \in [Peer -> Seq(Answers)] /\ inbox[p] \in Seq(Answers) /\ outbox[p] \in Seq(Requests)
      /\ rest \in Seq(Answers) /\ id \in Plot
  BY FirstMessageIsTyped DEF LinksTypeOK
<1>2. IDs(inbox[p], "plot") = <<id>> \o answers /\ answers \in Seq(Plot) /\ asked \in Seq(Plot)
  <2>1. IDs(inbox[p], "plot") = <<id>> \o answers
    BY <1>1, AnswersHaveIDs, IDsOfTail
  <2> QED
    BY <1>1, <2>1, AnswersHaveIDs, RequestsHaveIDs, IDsType, LenProperties
<1>3. flight = (<<id>> \o answers) \o asked
  BY <1>2 DEF Expected
<1>4. link' = [link EXCEPT ![p] = l] /\ owner' = [owner EXCEPT ![id] = IF @ = p THEN None ELSE @]
  BY DEF Removed
<1>5. inbox' = [inbox EXCEPT ![p] = rest]
  BY DEF Consumed
<1> HIDE DEF id, answers, asked, rest
<1>6. flight \in Seq(Plot) /\ flight # <<>> /\ Head(flight) = id /\ Tail(flight) = answers \o asked
  <2> DEFINE first == <<id>>
             others == answers \o asked
  <2>1. first \in Seq(Plot) /\ Len(first) = 1 /\ first[1] = id
    BY <1>1
  <2> HIDE DEF first
  <2>2. (first \o answers) \o asked = first \o others /\ others \in Seq(Plot)
    BY <1>2, <2>1, ConcatAssociative, ConcatProperties
  <2> HIDE DEF others
  <2>3. flight = first \o others
    BY <1>3, <2>2 DEF first, others
  <2> HIDE DEF flight
  <2>4. Len(others) \in Nat
    BY <2>2, LenProperties
  <2>5. /\ flight \in Seq(Plot) /\ Len(flight) = 1 + Len(others)
        /\ \A i \in 1 .. 1 + Len(others) : flight[i] = IF i <= 1 THEN first[i] ELSE others[i - 1]
    <3>1. /\ first \o others \in Seq(Plot) /\ Len(first \o others) = Len(first) + Len(others)
          /\ \A i \in 1 .. Len(first) + Len(others) :
               (first \o others)[i] = IF i <= Len(first) THEN first[i] ELSE others[i - Len(first)]
      BY <2>1, <2>2, ConcatProperties
    <3> QED
      BY <2>1, <2>3, <3>1
  <2>6. flight # <<>> /\ Head(flight) = id
    BY <2>1, <2>4, <2>5
  <2>7. Tail(flight) = others
    <3>1. /\ Tail(flight) \in Seq(Plot) /\ Len(Tail(flight)) = Len(others)
          /\ \A i \in 1..Len(Tail(flight)) : Tail(flight)[i] = flight[i+1]
      BY <2>4, <2>5, <2>6, HeadTailProperties
    <3>2. ASSUME NEW i \in 1..Len(others) PROVE flight[i+1] = others[i]
      <4>1. i + 1 \in 1 .. 1 + Len(others) /\ ~(i + 1 <= 1) /\ i + 1 - 1 = i
        BY <2>4
      <4>2. flight[i+1] = IF i + 1 <= 1 THEN first[i+1] ELSE others[i + 1 - 1]
        BY <2>5, <4>1
      <4> QED
        BY <4>1, <4>2
    <3>3. \A i \in 1..Len(Tail(flight)) : Tail(flight)[i] = others[i]
      BY <3>1, <3>2
    <3> QED
      BY <2>2, <3>1, <3>3, SeqEqual
  <2> QED
    BY <2>5, <2>6, <2>7 DEF others
<1>7. RemoveFirst(flight, id) = Tail(flight) /\ Tail(flight) \in Seq(Plot) /\ Len(Tail(flight)) = Len(flight) - 1
  BY <1>6, RemoveFirstIsTail, HeadTailProperties
<1>8. link[p] \in LinkType
  BY LinkIsTyped
<1>9. /\ l \in LinkType /\ l.conn = link[p].conn /\ l.pc = "drain"
      /\ l.download = link[p].download /\ l.inflight = Tail(flight)
  BY <1>7, <1>8 DEF LinkType
<1> HIDE DEF l
<1>10. link' \in [Peer -> LinkType] /\ link'[p] = l /\ \A q \in Peer \ {p} : link'[q] = link[q]
  BY <1>4, <1>9 DEF LinksTypeOK
<1>11. inbox' \in [Peer -> Seq(Answers)] /\ inbox'[p] = rest /\ \A q \in Peer \ {p} : inbox'[q] = inbox[q]
  BY <1>1, <1>5
<1>12. LinksTypeOK' /\ RemoteTipsOnThread'
  BY <1>1, <1>4, <1>10, <1>11 DEF LinksTypeOK, RemoteTipsOnThread
<1>13. ReaderOK(p)'
  <2>1. Len(flight) <= inflightQueueMax /\ Len(flight) \in Nat /\ inflightQueueMax \in Nat
    BY <1>6, PeerSyncAssumption, LenProperties DEF ReaderOK
  <2>2. Len(link'[p].inflight) <= inflightQueueMax
    <3>1. Len(link'[p].inflight) = Len(flight) - 1
      BY <1>7, <1>9, <1>10
    <3> HIDE DEF flight
    <3> QED
      BY <2>1, <3>1
  <2> QED
    BY <1>9, <1>10, <2>2 DEF ReaderOK
<1>14. Expected(p)'
  BY <1>6, <1>9, <1>10, <1>11 DEF Expected, answers, asked
<1>15. OwnersDownload'
  <2> SUFFICES ASSUME NEW other \in Plot, owner'[other] # None
               PROVE  other \in Range(link'[owner'[other]].inflight)
    BY DEF OwnersDownload
  <2>1. owner'[other] = owner[other] /\ ~(other = id /\ owner[other] = p)
    BY <1>1, <1>4 DEF LinksTypeOK
  <2>2. other \in Range(link[owner[other]].inflight) /\ owner[other] \in Peer
    BY <2>1 DEF OwnersDownload, LinksTypeOK
  <2>3. CASE owner[other] = p
    <3>1. other \in Range(flight) /\ other # Head(flight)
      BY <1>6, <2>1, <2>2, <2>3
    <3> HIDE DEF flight
    <3>2. PICK i \in 1..Len(flight) : flight[i] = other
      BY <1>6, <3>1, RangeEquality
    <3>3. i # 1 /\ Len(flight) \in Nat /\ Head(flight) = flight[1]
      BY <1>6, <3>1, <3>2, LenProperties
    <3>4. i - 1 \in 1..Len(Tail(flight)) /\ Tail(flight)[i - 1] = flight[i]
      <4>1. \A k \in 1 .. Len(Tail(flight)) : Tail(flight)[k] = flight[k+1]
        BY <1>6, HeadTailProperties
      <4>2. i - 1 \in 1..Len(Tail(flight)) /\ (i - 1) + 1 = i
        BY <1>7, <3>3
      <4> QED
        BY <4>1, <4>2
    <3>5. other \in Range(Tail(flight))
      BY <1>7, <3>2, <3>4, RangeEquality
    <3> QED
      BY <1>9, <1>10, <2>1, <2>3, <3>5
  <2>4. CASE owner[other] # p
    BY <1>10, <2>1, <2>2, <2>4
  <2> QED
    BY <2>3, <2>4
<1> QED
  BY <1>10, <1>11, <1>12, <1>13, <1>14, <1>15, OneConnection

LEMMA OnPlotKeepsInv == ASSUME SyncInv, NEW p \in Peer, OnPlot(p) PROVE SyncInv'
<1> DEFINE id == Head(inbox[p]).id
<1>1. /\ inbox[p] # <<>> /\ Head(inbox[p]).type = "plot"
      /\ link[p].conn # "down" /\ link[p].pc = "read" /\ link[p] \in LinkType
  BY LinkIsTyped DEF OnPlot, IsNext, Reads
<1>2. PlotsTypeOK'
  BY DEF OnPlot, SyncInv, PlotsTypeOK, ledgerVars
<1>3. CASE IsUnrequested(p, id)
  BY <1>2, <1>3, ClosedKeepsInv DEF OnPlot
<1>4. CASE ~IsUnrequested(p, id) /\ IsOrphan(id)
  <2>1. /\ Removed(p, Head(inbox[p]).id) /\ SendFindCommonAncestor(p, tip)
        /\ Consumed(p) /\ UNCHANGED remoteVars
    BY <1>4 DEF OnPlot
  <2>2. tip \in Plot
    BY DEF SyncInv, PlotsTypeOK
  <2>3. /\ outbox' \in [Peer -> Seq(Requests)]
        /\ \A q \in Peer \ {p} : outbox'[q] = outbox[q]
        /\ IDs(outbox'[p], "get_plot") = IDs(outbox[p], "get_plot")
    BY <2>1, <2>2, AncestorRequestSent
  <2> QED
    BY <1>1, <1>2, <2>1, <2>3, PlotHandled DEF remoteVars
<1>5. CASE ~IsUnrequested(p, id) /\ ~IsOrphan(id)
  <2> DEFINE l == [link[p] EXCEPT !.pc = "process"]
  <2>1. /\ l \in LinkType /\ l.conn = link[p].conn /\ l.pc = "process"
        /\ l.inflight = link[p].inflight /\ l.download = link[p].download
    BY <1>1 DEF LinkType
  <2>2. link' = [link EXCEPT ![p] = l] /\ UNCHANGED <<inbox, outbox, owner, remoteTip>>
    BY <1>5 DEF OnPlot, remoteVars
  <2> HIDE DEF l
  <2>3. link'[p] = l
    BY <2>2 DEF SyncInv, LinksTypeOK
  <2>4. ReaderOK(p)'
    BY <1>1, <2>1, <2>2, <2>3 DEF SyncInv, ReaderOK
  <2> QED
    BY <1>2, <2>1, <2>2, <2>4, QuietStep
<1> QED
  BY <1>3, <1>4, <1>5

LEMMA ProcessPlotKeepsInv == ASSUME SyncInv, NEW p \in Peer, ProcessPlot(p) PROVE SyncInv'
<1> DEFINE id == Head(inbox[p]).id
           accepted == id \in known \/ (Previous[id] \in known /\ id \notin Invalid)
<1>1. /\ inbox[p] # <<>> /\ Head(inbox[p]).type = "plot"
      /\ link[p].conn # "down" /\ link[p].pc = "process" /\ link[p] \in LinkType
  BY LinkIsTyped DEF ProcessPlot, SyncInv, ReaderOK
<1>2. id \in Plot
  BY <1>1, FirstMessageIsTyped
<1>3. CASE accepted
  <2> DEFINE l == [link[p] EXCEPT !.pc = "remove"]
  <2>1. /\ l \in LinkType /\ l.conn = link[p].conn /\ l.pc = "remove"
        /\ l.inflight = link[p].inflight /\ l.download = link[p].download
    BY <1>1 DEF LinkType
  <2>2. /\ link' = [link EXCEPT ![p] = l] /\ UNCHANGED <<inbox, outbox, owner, remoteTip>>
        /\ known' = known \cup {id} /\ stored' = stored \cup {id} /\ tip' \in {id, tip}
    BY <1>3 DEF ProcessPlot, remoteVars
  <2> HIDE DEF l
  <2>3. link'[p] = l
    BY <2>2 DEF SyncInv, LinksTypeOK
  <2>4. ReaderOK(p)'
    BY <1>1, <2>1, <2>2, <2>3 DEF SyncInv, ReaderOK
  <2>5. PlotsTypeOK'
    BY <1>2, <2>2 DEF SyncInv, PlotsTypeOK
  <2> QED
    BY <2>1, <2>2, <2>4, <2>5, QuietStep
<1>4. CASE ~accepted
  <2>1. /\ stored' \in {stored} \cup (IF id \in Invalid THEN {stored \cup {id}} ELSE {})
        /\ Closed(p) /\ UNCHANGED <<known, tip>>
    BY <1>4 DEF ProcessPlot
  <2>2. PlotsTypeOK'
    BY <1>2, <2>1 DEF SyncInv, PlotsTypeOK
  <2> QED
    BY <2>1, <2>2, ClosedKeepsInv
<1> QED
  BY <1>3, <1>4

LEMMA RemoveProcessedKeepsInv == ASSUME SyncInv, NEW p \in Peer, RemoveProcessed(p) PROVE SyncInv'
<1>1. /\ inbox[p] # <<>> /\ Head(inbox[p]).type = "plot" /\ link[p].conn # "down"
  BY LinkIsTyped DEF RemoveProcessed, SyncInv, ReaderOK
<1>2. PlotsTypeOK' /\ UNCHANGED <<outbox, remoteTip>>
  BY DEF RemoveProcessed, SyncInv, PlotsTypeOK, ledgerVars, remoteVars
<1>3. outbox' \in [Peer -> Seq(Requests)]
  BY <1>2 DEF SyncInv, LinksTypeOK
<1>4. Removed(p, Head(inbox[p]).id) /\ Consumed(p)
  BY DEF RemoveProcessed
<1>5. /\ \A q \in Peer \ {p} : outbox'[q] = outbox[q]
      /\ IDs(outbox'[p], "get_plot") = IDs(outbox[p], "get_plot")
  BY <1>2
<1> QED
  BY <1>1, <1>2, <1>3, <1>4, <1>5, PlotHandled


\* Messages are delivered behind those that are on their way.
LEMMA AnswerDelivered ==
    ASSUME SyncInv, NEW p \in Peer, NEW message \in Answers, NEW s \in Seq(Answers)
    PROVE  /\ s \o <<message>> \in Seq(Answers)
           /\ s # <<>> => s \o <<message>> # <<>> /\ Head(s \o <<message>>) = Head(s)
           /\ IDs(s \o <<message>>, "plot") =
                IF message.type = "plot" THEN Append(IDs(s, "plot"), message.id) ELSE IDs(s, "plot")
<1>1. Append(s, message) = s \o <<message>>
  BY AppendIsConcat
<1>2. Append(s, message) \in Seq(Answers) /\ Append(s, message) # <<>>
  BY AppendProperties
<1>3. s # <<>> => Head(Append(s, message)) = Head(s)
  BY HeadTailAppend
<1>4. IDs(Append(s, message), "plot") =
        IF message.type = "plot" THEN Append(IDs(s, "plot"), message.id) ELSE IDs(s, "plot")
  BY IDsOfAppend
<1> QED
  BY <1>1, <1>2, <1>3, <1>4

\* Only messages move, those to this end behind what the reader looks at.
LEMMA OtherEndStep ==
    ASSUME SyncInv, NEW p \in Peer, UNCHANGED <<ledgerVars, owner, link>>,
           inbox' \in [Peer -> Seq(Answers)], outbox' \in [Peer -> Seq(Requests)],
           \A q \in Peer \ {p} : inbox'[q] = inbox[q] /\ outbox'[q] = outbox[q],
           inbox[p] # <<>> => inbox'[p] # <<>> /\ Head(inbox'[p]) = Head(inbox[p]),
           RemoteTipsOnThread',
           IDs(inbox'[p], "plot") \o IDs(outbox'[p], "get_plot")
             = IDs(inbox[p], "plot") \o IDs(outbox[p], "get_plot")
    PROVE  SyncInv'
<1> USE DEF SyncInv
<1>1. PlotsTypeOK' /\ link' = link /\ owner' = owner
  BY DEF PlotsTypeOK, ledgerVars
<1>2. LinksTypeOK'
  BY <1>1 DEF LinksTypeOK
<1>3. ReaderOK(p)'
  BY <1>1 DEF ReaderOK
<1>4. Expected(p)'
  BY <1>1 DEF Expected
<1>5. OwnersDownload'
  BY <1>1, OwnersStay
<1> QED
  BY <1>1, <1>2, <1>3, <1>4, <1>5, OneConnection

LEMMA NewRemoteTipKeepsInv == ASSUME SyncInv, NEW p \in Peer, NewRemoteTip(p) PROVE SyncInv'
<1> USE DEF SyncInv
<1> DEFINE final == ThreadTo[FinalRemoteTip[p]]
           place == Height(remoteTip[p]) + 2
           new == final[place]
<1>1. FinalRemoteTip[p] \in Plot /\ remoteTip[p] \in Plot /\ remoteTip[p] \in Range(final)
  BY PeerSyncAssumption DEF RemoteTipsOnThread
<1>2. final \in Seq(Plot) /\ Len(final) \in Nat
  BY <1>1, ThreadType, LenProperties
<1>3. place \in 1..Len(final)
  <2>1. PICK n \in 1..Len(final) : final[n] = remoteTip[p]
    BY <1>1, <1>2, RangeEquality
  <2>2. Height(remoteTip[p]) = n - 1
    BY <1>1, <2>1, ThreadIsInPlace DEF InPlace
  <2>3. final[Len(final)] = FinalRemoteTip[p]
    <3>1. CASE FinalRemoteTip[p] = Genesis
      BY <3>1, ThreadAssumption
    <3>2. CASE FinalRemoteTip[p] # Genesis
      <4>1. FinalRemoteTip[p] \in Plot \ {Genesis}
        BY <1>1, <3>2
      <4> QED
        BY <4>1, ThreadStep
    <3> QED
      BY <3>1, <3>2
  <2>4. n # Len(final)
    BY <2>1, <2>3 DEF NewRemoteTip
  <2> HIDE DEF final
  <2> QED
    BY <1>2, <2>1, <2>2, <2>4
<1>4. new \in Plot /\ new \in Range(final)
  <2> HIDE DEF final, place
  <2> QED
    BY <1>2, <1>3, ElementOfSeq, RangeEquality
<1>5. remoteTip' = [remoteTip EXCEPT ![p] = new]
  BY DEF NewRemoteTip
<1>6. \/ UNCHANGED inbox
      \/ inbox' = [inbox EXCEPT ![p] = @ \o <<Inv(<<new>>, 1)>>]
  BY DEF NewRemoteTip, Deliver
<1> HIDE DEF new
<1>7. RemoteTipsOnThread'
  BY <1>4, <1>5 DEF RemoteTipsOnThread
<1>8. inbox \in [Peer -> Seq(Answers)] /\ inbox[p] \in Seq(Answers) /\ outbox \in [Peer -> Seq(Requests)]
  BY DEF LinksTypeOK
<1> DEFINE message == Inv(<<new>>, 1)
<1>9. message \in Answers /\ message.type # "plot"
  <2> DEFINE ids == <<new>>
  <2>1. ids \in Seq(Plot) \ {<<>>}
    BY <1>4
  <2> HIDE DEF ids
  <2>2. Inv(ids, 1) \in Answers /\ Inv(ids, 1).type # "plot"
    BY <2>1 DEF Inv, Answers
  <2> QED
    BY <2>2 DEF ids
<1> HIDE DEF message
<1>10. /\ inbox' \in [Peer -> Seq(Answers)]
       /\ \A q \in Peer \ {p} : inbox'[q] = inbox[q]
       /\ inbox[p] # <<>> => inbox'[p] # <<>> /\ Head(inbox'[p]) = Head(inbox[p])
       /\ IDs(inbox'[p], "plot") = IDs(inbox[p], "plot")
  <2>1. CASE UNCHANGED inbox
    BY <1>8, <2>1
  <2>2. CASE inbox' = [inbox EXCEPT ![p] = inbox[p] \o <<message>>]
    BY <1>8, <1>9, <2>2, AnswerDelivered
  <2> QED
    BY <1>6, <2>1, <2>2 DEF message
<1>11. UNCHANGED <<ledgerVars, owner, link>> /\ outbox' = outbox
  BY DEF NewRemoteTip
<1> QED
  BY <1>7, <1>8, <1>10, <1>11, OtherEndStep

LEMMA PairIsConcat ==
    ASSUME NEW S, NEW a \in S, NEW b \in S
    PROVE  <<a, b>> = <<a>> \o <<b>>
<1>1. /\ <<a>> \in Seq(S) /\ <<b>> \in Seq(S) /\ <<a, b>> \in Seq(S)
      /\ Len(<<a>>) = 1 /\ Len(<<b>>) = 1 /\ Len(<<a, b>>) = 2
  OBVIOUS
<1>2. /\ <<a>> \o <<b>> \in Seq(S) /\ Len(<<a>> \o <<b>>) = 2
      /\ \A i \in 1..2 : (<<a>> \o <<b>>)[i] = IF i <= 1 THEN <<a>>[i] ELSE <<b>>[i-1]
  BY <1>1, ConcatProperties
<1>3. (<<a>> \o <<b>>)[1] = a /\ (<<a>> \o <<b>>)[2] = b
  BY <1>2
<1> DEFINE s == <<a, b>>
           t == <<a>> \o <<b>>
<1>4. s[1] = a /\ s[2] = b /\ t[1] = a /\ t[2] = b
  BY <1>3
<1>5. s \in Seq(S) /\ t \in Seq(S) /\ Len(s) = 2 /\ Len(t) = 2
  BY <1>1, <1>2
<1> HIDE DEF s, t
<1>6. \A i \in 1..2 : i = 1 \/ i = 2
  OBVIOUS
<1>7. s = t
  BY <1>4, <1>5, <1>6, SeqEqual
<1> QED
  BY <1>7 DEF s, t

LEMMA AnswerKeepsInv == ASSUME SyncInv, NEW p \in Peer, Answer(p) PROVE SyncInv'
<1> USE DEF SyncInv
<1> DEFINE message == Head(outbox[p])
           rest == Tail(outbox[p])
<1>1. /\ inbox \in [Peer -> Seq(Answers)] /\ inbox[p] \in Seq(Answers)
      /\ outbox \in [Peer -> Seq(Requests)] /\ outbox[p] \in Seq(Requests) /\ outbox[p] # <<>>
  BY DEF LinksTypeOK, Answer
<1>2. message \in Requests /\ rest \in Seq(Requests)
  BY <1>1, HeadTailProperties
<1>3. outbox' = [outbox EXCEPT ![p] = rest] /\ UNCHANGED <<ledgerVars, owner, link, remoteTip>>
  BY DEF Answer
<1>4. RemoteTipsOnThread' /\ remoteTip[p] \in Plot
  BY <1>3 DEF RemoteTipsOnThread
<1> DEFINE asked == IDs(rest, "get_plot")
           answers == IDs(inbox[p], "plot")
<1>5. /\ asked \in Seq(Plot) /\ answers \in Seq(Plot)
      /\ IDs(outbox[p], "get_plot") = IF message.type = "get_plot" THEN <<message.id>> \o asked ELSE asked
  <2>1. /\ HaveIDs(outbox[p], "get_plot") /\ HaveIDs(rest, "get_plot") /\ HaveIDs(inbox[p], "plot")
        /\ Len(rest) \in Nat /\ Len(inbox[p]) \in Nat
    BY <1>1, <1>2, AnswersHaveIDs, RequestsHaveIDs, LenProperties
  <2> QED
    BY <1>1, <2>1, IDsType, IDsOfTail
<1>6. outbox' \in [Peer -> Seq(Requests)] /\ outbox'[p] = rest /\ \A q \in Peer \ {p} : outbox'[q] = outbox[q]
  BY <1>1, <1>2, <1>3
<1>7. CASE message.type = "get_plot"
  <2> DEFINE id == message.id
             plot == PlotMessage(id)
             hint == Inv(<<remoteTip[p]>>, 1)
             s == inbox[p] \o <<plot>>
  <2>1. id \in Plot
    BY <1>2, <1>7 DEF Requests
  <2>2. OnGetPlot(p, id)
    BY <1>7 DEF Answer
  <2>3. inbox' = [inbox EXCEPT ![p] = s] \/ inbox' = [inbox EXCEPT ![p] = inbox[p] \o <<plot, hint>>]
    BY <2>2 DEF OnGetPlot, Deliver
  <2> HIDE DEF id
  <2>4. plot \in Answers /\ plot.type = "plot" /\ plot.id = id
    BY <2>1 DEF PlotMessage, Answers
  <2>5. hint \in Answers /\ hint.type # "plot"
    <3> DEFINE ids == <<remoteTip[p]>>
    <3>1. ids \in Seq(Plot) \ {<<>>}
      BY <1>4
    <3> HIDE DEF ids
    <3>2. Inv(ids, 1) \in Answers /\ Inv(ids, 1).type # "plot"
      BY <3>1 DEF Inv, Answers
    <3> QED
      BY <3>2 DEF ids
  <2> HIDE DEF plot, hint, s
  <2>6. inbox[p] \o <<plot, hint>> = s \o <<hint>>
    <3> DEFINE queue == inbox[p]
               first == <<plot>>
               last == <<hint>>
    <3>1. queue \in Seq(Answers) /\ first \in Seq(Answers) /\ last \in Seq(Answers)
      BY <1>1, <2>4, <2>5
    <3>2. <<plot, hint>> = first \o last
      BY <2>4, <2>5, PairIsConcat
    <3> HIDE DEF queue, first, last
    <3>3. (queue \o first) \o last = queue \o (first \o last)
      BY <3>1, ConcatAssociative
    <3> QED
      BY <3>2, <3>3 DEF queue, first, last, s
  <2>7. /\ s \in Seq(Answers) /\ IDs(s, "plot") = Append(answers, id) /\ s # <<>>
        /\ inbox[p] # <<>> => Head(s) = Head(inbox[p])
    <3>1. s # <<>>
      BY <1>1, <2>4, AppendIsConcat, AppendProperties DEF s
    <3> QED
      BY <1>1, <2>4, <3>1, AnswerDelivered DEF s
  <2>8. /\ s \o <<hint>> \in Seq(Answers) /\ IDs(s \o <<hint>>, "plot") = Append(answers, id)
        /\ s \o <<hint>> # <<>> /\ Head(s \o <<hint>>) = Head(s)
    BY <2>5, <2>7, AnswerDelivered
  <2>9. /\ inbox' \in [Peer -> Seq(Answers)] /\ (\A q \in Peer \ {p} : inbox'[q] = inbox[q])
        /\ inbox[p] # <<>> => inbox'[p] # <<>> /\ Head(inbox'[p]) = Head(inbox[p])
        /\ IDs(inbox'[p], "plot") = Append(answers, id)
    <3>1. CASE inbox' = [inbox EXCEPT ![p] = s]
      BY <1>1, <2>7, <3>1
    <3>2. CASE inbox' = [inbox EXCEPT ![p] = s \o <<hint>>]
      BY <1>1, <2>7, <2>8, <3>2
    <3> QED
      BY <2>3, <2>6, <3>1, <3>2
  <2>10. Append(answers, id) \o asked = answers \o IDs(outbox[p], "get_plot")
    <3> DEFINE new == <<id>>
    <3>1. new \in Seq(Plot) /\ Append(answers, id) = answers \o new
      BY <1>5, <2>1, AppendIsConcat
    <3>2. IDs(outbox[p], "get_plot") = new \o asked
      BY <1>5, <1>7 DEF id
    <3> HIDE DEF new, answers, asked
    <3>3. (answers \o new) \o asked = answers \o (new \o asked)
      BY <1>5, <3>1, ConcatAssociative
    <3> QED
      BY <3>1, <3>2, <3>3
  <2>11. IDs(inbox'[p], "plot") \o IDs(outbox'[p], "get_plot") = answers \o IDs(outbox[p], "get_plot")
    BY <1>6, <2>9, <2>10
  <2> QED
    BY <1>3, <1>4, <1>6, <2>9, <2>11, OtherEndStep
<1>8. CASE message.type # "get_plot"
  <2>1. message.ids \in Seq(Plot) /\ Genesis \in Range(message.ids)
    BY <1>2, <1>8 DEF Requests
  <2> DEFINE plots == PlotsAfter(p, message.ids)
             inventory == Inv(plots, Len(plots))
  <2>2. plots \in Seq(Plot)
    BY <1>4, <2>1, PlotsAfterType
  <2>3. \/ UNCHANGED inbox
        \/ plots # <<>> /\ inbox' = [inbox EXCEPT ![p] = inbox[p] \o <<inventory>>]
    BY <1>8 DEF Answer, OnFindCommonAncestor, Deliver
  <2> HIDE DEF plots
  <2>4. plots # <<>> => inventory \in Answers /\ inventory.type # "plot"
    <3>1. Len(plots) \in Nat
      BY <2>2, LenProperties
    <3> QED
      BY <2>2, <3>1 DEF Inv, Answers
  <2> HIDE DEF inventory
  <2>5. /\ inbox' \in [Peer -> Seq(Answers)] /\ (\A q \in Peer \ {p} : inbox'[q] = inbox[q])
        /\ inbox[p] # <<>> => inbox'[p] # <<>> /\ Head(inbox'[p]) = Head(inbox[p])
        /\ IDs(inbox'[p], "plot") = IDs(inbox[p], "plot")
    <3>1. CASE UNCHANGED inbox
      BY <1>1, <3>1
    <3>2. CASE plots # <<>> /\ inbox' = [inbox EXCEPT ![p] = inbox[p] \o <<inventory>>]
      BY <1>1, <2>4, <3>2, AnswerDelivered
    <3> QED
      BY <2>3, <3>1, <3>2
  <2>6. IDs(outbox'[p], "get_plot") = IDs(outbox[p], "get_plot")
    BY <1>5, <1>6, <1>8
  <2> QED
    BY <1>3, <1>4, <1>6, <2>5, <2>6, OtherEndStep
<1> QED
  BY <1>7, <1>8

LEMMA SyncInvInit == ASSUME Init PROVE SyncInv
<1> USE DEF Init
<1>1. PlotsTypeOK
  <2>1. InitialTip \in Plot
    BY PeerSyncAssumption
  <2>2. ThreadTo[InitialTip] \in Seq(Plot) /\ Range(ThreadTo[InitialTip]) \subseteq Plot
    BY <2>1, ThreadType, RangeOfSeq
  <2>3. InitialTip \in Range(ThreadTo[InitialTip])
    <3>1. CASE InitialTip = Genesis
      BY <2>1, <3>1, ThreadType
    <3>2. CASE InitialTip # Genesis
      <4> DEFINE n == Len(ThreadTo[InitialTip])
      <4>1. ThreadTo[InitialTip][n] = InitialTip /\ n \in Nat \ {0}
        BY <2>1, <3>2, ThreadStep, ThreadIsInPlace DEF InPlace
      <4>2. n \in 1..n
        BY <4>1
      <4> QED
        BY <2>2, <4>1, <4>2, RangeEquality
    <3> QED
      BY <3>1, <3>2
  <2> QED
    BY <2>2, <2>3 DEF PlotsTypeOK
<1>2. LinksTypeOK
  BY DEF LinksTypeOK, Down, LinkType
<1>3. RemoteTipsOnThread
  BY PeerSyncAssumption DEF RemoteTipsOnThread
<1>4. ASSUME NEW p \in Peer PROVE ReaderOK(p) /\ Expected(p)
  <2>1. link[p] = Down /\ inbox[p] = <<>> /\ outbox[p] = <<>>
    OBVIOUS
  <2>2. Down.inflight = <<>> /\ Down.download = <<>> /\ Down.pc = "read"
    BY DEF Down
  <2>3. Len(<<>>) = 0 /\ inflightQueueMax \in Nat /\ downloadQueueMax \in Nat /\ <<>> \o <<>> = <<>>
    BY PeerSyncAssumption
  <2> HIDE DEF Init
  <2>4. ReaderOK(p)
    BY <2>1, <2>2, <2>3 DEF ReaderOK
  <2>5. Expected(p)
    BY <2>1, <2>2, <2>3, IDsOfNone DEF Expected
  <2> QED
    BY <2>4, <2>5
<1>5. OwnersDownload
  BY DEF OwnersDownload
<1> QED
  BY <1>1, <1>2, <1>3, <1>4, <1>5 DEF SyncInv

LEMMA SyncInvNext == ASSUME SyncInv, [Next]_vars PROVE SyncInv'
<1>1. CASE UNCHANGED vars
  BY <1>1 DEF vars, ledgerVars, remoteVars, SyncInv, PlotsTypeOK, LinksTypeOK, RemoteTipsOnThread,
    ReaderOK, Expected, OwnersDownload
<1>2. ASSUME NEW p \in Peer, Lose(p) \/ SyncStalls(p) PROVE SyncInv'
  <2>1. Closed(p) /\ PlotsTypeOK'
    BY <1>2 DEF Lose, SyncStalls, SyncInv, PlotsTypeOK, ledgerVars
  <2> QED
    BY <2>1, ClosedKeepsInv
<1> QED
  BY <1>1, <1>2, ConnectKeepsInv, FirstRequestKeepsInv, PongKeepsInv, DrainKeepsInv, WaitKeepsInv,
     ClaimKeepsInv, OnInvPlotKeepsInv, OnPlotKeepsInv, ProcessPlotKeepsInv, RemoveProcessedKeepsInv,
     NewRemoteTipKeepsInv, AnswerKeepsInv
  DEF Next, ReadMessage, Work

----------------------------------------------------------------------------
(* The theorems *)

(* A connection's plots in flight are, in order, the answers on their way  *)
(* and the requests not yet answered: an honest answer is never taken for  *)
(* an unrequested plot.                                                    *)
THEOREM AnswersStayExpected == Spec => []AnswersAreExpected
<1>1. SyncInv => AnswersAreExpected
  BY DEF SyncInv, Expected, AnswersAreExpected
<1> QED
  BY <1>1, SyncInvInit, SyncInvNext, PTL DEF Spec

(* Whoever is the owner of a plot in the global queue has it in flight, so *)
(* a connection that is closed takes all it owned out of the queue.        *)
THEOREM OwnersAreDownloading == Spec => []OwnersDownload
<1>1. SyncInv => OwnersDownload
  BY DEF SyncInv
<1> QED
  BY <1>1, SyncInvInit, SyncInvNext, PTL DEF Spec

(* The types, and the limits of both queues of every connection.           *)
THEOREM SyncTypeCorrect == Spec => []TypeOK
<1>1. SyncInv => TypeOK
  BY DEF SyncInv, TypeOK, PlotsTypeOK, LinksTypeOK, RemoteTipsOnThread, ReaderOK
<1> QED
  BY <1>1, SyncInvInit, SyncInvNext, PTL DEF Spec
=============================================================================
