---------------------------- MODULE IndexerProofs ----------------------------
(***************************************************************************)
(* The indexer and the processor that it follows, for any tree of plots:   *)
(* the weights of the graph are those of the thread, the check for cycles  *)
(* sees the whole thread below a plot, and the ranking is of the tip.      *)
(*                                                                         *)
(* The argument counts links. The weight of an edge, corrected by the      *)
(* notices in hand, in the channel and being sent, is the number of its    *)
(* links on the part of the thread read so far, which is the whole thread  *)
(* from the registration on. A plot that comes or goes before it, once the *)
(* reading has begun, is unheard, and the edges it touches are let go.     *)
(*                                                                         *)
(* For the ranking, the last notice on its way is of the tip and says that *)
(* nothing follows - when the processor rests or is back at its old tip.   *)
(* Disconnecting alone never gets it back there, because the old tip was   *)
(* the best plot known.                                                    *)
(*                                                                         *)
(* For the cycles, every plot of the thread is drawn in the graph, on its  *)
(* way, unheard or still to be read; when nothing is, the graph has the    *)
(* thread, and what is reachable in a part is reachable in the graph.      *)
(***************************************************************************)
EXTENDS Indexer, ProcessorProofs

----------------------------------------------------------------------------
(* Reachability *)

OneEdgeFrom(g, S) == {e[2] : e \in {f \in g : f[1] \in S}}

Searches(reach, g, k, N) ==
    reach = [n \in 0..N |-> IF n = 0 THEN {k} ELSE reach[n-1] \cup OneEdgeFrom(g, reach[n-1])]

LEMMA SearchSteps ==
    ASSUME NEW g, NEW k, NEW N \in Nat, NEW reach, Searches(reach, g, k, N)
    PROVE  /\ reach[0] = {k}
           /\ \A n \in Nat : n + 1 <= N => reach[n+1] = reach[n] \cup OneEdgeFrom(g, reach[n])
<1> DEFINE Round(n) == IF n = 0 THEN {k} ELSE reach[n-1] \cup OneEdgeFrom(g, reach[n-1])
           all == [n \in 0..N |-> Round(n)]
<1>1. reach = all
  BY Zenon DEF Searches
<1> HIDE DEF Round
<1>2. all[0] = Round(0) /\ \A n \in Nat : n + 1 <= N => all[n+1] = Round(n+1)
  OBVIOUS
<1> HIDE DEF all
<1>3. reach[0] = Round(0) /\ \A n \in Nat : n + 1 <= N => reach[n+1] = Round(n+1)
  BY <1>1, <1>2
<1>4. Round(0) = {k}
  BY DEF Round
<1>5. ASSUME NEW n \in Nat PROVE Round(n+1) = reach[n] \cup OneEdgeFrom(g, reach[n])
  <2>1. n + 1 # 0 /\ n + 1 - 1 = n
    OBVIOUS
  <2> QED
    BY <2>1 DEF Round
<1> QED
  BY <1>3, <1>4, <1>5

LEMMA SearchExists ==
    ASSUME NEW g, NEW k, NEW N \in Nat
    PROVE  \E reach : Searches(reach, g, k, N)
<1> DEFINE A == {n \in Nat : \E reach : Searches(reach, g, k, n)}
<1>1. 0 \in A
  <2> DEFINE f == [n \in 0..0 |-> {k}]
  <2>1. Searches(f, g, k, 0)
    BY DEF Searches
  <2> QED
    BY <2>1
<1>2. ASSUME NEW n \in Nat, n \in A PROVE n + 1 \in A
  <2>1. PICK f : Searches(f, g, k, n)
    BY <1>2
  <2> DEFINE new == f[n] \cup OneEdgeFrom(g, f[n])
             h == [i \in 0..n+1 |-> IF i = n + 1 THEN new ELSE f[i]]
  <2>2. ASSUME NEW i \in 0..n+1
        PROVE  h[i] = IF i = 0 THEN {k} ELSE h[i-1] \cup OneEdgeFrom(g, h[i-1])
    <3>1. CASE i = n + 1
      <4>1. h[i] = new /\ h[i-1] = f[n] /\ i # 0
        BY <3>1
      <4> HIDE DEF h
      <4> QED
        BY <3>1, <4>1
    <3>2. CASE i \in 0..n
      <4>1. h[i] = f[i] /\ (i # 0 => h[i-1] = f[i-1])
        BY <3>2
      <4>2. f[i] = IF i = 0 THEN {k} ELSE f[i-1] \cup OneEdgeFrom(g, f[i-1])
        <5>1. f[0] = {k} /\ \A m \in Nat : m + 1 <= n => f[m+1] = f[m] \cup OneEdgeFrom(g, f[m])
          BY <2>1, SearchSteps
        <5>2. i # 0 => i - 1 \in Nat /\ (i - 1) + 1 = i /\ (i - 1) + 1 <= n
          BY <3>2
        <5> QED
          BY <5>1, <5>2
      <4> HIDE DEF h
      <4> QED
        BY <4>1, <4>2
    <3> QED
      BY <3>1, <3>2
  <2>3. Searches(h, g, k, n + 1)
    <3> DEFINE all == [i \in 0..n+1 |-> IF i = 0 THEN {k} ELSE h[i-1] \cup OneEdgeFrom(g, h[i-1])]
    <3>1. h = [i \in 0..n+1 |-> h[i]]
      OBVIOUS
    <3> HIDE DEF h
    <3>2. h = all
      BY <2>2, <3>1
    <3> QED
      BY <3>2 DEF Searches
  <2> QED
    BY <2>3
<1> HIDE DEF A
<1>3. Nat \subseteq A
  BY <1>1, <1>2, Induction
<1> QED
  BY <1>3 DEF A

\* The sets of keys found after each round of the search.
Rounds(reach, g, k) ==
    /\ reach[0] = {k}
    /\ \A n \in Nat : n + 1 <= Cardinality(Key) => reach[n+1] = reach[n] \cup OneEdgeFrom(g, reach[n])
    /\ Reachable(g, k) = reach[Cardinality(Key)]

LEMMA ReachableBySearch ==
    ASSUME NEW g, NEW k
    PROVE  \E reach : Rounds(reach, g, k)
<1> DEFINE N == Cardinality(Key)
           reach == CHOOSE reach : Searches(reach, g, k, N)
<1>1. N \in Nat
  BY GraphAssumption, FS_CardinalityType
<1>2. Searches(reach, g, k, N)
  BY <1>1, SearchExists
<1>3. Reachable(g, k) = reach[N]
  BY Zenon DEF Reachable, Searches, OneEdgeFrom
<1> HIDE DEF reach, N
<1>4. reach[0] = {k} /\ \A n \in Nat : n + 1 <= N => reach[n+1] = reach[n] \cup OneEdgeFrom(g, reach[n])
  BY <1>1, <1>2, SearchSteps
<1> QED
  BY <1>3, <1>4 DEF Rounds, N

\* More edges reach more.
LEMMA ReachableGrows ==
    ASSUME NEW g, NEW h, g \subseteq h, NEW k
    PROVE  Reachable(g, k) \subseteq Reachable(h, k)
<1>1. Cardinality(Key) \in Nat
  BY GraphAssumption, FS_CardinalityType
<1>2. PICK r : Rounds(r, g, k)
  BY ReachableBySearch
<1>3. PICK s : Rounds(s, h, k)
  BY ReachableBySearch
<1> DEFINE A == {n \in Nat : n <= Cardinality(Key) => r[n] \subseteq s[n]}
<1>4. 0 \in A
  BY <1>2, <1>3 DEF Rounds
<1>5. ASSUME NEW n \in Nat, n \in A PROVE n + 1 \in A
  <2> SUFFICES ASSUME n + 1 <= Cardinality(Key) PROVE r[n+1] \subseteq s[n+1]
    OBVIOUS
  <2>1. r[n] \subseteq s[n]
    BY <1>1, <1>5
  <2>2. OneEdgeFrom(g, r[n]) \subseteq OneEdgeFrom(h, s[n])
    BY <2>1 DEF OneEdgeFrom
  <2> QED
    BY <1>2, <1>3, <2>1, <2>2 DEF Rounds
<1> HIDE DEF A
<1>6. Nat \subseteq A
  BY <1>4, <1>5, Induction
<1> QED
  BY <1>1, <1>2, <1>3, <1>6 DEF A, Rounds

\* Nothing is reached but the start and the ends of edges.
LEMMA ReachableEnds ==
    ASSUME NEW g, NEW k
    PROVE  Reachable(g, k) \subseteq {k} \cup {e[2] : e \in g}
<1>1. Cardinality(Key) \in Nat
  BY GraphAssumption, FS_CardinalityType
<1>2. PICK r : Rounds(r, g, k)
  BY ReachableBySearch
<1> DEFINE All == {k} \cup {e[2] : e \in g}
           A == {n \in Nat : n <= Cardinality(Key) => r[n] \subseteq All}
<1>3. 0 \in A
  BY <1>2 DEF Rounds
<1>4. ASSUME NEW n \in Nat, n \in A PROVE n + 1 \in A
  <2> SUFFICES ASSUME n + 1 <= Cardinality(Key) PROVE r[n+1] \subseteq All
    OBVIOUS
  <2>1. r[n] \subseteq All /\ OneEdgeFrom(g, r[n]) \subseteq All
    BY <1>1, <1>4 DEF OneEdgeFrom
  <2> HIDE DEF All
  <2> QED
    BY <1>2, <2>1 DEF Rounds
<1> HIDE DEF A, All
<1>5. Nat \subseteq A
  BY <1>3, <1>4, Induction
<1> QED
  BY <1>1, <1>2, <1>5 DEF A, All, Rounds

LEMMA CyclesGrow ==
    ASSUME NEW g, NEW h, g \subseteq h, NEW parent, NEW descendant,
           IsParentDescendant(g, parent, descendant)
    PROVE  IsParentDescendant(h, parent, descendant)
<1>1. GraphKeys(g) \subseteq GraphKeys(h)
  BY DEF GraphKeys
<1> QED
  BY <1>1, ReachableGrows DEF IsParentDescendant

----------------------------------------------------------------------------
(* Counting links *)

\* The places below height n that link the keys of an edge.
LinkPlaces(index, n, e) == UNION {{h} \X LinksAt(index[h], e) : h \in 0..n-1}

CountTo(index, n, e) == Cardinality(LinkPlaces(index, n, e))

LEMMA LinksType ==
    ASSUME NEW p \in Plot, NEW e \in Edge
    PROVE  /\ IsFiniteSet(LinksAt(p, e))
           /\ LinksOf[p][e] = Cardinality(LinksAt(p, e))
           /\ LinksOf[p][e] \in Nat
<1>1. Representations[p] \in Seq(Representation)
  BY TreeAssumption
<1>2. LinksAt(p, e) \subseteq 1..Len(Representations[p]) /\ Len(Representations[p]) \in Nat
  BY <1>1 DEF LinksAt
<1>3. IsFiniteSet(LinksAt(p, e))
  <2>1. 1 \in Int /\ Len(Representations[p]) \in Int
    BY <1>2
  <2>2. IsFiniteSet(1..Len(Representations[p]))
    BY <2>1, FS_Interval
  <2> QED
    BY <1>2, <2>2, FS_Subset
<1>4. LinksOf[p][e] = Cardinality(LinksAt(p, e))
  BY DEF LinksOf
<1> QED
  BY <1>3, <1>4, FS_CardinalityType

LEMMA LinkPlacesMore ==
    ASSUME NEW index, NEW n \in Nat, NEW e
    PROVE  /\ LinkPlaces(index, 0, e) = {}
           /\ LinkPlaces(index, n + 1, e) = LinkPlaces(index, n, e) \cup ({n} \X LinksAt(index[n], e))
           /\ LinkPlaces(index, n, e) \cap ({n} \X LinksAt(index[n], e)) = {}
<1>1. 0..0-1 = {} /\ 0..(n+1)-1 = (0..n-1) \cup {n} /\ n \notin 0..n-1
  OBVIOUS
<1>2. LinkPlaces(index, 0, e) = {}
  BY <1>1 DEF LinkPlaces
<1>3. LinkPlaces(index, n + 1, e) = LinkPlaces(index, n, e) \cup ({n} \X LinksAt(index[n], e))
  <2> DEFINE P(h) == {h} \X LinksAt(index[h], e)
  <2>1. \A c : c \in LinkPlaces(index, n + 1, e) <=> \E h \in 0..(n+1)-1 : c \in P(h)
    BY DEF LinkPlaces
  <2>2. \A c : c \in LinkPlaces(index, n, e) <=> \E h \in 0..n-1 : c \in P(h)
    BY DEF LinkPlaces
  <2>3. LinkPlaces(index, n + 1, e) = LinkPlaces(index, n, e) \cup P(n)
    <3> HIDE DEF P
    <3> QED
      BY <1>1, <2>1, <2>2
  <2> QED
    BY <2>3
<1>4. LinkPlaces(index, n, e) \cap ({n} \X LinksAt(index[n], e)) = {}
  <2>1. \A c \in LinkPlaces(index, n, e) : c[1] \in 0..n-1
    BY DEF LinkPlaces
  <2> QED
    BY <1>1, <2>1
<1> QED
  BY <1>2, <1>3, <1>4

LEMMA LinkPlacesFinite ==
    ASSUME NEW index, NEW n \in Nat, NEW e \in Edge, \A h \in 0..n-1 : index[h] \in Plot
    PROVE  IsFiniteSet(LinkPlaces(index, n, e))
<1> DEFINE A == {m \in Nat : m <= n => IsFiniteSet(LinkPlaces(index, m, e))}
<1>1. 0 \in A
  BY LinkPlacesMore, FS_EmptySet
<1>2. ASSUME NEW m \in Nat, m \in A PROVE m + 1 \in A
  <2> SUFFICES ASSUME m + 1 <= n PROVE IsFiniteSet(LinkPlaces(index, m + 1, e))
    OBVIOUS
  <2>1. IsFiniteSet(LinkPlaces(index, m, e)) /\ index[m] \in Plot
    BY <1>2
  <2>2. IsFiniteSet({m}) /\ IsFiniteSet(LinksAt(index[m], e))
    BY <2>1, LinksType, FS_Singleton
  <2> DEFINE new == {m} \X LinksAt(index[m], e)
             old == LinkPlaces(index, m, e)
  <2>3. IsFiniteSet(new)
    BY <2>2, FS_Product
  <2>4. LinkPlaces(index, m + 1, e) = old \cup new
    BY LinkPlacesMore
  <2>5. IsFiniteSet(old)
    BY <2>1
  <2> HIDE DEF new, old
  <2>6. IsFiniteSet(old \cup new)
    BY <2>3, <2>5, FS_Union
  <2> QED
    BY <2>4, <2>6
<1> HIDE DEF A
<1>3. Nat \subseteq A
  BY <1>1, <1>2, Induction
<1> QED
  BY <1>3 DEF A

LEMMA CountNone == \A index, e : CountTo(index, 0, e) = 0
BY LinkPlacesMore, FS_EmptySet DEF CountTo

\* One more plot.
LEMMA CountMore ==
    ASSUME NEW index, NEW n \in Nat, NEW e \in Edge, \A h \in 0..n : index[h] \in Plot
    PROVE  /\ CountTo(index, n, e) \in Nat
           /\ LinksOf[index[n]][e] \in Nat
           /\ CountTo(index, n + 1, e) = CountTo(index, n, e) + LinksOf[index[n]][e]
<1> DEFINE new == {n} \X LinksAt(index[n], e)
<1>1. n \in 0..n /\ index[n] \in Plot /\ \A h \in 0..n-1 : index[h] \in Plot
  OBVIOUS
<1>2. IsFiniteSet(LinkPlaces(index, n, e))
  BY <1>1, LinkPlacesFinite
<1>3. /\ LinksOf[index[n]][e] \in Nat
      /\ LinksOf[index[n]][e] = Cardinality(LinksAt(index[n], e))
      /\ IsFiniteSet(LinksAt(index[n], e))
  BY <1>1, LinksType
<1>4. IsFiniteSet({n}) /\ Cardinality({n}) = 1
  BY FS_Singleton
<1>5. IsFiniteSet(new) /\ Cardinality(new) = 1 * Cardinality(LinksAt(index[n], e))
  BY <1>3, <1>4, FS_Product
<1>6. LinkPlaces(index, n + 1, e) = LinkPlaces(index, n, e) \cup new /\ LinkPlaces(index, n, e) \cap new = {}
  BY LinkPlacesMore
<1>7. Cardinality({}) = 0
  BY FS_EmptySet
<1> HIDE DEF new
<1>8. Cardinality(LinkPlaces(index, n + 1, e)) = Cardinality(LinkPlaces(index, n, e)) + Cardinality(new)
      /\ Cardinality(LinkPlaces(index, n, e)) \in Nat
  <2> DEFINE old == LinkPlaces(index, n, e)
             both == LinkPlaces(index, n + 1, e)
             common == old \cap new
  <2>1. IsFiniteSet(old) /\ both = old \cup new /\ common = {}
    BY <1>2, <1>6
  <2>2. Cardinality(old) \in Nat /\ Cardinality(new) \in Nat
    BY <1>5, <2>1, FS_CardinalityType
  <2> HIDE DEF old, both
  <2>3. Cardinality(old \cup new) = Cardinality(old) + Cardinality(new) - Cardinality(common)
    BY <1>5, <2>1, FS_Union
  <2>4. Cardinality(both) = Cardinality(old) + Cardinality(new) - 0
    BY <1>7, <2>1, <2>3
  <2>5. Cardinality(both) = Cardinality(old) + Cardinality(new)
    BY <2>2, <2>4
  <2> QED
    BY <2>2, <2>5 DEF old, both
<1> QED
  BY <1>3, <1>5, <1>8 DEF CountTo

\* Only the plots below n matter.
LEMMA CountSame ==
    ASSUME NEW index, NEW other, NEW n, NEW e, \A h \in 0..n-1 : index[h] = other[h]
    PROVE  CountTo(index, n, e) = CountTo(other, n, e)
<1>1. \A h \in 0..n-1 : {h} \X LinksAt(index[h], e) = {h} \X LinksAt(other[h], e)
  OBVIOUS
<1>2. LinkPlaces(index, n, e) = LinkPlaces(other, n, e)
  BY <1>1 DEF LinkPlaces
<1> QED
  BY <1>2 DEF CountTo

----------------------------------------------------------------------------
(* What a change of the thread means *)

LEMMA ThreadIsKnown ==
    ASSUME Located, Careful
    PROVE  /\ tip # None => tipHeight \in Nat /\ heightIndex[tipHeight] = tip
           /\ tipHeight \in Int /\ tipHeight >= -1
           /\ \A h \in 0..tipHeight : heightIndex[h] \in Known /\ heightIndex[h] \in Plot
           /\ tip # None => Ancestry[tip] = PlotsOfThread
<1>1. tipHeight \in Int /\ tipHeight >= -1
  BY DEF Located, ThreadTypeOK
<1>2. tip # None => tipHeight \in Nat /\ heightIndex[tipHeight] = tip
  BY <1>1 DEF Located, ThreadIsLinked
<1>3. ASSUME tip # None PROVE Ancestry[tip] = PlotsOfThread
  <2> DEFINE t == CurrentThread
  <2>1. Chained(t) /\ Len(t) >= 1 /\ t[Len(t)] = tip
    BY <1>3, ThreadIsChainedSequence
  <2>2. Len(t) = tipHeight + 1 /\ \A n \in 1..tipHeight + 1 : t[n] = heightIndex[n-1]
    BY ThreadIsSequence
  <2> HIDE DEF t
  <2>3. Len(t) \in 1..Len(t)
    BY <1>1, <2>1, <2>2
  <2>4. Ancestry[tip] = {t[i] : i \in 1..Len(t)}
    BY <2>1, <2>3, ChainedAncestry
  <2>5. \A n \in 1..tipHeight + 1 : n - 1 \in 0..tipHeight
    BY <1>1
  <2>6. \A h \in 0..tipHeight : h + 1 \in 1..tipHeight + 1 /\ heightIndex[h] = t[h+1]
    BY <1>1, <2>2
  <2>7. {t[i] : i \in 1..Len(t)} = PlotsOfThread
    BY <2>2, <2>5, <2>6 DEF PlotsOfThread
  <2> QED
    BY <2>4, <2>7
<1>4. ASSUME NEW h \in 0..tipHeight PROVE heightIndex[h] \in Known
  <2>1. tip # None
    BY <1>1, <1>4 DEF Located, ThreadIsLinked
  <2>2. tip \in Known /\ Known \subseteq Plot
        /\ \A q \in Known : Checked(q) /\ (q # Genesis => Previous[q] \in Known)
    BY <2>1 DEF Careful, LedgerIsKnown, Vetted, Known
  <2>3. Ancestry[tip] \subseteq Known
    BY <2>2, Walk
  <2> QED
    BY <1>3, <2>1, <2>3 DEF PlotsOfThread
<1> QED
  BY <1>1, <1>2, <1>3, <1>4 DEF Known

LEMMA KnownStays == Careful /\ [Next]_vars => Known \subseteq Known'
<1> SUFFICES ASSUME Careful, [Next]_vars PROVE Known \subseteq Known'
  OBVIOUS
<1>1. ASSUME UNCHANGED <<tip, branchType>> PROVE Known \subseteq Known'
  BY <1>1, KnownFrame DEF Careful
<1>2. ASSUME NEW now \in Clock, ProcessGenesis(now) PROVE Known \subseteq Known'
  BY <1>1, <1>2 DEF ProcessGenesis, ledgerVars
<1>3. ASSUME NEW p \in Plot, NEW now \in Clock, AcceptPlot(p, now) PROVE Known \subseteq Known'
  BY <1>1, <1>3 DEF AcceptPlot, ledgerVars
<1>4. CASE KeepTip
  BY <1>1, <1>4 DEF KeepTip, ledgerVars
<1>5. CASE FlagSideBranch
  <2>1. newPlot \in Plot /\ Vetted(newPlot) /\ tip # None /\ SetBranchType(newPlot, SIDE)
    BY <1>5 DEF Careful, WorkIsVetted, FlagSideBranch
  <2> QED
    BY <2>1, KnownFlag DEF Careful
<1>6. CASE ChooseNewThread
  BY <1>1, <1>6 DEF ChooseNewThread, ledgerVars
<1>7. CASE Disconnect
  <2>1. NextToDisconnect \in Plot \ {Genesis} /\ DisconnectPlot(NextToDisconnect)
    BY <1>7, NextIsOneOfThem DEF Disconnect, Careful, WorkIsVetted
  <2> QED
    BY <2>1, KnownDisconnect DEF Careful
<1>8. CASE Connect
  <2>1. /\ NextToConnect \in Plot /\ Checked(NextToConnect)
        /\ tip = None => NextToConnect = Genesis
        /\ ConnectPlot(NextToConnect)
    BY <1>8, NextIsOneOfThem DEF Connect, Careful, WorkIsVetted
  <2> QED
    BY <2>1, KnownConnect DEF Careful
<1>9. CASE ReconnectTip
  BY <1>1, <1>9 DEF ReconnectTip, ledgerVars
<1>10. CASE GiveUp
  BY <1>1, <1>10 DEF GiveUp, ledgerVars
<1>11. ASSUME NEW p \in Plot, Index(p) PROVE Known \subseteq Known'
  BY <1>1, <1>11 DEF Index, IndexLinks
<1>12. CASE Crash
  BY <1>1, <1>12 DEF Crash, LoseGraph
<1>13. CASE UNCHANGED vars
  BY <1>1, <1>13 DEF vars, ledgerVars
<1> QED
  BY <1>2, <1>3, <1>4, <1>5, <1>6, <1>7, <1>8, <1>9, <1>10, <1>11, <1>12, <1>13
  DEF Next, Step

----------------------------------------------------------------------------
(* What the indexer knows and what is still on its way to it *)

Notice == [plot : Known, connect : BOOLEAN, more : BOOLEAN]

Typed ==
    /\ weight \in [Edge -> Int]
    /\ doing \in {"wait", "read", "link", "rank", "register", "listen"}
    /\ nextHeight \in Nat
    /\ inHand \in Notice \cup {None}
    /\ tipChan \in Notice \cup {None}
    /\ outgoing \in Notice \cup {None}
    /\ latestPlotID \in Plot
    /\ registered \in BOOLEAN
    /\ unheard \subseteq Plot

\* Where the goroutine can be, and what it has when it is there.
Placed ==
    /\ doing = "link" <=> inHand # None
    /\ registered => doing \in {"listen", "link", "rank"}
    /\ doing = "listen" => registered
    /\ ~registered => tipChan = None /\ outgoing = None
    /\ doing = "wait" => /\ weight = NoWeight
                         /\ unheard = {}
                         /\ nextHeight = 0
                         /\ latestPlotID = Genesis
    /\ doing # "wait" => tip # None
    /\ doing = "register" => ranked = weight

\* What a notice adds to the weight of an edge.
Delta(change, e) ==
    IF change = None THEN 0
    ELSE IF change.connect THEN LinksOf[change.plot][e] ELSE 0 - LinksOf[change.plot][e]

Balance(e) == weight[e] + Delta(inHand, e) + Delta(tipChan, e) + Delta(outgoing, e)

Unaffected(e) == \A p \in unheard : LinksOf[p][e] = 0

IsReading == ~registered /\ doing \in {"wait", "read", "link"}

\* The number of plots of the thread that count so far.
ReadTo == IF IsReading /\ nextHeight <= tipHeight THEN nextHeight ELSE tipHeight + 1

Weighed == \A e \in Edge : Unaffected(e) => Balance(e) = CountTo(heightIndex, ReadTo, e)

LEMMA NoneIsNoNotice == None \notin Notice /\ \A c \in Notice : c.plot \in Known /\ c.plot \in Plot
BY IndexerAssumption DEF Notice, Known

LEMMA ChangeIsNotice ==
    ASSUME NEW p \in Known, NEW connect \in BOOLEAN, NEW more \in BOOLEAN
    PROVE  /\ Change(p, connect, more) \in Notice
           /\ Change(p, connect, more) # None
           /\ Change(p, connect, more).plot = p
           /\ Change(p, connect, more).connect = connect
           /\ Change(p, connect, more).more = more
<1>1. Change(p, connect, more) \in Notice
  BY DEF Change, Notice
<1> QED
  BY <1>1, NoneIsNoNotice DEF Change

LEMMA NewChangeIsNotice ==
    ASSUME NEW p \in Known', NEW connect \in BOOLEAN, NEW more \in BOOLEAN
    PROVE  /\ Change(p, connect, more) \in Notice'
           /\ Change(p, connect, more) # None
           /\ Change(p, connect, more).plot = p
           /\ Change(p, connect, more).connect = connect
           /\ Change(p, connect, more).more = more
<1>1. Change(p, connect, more) \in Notice'
  BY DEF Change, Notice
<1>2. p \in Plot
  BY DEF Known
<1>3. Change(p, connect, more) # None
  BY <1>2, IndexerAssumption DEF Change
<1> QED
  BY <1>1, <1>3 DEF Change

\* A link is taken into account or on its way, never both.
LEMMA LinkedType ==
    ASSUME NEW w \in [Edge -> Int], NEW c \in Notice
    PROVE  /\ Linked(w, c) \in [Edge -> Int]
           /\ \A e \in Edge : Linked(w, c)[e] = w[e] + Delta(c, e)
<1>1. c.plot \in Plot /\ c # None
  BY NoneIsNoNotice
<1>2. \A e \in Edge : LinksOf[c.plot][e] \in Nat /\ w[e] \in Int
  BY <1>1, LinksType
<1>3. ASSUME NEW e \in Edge PROVE Linked(w, c)[e] = w[e] + Delta(c, e) /\ Linked(w, c)[e] \in Int
  BY <1>1, <1>2 DEF Linked, Delta
<1>4. Linked(w, c) = [e \in Edge |-> Linked(w, c)[e]]
  BY DEF Linked
<1> QED
  BY <1>3, <1>4

LEMMA DeltaType ==
    ASSUME NEW c \in Notice \cup {None}, NEW e \in Edge
    PROVE  Delta(c, e) \in Int
<1>1. c # None => LinksOf[c.plot][e] \in Nat
  BY NoneIsNoNotice, LinksType
<1> QED
  BY <1>1 DEF Delta

LEMMA AwaitedIsBalance ==
    ASSUME Typed, NEW e \in Edge
    PROVE  Awaited(weight)[e] = Balance(e)
<1> DEFINE Hear(v, change) == IF change = None THEN v ELSE Linked(v, change)
<1>1. ASSUME NEW v \in [Edge -> Int], NEW c \in Notice \cup {None}
      PROVE  Hear(v, c) \in [Edge -> Int] /\ Hear(v, c)[e] = v[e] + Delta(c, e)
  <2>1. CASE c = None
    BY <2>1 DEF Delta
  <2>2. CASE c # None
    BY <2>2, LinkedType
  <2> QED
    BY <2>1, <2>2
<1>2. Awaited(weight) = Hear(Hear(Hear(weight, inHand), tipChan), outgoing)
  BY DEF Awaited
<1> HIDE DEF Hear
<1> QED
  BY <1>1, <1>2 DEF Typed, Balance

----------------------------------------------------------------------------
(* The steps of the whole, as steps of the processor *)

\* A step of the processor that leaves the thread and its graph alone.
Quiet ==
    /\ [Next]_vars
    /\ UNCHANGED <<tip, tipHeight, heightIndex, graph, channelVars, indexVars, unheard, unvetted>>

LEMMA QuietSteps ==
    /\ TakePlot => Quiet
    /\ Process => \/ Quiet
                  \/ /\ DisconnectAndNotify \/ ConnectAndNotify
                     /\ outgoing = None
                     /\ UNCHANGED <<registered, tipChan, indexVars>>
    /\ UNCHANGED indexerVars => Quiet
<1>1. TakePlot => Quiet
  BY DEF TakePlot, Quiet, Next, ProcessGenesis, AcceptPlot, ledgerVars, channelVars
<1>2. ASSUME Process, ~DisconnectAndNotify, ~ConnectAndNotify PROVE Quiet
  <2>1. /\ \/ KeepTip \/ FlagSideBranch \/ ChooseNewThread \/ ReconnectTip \/ GiveUp
        /\ UNCHANGED <<registered, tipChan, outgoing, indexVars, unheard, unvetted>>
    BY <1>2 DEF Process, Silently
  <2>2. UNCHANGED <<tip, tipHeight, heightIndex, graph>>
    BY <2>1 DEF KeepTip, FlagSideBranch, ChooseNewThread, ReconnectTip, GiveUp,
                SetBranchType, ledgerVars
  <2> QED
    BY <2>1, <2>2 DEF Quiet, Next, Step, channelVars
<1>3. Process => outgoing = None /\ UNCHANGED <<registered, tipChan, indexVars>>
  BY DEF Process
<1>4. UNCHANGED indexerVars => Quiet
  BY DEF indexerVars, Quiet, vars, ledgerVars, channelVars
<1> QED
  BY <1>1, <1>2, <1>3, <1>4

\* A step of the indexer's own changes nothing of the processor but the graph.
LEMMA IndexerSteps ==
    ASSUME Typed, Node
    PROVE  /\ SendTip => UNCHANGED vars
           /\ BeginIndexing \/ ReadHeight \/ RankGraph \/ RegisterForTipChange \/ TakeNotice =>
                UNCHANGED vars
           /\ IndexRepresentations /\ Placed =>
                /\ inHand \in Notice /\ Index(inHand.plot)
                /\ UNCHANGED <<tip, tipHeight, heightIndex>>
<1>1. SendTip => UNCHANGED vars
  BY DEF SendTip
<1>2. BeginIndexing \/ ReadHeight \/ RankGraph \/ RegisterForTipChange \/ TakeNotice =>
        UNCHANGED vars
  BY DEF BeginIndexing, ReadHeight, RankGraph, RegisterForTipChange, TakeNotice, IndexerOnly, vars
<1>3. ASSUME IndexRepresentations, Placed
      PROVE  /\ inHand \in Notice /\ Index(inHand.plot)
             /\ UNCHANGED <<tip, tipHeight, heightIndex>>
  <2>1. inHand \in Notice
    BY <1>3 DEF IndexRepresentations, Placed, Typed
  <2>2. inHand.plot \in Known
    BY <2>1, NoneIsNoNotice
  <2>3. branchType[inHand.plot] # UNKNOWN
    BY <2>2, KnownHaveType DEF GetBranchType
  <2>4. IndexLinks(Links(inHand.plot)) /\ UNCHANGED <<when, workVars, pastVars>>
    BY <1>3 DEF IndexRepresentations, IndexerOnly
  <2> QED
    BY <2>1, <2>3, <2>4 DEF Index, IndexLinks
<1> QED
  BY <1>1, <1>2, <1>3

\* The processor does not notice that it is followed.
LEMMA ProcessorSteps ==
    ASSUME Typed, Placed, Node, [IndexerNext]_indexerVars
    PROVE  [Next]_vars
<1>1. ASSUME Quiet PROVE [Next]_vars
  BY <1>1 DEF Quiet
<1>2. CASE TakePlot
  BY <1>1, <1>2, QuietSteps
<1>3. CASE Process
  <2>1. DisconnectAndNotify \/ ConnectAndNotify => Next
    BY DEF DisconnectAndNotify, ConnectAndNotify, Next, Step
  <2> QED
    BY <1>1, <1>3, <2>1, QuietSteps
<1>4. CASE SendTip
  BY <1>4, IndexerSteps
<1>5. CASE BeginIndexing
  BY <1>5, IndexerSteps
<1>6. CASE IndexerStep
  <2>1. CASE IndexRepresentations
    <3>1. inHand.plot \in Plot /\ Index(inHand.plot)
      BY <2>1, IndexerSteps, NoneIsNoNotice
    <3> QED
      BY <3>1 DEF Next
  <2> QED
    BY <1>6, <2>1, IndexerSteps DEF IndexerStep
<1>7. CASE RegisterForTipChange
  BY <1>7, IndexerSteps
<1>8. CASE CrashAndRestart
  BY <1>8 DEF CrashAndRestart, Next
<1>9. CASE UNCHANGED indexerVars
  BY <1>1, <1>9, QuietSteps
<1> QED
  BY <1>2, <1>3, <1>4, <1>5, <1>6, <1>7, <1>8, <1>9 DEF IndexerNext

\* The cases of a step, for the parts of the invariant below.
IndexSteps ==
    \/ SendTip
    \/ BeginIndexing
    \/ ReadHeight
    \/ IndexRepresentations
    \/ RankGraph
    \/ RegisterForTipChange
    \/ TakeNotice

NotifySteps ==
    /\ DisconnectAndNotify \/ ConnectAndNotify
    /\ outgoing = None
    /\ UNCHANGED <<registered, tipChan, indexVars>>

LEMMA StepKinds ==
    [IndexerNext]_indexerVars => Quiet \/ NotifySteps \/ IndexSteps \/ CrashAndRestart
BY QuietSteps DEF IndexerNext, NotifySteps, IndexSteps, IndexerStep

\* What disconnecting and connecting mean here.
DisconnectEffect ==
    /\ tip \in Known /\ tip \in Plot /\ tip # Genesis /\ tip' = Previous[tip]
    /\ Shrinks(tip)
    /\ outgoing' = IF registered THEN Change(tip, FALSE, FALSE) ELSE None
    /\ unheard' = IF registered \/ doing = "wait" THEN unheard ELSE unheard \cup {tip}
    /\ UNCHANGED <<graph, phase, oldTip, disturbed, unvetted>>
    /\ phase = "adjust"

ConnectEffect(p) ==
    /\ p = NextToConnect
    /\ p \in Plot /\ p \in Known'
    /\ tip # None => Previous[p] = tip /\ p # Genesis
    /\ CanConnect(p)
    /\ Grows(p) /\ tip' = p
    /\ outgoing' = IF registered THEN Change(p, TRUE, toConnect # {p}) ELSE None
    /\ unheard' = IF registered \/ doing = "wait" THEN unheard ELSE unheard \cup {p}
    /\ unvetted' = IF IsUpToDate THEN unvetted ELSE unvetted \cup {p}
    /\ UNCHANGED <<graph, disturbed>>
    /\ phase = "adjust"

LEMMA NotifyEffects ==
    ASSUME Node, NotifySteps
    PROVE  \/ DisconnectEffect /\ Disconnect
           \/ ConnectEffect(NextToConnect) /\ Connect
<1>1. Located /\ Careful /\ Rollback
  BY NodeIsLocated
<1>2. CASE DisconnectAndNotify
  <2>1. Disconnect /\ Notify(NextToDisconnect, FALSE, FALSE) /\ UNCHANGED unvetted
    BY <1>2 DEF DisconnectAndNotify
  <2>2. /\ NextToDisconnect = tip
        /\ tip \in Known /\ tip \in Plot /\ tip # Genesis
        /\ Shrinks(tip) /\ tip' = Previous[tip]
        /\ UNCHANGED <<graph, phase, oldTip, disturbed>> /\ phase = "adjust"
    BY <1>1, <2>1, DisconnectShrinks
  <2>3. Notify(tip, FALSE, FALSE)
    BY <2>1, <2>2
  <2>4. DisconnectEffect
    BY <2>1, <2>2, <2>3 DEF DisconnectEffect, Notify
  <2> QED
    BY Zenon, <2>1, <2>4
<1>3. CASE ConnectAndNotify
  <2> DEFINE p == NextToConnect
  <2>1. /\ Connect /\ Notify(p, TRUE, toConnect # {p})
        /\ unvetted' = IF IsUpToDate THEN unvetted ELSE unvetted \cup {p}
    BY <1>3 DEF ConnectAndNotify
  <2>2. /\ p \in Plot /\ p \in Known'
        /\ tip # None => Previous[p] = tip /\ p # Genesis
        /\ CanConnect(p) /\ Grows(p) /\ tip' = p
        /\ UNCHANGED <<graph, disturbed>> /\ phase = "adjust"
    BY <1>1, <2>1, ConnectGrows
  <2> HIDE DEF p
  <2>3. ConnectEffect(p)
    BY <2>1, <2>2 DEF ConnectEffect, Notify, p
  <2> QED
    BY <2>1, <2>3 DEF p
<1> QED
  BY <1>2, <1>3 DEF NotifySteps

----------------------------------------------------------------------------
(* The indexer's variables *)

LEMMA PlotAtHeight ==
    ASSUME Node, NEW h \in Nat
    PROVE  /\ GetPlotIDForHeight(h) = None => h > tipHeight
           /\ GetPlotIDForHeight(h) # None => /\ h <= tipHeight
                                              /\ GetPlotIDForHeight(h) = heightIndex[h]
                                              /\ heightIndex[h] \in Known
<1>1. /\ Located /\ Careful
      /\ tipHeight \in Int /\ tipHeight >= -1
      /\ \A g \in 0..tipHeight : heightIndex[g] \in Known /\ heightIndex[g] \in Plot
  BY NodeIsLocated, ThreadIsKnown
<1>2. /\ heightIndex \in [0..MAX_NUMBER -> Plot \cup {None}]
      /\ tipHeight <= MAX_NUMBER /\ MAX_NUMBER \in Nat
      /\ \A g \in 0..MAX_NUMBER : heightIndex[g] # None <=> g <= tipHeight
  BY <1>1, ParametersAssumption DEF Located, ThreadTypeOK, ThreadIsLinked
<1>3. CASE h \in 0..MAX_NUMBER
  <2>1. GetPlotIDForHeight(h) = heightIndex[h]
    BY <1>2, <1>3 DEF GetPlotIDForHeight
  <2> QED
    BY <1>1, <1>2, <1>3, <2>1
<1>4. CASE h \notin 0..MAX_NUMBER
  <2>1. GetPlotIDForHeight(h) = None /\ h > MAX_NUMBER
    BY <1>2, <1>4 DEF GetPlotIDForHeight
  <2> QED
    BY <1>1, <1>2, <2>1
<1> QED
  BY <1>3, <1>4

\* Reading a height: what is linked next is on the thread.
ReadEffect ==
    /\ doing = "read"
    /\ \/ /\ nextHeight > tipHeight
          /\ doing' = "rank" /\ UNCHANGED <<nextHeight, inHand>>
       \/ /\ nextHeight <= tipHeight
          /\ heightIndex[nextHeight] \in Known
          /\ doing' = "link"
          /\ nextHeight' = nextHeight + 1
          /\ inHand' \in Notice /\ inHand' # None
          /\ inHand'.plot = heightIndex[nextHeight]
          /\ inHand'.connect = TRUE
    /\ UNCHANGED <<vars, registered, tipChan, outgoing, weight, ranked, latestPlotID, unheard, unvetted>>

LEMMA ReadEffects == ASSUME Typed, Node, ReadHeight PROVE ReadEffect
<1> DEFINE p == GetPlotIDForHeight(nextHeight)
<1>1. /\ p = None => nextHeight > tipHeight
      /\ p # None => nextHeight <= tipHeight /\ p = heightIndex[nextHeight] /\ p \in Known
  BY PlotAtHeight DEF Typed
<1>2. /\ doing = "read"
      /\ IF p = None
         THEN doing' = "rank" /\ UNCHANGED <<nextHeight, inHand>>
         ELSE /\ doing' = "link"
              /\ inHand' = Change(p, TRUE, TRUE)
              /\ nextHeight' = nextHeight + 1
      /\ UNCHANGED <<vars, registered, tipChan, outgoing, weight, ranked, latestPlotID, unheard, unvetted>>
  BY DEF ReadHeight, IndexerOnly, vars
<1> HIDE DEF p
<1>3. CASE p = None
  BY <1>1, <1>2, <1>3 DEF ReadEffect
<1>4. CASE p # None
  <2>1. p \in Known /\ p = heightIndex[nextHeight] /\ nextHeight <= tipHeight
    BY <1>1, <1>4
  <2>2. /\ Change(p, TRUE, TRUE) \in Notice /\ Change(p, TRUE, TRUE) # None
        /\ Change(p, TRUE, TRUE).plot = p /\ Change(p, TRUE, TRUE).connect = TRUE
    BY <2>1, ChangeIsNotice
  <2> QED
    BY <1>2, <1>4, <2>1, <2>2 DEF ReadEffect
<1> QED
  BY <1>3, <1>4

LEMMA TypedNext ==
    ASSUME Typed, Placed, Node, [IndexerNext]_indexerVars
    PROVE  Typed'
<1>1. Known \subseteq Known' /\ Notice \subseteq Notice'
  <2>1. Known \subseteq Known'
    BY ProcessorSteps, KnownStays, NodeIsLocated
  <2> QED
    BY <2>1 DEF Notice
<1>2. CASE Quiet
  BY <1>1, <1>2 DEF Quiet, Typed, channelVars, indexVars
<1>3. CASE NotifySteps
  <2>1. ASSUME NEW p \in Known', NEW connect \in BOOLEAN, NEW more \in BOOLEAN
        PROVE  Change(p, connect, more) \in Notice'
    BY NewChangeIsNotice
  <2>2. CASE DisconnectEffect
    <3>1. tip \in Plot /\ tip \in Known'
      BY <1>1, <2>2 DEF DisconnectEffect
    <3>2. outgoing' \in Notice' \cup {None}
      BY <2>1, <2>2, <3>1 DEF DisconnectEffect
    <3> QED
      BY <1>1, <1>3, <2>2, <3>1, <3>2 DEF DisconnectEffect, NotifySteps, Typed, indexVars
  <2>3. CASE ConnectEffect(NextToConnect)
    <3> DEFINE p == NextToConnect
    <3>1. /\ p \in Plot /\ p \in Known'
          /\ outgoing' = IF registered THEN Change(p, TRUE, toConnect # {p}) ELSE None
          /\ unheard' = IF registered \/ doing = "wait" THEN unheard ELSE unheard \cup {p}
      BY <2>3 DEF ConnectEffect
    <3> HIDE DEF p
    <3>2. PICK more \in BOOLEAN : more = (toConnect # {p})
      BY Zenon
    <3>3. outgoing' = IF registered THEN Change(p, TRUE, more) ELSE None
      BY Zenon, <3>1, <3>2
    <3>4. outgoing' \in Notice' \cup {None}
      BY <2>1, <3>1, <3>3
    <3> QED
      BY <1>1, <1>3, <3>1, <3>4 DEF NotifySteps, Typed, indexVars
  <2> QED
    BY <1>3, <2>2, <2>3, NotifyEffects
<1>4. CASE SendTip
  BY <1>1, <1>4 DEF SendTip, Typed, indexVars
<1>5. CASE BeginIndexing
  <2>1. Height[latestPlotID] \in Nat
    BY TreeAssumption, ParametersAssumption DEF Typed
  <2> QED
    BY <1>1, <1>5, <2>1 DEF BeginIndexing, IndexerOnly, Typed
<1>6. CASE ReadHeight
  <2>1. ReadEffect
    BY <1>6, ReadEffects
  <2> QED
    BY <1>1, <2>1 DEF ReadEffect, Typed
<1>7. CASE IndexRepresentations
  <2>1. inHand \in Notice /\ inHand.plot \in Plot
    BY <1>7, IndexerSteps, NoneIsNoNotice
  <2>2. Linked(weight, inHand) \in [Edge -> Int]
    BY <2>1, LinkedType DEF Typed
  <2> QED
    BY <1>1, <1>7, <2>1, <2>2 DEF IndexRepresentations, IndexerOnly, Typed
<1>8. CASE RankGraph
  BY <1>1, <1>8 DEF RankGraph, IndexerOnly, Typed
<1>9. CASE RegisterForTipChange
  BY <1>1, <1>9 DEF RegisterForTipChange, IndexerOnly, Typed
<1>10. CASE TakeNotice
  BY <1>1, <1>10 DEF TakeNotice, IndexerOnly, Typed
<1>11. CASE CrashAndRestart
  <2>1. NoWeight \in [Edge -> Int] /\ Genesis \in Plot
    BY TreeAssumption DEF NoWeight
  <2> QED
    BY <1>11, <2>1 DEF CrashAndRestart, Typed
<1> QED
  BY <1>2, <1>3, <1>4, <1>5, <1>6, <1>7, <1>8, <1>9, <1>10, <1>11, StepKinds DEF IndexSteps

LEMMA PlacedNext ==
    ASSUME Typed, Placed, Node, [IndexerNext]_indexerVars
    PROVE  Placed'
<1>1. CASE Quiet
  BY <1>1 DEF Quiet, Placed, channelVars, indexVars
<1>2. CASE NotifySteps
  <2>1. tip' # None
    BY <1>2, NotifyEffects, TreeAssumption DEF DisconnectEffect, ConnectEffect
  <2>2. /\ outgoing' = None \/ registered
        /\ unheard' = unheard \/ doing # "wait"
    BY <1>2, NotifyEffects DEF DisconnectEffect, ConnectEffect
  <2> QED
    BY <1>2, <2>1, <2>2 DEF NotifySteps, Placed, indexVars
<1>3. CASE SendTip
  BY <1>3 DEF SendTip, Placed, indexVars, vars, ledgerVars
<1>4. CASE BeginIndexing
  <2>1. tip # None
    <3>1. branchType[Genesis] = MAIN /\ Genesis \in Plot /\ Genesis # None
      BY <1>4, TreeAssumption DEF BeginIndexing, Placed, GetBranchType
    <3>2. Genesis \in Known
      BY <3>1 DEF Known, IsKnown, GetBranchType
    <3> QED
      BY <3>2 DEF Node, Careful, LedgerIsKnown
  <2> QED
    BY <1>4, <2>1 DEF BeginIndexing, IndexerOnly, Placed, ledgerVars
<1>5. CASE ReadHeight
  BY <1>5, ReadEffects DEF ReadEffect, Placed, vars, ledgerVars
<1>6. CASE IndexRepresentations
  BY <1>6 DEF IndexRepresentations, IndexerOnly, IndexLinks, Placed
<1>7. CASE RankGraph
  BY <1>7 DEF RankGraph, IndexerOnly, Placed, ledgerVars
<1>8. CASE RegisterForTipChange
  BY <1>8 DEF RegisterForTipChange, IndexerOnly, Placed, ledgerVars
<1>9. CASE TakeNotice
  BY <1>9 DEF TakeNotice, IndexerOnly, Placed, ledgerVars
<1>10. CASE CrashAndRestart
  BY <1>10 DEF CrashAndRestart, Placed
<1> QED
  BY <1>1, <1>2, <1>3, <1>4, <1>5, <1>6, <1>7, <1>8, <1>9, <1>10, StepKinds DEF IndexSteps

----------------------------------------------------------------------------
(* The weights *)

\* A thread that has lost its last plot, and one that has got one more.
LEMMA CountShrinks ==
    ASSUME Node, NEW p \in Plot, Shrinks(p), NEW e \in Edge
    PROVE  /\ \A n \in 0..tipHeight : CountTo(heightIndex', n, e) = CountTo(heightIndex, n, e)
           /\ CountTo(heightIndex, tipHeight + 1, e)
                = CountTo(heightIndex', tipHeight, e) + LinksOf[p][e]
           /\ CountTo(heightIndex', tipHeight, e) \in Nat
<1>1. \A h \in 0..tipHeight : heightIndex[h] \in Plot
  BY NodeIsLocated, ThreadIsKnown
<1>2. /\ tipHeight \in Nat /\ tipHeight # 0
      /\ heightIndex[tipHeight] = p
      /\ \A h \in 0..tipHeight - 1 : heightIndex'[h] = heightIndex[h]
  BY DEF Shrinks
<1>3. ASSUME NEW n \in 0..tipHeight
      PROVE  CountTo(heightIndex', n, e) = CountTo(heightIndex, n, e)
  <2>1. \A h \in 0..n-1 : heightIndex'[h] = heightIndex[h]
    BY <1>2
  <2> QED
    BY <2>1, CountSame
<1>4. /\ CountTo(heightIndex, tipHeight, e) \in Nat
      /\ CountTo(heightIndex, tipHeight + 1, e) = CountTo(heightIndex, tipHeight, e) + LinksOf[p][e]
  BY <1>1, <1>2, CountMore
<1>5. tipHeight \in 0..tipHeight
  BY <1>2
<1> QED
  BY <1>3, <1>4, <1>5

LEMMA CountGrows ==
    ASSUME Node, NEW p \in Plot, Grows(p), NEW e \in Edge
    PROVE  /\ \A n \in 0..tipHeight+1 : CountTo(heightIndex', n, e) = CountTo(heightIndex, n, e)
           /\ CountTo(heightIndex', tipHeight + 2, e)
                = CountTo(heightIndex, tipHeight + 1, e) + LinksOf[p][e]
           /\ CountTo(heightIndex, tipHeight + 1, e) \in Nat
<1>1. \A h \in 0..tipHeight : heightIndex[h] \in Plot
  BY NodeIsLocated, ThreadIsKnown
<1>2. /\ tipHeight \in Int /\ tipHeight >= -1
      /\ heightIndex'[tipHeight + 1] = p
      /\ \A h \in 0..tipHeight : heightIndex'[h] = heightIndex[h]
  BY DEF Grows
<1>3. ASSUME NEW n \in 0..tipHeight+1
      PROVE  CountTo(heightIndex', n, e) = CountTo(heightIndex, n, e)
  <2>1. \A h \in 0..n-1 : heightIndex'[h] = heightIndex[h]
    BY <1>2
  <2> QED
    BY <2>1, CountSame
<1>4. \A h \in 0..tipHeight+1 : heightIndex'[h] \in Plot
  BY <1>1, <1>2
<1>5. tipHeight + 1 \in Nat /\ (tipHeight + 1) + 1 = tipHeight + 2 /\ tipHeight + 1 \in 0..tipHeight+1
  BY <1>2
<1>6. /\ CountTo(heightIndex', tipHeight + 1, e) \in Nat
      /\ CountTo(heightIndex', (tipHeight + 1) + 1, e)
           = CountTo(heightIndex', tipHeight + 1, e) + LinksOf[p][e]
  BY <1>2, <1>4, <1>5, CountMore
<1> QED
  BY <1>3, <1>5, <1>6

\* A step that moves notices on, and reads no further, keeps the balance.
LEMMA WeighedFrame ==
    ASSUME Weighed, UNCHANGED <<tipHeight, heightIndex, unheard>>, ReadTo' = ReadTo,
           \A e \in Edge : Balance(e)' = Balance(e)
    PROVE  Weighed'
BY DEF Weighed, Unaffected

LEMMA WeighedIdle ==
    ASSUME Weighed, UNCHANGED <<tipHeight, heightIndex, unheard>>, ReadTo' = ReadTo,
           UNCHANGED <<weight, inHand, tipChan, outgoing>>
    PROVE  Weighed'
BY WeighedFrame DEF Balance

LEMMA WeighedDisconnect ==
    ASSUME Typed, Placed, Node, Weighed, NotifySteps, DisconnectEffect
    PROVE  Weighed'
<1>1. /\ tip \in Plot /\ tip \in Known /\ Shrinks(tip)
      /\ outgoing = None
      /\ outgoing' = IF registered THEN Change(tip, FALSE, FALSE) ELSE None
      /\ unheard' = IF registered \/ doing = "wait" THEN unheard ELSE unheard \cup {tip}
      /\ UNCHANGED <<registered, tipChan, weight, inHand, doing, nextHeight>>
  BY DEF DisconnectEffect, NotifySteps, indexVars
<1>2. tipHeight \in Nat /\ tipHeight # 0 /\ tipHeight' = tipHeight - 1 /\ nextHeight \in Nat
  BY <1>1 DEF Shrinks, Typed
<1> SUFFICES ASSUME NEW e \in Edge, Unaffected(e)'
             PROVE  Balance(e)' = CountTo(heightIndex', ReadTo', e)
  BY DEF Weighed
<1>3. LinksOf[tip][e] \in Nat
  BY <1>1, LinksType
<1>4. /\ \A n \in 0..tipHeight : CountTo(heightIndex', n, e) = CountTo(heightIndex, n, e)
      /\ CountTo(heightIndex, tipHeight + 1, e)
           = CountTo(heightIndex', tipHeight, e) + LinksOf[tip][e]
      /\ CountTo(heightIndex', tipHeight, e) \in Nat
  BY <1>1, CountShrinks
<1>5. Balance(e) = CountTo(heightIndex, ReadTo, e)
  <2>1. Unaffected(e)
    BY <1>1 DEF Unaffected
  <2> QED
    BY <2>1 DEF Weighed
<1>6. weight[e] \in Int /\ Delta(inHand, e) \in Int /\ Delta(tipChan, e) \in Int
      /\ Delta(outgoing, e) = 0
  BY <1>1, DeltaType DEF Typed, Delta
<1>7. CASE registered
  <2>1. ReadTo = tipHeight + 1 /\ ReadTo' = tipHeight
    BY <1>1, <1>2, <1>7 DEF ReadTo, IsReading
  <2>2. outgoing' = Change(tip, FALSE, FALSE)
    BY <1>1, <1>7
  <2>3. outgoing' # None /\ outgoing'.plot = tip /\ ~outgoing'.connect
    BY Zenon, <1>1, <2>2, ChangeIsNotice
  <2>4. Delta(outgoing', e) = 0 - LinksOf[tip][e]
    BY <2>3 DEF Delta
  <2>5. Balance(e)' = weight[e] + Delta(inHand, e) + Delta(tipChan, e) + Delta(outgoing', e)
    BY <1>1 DEF Balance, Delta
  <2> QED
    BY <1>3, <1>4, <1>5, <1>6, <2>1, <2>4, <2>5 DEF Balance
<1>8. CASE ~registered
  <2>1. Balance(e)' = Balance(e)
    BY <1>1, <1>8 DEF Balance, Delta
  <2>2. CASE doing = "wait"
    <3>1. ReadTo = 0 /\ ReadTo' = 0
      BY <1>1, <1>2, <1>8, <2>2 DEF ReadTo, IsReading, Placed
    <3> QED
      BY <1>5, <2>1, <3>1, CountNone
  <2>3. CASE doing # "wait"
    <3>1. LinksOf[tip][e] = 0
      BY <1>1, <1>8, <2>3 DEF Unaffected
    <3>2. \/ ReadTo' = ReadTo /\ ReadTo \in 0..tipHeight
          \/ ReadTo = tipHeight + 1 /\ ReadTo' = tipHeight
      BY <1>1, <1>2 DEF ReadTo, IsReading
    <3> QED
      BY <1>4, <1>5, <2>1, <3>1, <3>2
  <2> QED
    BY <2>2, <2>3
<1> QED
  BY <1>7, <1>8 DEF Typed

LEMMA WeighedConnect ==
    ASSUME Typed, Placed, Node, Weighed, NotifySteps, NEW p \in Plot, ConnectEffect(p)
    PROVE  Weighed'
<1>1. /\ p \in Known' /\ Grows(p)
      /\ outgoing = None
      /\ outgoing' = IF registered THEN Change(p, TRUE, toConnect # {p}) ELSE None
      /\ unheard' = IF registered \/ doing = "wait" THEN unheard ELSE unheard \cup {p}
      /\ UNCHANGED <<registered, tipChan, weight, inHand, doing, nextHeight>>
  BY DEF ConnectEffect, NotifySteps, indexVars
<1>2. tipHeight \in Int /\ tipHeight >= -1 /\ tipHeight' = tipHeight + 1 /\ nextHeight \in Nat
  BY <1>1 DEF Grows, Typed
<1> SUFFICES ASSUME NEW e \in Edge, Unaffected(e)'
             PROVE  Balance(e)' = CountTo(heightIndex', ReadTo', e)
  BY DEF Weighed
<1>3. LinksOf[p][e] \in Nat
  BY LinksType
<1>4. /\ \A n \in 0..tipHeight+1 : CountTo(heightIndex', n, e) = CountTo(heightIndex, n, e)
      /\ CountTo(heightIndex', tipHeight + 2, e)
           = CountTo(heightIndex, tipHeight + 1, e) + LinksOf[p][e]
      /\ CountTo(heightIndex, tipHeight + 1, e) \in Nat
  BY <1>1, CountGrows
<1>5. Balance(e) = CountTo(heightIndex, ReadTo, e)
  <2>1. Unaffected(e)
    BY <1>1 DEF Unaffected
  <2> QED
    BY <2>1 DEF Weighed
<1>6. weight[e] \in Int /\ Delta(inHand, e) \in Int /\ Delta(tipChan, e) \in Int
      /\ Delta(outgoing, e) = 0
  BY <1>1, DeltaType DEF Typed, Delta
<1>7. CASE registered
  <2>1. ReadTo = tipHeight + 1 /\ ReadTo' = tipHeight + 2
    BY <1>1, <1>2, <1>7 DEF ReadTo, IsReading
  <2>2. PICK more \in BOOLEAN : more = (toConnect # {p})
    BY Zenon
  <2>3. outgoing' = Change(p, TRUE, more)
    BY Zenon, <1>1, <1>7, <2>2
  <2>4. outgoing' # None /\ outgoing'.plot = p /\ outgoing'.connect = TRUE
    BY Zenon, <1>1, <2>3, NewChangeIsNotice
  <2>5. Delta(outgoing', e) = LinksOf[p][e]
    BY <2>4 DEF Delta
  <2>6. Balance(e)' = weight[e] + Delta(inHand, e) + Delta(tipChan, e) + Delta(outgoing', e)
    BY <1>1 DEF Balance, Delta
  <2> QED
    BY <1>3, <1>4, <1>5, <1>6, <2>1, <2>5, <2>6 DEF Balance
<1>8. CASE ~registered
  <2>1. Balance(e)' = Balance(e)
    BY <1>1, <1>8 DEF Balance, Delta
  <2>2. CASE doing = "wait"
    <3>1. ReadTo = 0 /\ ReadTo' = 0
      BY <1>1, <1>2, <1>8, <2>2 DEF ReadTo, IsReading, Placed
    <3> QED
      BY <1>5, <2>1, <3>1, CountNone
  <2>3. CASE doing # "wait"
    <3>1. LinksOf[p][e] = 0
      BY <1>1, <1>8, <2>3 DEF Unaffected
    <3>2. \/ ReadTo' = ReadTo /\ ReadTo \in 0..tipHeight+1
          \/ ReadTo = tipHeight + 1 /\ ReadTo' = tipHeight + 2
      BY <1>1, <1>2 DEF ReadTo, IsReading
    <3> QED
      BY <1>4, <1>5, <2>1, <3>1, <3>2
  <2> QED
    BY <2>2, <2>3
<1> QED
  BY <1>7, <1>8 DEF Typed

LEMMA WeighedNext ==
    ASSUME Typed, Placed, Node, Weighed, [IndexerNext]_indexerVars
    PROVE  Weighed'
<1>1. tipHeight \in Int /\ tipHeight >= -1 /\ nextHeight \in Nat
  BY NodeIsLocated, ThreadIsKnown DEF Typed
<1>2. CASE Quiet
  <2>1. ReadTo' = ReadTo
    BY <1>2 DEF Quiet, ReadTo, IsReading, channelVars, indexVars
  <2> QED
    BY <1>2, <2>1, WeighedIdle DEF Quiet, channelVars, indexVars
<1>3. CASE NotifySteps
  <2>1. DisconnectEffect \/ ConnectEffect(NextToConnect)
    BY <1>3, NotifyEffects
  <2>2. CASE DisconnectEffect
    BY <1>3, <2>2, WeighedDisconnect
  <2>3. CASE ConnectEffect(NextToConnect)
    <3>1. NextToConnect \in Plot
      BY <2>3 DEF ConnectEffect
    <3> QED
      BY <1>3, <2>3, <3>1, WeighedConnect
  <2> QED
    BY <2>1, <2>2, <2>3
<1>4. CASE SendTip
  <2>1. /\ outgoing # None /\ tipChan = None /\ tipChan' = outgoing /\ outgoing' = None
        /\ UNCHANGED <<registered, weight, inHand, doing, nextHeight, unheard, tipHeight, heightIndex>>
    BY <1>4 DEF SendTip, vars, ledgerVars, indexVars
  <2>2. ReadTo' = ReadTo
    BY <2>1 DEF ReadTo, IsReading
  <2>3. ASSUME NEW e \in Edge PROVE Balance(e)' = Balance(e)
    <3>1. Delta(outgoing, e) \in Int /\ weight[e] \in Int /\ Delta(inHand, e) \in Int
      BY DeltaType DEF Typed
    <3>2. Balance(e)' = weight[e] + Delta(inHand, e) + Delta(outgoing, e) + 0
      BY <2>1 DEF Balance, Delta
    <3>3. Balance(e) = weight[e] + Delta(inHand, e) + 0 + Delta(outgoing, e)
      BY <2>1 DEF Balance, Delta
    <3> QED
      BY <3>1, <3>2, <3>3
  <2> QED
    BY <2>1, <2>2, <2>3, WeighedFrame
<1>5. CASE BeginIndexing
  <2>1. /\ doing = "wait" /\ doing' = "read" /\ latestPlotID = Genesis
        /\ nextHeight = 0 /\ nextHeight' = Height[latestPlotID]
        /\ UNCHANGED <<registered, weight, inHand, tipChan, outgoing, unheard, tipHeight, heightIndex>>
    BY <1>5 DEF BeginIndexing, IndexerOnly, Placed, ledgerVars
  <2>2. nextHeight' = 0
    BY <2>1, GenesisAssumption
  <2>3. ReadTo' = ReadTo
    BY <2>1, <2>2 DEF ReadTo, IsReading
  <2> QED
    BY <2>1, <2>3, WeighedIdle
<1>6. CASE ReadHeight
  <2>1. ReadEffect /\ ~registered /\ inHand = None
    BY <1>6, ReadEffects DEF ReadEffect, Placed
  <2>2. UNCHANGED <<registered, weight, tipChan, outgoing, unheard, tipHeight, heightIndex>>
    BY <2>1 DEF ReadEffect, vars, ledgerVars
  <2>3. CASE nextHeight > tipHeight
    <3>1. doing = "read" /\ doing' = "rank" /\ inHand' = inHand
      BY <1>1, <2>1, <2>3 DEF ReadEffect
    <3>2. ReadTo' = ReadTo
      BY <1>1, <2>2, <2>3, <3>1 DEF ReadTo, IsReading
    <3> QED
      BY <2>2, <3>1, <3>2, WeighedIdle
  <2>4. CASE nextHeight <= tipHeight
    <3>1. /\ doing = "read" /\ doing' = "link"
          /\ nextHeight' = nextHeight + 1
          /\ inHand' # None /\ inHand'.plot = heightIndex[nextHeight] /\ inHand'.connect = TRUE
      BY <1>1, <2>1, <2>4 DEF ReadEffect
    <3>2. ReadTo = nextHeight /\ ReadTo' = nextHeight + 1
      BY <1>1, <2>1, <2>2, <2>4, <3>1 DEF ReadTo, IsReading
    <3>3. ASSUME NEW e \in Edge, Unaffected(e)'
          PROVE  Balance(e)' = CountTo(heightIndex', ReadTo', e)
      <4>1. \A h \in 0..nextHeight : heightIndex[h] \in Plot
        BY <1>1, <2>4, NodeIsLocated, ThreadIsKnown
      <4>2. /\ LinksOf[heightIndex[nextHeight]][e] \in Nat
            /\ CountTo(heightIndex, nextHeight, e) \in Nat
            /\ CountTo(heightIndex, nextHeight + 1, e)
                 = CountTo(heightIndex, nextHeight, e) + LinksOf[heightIndex[nextHeight]][e]
        BY <1>1, <4>1, CountMore
      <4>3. Balance(e) = CountTo(heightIndex, nextHeight, e)
        BY <2>2, <3>2, <3>3 DEF Weighed, Unaffected
      <4>4. weight[e] \in Int /\ Delta(tipChan, e) \in Int /\ Delta(outgoing, e) \in Int
        BY DeltaType DEF Typed
      <4>5. Delta(inHand, e) = 0 /\ Delta(inHand', e) = LinksOf[heightIndex[nextHeight]][e]
        BY <2>1, <3>1 DEF Delta
      <4>6. Balance(e)' = weight[e] + Delta(inHand', e) + Delta(tipChan, e) + Delta(outgoing, e)
        BY <2>2 DEF Balance, Delta
      <4> QED
        BY <2>2, <3>2, <4>2, <4>3, <4>4, <4>5, <4>6 DEF Balance
    <3> QED
      BY <3>3 DEF Weighed
  <2> QED
    BY <1>1, <2>3, <2>4
<1>7. CASE IndexRepresentations
  <2>1. /\ inHand \in Notice
        /\ UNCHANGED <<tipHeight, heightIndex>>
    BY <1>7, IndexerSteps
  <2>2. /\ weight' = Linked(weight, inHand) /\ inHand' = None
        /\ doing = "link"
        /\ doing' = IF ~registered THEN "read" ELSE IF inHand.more THEN "listen" ELSE "rank"
        /\ UNCHANGED <<registered, tipChan, outgoing, nextHeight, unheard>>
    BY <1>7 DEF IndexRepresentations, IndexerOnly
  <2>3. ReadTo' = ReadTo
    BY <2>1, <2>2 DEF ReadTo, IsReading, Typed
  <2>4. ASSUME NEW e \in Edge PROVE Balance(e)' = Balance(e)
    <3>1. weight'[e] = weight[e] + Delta(inHand, e)
      BY <2>1, <2>2, LinkedType DEF Typed
    <3>2. weight[e] \in Int /\ Delta(inHand, e) \in Int
      BY DeltaType DEF Typed
    <3>3. Balance(e)' = weight'[e] + 0 + Delta(tipChan, e) + Delta(outgoing, e)
      BY <2>2 DEF Balance, Delta
    <3>4. weight'[e] + 0 = weight[e] + Delta(inHand, e)
      BY <3>1, <3>2
    <3> QED
      BY <3>3, <3>4 DEF Balance
  <2> QED
    BY <2>1, <2>2, <2>3, <2>4, WeighedFrame
<1>8. CASE RankGraph
  <2>1. /\ doing = "rank" /\ doing' \in {"listen", "register"}
        /\ UNCHANGED <<registered, weight, inHand, tipChan, outgoing, nextHeight, unheard,
                       tipHeight, heightIndex>>
    BY <1>8 DEF RankGraph, IndexerOnly, ledgerVars
  <2>2. ReadTo' = ReadTo
    BY <2>1 DEF ReadTo, IsReading
  <2> QED
    BY <2>1, <2>2, WeighedIdle
<1>9. CASE RegisterForTipChange
  <2>1. /\ doing = "register" /\ doing' = "listen"
        /\ UNCHANGED <<weight, inHand, tipChan, outgoing, nextHeight, unheard, tipHeight, heightIndex>>
    BY <1>9 DEF RegisterForTipChange, IndexerOnly, ledgerVars
  <2>2. ReadTo' = ReadTo
    BY <2>1 DEF ReadTo, IsReading
  <2> QED
    BY <2>1, <2>2, WeighedIdle
<1>10. CASE TakeNotice
  <2>1. /\ doing = "listen" /\ doing' = "link" /\ registered /\ inHand = None
        /\ inHand' = tipChan /\ tipChan' = None
        /\ UNCHANGED <<registered, weight, outgoing, nextHeight, unheard, tipHeight, heightIndex>>
    BY <1>10 DEF TakeNotice, IndexerOnly, Placed, ledgerVars
  <2>2. ReadTo' = ReadTo
    BY <2>1 DEF ReadTo, IsReading
  <2>3. ASSUME NEW e \in Edge PROVE Balance(e)' = Balance(e)
    <3>1. weight[e] \in Int /\ Delta(tipChan, e) \in Int
      BY DeltaType DEF Typed
    <3>2. Balance(e)' = weight[e] + Delta(tipChan, e) + 0 + Delta(outgoing, e)
      BY <2>1 DEF Balance, Delta
    <3>3. Balance(e) = weight[e] + 0 + Delta(tipChan, e) + Delta(outgoing, e)
      BY <2>1 DEF Balance, Delta
    <3>4. weight[e] + Delta(tipChan, e) + 0 = weight[e] + 0 + Delta(tipChan, e)
      BY <3>1
    <3> QED
      BY <3>2, <3>3, <3>4
  <2> QED
    BY <2>1, <2>2, <2>3, WeighedFrame
<1>11. CASE CrashAndRestart
  <2>1. /\ weight' = NoWeight /\ inHand' = None /\ tipChan' = None /\ outgoing' = None
        /\ doing' = "wait" /\ nextHeight' = 0 /\ registered' = FALSE
        /\ tipHeight' = tipHeight
    BY <1>11 DEF CrashAndRestart, Crash, LoseGraph
  <2>2. ReadTo' = 0
    BY <1>1, <2>1 DEF ReadTo, IsReading
  <2>3. \A e \in Edge : Balance(e)' = 0
    BY <2>1 DEF Balance, Delta, NoWeight
  <2> QED
    BY <2>2, <2>3, CountNone DEF Weighed
<1> QED
  BY <1>2, <1>3, <1>4, <1>5, <1>6, <1>7, <1>8, <1>9, <1>10, <1>11, StepKinds DEF IndexSteps

----------------------------------------------------------------------------
(* The tip *)

\* Unless plots came and went while it read, the indexer knows the last one.
Reading ==
    unheard = {} /\ ~registered =>
      /\ doing = "read" =>
           \/ nextHeight = 0
           \/ nextHeight - 1 <= tipHeight /\ latestPlotID = heightIndex[nextHeight - 1]
      /\ doing = "link" =>
           /\ nextHeight > 0 /\ nextHeight - 1 <= tipHeight
           /\ inHand.plot = heightIndex[nextHeight - 1]
      /\ doing \in {"rank", "register"} => latestPlotID = tip

LEMMA ReadingFrame ==
    ASSUME Reading,
           UNCHANGED <<tip, tipHeight, heightIndex, unheard, registered, doing,
                       nextHeight, latestPlotID, inHand>>
    PROVE  Reading'
BY DEF Reading

LEMMA ReadingNext ==
    ASSUME Typed, Placed, Node, Reading, [IndexerNext]_indexerVars
    PROVE  Reading'
<1>1. /\ tipHeight \in Int /\ tipHeight >= -1 /\ nextHeight \in Nat
      /\ tip # None => tipHeight \in Nat /\ heightIndex[tipHeight] = tip
  BY NodeIsLocated, ThreadIsKnown DEF Typed
<1>2. CASE Quiet
  BY <1>2, ReadingFrame DEF Quiet, channelVars, indexVars
<1>3. CASE NotifySteps
  <2>1. unheard' # {} \/ registered' \/ doing' = "wait"
    BY <1>3, NotifyEffects DEF DisconnectEffect, ConnectEffect, NotifySteps, indexVars
  <2> QED
    BY <2>1 DEF Reading
<1>4. CASE SendTip
  BY <1>4, ReadingFrame DEF SendTip, vars, ledgerVars, indexVars
<1>5. CASE BeginIndexing
  <2>1. doing' = "read" /\ nextHeight' = 0
    BY <1>5, GenesisAssumption DEF BeginIndexing, Placed
  <2> QED
    BY <2>1 DEF Reading
<1>6. CASE ReadHeight
  <2>1. /\ ReadEffect /\ tip # None
        /\ UNCHANGED <<tip, tipHeight, heightIndex, registered, latestPlotID, unheard>>
    BY <1>6, ReadEffects DEF ReadEffect, Placed, vars, ledgerVars
  <2>2. CASE nextHeight > tipHeight
    <3>1. doing = "read" /\ doing' = "rank"
      BY <1>1, <2>1, <2>2 DEF ReadEffect
    <3>2. ASSUME unheard = {}, ~registered PROVE latestPlotID = tip
      <4>1. \/ nextHeight = 0
            \/ nextHeight - 1 <= tipHeight /\ latestPlotID = heightIndex[nextHeight - 1]
        BY <3>1, <3>2 DEF Reading
      <4>2. nextHeight - 1 = tipHeight
        BY <1>1, <2>1, <2>2, <4>1
      <4> QED
        BY <1>1, <2>1, <2>2, <4>1, <4>2
    <3> QED
      BY <2>1, <3>1, <3>2 DEF Reading
  <2>3. CASE nextHeight <= tipHeight
    <3>1. /\ doing' = "link" /\ nextHeight' = nextHeight + 1
          /\ inHand'.plot = heightIndex[nextHeight]
      BY <1>1, <2>1, <2>3 DEF ReadEffect
    <3>2. nextHeight' > 0 /\ nextHeight' - 1 = nextHeight
      BY <1>1, <3>1
    <3> QED
      BY <2>1, <2>3, <3>1, <3>2 DEF Reading
  <2> QED
    BY <1>1, <2>2, <2>3
<1>7. CASE IndexRepresentations
  <2>1. /\ UNCHANGED <<tip, tipHeight, heightIndex, registered, nextHeight, unheard>>
        /\ doing = "link" /\ latestPlotID' = inHand.plot
        /\ ~registered => doing' = "read"
    BY <1>7, IndexerSteps DEF IndexRepresentations, IndexerOnly
  <2> QED
    BY <2>1 DEF Reading
<1>8. CASE RankGraph
  <2>1. /\ doing = "rank" /\ doing' \in {"listen", "register"}
        /\ UNCHANGED <<tip, tipHeight, heightIndex, registered, latestPlotID, unheard>>
    BY <1>8 DEF RankGraph, IndexerOnly, ledgerVars
  <2> QED
    BY <2>1 DEF Reading
<1>9. CASE RegisterForTipChange
  BY <1>9 DEF RegisterForTipChange, Reading
<1>10. CASE TakeNotice
  <2>1. registered'
    BY <1>10 DEF TakeNotice, Placed
  <2> QED
    BY <2>1 DEF Reading
<1>11. CASE CrashAndRestart
  BY <1>11 DEF CrashAndRestart, Reading
<1> QED
  BY <1>2, <1>3, <1>4, <1>5, <1>6, <1>7, <1>8, <1>9, <1>10, <1>11, StepKinds DEF IndexSteps

\* The plot that the indexer will have seen last, and whether it will rank then.
LastPlot ==
    IF outgoing # None THEN outgoing.plot
    ELSE IF tipChan # None THEN tipChan.plot
    ELSE IF inHand # None THEN inHand.plot
    ELSE latestPlotID

Reported ==
    IF outgoing # None THEN ~outgoing.more
    ELSE IF tipChan # None THEN ~tipChan.more
    ELSE IF inHand # None THEN ~inHand.more
    ELSE doing = "rank" \/ ranked = weight

Latest ==
    registered /\ unheard = {} /\ ~disturbed /\ (phase = "idle" \/ tip = oldTip) =>
      LastPlot = tip /\ Reported

\* What an indexing step may not change.
LatestFrame ==
    UNCHANGED <<tip, registered, unheard, disturbed, phase, oldTip>>

LEMMA LatestConnect ==
    ASSUME Typed, Placed, Node, Aside, Latest, NotifySteps, NEW p, ConnectEffect(p), Connect
    PROVE  Latest'
<1> SUFFICES ASSUME registered', ~disturbed', phase' = "idle" \/ tip' = oldTip'
             PROVE  LastPlot' = tip' /\ Reported'
  BY DEF Latest
<1>1. /\ p = NextToConnect /\ p \in Known' /\ tip' = p
      /\ registered /\ phase = "adjust"
      /\ outgoing' = Change(p, TRUE, toConnect # {p})
  BY DEF ConnectEffect, NotifySteps
<1>2. toConnect = {p}
  BY <1>1, LastArrives
<1>3. outgoing' = Change(p, TRUE, FALSE)
  <2>1. (toConnect # {p}) = FALSE
    BY <1>2
  <2> QED
    BY Zenon, <1>1, <2>1
<1>4. outgoing' # None /\ outgoing'.plot = p /\ ~outgoing'.more
  BY Zenon, <1>1, <1>3, NewChangeIsNotice
<1> QED
  BY <1>1, <1>4 DEF LastPlot, Reported

LEMMA LatestNext ==
    ASSUME Typed, Placed, Node, Aside, Reading, Latest, [IndexerNext]_indexerVars
    PROVE  Latest'
<1>1. CASE Quiet
  <2> SUFFICES ASSUME registered', unheard' = {}, ~disturbed', phase' = "idle" \/ tip' = oldTip'
               PROVE  LastPlot' = tip' /\ Reported'
    BY DEF Latest
  <2>1. /\ UNCHANGED <<tip, channelVars, indexVars, unheard>>
        /\ tip # None
    BY <1>1 DEF Quiet, Placed, channelVars
  <2>2. ~disturbed /\ (phase = "idle" \/ tip = oldTip)
    BY <1>1, <2>1, OldTipStays DEF Quiet
  <2>3. LastPlot = tip /\ Reported
    BY <2>1, <2>2 DEF Latest, channelVars
  <2> QED
    BY <2>1, <2>3 DEF LastPlot, Reported, channelVars, indexVars
<1>2. CASE NotifySteps
  <2>1. CASE DisconnectEffect /\ Disconnect
    <3>1. phase' = "adjust" /\ oldTip' = oldTip /\ disturbed' = disturbed
      BY <2>1 DEF DisconnectEffect
    <3>2. ~disturbed => tip' # oldTip
      BY <2>1, NotYetThere
    <3> QED
      BY <3>1, <3>2 DEF Latest
  <2>2. CASE ConnectEffect(NextToConnect) /\ Connect
    BY <1>2, <2>2, LatestConnect
  <2> QED
    BY <1>2, <2>1, <2>2, NotifyEffects
<1>3. CASE SendTip
  <2>1. /\ outgoing # None /\ tipChan = None /\ tipChan' = outgoing /\ outgoing' = None
        /\ LatestFrame
    BY <1>3 DEF SendTip, LatestFrame, vars, ledgerVars, workVars, pastVars
  <2> QED
    BY <2>1 DEF Latest, LatestFrame, LastPlot, Reported
<1>4. CASE BeginIndexing \/ ReadHeight
  <2>1. ~registered'
    BY <1>4 DEF BeginIndexing, ReadHeight, Placed
  <2> QED
    BY <2>1 DEF Latest
<1>5. CASE IndexRepresentations
  <2>1. /\ UNCHANGED <<tip, registered, tipChan, outgoing, unheard, disturbed, phase, oldTip>>
        /\ inHand # None /\ inHand' = None /\ latestPlotID' = inHand.plot
        /\ registered => doing' = IF inHand.more THEN "listen" ELSE "rank"
    BY <1>5, IndexerSteps, NoneIsNoNotice DEF IndexRepresentations, IndexerOnly, workVars, pastVars
  <2> QED
    BY <2>1 DEF Latest, LastPlot, Reported
<1>6. CASE RankGraph
  <2>1. /\ doing = "rank" /\ ranked' = weight
        /\ LatestFrame /\ inHand = None
        /\ UNCHANGED <<tipChan, outgoing, weight, inHand, latestPlotID>>
    BY <1>6 DEF RankGraph, IndexerOnly, LatestFrame, Placed, ledgerVars, workVars, pastVars
  <2> QED
    BY <2>1 DEF Latest, LatestFrame, LastPlot, Reported
<1>7. CASE RegisterForTipChange
  <2>1. /\ doing = "register" /\ inHand = None /\ tipChan = None /\ outgoing = None
        /\ ~registered /\ ranked = weight
        /\ UNCHANGED <<tip, tipChan, outgoing, weight, ranked, inHand, latestPlotID, unheard>>
    BY <1>7 DEF RegisterForTipChange, IndexerOnly, Placed, ledgerVars
  <2>2. unheard = {} => latestPlotID = tip
    BY <2>1 DEF Reading
  <2> QED
    BY <2>1, <2>2 DEF Latest, LastPlot, Reported
<1>8. CASE TakeNotice
  <2>1. /\ tipChan # None /\ inHand' = tipChan /\ tipChan' = None /\ inHand = None
        /\ LatestFrame /\ outgoing' = outgoing
    BY <1>8 DEF TakeNotice, IndexerOnly, LatestFrame, Placed, ledgerVars, workVars, pastVars
  <2> QED
    BY <2>1 DEF Latest, LatestFrame, LastPlot, Reported
<1>9. CASE CrashAndRestart
  BY <1>9 DEF CrashAndRestart, Latest
<1> QED
  BY <1>1, <1>2, <1>3, <1>4, <1>5, <1>6, <1>7, <1>8, <1>9, StepKinds DEF IndexSteps

----------------------------------------------------------------------------
(* The graph *)

OnTheWay == {c.plot : c \in {inHand, tipChan, outgoing} \ {None}}

\* What is linked, on its way, not made up for, or still to be read.
IsDrawn(h) ==
    \/ Links(heightIndex[h]) \subseteq graph
    \/ heightIndex[h] \in unheard \cup OnTheWay
    \/ IsReading /\ h >= nextHeight

Drawn == \A h \in 0..tipHeight : IsDrawn(h)

LEMMA DrawnNotify ==
    ASSUME Typed, Placed, Node, Drawn, NotifySteps
    PROVE  Drawn'
<1>1. /\ outgoing = None
      /\ UNCHANGED <<registered, tipChan, inHand, doing, nextHeight>>
  BY DEF NotifySteps, indexVars
<1>2. OnTheWay \subseteq OnTheWay' /\ IsReading' = IsReading
  BY <1>1 DEF OnTheWay, IsReading
<1>3. CASE DisconnectEffect
  <2>1. /\ tipHeight \in Nat /\ tipHeight' = tipHeight - 1
        /\ \A h \in 0..tipHeight - 1 : heightIndex'[h] = heightIndex[h]
        /\ graph' = graph /\ unheard \subseteq unheard'
    BY <1>3 DEF DisconnectEffect, Shrinks
  <2>2. ASSUME NEW h \in 0..tipHeight' PROVE IsDrawn(h)'
    <3>1. h \in 0..tipHeight /\ heightIndex'[h] = heightIndex[h]
      BY <2>1
    <3>2. IsDrawn(h)
      BY <3>1 DEF Drawn
    <3> QED
      BY <1>1, <1>2, <2>1, <3>1, <3>2 DEF IsDrawn
  <2> QED
    BY <2>2 DEF Drawn
<1>4. ASSUME NEW p, ConnectEffect(p) PROVE Drawn'
  <2>1. /\ tipHeight \in Int /\ tipHeight >= -1 /\ tipHeight' = tipHeight + 1
        /\ heightIndex'[tipHeight + 1] = p
        /\ \A h \in 0..tipHeight : heightIndex'[h] = heightIndex[h]
        /\ graph' = graph /\ unheard \subseteq unheard' /\ p \in Known'
    BY <1>4 DEF ConnectEffect, Grows
  <2>2. ASSUME NEW h \in 0..tipHeight PROVE IsDrawn(h)'
    <3>1. IsDrawn(h) /\ heightIndex'[h] = heightIndex[h]
      BY <2>1 DEF Drawn
    <3> QED
      BY <1>1, <1>2, <2>1, <3>1 DEF IsDrawn
  <2>3. ASSUME NEW h, h = tipHeight + 1 PROVE IsDrawn(h)'
    <3>0. heightIndex'[h] = p
      BY <2>1, <2>3
    <3>1. CASE registered
      <4>1. outgoing' = Change(p, TRUE, toConnect # {p})
        BY <1>4, <3>1 DEF ConnectEffect
      <4>2. PICK more \in BOOLEAN : more = (toConnect # {p})
        BY Zenon
      <4>3. outgoing' # None /\ outgoing'.plot = p
        BY Zenon, <2>1, <4>1, <4>2, NewChangeIsNotice
      <4>4. p \in OnTheWay'
        BY <4>3 DEF OnTheWay
      <4> QED
        BY <3>0, <4>4 DEF IsDrawn
    <3>2. CASE ~registered /\ doing = "wait"
      <4>1. IsReading' /\ nextHeight' = 0
        BY <1>1, <3>2 DEF IsReading, Placed
      <4> QED
        BY <2>1, <2>3, <4>1 DEF IsDrawn
    <3>3. CASE ~registered /\ doing # "wait"
      <4>1. p \in unheard'
        BY <1>4, <3>3 DEF ConnectEffect
      <4> QED
        BY <3>0, <4>1 DEF IsDrawn
    <3> QED
      BY <3>1, <3>2, <3>3
  <2>4. \A h \in 0..tipHeight' : h \in 0..tipHeight \/ h = tipHeight + 1
    BY <2>1
  <2> QED
    BY <2>2, <2>3, <2>4 DEF Drawn
<1> QED
  BY <1>3, <1>4, NotifyEffects

LEMMA DrawnNext ==
    ASSUME Typed, Placed, Node, Drawn, [IndexerNext]_indexerVars
    PROVE  Drawn'
<1>1. ASSUME UNCHANGED <<tipHeight, heightIndex, graph, unheard>>, OnTheWay \subseteq OnTheWay',
             UNCHANGED nextHeight, IsReading' = IsReading
      PROVE  Drawn'
  BY <1>1 DEF Drawn, IsDrawn
<1>2. tipHeight \in Int /\ nextHeight \in Nat
  BY NodeIsLocated, ThreadIsKnown DEF Typed
<1>3. CASE Quiet
  BY <1>1, <1>3 DEF Quiet, channelVars, indexVars, OnTheWay, IsReading
<1>4. CASE NotifySteps
  BY <1>4, DrawnNotify
<1>5. CASE SendTip
  BY <1>1, <1>5 DEF SendTip, vars, ledgerVars, indexVars, OnTheWay, IsReading
<1>6. CASE BeginIndexing
  <2>1. /\ UNCHANGED <<tipHeight, heightIndex, graph, unheard, nextHeight>>
        /\ UNCHANGED <<inHand, tipChan, outgoing, registered>>
        /\ doing = "wait" /\ doing' = "read"
    BY <1>6, GenesisAssumption DEF BeginIndexing, IndexerOnly, Placed, ledgerVars
  <2> QED
    BY <1>1, <2>1 DEF OnTheWay, IsReading
<1>7. CASE ReadHeight
  <2>1. /\ ReadEffect /\ inHand = None
        /\ UNCHANGED <<tipHeight, heightIndex, graph, unheard, tipChan, outgoing, registered>>
    BY <1>7, ReadEffects DEF ReadEffect, Placed, vars, ledgerVars
  <2>2. OnTheWay \subseteq OnTheWay'
    BY <2>1 DEF OnTheWay
  <2>3. ASSUME NEW h \in 0..tipHeight PROVE IsDrawn(h)'
    <3>1. IsDrawn(h)
      BY DEF Drawn
    <3>2. CASE nextHeight > tipHeight
      BY <1>2, <2>1, <2>2, <3>1, <3>2 DEF IsDrawn
    <3>3. CASE nextHeight <= tipHeight
      <4>1. /\ doing = "read" /\ doing' = "link" /\ nextHeight' = nextHeight + 1
            /\ inHand' # None /\ inHand'.plot = heightIndex[nextHeight]
        BY <1>2, <2>1, <3>3 DEF ReadEffect
      <4>2. IsReading' = IsReading
        BY <2>1, <4>1 DEF IsReading
      <4>3. heightIndex[nextHeight] \in OnTheWay'
        BY <4>1 DEF OnTheWay
      <4>4. h >= nextHeight => h = nextHeight \/ h >= nextHeight'
        BY <1>2, <4>1
      <4> QED
        BY <2>1, <2>2, <3>1, <4>2, <4>3, <4>4 DEF IsDrawn
    <3> QED
      BY <1>2, <3>2, <3>3
  <2> QED
    BY <2>1, <2>3 DEF Drawn
<1>8. CASE IndexRepresentations
  <2>1. /\ inHand \in Notice /\ inHand' = None /\ inHand # None
        /\ UNCHANGED <<tipHeight, heightIndex, registered, tipChan, outgoing, nextHeight, unheard>>
        /\ graph' = graph \cup Links(inHand.plot)
        /\ doing = "link" /\ (~registered => doing' = "read")
    BY <1>8, IndexerSteps, NoneIsNoNotice DEF IndexRepresentations, IndexerOnly, IndexLinks
  <2>2. \A p \in OnTheWay : p \in OnTheWay' \/ p = inHand.plot
    BY <2>1 DEF OnTheWay
  <2>3. IsReading' = IsReading
    BY <2>1 DEF IsReading
  <2> QED
    BY <2>1, <2>2, <2>3 DEF Drawn, IsDrawn
<1>9. CASE RankGraph
  <2>1. /\ UNCHANGED <<tipHeight, heightIndex, graph, unheard, nextHeight>>
        /\ UNCHANGED <<inHand, tipChan, outgoing, registered>>
        /\ doing = "rank" /\ doing' \in {"listen", "register"}
    BY <1>9 DEF RankGraph, IndexerOnly, ledgerVars
  <2> QED
    BY <1>1, <2>1 DEF OnTheWay, IsReading
<1>10. CASE RegisterForTipChange
  <2>1. /\ UNCHANGED <<tipHeight, heightIndex, graph, unheard, nextHeight>>
        /\ UNCHANGED <<inHand, tipChan, outgoing>>
        /\ doing = "register" /\ doing' = "listen"
    BY <1>10 DEF RegisterForTipChange, IndexerOnly, ledgerVars
  <2> QED
    BY <1>1, <2>1 DEF OnTheWay, IsReading
<1>11. CASE TakeNotice
  <2>1. /\ UNCHANGED <<tipHeight, heightIndex, graph, unheard, nextHeight>>
        /\ UNCHANGED <<outgoing, registered>> /\ registered
        /\ inHand = None /\ inHand' = tipChan /\ tipChan' = None
    BY <1>11 DEF TakeNotice, IndexerOnly, Placed, ledgerVars
  <2> QED
    BY <1>1, <2>1 DEF OnTheWay, IsReading
<1>12. CASE CrashAndRestart
  <2>1. ~registered' /\ doing' = "wait" /\ nextHeight' = 0 /\ tipHeight' = tipHeight
    BY <1>12 DEF CrashAndRestart, Crash, LoseGraph
  <2> QED
    BY <1>2, <2>1 DEF Drawn, IsDrawn, IsReading
<1> QED
  BY <1>3, <1>4, <1>5, <1>6, <1>7, <1>8, <1>9, <1>10, <1>11, <1>12, StepKinds DEF IndexSteps

\* While the indexer is up to date, the check for cycles asks a graph that has
\* the whole thread below the new plot.
LEMMA CheckedForCycles ==
    ASSUME Node, Drawn, Placed, IsUpToDate, NEW p \in Plot, ConnectEffect(p), Checked(p)
    PROVE  p \notin CyclicPlots
<1>1. /\ registered /\ unheard = {} /\ OnTheWay = {} /\ tip # None
      /\ Previous[p] = tip /\ p # Genesis /\ CanConnect(p)
  BY DEF IsUpToDate, OnTheWay, Placed, ConnectEffect
<1>2. \A q \in PlotsOfThread : Links(q) \subseteq graph
  BY <1>1 DEF PlotsOfThread, Drawn, IsDrawn, IsReading
<1>3. Ancestry[p] \ {p} \subseteq PlotsOfThread
  <2>1. Ancestry[p] = {p} \cup Ancestry[tip]
    BY <1>1, AncestryAssumption
  <2>2. Ancestry[tip] = PlotsOfThread
    BY <1>1, NodeIsLocated, ThreadIsKnown
  <2> QED
    BY <2>1, <2>2
<1>4. ThreadBelow(p) \subseteq graph
  <2>1. ThreadBelow(p) = UNION {Links(q) : q \in Ancestry[p] \ {p}}
    BY DEF ThreadBelow, Links
  <2> QED
    BY <1>2, <1>3, <2>1
<1>5. Representations[p] \in Seq(Representation)
  BY TreeAssumption
<1>6. \A i \in DOMAIN Representations[p] : IsPlotroot(Representations[p][i]) <=> i = 1
  BY DEF Checked, CheckPlotContents
<1>7. ASSUME NEW r \in RepresentationsOf(p), IsParentDescendant(ThreadBelow(p), r.For, r.By)
      PROVE  FALSE
  <2>1. PICK i \in 1..Len(Representations[p]) : r = Representations[p][i]
    BY <1>5 DEF RepresentationsOf, Range
  <2>2. r \in Representation /\ r.For \in Key
    BY <1>5, <2>1, RepresentationAssumption
  <2>3. CASE r.By = NoKey
    <3>1. NoKey \in Reachable(ThreadBelow(p), r.For)
      BY <1>7, <2>3 DEF IsParentDescendant
    <3>2. NoKey \in {r.For} \cup {e[2] : e \in ThreadBelow(p)}
      BY <3>1, ReachableEnds
    <3>3. ASSUME NEW e \in ThreadBelow(p) PROVE e[2] \in Key
      <4>1. PICK q \in Ancestry[p] : e \in Links(q)
        BY DEF ThreadBelow, Links
      <4>2. q \in Plot
        BY AncestryAssumption
      <4>3. Representations[q] \in Seq(Representation)
        BY <4>2, TreeAssumption
      <4>4. RepresentationsOf(q) \subseteq Representation
        BY <4>3 DEF RepresentationsOf, Range
      <4> QED
        BY <4>1, <4>4, RepresentationAssumption DEF Links
    <3> QED
      BY <2>2, <3>2, <3>3, RepresentationAssumption
  <2>4. CASE r.By # NoKey
    <3>1. i # 1 /\ Len(Representations[p]) \in Nat
      BY <1>5, <1>6, <2>1, <2>4 DEF IsPlotroot
    <3> DEFINE rest == Tail(Representations[p])
               first == IF MaturingHeight(p) >= 0
                        THEN <<Representations[heightIndex[MaturingHeight(p)]][1]>>
                        ELSE <<>>
    <3>2. rest[i-1] = r /\ i - 1 \in 1..Len(rest) /\ rest \in Seq(Representation)
      BY <1>5, <2>1, <3>1
    <3>3. PICK n \in Nat : /\ \E S : first \in Seq(S)
                           /\ Len(first) = n
      <4>1. CASE MaturingHeight(p) >= 0
        <5> DEFINE x == Representations[heightIndex[MaturingHeight(p)]][1]
        <5>1. <<x>> \in Seq({x}) /\ Len(<<x>>) = 1
          OBVIOUS
        <5> QED
          BY <4>1, <5>1
      <4>2. CASE ~(MaturingHeight(p) >= 0)
        <5>1. <<>> \in Seq({}) /\ Len(<<>>) = 0
          OBVIOUS
        <5> QED
          BY <4>2, <5>1
      <4> QED
        BY <4>1, <4>2
    <3>4. Effects(p) = first \o rest
      BY DEF Effects
    <3> HIDE DEF first, rest
    <3>5. PICK S : first \in Seq(S)
      BY <3>3
    <3>6. first \in Seq(S \cup Representation) /\ rest \in Seq(S \cup Representation)
      BY <3>2, <3>5
    <3>7. /\ n + (i - 1) \in DOMAIN Effects(p)
          /\ Effects(p)[n + (i - 1)] = r
      BY <3>2, <3>3, <3>4, <3>6
    <3>8. ~IsParentDescendant(graph, r.For, r.By)
      BY <1>1, <3>7 DEF CanConnect, IsAcyclic
    <3> QED
      BY <1>4, <1>7, <3>8, CyclesGrow
  <2> QED
    BY <2>3, <2>4
<1> QED
  BY <1>7 DEF CyclicPlots

LEMMA VettedNext ==
    ASSUME Typed, Placed, Node, Drawn, VettedPlotsCloseNoCycle, [IndexerNext]_indexerVars
    PROVE  VettedPlotsCloseNoCycle'
<1>1. ASSUME PlotsOfThread' \subseteq PlotsOfThread, unvetted \subseteq unvetted'
      PROVE  VettedPlotsCloseNoCycle'
  BY <1>1 DEF VettedPlotsCloseNoCycle
<1>2. CASE Quiet
  BY <1>1, <1>2 DEF Quiet, PlotsOfThread
<1>3. CASE NotifySteps
  <2>1. CASE DisconnectEffect
    BY <1>1, <2>1 DEF DisconnectEffect, Shrinks, PlotsOfThread
  <2>2. CASE ConnectEffect(NextToConnect) /\ Connect
    <3> DEFINE p == NextToConnect
    <3>1. ConnectEffect(p) /\ p \in Plot /\ Grows(p)
      BY <2>2 DEF ConnectEffect
    <3>2. Checked(p)
      <4>1. p \in toConnect
        BY <2>2, NodeIsLocated, NextIsKnownOrLast DEF Settled, Connect
      <4> QED
        BY <4>1, NodeIsLocated DEF Careful, WorkIsVetted
    <3> HIDE DEF p
    <3>3. PlotsOfThread' \subseteq PlotsOfThread \cup {p}
      BY <3>1 DEF Grows, PlotsOfThread
    <3>4. unvetted' = IF IsUpToDate THEN unvetted ELSE unvetted \cup {p}
      BY <3>1 DEF ConnectEffect
    <3>5. IsUpToDate => p \notin CyclicPlots
      BY <3>1, <3>2, CheckedForCycles
    <3> QED
      BY <3>3, <3>4, <3>5 DEF VettedPlotsCloseNoCycle
  <2> QED
    BY <1>3, <2>1, <2>2, NotifyEffects
<1>4. CASE IndexSteps
  <2>1. UNCHANGED <<tipHeight, heightIndex, unvetted>>
    BY <1>4 DEF IndexSteps, SendTip, BeginIndexing, ReadHeight, IndexRepresentations, RankGraph,
                RegisterForTipChange, TakeNotice, IndexerOnly, IndexLinks, vars, ledgerVars
  <2> QED
    BY <1>1, <2>1 DEF PlotsOfThread
<1>5. CASE CrashAndRestart
  BY <1>1, <1>5 DEF CrashAndRestart, Crash, LoseGraph, PlotsOfThread
<1> QED
  BY <1>2, <1>3, <1>4, <1>5, StepKinds

----------------------------------------------------------------------------
(* The whole *)

Following ==
    /\ Typed
    /\ Placed
    /\ Node
    /\ Weighed
    /\ Reading
    /\ Aside
    /\ Latest
    /\ Drawn
    /\ VettedPlotsCloseNoCycle

LEMMA FollowingInit == IndexerInit => Following
<1> SUFFICES ASSUME IndexerInit PROVE Following
  OBVIOUS
<1>1. /\ Init /\ tip = None /\ tipHeight = -1 /\ phase = "idle" /\ registered = FALSE
      /\ doing = "wait" /\ nextHeight = 0 /\ inHand = None /\ tipChan = None /\ outgoing = None
      /\ weight = NoWeight /\ unheard = {} /\ latestPlotID = Genesis
  BY DEF IndexerInit, StartIndexer, Init, LedgerInit
<1>2. Node
  BY <1>1, NodeInit
<1>3. Typed /\ Placed
  <2>1. NoWeight \in [Edge -> Int] /\ Genesis \in Plot
    BY TreeAssumption DEF NoWeight
  <2> QED
    BY <1>1, <2>1 DEF Typed, Placed
<1>4. Weighed
  <2>1. ReadTo = 0 /\ \A e \in Edge : Balance(e) = 0
    BY <1>1 DEF ReadTo, IsReading, Balance, Delta, NoWeight
  <2> QED
    BY <2>1, CountNone DEF Weighed
<1>5. Drawn /\ PlotsOfThread = {}
  BY <1>1 DEF Drawn, PlotsOfThread
<1> QED
  BY <1>1, <1>2, <1>3, <1>4, <1>5 DEF Following, Reading, Aside, Latest, VettedPlotsCloseNoCycle

LEMMA FollowingNext == Following /\ [IndexerNext]_indexerVars => Following' /\ [Next]_vars
<1> SUFFICES ASSUME Following, [IndexerNext]_indexerVars PROVE Following' /\ [Next]_vars
  OBVIOUS
<1>1. [Next]_vars
  BY ProcessorSteps DEF Following
<1>2. Node' /\ Aside'
  BY <1>1, NodeNext, AsideNext DEF Following
<1>3. Typed' /\ Placed'
  BY TypedNext, PlacedNext DEF Following
<1>4. Weighed' /\ Reading' /\ Latest'
  BY WeighedNext, ReadingNext, LatestNext DEF Following
<1>5. Drawn' /\ VettedPlotsCloseNoCycle'
  BY DrawnNext, VettedNext DEF Following
<1> QED
  BY <1>1, <1>2, <1>3, <1>4, <1>5 DEF Following

LEMMA FollowingAlways == IndexerSpec => []Following
BY FollowingInit, FollowingNext, PTL DEF IndexerSpec

(* The safety part of ImplementsProcessor: followed by an indexer, the     *)
(* processor takes no step that it would not take alone, and the graph it  *)
(* checks new plots against is one that the module Processor allows.       *)
THEOREM IndexerKeepsProcessor == IndexerSpec => Init /\ [][Next]_vars
<1>1. IndexerInit => Init
  BY DEF IndexerInit
<1> QED
  BY <1>1, FollowingInit, FollowingNext, PTL DEF IndexerSpec

(* Of what the processor's theorems say, in a node that has an indexer:    *)
(* the thread is linked, confirms nothing twice, is the best one known,    *)
(* and can always be put back.                                             *)
THEOREM IndexedThreadIsBest ==
    IndexerSpec => [](ThreadIsLinked /\ NoDoubleConfirmation /\ BestThread /\ OldThreadFitsAgain)
<1>1. Node => ThreadIsLinked /\ NoDoubleConfirmation
  BY DEF Node, LedgerIsSound, Indexed, Located
<1>2. Node => BestThread
  BY SettledIsBest DEF Node
<1>3. Node => OldThreadFitsAgain
  BY TipComesOff, OldPlotFits DEF Node, OldThreadFitsAgain
<1> QED
  BY <1>1, <1>2, <1>3, FollowingAlways, PTL DEF Following

(* Once the indexer has registered, the weight of an edge and the notices  *)
(* on their way add up to the links of the thread, whatever was taken off  *)
(* and put back, unless a plot with such a link came or went unheard.      *)
THEOREM WeightsStayExact == IndexerSpec => []WeightsFollowThread
<1>1. Following => WeightsFollowThread
  <2> SUFFICES ASSUME Following, registered, NEW e \in Edge, \A p \in unheard : LinksOf[p][e] = 0
               PROVE  Awaited(weight)[e] = LinksOfThread(e)
    BY DEF WeightsFollowThread
  <2>1. Balance(e) = CountTo(heightIndex, tipHeight + 1, e)
    BY DEF Following, Weighed, Unaffected, ReadTo, IsReading
  <2>2. 0..(tipHeight + 1) - 1 = 0..tipHeight
    BY NodeIsLocated, ThreadIsKnown DEF Following
  <2>3. LinkPlaces(heightIndex, tipHeight + 1, e)
          = UNION {{h} \X LinksAt(heightIndex[h], e) : h \in 0..tipHeight}
    BY Zenon, <2>2 DEF LinkPlaces
  <2>4. LinksOfThread(e) = CountTo(heightIndex, tipHeight + 1, e)
    BY Zenon, <2>3 DEF LinksOfThread, CountTo
  <2> QED
    BY <2>1, <2>4, AwaitedIsBalance DEF Following
<1> QED
  BY <1>1, FollowingAlways, PTL

(* A plot connected while the indexer was up to date closes no cycle with  *)
(* the thread below it, on any thread it is ever part of.                  *)
THEOREM VettedPlotsStayAcyclic == IndexerSpec => []VettedPlotsCloseNoCycle
BY FollowingAlways, PTL DEF Following

(* With nothing on its way, the ranking is that of the weights and is said *)
(* to be of the plot that is the tip.                                      *)
THEOREM RankingFollowsTip == IndexerSpec => []RankIsOfTip
<1>1. Following => RankIsOfTip
  <2> SUFFICES ASSUME Following, AllQuiet, unheard = {}, ~disturbed
               PROVE  ranked = weight /\ latestPlotID = tip
    BY DEF RankIsOfTip
  <2>1. /\ registered /\ inHand = None /\ phase = "idle" /\ doing = "listen"
        /\ outgoing = None /\ tipChan = None
    BY DEF Following, Placed, AllQuiet
  <2>2. LastPlot = tip /\ Reported
    BY <2>1 DEF Following, Latest
  <2> QED
    BY <2>1, <2>2 DEF LastPlot, Reported
<1> QED
  BY <1>1, FollowingAlways, PTL
=============================================================================
