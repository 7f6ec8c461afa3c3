----------------------------- MODULE LedgerProofs -----------------------------
(***************************************************************************)
(* Proofs about the ledger, for any tree of plots, any constants and any   *)
(* caller that keeps to LedgerNext.                                        *)
(*                                                                         *)
(* Located is the conjunction that carries itself: the types, the link     *)
(* structure of the height index and the fact that what is on the thread   *)
(* was checked.                                                            *)
(*                                                                         *)
(* No representation is confirmed twice, although the ledger only looks    *)
(* back two series: the index is exact over the heights it retains, so a   *)
(* duplicate within them is rejected; below them every plot belongs to a   *)
(* series that the new plot may no longer use.                             *)
(*                                                                         *)
(* The cache: the closed forms Applied and Undone are what the calls of    *)
(* Apply and Undo add up to, and the checks on the way keep every key at   *)
(* zero or above.                                                          *)
(*                                                                         *)
(* The imbalances: some sequence of them, one per height, leads from zero  *)
(* to what is stored, each step being a plot's effects. Connecting         *)
(* prolongs that sequence; disconnecting takes its last step back,         *)
(* exactly.                                                                *)
(*                                                                         *)
(* The thread: a plot that is connected makes as many places of the thread *)
(* count as it has effects, one for one, and makes no other place count or *)
(* stop to count. So counting over the whole thread changes by what        *)
(* Applied and Undone add and take, and each step of the ledger extends    *)
(* the thread, retracts it or leaves it alone.                             *)
(***************************************************************************)
EXTENDS Ledger, TLAPS, FiniteSetTheorems, SequenceTheorems, WellFoundedInduction

----------------------------------------------------------------------------
(* Natural numbers: induction is stated for sets of them *)

LEMMA LeastElement ==
    ASSUME NEW A, A \subseteq Nat, A # {}
    PROVE  \E n \in A : \A m \in A : n <= m
<1>1. PICK n \in A : \A m \in A : ~(<<m, n>> \in OpToRel(<, Nat))
  BY NatLessThanWellFounded, WFMin
<1>2. \A m \in A : ~(m < n)
  BY <1>1 DEF OpToRel
<1> QED
  BY <1>2

LEMMA Induction ==
    ASSUME NEW A, 0 \in A, \A n \in Nat : n \in A => n + 1 \in A
    PROVE  Nat \subseteq A
<1> SUFFICES ASSUME Nat \ A # {} PROVE FALSE
  OBVIOUS
<1>1. PICK n \in Nat \ A : \A m \in Nat \ A : n <= m
  BY LeastElement
<1>2. n # 0 /\ n - 1 \in Nat
  BY <1>1
<1>3. n - 1 \in A
  BY <1>1, <1>2
<1> QED
  BY <1>1, <1>2, <1>3

----------------------------------------------------------------------------
(* The invariant of the thread *)

\* The fields that locate the thread.
ThreadTypeOK ==
    /\ tip \in Plot \cup {None}
    /\ tipHeight \in -1..MAX_NUMBER
    /\ heightIndex \in [0..MAX_NUMBER -> Plot \cup {None}]

ThreadIsChecked == \A h \in 0..tipHeight : Checked(heightIndex[h])

Located == ThreadTypeOK /\ ThreadIsLinked /\ ThreadIsChecked

----------------------------------------------------------------------------
(* What a step of a caller means for the thread *)

\* A checked plot that links to the tip is the next one up.
LEMMA ConnectGoesUp ==
    ASSUME Located,
           NEW p \in Plot,
           tip = None => p = Genesis,
           LinksToTip(p),
           Checked(p)
    PROVE  /\ Height[p] = tipHeight + 1
           /\ tip # None => p # Genesis /\ Previous[p] = tip
<1>1. CASE tip = None
  <2>1. p = Genesis /\ tipHeight = -1
    BY <1>1 DEF Located, ThreadIsLinked
  <2> QED
    BY <1>1, <2>1, GenesisAssumption
<1>2. CASE tip # None
  <2>1. Previous[p] = tip /\ tip \in Plot
    BY <1>2 DEF LinksToTip, Located, ThreadTypeOK
  <2>2. p # Genesis
    BY <1>2, <2>1, TreeAssumption
  <2>3. Height[p] = Height[tip] + 1
    BY <2>1, <2>2 DEF Checked, CheckPlotInContext
  <2>4. Height[tip] = tipHeight
    BY <1>2 DEF Located, ThreadIsLinked, ThreadTypeOK
  <2> QED
    BY <1>2, <2>1, <2>2, <2>3, <2>4
<1> QED
  BY <1>1, <1>2

\* Any tip but the genesis plot has its predecessor right below it.
LEMMA DisconnectGoesDown ==
    ASSUME Located,
           NEW p \in Plot \ {Genesis},
           CanDisconnect(p)
    PROVE  /\ tip = p
           /\ tipHeight \in 1..MAX_NUMBER
           /\ Height[p] = tipHeight
           /\ heightIndex[tipHeight] = p
           /\ Previous[p] \in Plot
           /\ heightIndex[tipHeight - 1] = Previous[p]
<1>1. tip = p /\ p # None /\ Previous[p] \in Plot
  BY TreeAssumption DEF CanDisconnect
<1>2. /\ tipHeight \in 0..MAX_NUMBER
      /\ heightIndex[tipHeight] = p
      /\ heightIndex[0] = Genesis
  BY <1>1 DEF Located, ThreadIsLinked, ThreadTypeOK
<1>3. tipHeight # 0
  BY <1>2
<1>4. /\ Height[heightIndex[tipHeight]] = tipHeight
      /\ Previous[heightIndex[tipHeight]] = heightIndex[tipHeight - 1]
  BY <1>2, <1>3 DEF Located, ThreadIsLinked
<1> QED
  BY <1>1, <1>2, <1>3, <1>4

----------------------------------------------------------------------------
(* The thread is linked, and every plot on it was checked *)

LEMMA LocatedInit == ASSUME LedgerInit PROVE Located
BY ParametersAssumption, TreeAssumption
DEF LedgerInit, Located, ThreadTypeOK, ThreadIsLinked, ThreadIsChecked

LEMMA LocatedConnect ==
    ASSUME Located,
           NEW p \in Plot,
           tip = None => p = Genesis,
           ConnectPlot(p),
           Checked(p)
    PROVE  Located'
<1>0. MAX_NUMBER \in Nat
  BY ParametersAssumption
<1>1. /\ Height[p] = tipHeight + 1
      /\ tip # None => p # Genesis /\ Previous[p] = tip
  BY ConnectGoesUp DEF ConnectPlot, CanConnect
<1>2. /\ tip' = p
      /\ tipHeight' = tipHeight + 1
      /\ heightIndex' = [heightIndex EXCEPT ![tipHeight + 1] = p]
  BY <1>1 DEF ConnectPlot
<1>3. tipHeight + 1 \in 0..MAX_NUMBER /\ p # None
  BY <1>1, TreeAssumption, ParametersAssumption DEF Located, ThreadTypeOK
<1>4. ThreadTypeOK'
  BY <1>2, <1>3 DEF Located, ThreadTypeOK
<1>5. /\ heightIndex'[tipHeight + 1] = p
      /\ \A h \in 0..MAX_NUMBER : h # tipHeight + 1 => heightIndex'[h] = heightIndex[h]
  BY <1>2, <1>3 DEF Located, ThreadTypeOK
<1>6. ThreadIsLinked'
  <2>1. (tip = None <=> tipHeight = -1)'
    BY <1>2, <1>3
  <2>2. (heightIndex[tipHeight] = tip)'
    BY <1>2, <1>5
  <2>3. (heightIndex[0] = Genesis)'
    <3>1. CASE tip = None
      BY <1>2, <1>5, <3>1 DEF Located, ThreadIsLinked
    <3>2. CASE tip # None
      <4>1. tipHeight \in 0..MAX_NUMBER /\ heightIndex[0] = Genesis
        BY <3>2 DEF Located, ThreadIsLinked, ThreadTypeOK
      <4>2. 0 \in 0..MAX_NUMBER /\ 0 # tipHeight + 1
        BY <1>0, <4>1
      <4> QED
        BY <1>5, <4>1, <4>2
    <3> QED
      BY <3>1, <3>2
  <2>4. ASSUME NEW h \in 0..MAX_NUMBER
        PROVE  /\ heightIndex'[h] # None <=> h <= tipHeight'
               /\ h <= tipHeight' => Height[heightIndex'[h]] = h
               /\ 0 < h /\ h <= tipHeight' =>
                    Previous[heightIndex'[h]] = heightIndex'[h-1]
    <3>1. CASE h = tipHeight + 1
      <4>1. 0 < h => tip # None /\ h - 1 \in 0..MAX_NUMBER /\ heightIndex[h-1] = tip
        BY <3>1 DEF Located, ThreadIsLinked, ThreadTypeOK
      <4> QED
        BY <1>1, <1>2, <1>3, <1>5, <3>1, <4>1 DEF Located, ThreadTypeOK
    <3>2. CASE h # tipHeight + 1
      <4>1. /\ heightIndex[h] # None <=> h <= tipHeight
            /\ h <= tipHeight => Height[heightIndex[h]] = h
            /\ 0 < h /\ h <= tipHeight => Previous[heightIndex[h]] = heightIndex[h-1]
        BY DEF Located, ThreadIsLinked
      <4>2. h <= tipHeight' <=> h <= tipHeight
        BY <1>2, <3>2 DEF Located, ThreadTypeOK
      <4>3. 0 < h /\ h <= tipHeight => h - 1 \in 0..MAX_NUMBER /\ h - 1 # tipHeight + 1
        BY <1>0 DEF Located, ThreadTypeOK
      <4> QED
        BY <1>2, <1>5, <3>2, <4>1, <4>2, <4>3
    <3> QED
      BY <3>1, <3>2
  <2> QED
    BY <2>1, <2>2, <2>3, <2>4 DEF ThreadIsLinked
<1>7. ThreadIsChecked'
  <2>1. ASSUME NEW h \in 0..tipHeight'
        PROVE  Checked(heightIndex'[h])
    <3>1. CASE h = tipHeight + 1
      BY <1>5, <3>1
    <3>2. CASE h # tipHeight + 1
      <4>1. h \in 0..tipHeight /\ h \in 0..MAX_NUMBER
        BY <1>0, <1>2, <1>3, <3>2 DEF Located, ThreadTypeOK
      <4> QED
        BY <1>5, <3>2, <4>1 DEF Located, ThreadIsChecked
    <3> QED
      BY <3>1, <3>2
  <2> QED
    BY <2>1 DEF ThreadIsChecked, Checked, CheckPlotContents, CheckPlotInContext
<1> QED
  BY <1>4, <1>6, <1>7 DEF Located

LEMMA LocatedDisconnect ==
    ASSUME Located,
           NEW p \in Plot \ {Genesis},
           DisconnectPlot(p)
    PROVE  Located'
<1>0. MAX_NUMBER \in Nat /\ tipHeight \in 1..MAX_NUMBER
  BY ParametersAssumption, DisconnectGoesDown DEF DisconnectPlot
<1>1. /\ tip = p
      /\ Height[p] = tipHeight
      /\ heightIndex[tipHeight] = p
      /\ Previous[p] \in Plot
      /\ heightIndex[tipHeight - 1] = Previous[p]
  BY DisconnectGoesDown DEF DisconnectPlot
<1>2. /\ tip' = Previous[p]
      /\ tipHeight' = tipHeight - 1
      /\ heightIndex' = [heightIndex EXCEPT ![tipHeight] = None]
  BY <1>1 DEF DisconnectPlot
<1>3. ThreadTypeOK'
  BY <1>0, <1>1, <1>2 DEF Located, ThreadTypeOK
<1>4. /\ heightIndex'[tipHeight] = None
      /\ \A h \in 0..MAX_NUMBER : h # tipHeight => heightIndex'[h] = heightIndex[h]
  BY <1>0, <1>2 DEF Located, ThreadTypeOK
<1>5. ThreadIsLinked'
  <2>1. tip' # None /\ tipHeight' # -1
    BY <1>0, <1>1, <1>2, TreeAssumption
  <2>2. (heightIndex[tipHeight] = tip)'
    BY <1>0, <1>1, <1>2, <1>4
  <2>3. (heightIndex[0] = Genesis)'
    <3>1. heightIndex[0] = Genesis
      BY <1>1, TreeAssumption DEF Located, ThreadIsLinked
    <3>2. 0 \in 0..MAX_NUMBER /\ 0 # tipHeight
      BY <1>0
    <3> QED
      BY <1>4, <3>1, <3>2
  <2>4. ASSUME NEW h \in 0..MAX_NUMBER
        PROVE  /\ heightIndex'[h] # None <=> h <= tipHeight'
               /\ h <= tipHeight' => Height[heightIndex'[h]] = h
               /\ 0 < h /\ h <= tipHeight' =>
                    Previous[heightIndex'[h]] = heightIndex'[h-1]
    <3>1. /\ heightIndex[h] # None <=> h <= tipHeight
          /\ h <= tipHeight => Height[heightIndex[h]] = h
          /\ 0 < h /\ h <= tipHeight => Previous[heightIndex[h]] = heightIndex[h-1]
      BY DEF Located, ThreadIsLinked
    <3>2. CASE h = tipHeight
      BY <1>0, <1>2, <1>4, <3>2
    <3>3. CASE h # tipHeight
      <4>1. /\ h <= tipHeight' <=> h <= tipHeight
            /\ 0 < h /\ h <= tipHeight => h - 1 \in 0..MAX_NUMBER /\ h - 1 # tipHeight
        BY <1>0, <1>2, <3>3
      <4> QED
        BY <1>4, <3>1, <3>3, <4>1
    <3> QED
      BY <3>2, <3>3
  <2> QED
    BY <2>1, <2>2, <2>3, <2>4 DEF ThreadIsLinked
<1>6. ThreadIsChecked'
  <2>1. ASSUME NEW h \in 0..tipHeight'
        PROVE  Checked(heightIndex'[h])
    <3>1. h \in 0..tipHeight /\ h \in 0..MAX_NUMBER /\ h # tipHeight
      BY <1>0, <1>2
    <3> QED
      BY <1>4, <3>1 DEF Located, ThreadIsChecked
  <2> QED
    BY <2>1 DEF ThreadIsChecked, Checked, CheckPlotContents, CheckPlotInContext
<1> QED
  BY <1>3, <1>5, <1>6 DEF Located

\* Steps that leave the thread alone.
LEMMA LocatedFrame ==
    ASSUME Located, UNCHANGED <<tip, tipHeight, heightIndex>>
    PROVE  Located'
BY DEF Located, ThreadTypeOK, ThreadIsLinked, ThreadIsChecked, Checked,
       CheckPlotContents, CheckPlotInContext

LEMMA LocatedNext == Located /\ [LedgerNext]_ledgerVars => Located'
<1> SUFFICES ASSUME Located, [LedgerNext]_ledgerVars PROVE Located'
  OBVIOUS
<1>1. ASSUME NEW p \in Plot, tip = None => p = Genesis, ConnectPlot(p), Checked(p)
      PROVE  Located'
  BY <1>1, LocatedConnect
<1>2. ASSUME NEW p \in Plot \ {Genesis}, DisconnectPlot(p)
      PROVE  Located'
  BY <1>2, LocatedDisconnect
<1>3. ASSUME NEW p \in Plot, SetBranchType(p, SIDE)
      PROVE  Located'
  BY <1>3, LocatedFrame DEF SetBranchType
<1>4. ASSUME NEW links \in PlotLinks, IndexLinks(links)
      PROVE  Located'
  BY <1>4, LocatedFrame DEF IndexLinks
<1>5. CASE LoseGraph
  BY <1>5, LocatedFrame DEF LoseGraph
<1>6. CASE UNCHANGED ledgerVars
  BY <1>6, LocatedFrame DEF ledgerVars
<1> QED
  BY <1>1, <1>2, <1>3, <1>4, <1>5, <1>6 DEF LedgerNext

(* The height index is one linked thread from the genesis plot to the tip, *)
(* whatever plots are connected and disconnected.                          *)
THEOREM ThreadStaysLinked == LedgerSpec => []ThreadIsLinked
<1>1. LedgerInit => Located
  BY LocatedInit
<1>2. Located => ThreadIsLinked
  BY DEF Located
<1> QED
  BY <1>1, <1>2, LocatedNext, PTL DEF LedgerSpec

----------------------------------------------------------------------------
(* The index of representations *)


Indexed ==
    /\ Located
    /\ NoDoubleConfirmation
    /\ RepIndexIsExact
    /\ repIndex \in [Representation -> ((0..MAX_NUMBER) \X Nat) \cup {None}]

----------------------------------------------------------------------------
(* Series *)

\* Two series further up, the previous series is already a later one.
LEMMA SeriesMovesOn ==
    ASSUME NEW g \in Nat, NEW h \in Nat, g + 2 * PLOTS_UNTIL_NEW_SERIES <= h
    PROVE  SeriesAt(g) < SeriesAt(h) - 1
<1> DEFINE S == PLOTS_UNTIL_NEW_SERIES
           m == g \div S
           n == h \div S
<1>1. S \in Nat /\ S > 0
  BY ParametersAssumption
<1>2. m \in Nat /\ S * m <= g
  BY <1>1
<1>3. n \in Nat /\ h < S * (n + 1)
  BY <1>1
<1> HIDE DEF S, m, n
<1>4. S * m + S * 2 < S * (n + 1)
  BY <1>1, <1>2, <1>3 DEF S
<1>5. S * (m + 2) < S * (n + 1)
  BY <1>1, <1>2, <1>3, <1>4
<1>6. m + 2 < n + 1
  <2>1. ASSUME n + 1 <= m + 2 PROVE FALSE
    <3>1. S * (n + 1) <= S * (m + 2)
      BY <1>1, <1>2, <1>3, <2>1
    <3> QED
      BY <1>1, <1>2, <1>3, <1>5, <3>1
  <2> QED
    BY <1>2, <1>3, <2>1
<1> QED
  BY <1>2, <1>3, <1>6 DEF SeriesAt, S, m, n

\* A checked plot's representations are of its own or of the previous series.
LEMMA SeriesOfChecked ==
    ASSUME NEW q \in Plot, Checked(q), NEW r \in RepresentationsOf(q)
    PROVE  /\ SeriesAt(Height[q]) \in Int
           /\ r.Series \in Int
           /\ r.Series <= SeriesAt(Height[q])
           /\ r.Series >= SeriesAt(Height[q]) - 1
<1>1. SeriesAt(Height[q]) \in Int
  BY ParametersAssumption, TreeAssumption DEF SeriesAt
<1>2. CheckRepresentationSeries(r, Height[q])
  <2>1. CASE q = Genesis
    BY <2>1, GenesisAssumption
  <2>2. CASE q # Genesis
    BY <2>2 DEF Checked, CheckPlotInContext
  <2> QED
    BY <2>1, <2>2
<1> QED
  BY <1>1, <1>2 DEF CheckRepresentationSeries

\* Checked plots two series apart have no representation in common.
LEMMA SeriesApart ==
    ASSUME NEW q \in Plot, Checked(q),
           NEW p \in Plot, Checked(p),
           Height[q] + 2 * PLOTS_UNTIL_NEW_SERIES <= Height[p],
           NEW r \in RepresentationsOf(q), r \in RepresentationsOf(p)
    PROVE  FALSE
<1>1. Height[q] \in Nat /\ Height[p] \in Nat
  BY ParametersAssumption, TreeAssumption
<1>2. SeriesAt(Height[q]) < SeriesAt(Height[p]) - 1
  BY <1>1, SeriesMovesOn
<1>3. /\ SeriesAt(Height[q]) \in Int
      /\ r.Series \in Int
      /\ r.Series <= SeriesAt(Height[q])
  BY SeriesOfChecked
<1>4. /\ SeriesAt(Height[p]) \in Int
      /\ r.Series >= SeriesAt(Height[p]) - 1
  BY SeriesOfChecked
<1> QED
  BY <1>2, <1>3, <1>4

----------------------------------------------------------------------------
(* A plot's own list *)

\* The list of a checked plot: its members and their positions.
LEMMA OwnList ==
    ASSUME NEW p \in Plot
    PROVE  /\ RepresentationsOf(p) \subseteq Representation
           /\ \A i \in DOMAIN Representations[p] :
                i \in Nat /\ Representations[p][i] \in RepresentationsOf(p)
           /\ \A r \in RepresentationsOf(p) :
                /\ Position(p, r) \in DOMAIN Representations[p]
                /\ Representations[p][Position(p, r)] = r
<1>1. Representations[p] \in Seq(Representation)
  BY TreeAssumption
<1>2. /\ DOMAIN Representations[p] = 1..Len(Representations[p])
      /\ \A i \in DOMAIN Representations[p] : Representations[p][i] \in Representation
  BY <1>1
<1>3. ASSUME NEW r \in RepresentationsOf(p)
      PROVE  /\ Position(p, r) \in DOMAIN Representations[p]
             /\ Representations[p][Position(p, r)] = r
  <2>1. \E i \in DOMAIN Representations[p] : Representations[p][i] = r
    BY DEF RepresentationsOf, Range
  <2> QED
    BY <2>1 DEF Position
<1>4. /\ RepresentationsOf(p) \subseteq Representation
      /\ \A i \in DOMAIN Representations[p] :
           i \in Nat /\ Representations[p][i] \in RepresentationsOf(p)
  BY <1>2 DEF RepresentationsOf, Range
<1> QED
  BY <1>3, <1>4

LEMMA PositionIsIndex ==
    ASSUME NEW p \in Plot, Checked(p), NEW i \in DOMAIN Representations[p]
    PROVE  Position(p, Representations[p][i]) = i
<1>1. IsInjective(Representations[p])
  BY DEF Checked, CheckPlotContents
<1>2. /\ Position(p, Representations[p][i]) \in DOMAIN Representations[p]
      /\ Representations[p][Position(p, Representations[p][i])] = Representations[p][i]
  BY OwnList
<1> QED
  BY <1>1, <1>2 DEF IsInjective

----------------------------------------------------------------------------
(* Connecting *)

\* What a step up leaves of the thread, as far as the proofs below need it.
LEMMA ThreadAfterConnect ==
    ASSUME Located,
           NEW p \in Plot,
           tip = None => p = Genesis,
           ConnectPlot(p),
           Checked(p)
    PROVE  /\ MAX_NUMBER \in Nat
           /\ tipHeight \in -1..MAX_NUMBER
           /\ tipHeight' = tipHeight + 1
           /\ tipHeight + 1 \in 0..MAX_NUMBER
           /\ Height[p] = tipHeight + 1
           /\ heightIndex'[tipHeight + 1] = p
           /\ \A h \in 0..tipHeight : heightIndex'[h] = heightIndex[h]
<1>1. MAX_NUMBER \in Nat /\ Height[p] \in 0..MAX_NUMBER
  BY ParametersAssumption, TreeAssumption
<1>2. Height[p] = tipHeight + 1
  BY ConnectGoesUp DEF ConnectPlot, CanConnect
<1> QED
  BY <1>1, <1>2 DEF ConnectPlot, Located, ThreadTypeOK

LEMMA OnThreadAreChecked ==
    ASSUME Located, NEW h \in 0..tipHeight
    PROVE  /\ heightIndex[h] \in Plot
           /\ Checked(heightIndex[h])
           /\ Height[heightIndex[h]] = h
<1>1. MAX_NUMBER \in Nat
  BY ParametersAssumption
<1>2. h \in 0..MAX_NUMBER /\ h <= tipHeight
  BY <1>1 DEF Located, ThreadTypeOK
<1>3. heightIndex[h] # None /\ Height[heightIndex[h]] = h
  BY <1>2 DEF Located, ThreadIsLinked
<1> QED
  BY <1>2, <1>3 DEF Located, ThreadTypeOK, ThreadIsChecked

\* The next plot repeats nothing: neither what the index still knows nor what
\* it has forgotten.
LEMMA NothingRepeated ==
    ASSUME Indexed,
           NEW p \in Plot,
           Height[p] = tipHeight + 1,
           IsUnprocessed(p),
           Checked(p),
           NEW h \in 0..tipHeight
    PROVE  RepresentationsOf(heightIndex[h]) \cap RepresentationsOf(p) = {}
<1> SUFFICES ASSUME NEW r \in RepresentationsOf(heightIndex[h]), r \in RepresentationsOf(p)
             PROVE  FALSE
  OBVIOUS
<1>1. /\ heightIndex[h] \in Plot
      /\ Checked(heightIndex[h])
      /\ Height[heightIndex[h]] = h
  BY OnThreadAreChecked DEF Indexed
<1>2. CASE h \in RetainedHeights
  <2>1. PICK i \in DOMAIN Representations[heightIndex[h]] :
          Representations[heightIndex[h]][i] = r
    BY DEF RepresentationsOf, Range
  <2>2. repIndex[r] = <<h, i>>
    BY <1>2, <2>1 DEF Indexed, RepIndexIsExact
  <2>3. h \in 0..MAX_NUMBER /\ i \in Nat
    BY <1>1, <2>1, OwnList, ParametersAssumption DEF Indexed, Located, ThreadTypeOK
  <2>4. repIndex[r] # None
    BY <2>2, <2>3, LedgerAssumption
  <2> QED
    BY <2>4 DEF IsUnprocessed
<1>3. CASE h \notin RetainedHeights
  <2>1. h <= tipHeight - 2 * PLOTS_UNTIL_NEW_SERIES
    BY <1>3, ParametersAssumption DEF RetainedHeights, Indexed, Located, ThreadTypeOK
  <2>2. Height[heightIndex[h]] + 2 * PLOTS_UNTIL_NEW_SERIES <= Height[p]
    BY <1>1, <2>1, ParametersAssumption DEF Indexed, Located, ThreadTypeOK
  <2> QED
    BY <1>1, <2>2, SeriesApart
<1> QED
  BY <1>2, <1>3

LEMMA NoDoubleConfirmationConnect ==
    ASSUME Indexed,
           NEW p \in Plot,
           tip = None => p = Genesis,
           ConnectPlot(p),
           Checked(p)
    PROVE  NoDoubleConfirmation'
<1>1. /\ tipHeight \in -1..MAX_NUMBER
      /\ MAX_NUMBER \in Nat
      /\ tipHeight' = tipHeight + 1
      /\ Height[p] = tipHeight + 1
      /\ heightIndex'[tipHeight + 1] = p
      /\ \A h \in 0..tipHeight : heightIndex'[h] = heightIndex[h]
  BY ThreadAfterConnect DEF Indexed
<1>2. \A h \in 0..tipHeight :
        RepresentationsOf(heightIndex[h]) \cap RepresentationsOf(p) = {}
  BY <1>1, NothingRepeated DEF ConnectPlot, CanConnect
<1>3. ASSUME NEW g \in 0..tipHeight', NEW h \in 0..tipHeight', g # h
      PROVE  RepresentationsOf(heightIndex'[g]) \cap RepresentationsOf(heightIndex'[h]) = {}
  <2>1. CASE g \in 0..tipHeight /\ h \in 0..tipHeight
    BY <1>1, <1>3, <2>1 DEF Indexed, NoDoubleConfirmation
  <2>2. CASE g = tipHeight + 1
    <3>1. h \in 0..tipHeight
      BY <1>1, <1>3, <2>2
    <3> QED
      BY <1>1, <1>2, <2>2, <3>1
  <2>3. CASE h = tipHeight + 1
    <3>1. g \in 0..tipHeight
      BY <1>1, <1>3, <2>3
    <3> QED
      BY <1>1, <1>2, <2>3, <3>1
  <2> QED
    BY <1>1, <2>1, <2>2, <2>3
<1> QED
  BY <1>3 DEF NoDoubleConfirmation, RepresentationsOf

\* The plot whose indices a step prunes or restores.
LEMMA PrunedPlot ==
    ASSUME Located,
           NEW p \in Plot,
           Height[p] \in tipHeight..tipHeight + 1,
           Prunes(p)
    PROVE  /\ PRUNE
           /\ PrunedHeight(p) \in 0..tipHeight
           /\ PrunedHeight(p) = Height[p] - 2 * PLOTS_UNTIL_NEW_SERIES
           /\ PrunedHeight(p) < Height[p]
           /\ PrunedRepresentations(p) = RepresentationsOf(heightIndex[PrunedHeight(p)])
           /\ PrunedPubKeyEntries(p) = PubKeyEntries(heightIndex[PrunedHeight(p)])
<1>1. PLOTS_UNTIL_NEW_SERIES \in Nat /\ PLOTS_UNTIL_NEW_SERIES > 0 /\ tipHeight \in Int
  BY ParametersAssumption DEF Located, ThreadTypeOK
<1> QED
  BY <1>1 DEF Prunes, PrunedHeight, PrunedRepresentations, PrunedPubKeyEntries

LEMMA RepIndexConnect ==
    ASSUME Indexed,
           NEW p \in Plot,
           tip = None => p = Genesis,
           ConnectPlot(p),
           Checked(p)
    PROVE  /\ repIndex' \in [Representation -> ((0..MAX_NUMBER) \X Nat) \cup {None}]
           /\ \A h \in RetainedHeights' : \A i \in DOMAIN Representations[heightIndex'[h]] :
                repIndex'[Representations[heightIndex'[h]][i]] = <<h, i>>
           /\ \A r \in Representation :
                repIndex'[r] # None =>
                  \E h \in RetainedHeights' : r \in RepresentationsOf(heightIndex'[h])
<1>1. /\ tipHeight \in -1..MAX_NUMBER
      /\ MAX_NUMBER \in Nat
      /\ tipHeight' = tipHeight + 1
      /\ tipHeight + 1 \in 0..MAX_NUMBER
      /\ Height[p] = tipHeight + 1
      /\ heightIndex'[tipHeight + 1] = p
      /\ \A h \in 0..tipHeight : heightIndex'[h] = heightIndex[h]
  BY ThreadAfterConnect DEF Indexed
<1>2. \A h \in 0..tipHeight :
        RepresentationsOf(heightIndex[h]) \cap RepresentationsOf(p) = {}
  BY <1>1, NothingRepeated DEF ConnectPlot, CanConnect
<1>3. PLOTS_UNTIL_NEW_SERIES \in Nat /\ PLOTS_UNTIL_NEW_SERIES > 0 /\ PRUNE \in BOOLEAN
  BY ParametersAssumption, LedgerAssumption
<1>4. Prunes(p) => /\ PRUNE
                   /\ PrunedHeight(p) \in 0..tipHeight
                   /\ PrunedHeight(p) = tipHeight + 1 - 2 * PLOTS_UNTIL_NEW_SERIES
                   /\ PrunedRepresentations(p) =
                        RepresentationsOf(heightIndex[PrunedHeight(p)])
  <2>1. Height[p] \in tipHeight..tipHeight + 1
    BY <1>1
  <2>2. CASE Prunes(p)
    <3>1. Located
      BY DEF Indexed
    <3>2. /\ PRUNE
          /\ PrunedHeight(p) \in 0..tipHeight
          /\ PrunedHeight(p) = Height[p] - 2 * PLOTS_UNTIL_NEW_SERIES
          /\ PrunedRepresentations(p) = RepresentationsOf(heightIndex[PrunedHeight(p)])
      BY <2>1, <2>2, <3>1, PrunedPlot
    <3> QED
      BY <1>1, <1>3, <3>2
  <2> QED
    BY <2>2
<1>5. ~Prunes(p) => PrunedRepresentations(p) = {}
  BY DEF PrunedRepresentations
<1>6. repIndex' = [r \in Representation |->
                      CASE r \in PrunedRepresentations(p) -> None
                        [] r \in RepresentationsOf(p) \ PrunedRepresentations(p) ->
                             <<Height[p], Position(p, r)>>
                        [] OTHER -> repIndex[r]]
  BY DEF ConnectPlot
<1>7. ASSUME NEW r \in Representation
      PROVE  /\ r \in PrunedRepresentations(p) => repIndex'[r] = None
             /\ r \in RepresentationsOf(p) =>
                  /\ r \notin PrunedRepresentations(p)
                  /\ repIndex'[r] = <<Height[p], Position(p, r)>>
             /\ r \notin PrunedRepresentations(p) /\ r \notin RepresentationsOf(p) =>
                  repIndex'[r] = repIndex[r]
  <2>1. r \in RepresentationsOf(p) => r \notin PrunedRepresentations(p)
    BY <1>2, <1>4, <1>5
  <2> QED
    BY <1>6, <2>1
<1>8. repIndex' \in [Representation -> ((0..MAX_NUMBER) \X Nat) \cup {None}]
  <2>1. ASSUME NEW r \in Representation
        PROVE  repIndex'[r] \in ((0..MAX_NUMBER) \X Nat) \cup {None}
    <3>1. CASE r \in RepresentationsOf(p)
      <4>1. Position(p, r) \in Nat
        BY <3>1, OwnList
      <4> QED
        BY <1>1, <1>7, <3>1, <4>1
    <3>2. CASE r \notin RepresentationsOf(p)
      BY <1>7, <3>2 DEF Indexed
    <3> QED
      BY <3>1, <3>2
  <2> QED
    BY <1>6, <2>1
<1>9. ASSUME NEW h \in RetainedHeights'
      PROVE  /\ h \in 0..tipHeight + 1
             /\ h # tipHeight + 1 =>
                  /\ h \in RetainedHeights
                  /\ Prunes(p) => h # PrunedHeight(p)
  BY <1>1, <1>3, <1>4 DEF RetainedHeights
<1>10. ASSUME NEW h \in RetainedHeights',
              NEW i \in DOMAIN Representations[heightIndex'[h]]
       PROVE  repIndex'[Representations[heightIndex'[h]][i]] = <<h, i>>
  <2>1. CASE h = tipHeight + 1
    <3>1. /\ i \in DOMAIN Representations[p]
          /\ Representations[p][i] \in RepresentationsOf(p)
          /\ Representations[p][i] \in Representation
      BY <1>1, <2>1, OwnList
    <3>2. Position(p, Representations[p][i]) = i
      BY <3>1, PositionIsIndex
    <3> QED
      BY <1>1, <1>7, <2>1, <3>1, <3>2
  <2>2. CASE h # tipHeight + 1
    <3> DEFINE q == heightIndex[h]
               r == Representations[q][i]
    <3>1. h \in RetainedHeights /\ h \in 0..tipHeight /\ heightIndex'[h] = q
      BY <1>1, <1>9, <2>2
    <3>2. q \in Plot
      BY <3>1, OnThreadAreChecked DEF Indexed
    <3>3. r \in RepresentationsOf(q) /\ r \in Representation
      BY <3>1, <3>2, OwnList
    <3>4. r \notin RepresentationsOf(p)
      BY <1>2, <3>1, <3>3
    <3>5. r \notin PrunedRepresentations(p)
      <4>1. CASE Prunes(p)
        BY <1>4, <1>9, <2>2, <3>1, <3>3, <4>1 DEF Indexed, NoDoubleConfirmation
      <4> QED
        BY <1>5, <4>1
    <3>6. repIndex[r] = <<h, i>>
      BY <3>1 DEF Indexed, RepIndexIsExact
    <3> QED
      BY <1>7, <3>1, <3>3, <3>4, <3>5, <3>6
  <2> QED
    BY <2>1, <2>2
<1>11. ASSUME NEW r \in Representation, repIndex'[r] # None
       PROVE  \E h \in RetainedHeights' : r \in RepresentationsOf(heightIndex'[h])
  <2>1. CASE r \in RepresentationsOf(p)
    <3>1. tipHeight + 1 \in RetainedHeights'
      BY <1>1, <1>3 DEF RetainedHeights
    <3> QED
      BY <1>1, <2>1, <3>1
  <2>2. CASE r \notin RepresentationsOf(p)
    <3>1. r \notin PrunedRepresentations(p) /\ repIndex[r] # None
      BY <1>7, <1>11, <2>2
    <3>2. PICK h \in RetainedHeights : r \in RepresentationsOf(heightIndex[h])
      BY <3>1 DEF Indexed, RepIndexIsExact
    <3>3. Prunes(p) => h # PrunedHeight(p)
      BY <1>4, <3>1, <3>2
    <3>4. h \in 0..tipHeight /\ (PRUNE => h > tipHeight - 2 * PLOTS_UNTIL_NEW_SERIES)
      BY <3>2 DEF RetainedHeights
    <3>5. PRUNE => h > tipHeight + 1 - 2 * PLOTS_UNTIL_NEW_SERIES
      BY <1>1, <1>3, <1>4, <3>3, <3>4 DEF Prunes, PrunedHeight
    <3>6. h \in RetainedHeights'
      BY <1>1, <1>3, <3>4, <3>5 DEF RetainedHeights
    <3> QED
      BY <1>1, <3>2, <3>4, <3>6
  <2> QED
    BY <2>1, <2>2
<1> QED
  BY <1>8, <1>10, <1>11

\* An entry of the index of public keys carries its plot's height.
LEMMA EntriesOfThread ==
    ASSUME Located, NEW h \in 0..tipHeight, NEW e \in PubKeyEntries(heightIndex[h])
    PROVE  e[2] = h
<1>1. Height[heightIndex[h]] = h
  BY OnThreadAreChecked
<1> QED
  BY <1>1 DEF PubKeyEntries

LEMMA PubKeyIndexConnect ==
    ASSUME Indexed,
           NEW p \in Plot,
           tip = None => p = Genesis,
           ConnectPlot(p),
           Checked(p)
    PROVE  pubKeyIndex' = UNION {PubKeyEntries(heightIndex'[h]) : h \in RetainedHeights'}
<1>1. /\ tipHeight \in -1..MAX_NUMBER
      /\ MAX_NUMBER \in Nat
      /\ tipHeight' = tipHeight + 1
      /\ Height[p] = tipHeight + 1
      /\ heightIndex'[tipHeight + 1] = p
      /\ \A h \in 0..tipHeight : heightIndex'[h] = heightIndex[h]
  BY ThreadAfterConnect DEF Indexed
<1>2. PLOTS_UNTIL_NEW_SERIES \in Nat /\ PLOTS_UNTIL_NEW_SERIES > 0 /\ PRUNE \in BOOLEAN
  BY ParametersAssumption, LedgerAssumption
<1>3. Located
  BY DEF Indexed
<1>4. ASSUME Prunes(p)
      PROVE  /\ PRUNE
             /\ PrunedHeight(p) \in 0..tipHeight
             /\ PrunedHeight(p) = tipHeight + 1 - 2 * PLOTS_UNTIL_NEW_SERIES
             /\ PrunedPubKeyEntries(p) = PubKeyEntries(heightIndex[PrunedHeight(p)])
  <2>1. Height[p] \in tipHeight..tipHeight + 1
    BY <1>1
  <2>2. /\ PRUNE
        /\ PrunedHeight(p) \in 0..tipHeight
        /\ PrunedHeight(p) = Height[p] - 2 * PLOTS_UNTIL_NEW_SERIES
        /\ PrunedPubKeyEntries(p) = PubKeyEntries(heightIndex[PrunedHeight(p)])
    BY <1>3, <1>4, <2>1, PrunedPlot
  <2> QED
    BY <1>1, <1>2, <2>2
<1>5. ~Prunes(p) => PrunedPubKeyEntries(p) = {}
  BY DEF PrunedPubKeyEntries
<1>6. pubKeyIndex' = (pubKeyIndex \cup PubKeyEntries(p)) \ PrunedPubKeyEntries(p)
  BY DEF ConnectPlot
<1>7. pubKeyIndex = UNION {PubKeyEntries(heightIndex[h]) : h \in RetainedHeights}
  BY DEF Indexed, RepIndexIsExact
<1>8. \A e \in PubKeyEntries(p) : e[2] = tipHeight + 1
  BY <1>1 DEF PubKeyEntries
<1>9. \A h \in 0..tipHeight : \A e \in PubKeyEntries(heightIndex[h]) : e[2] = h
  BY <1>3, EntriesOfThread
<1>10. \A h : h \in RetainedHeights' <=>
               \/ h = tipHeight + 1
               \/ h \in RetainedHeights /\ (Prunes(p) => h # PrunedHeight(p))
  <2>1. PRUNE /\ ~Prunes(p) => tipHeight + 1 - 2 * PLOTS_UNTIL_NEW_SERIES < 0
    BY <1>1, <1>2 DEF Prunes, PrunedHeight
  <2> QED
    BY <1>1, <1>2, <1>4, <2>1 DEF RetainedHeights
<1>11. RetainedHeights \subseteq 0..tipHeight
  BY DEF RetainedHeights
<1>12. ASSUME NEW e \in pubKeyIndex'
       PROVE  \E h \in RetainedHeights' : e \in PubKeyEntries(heightIndex'[h])
  <2>1. CASE e \in PubKeyEntries(p)
    BY <1>1, <1>10, <2>1
  <2>2. CASE e \notin PubKeyEntries(p)
    <3>1. e \in pubKeyIndex /\ e \notin PrunedPubKeyEntries(p)
      BY <1>6, <1>12, <2>2
    <3>2. PICK h \in RetainedHeights : e \in PubKeyEntries(heightIndex[h])
      BY <1>7, <3>1
    <3>3. Prunes(p) => h # PrunedHeight(p)
      BY <1>4, <3>1, <3>2
    <3> QED
      BY <1>1, <1>10, <1>11, <3>2, <3>3
  <2> QED
    BY <2>1, <2>2
<1>13. ASSUME NEW h \in RetainedHeights', NEW e \in PubKeyEntries(heightIndex'[h])
       PROVE  e \in pubKeyIndex'
  <2>1. CASE h = tipHeight + 1
    <3>1. e \in PubKeyEntries(p) /\ e[2] = tipHeight + 1
      BY <1>1, <1>8, <1>13, <2>1
    <3>2. e \notin PrunedPubKeyEntries(p)
      <4>1. CASE Prunes(p)
        <5>1. PrunedHeight(p) # tipHeight + 1
          BY <1>1, <1>4, <4>1
        <5> QED
          BY <1>4, <1>9, <3>1, <4>1, <5>1
      <4> QED
        BY <1>5, <4>1
    <3> QED
      BY <1>6, <3>1, <3>2
  <2>2. CASE h # tipHeight + 1
    <3>1. /\ h \in RetainedHeights
          /\ h \in 0..tipHeight
          /\ Prunes(p) => h # PrunedHeight(p)
      BY <1>10, <1>11, <1>13, <2>2
    <3>2. e \in PubKeyEntries(heightIndex[h]) /\ e[2] = h
      BY <1>1, <1>9, <1>13, <3>1
    <3>3. e \in pubKeyIndex
      BY <1>7, <3>1, <3>2
    <3>4. e \notin PrunedPubKeyEntries(p)
      <4>1. CASE Prunes(p)
        BY <1>4, <1>9, <3>1, <3>2, <4>1
      <4> QED
        BY <1>5, <4>1
    <3> QED
      BY <1>6, <3>3, <3>4
  <2> QED
    BY <2>1, <2>2
<1> QED
  BY <1>12, <1>13

----------------------------------------------------------------------------
(* Disconnecting *)

LEMMA ThreadAfterDisconnect ==
    ASSUME Located, NEW p \in Plot \ {Genesis}, DisconnectPlot(p)
    PROVE  /\ MAX_NUMBER \in Nat
           /\ tipHeight \in 1..MAX_NUMBER
           /\ tipHeight' = tipHeight - 1
           /\ Height[p] = tipHeight
           /\ heightIndex[tipHeight] = p
           /\ Checked(p)
           /\ \A h \in 0..tipHeight - 1 : heightIndex'[h] = heightIndex[h]
<1>1. /\ tipHeight \in 1..MAX_NUMBER
      /\ Height[p] = tipHeight
      /\ heightIndex[tipHeight] = p
  BY DisconnectGoesDown DEF DisconnectPlot
<1>2. MAX_NUMBER \in Nat
  BY ParametersAssumption
<1>3. Checked(p)
  <2>1. tipHeight \in 0..tipHeight
    BY <1>1
  <2> QED
    BY <1>1, <2>1 DEF Located, ThreadIsChecked
<1>4. \A h \in 0..tipHeight - 1 : heightIndex'[h] = heightIndex[h]
  BY <1>1, <1>2 DEF DisconnectPlot, Located, ThreadTypeOK
<1> QED
  BY <1>1, <1>2, <1>3, <1>4 DEF DisconnectPlot

LEMMA NoDoubleConfirmationDisconnect ==
    ASSUME Indexed, NEW p \in Plot \ {Genesis}, DisconnectPlot(p)
    PROVE  NoDoubleConfirmation'
<1>1. /\ tipHeight \in 1..MAX_NUMBER
      /\ MAX_NUMBER \in Nat
      /\ tipHeight' = tipHeight - 1
      /\ \A h \in 0..tipHeight - 1 : heightIndex'[h] = heightIndex[h]
  BY ThreadAfterDisconnect DEF Indexed
<1>2. ASSUME NEW g \in 0..tipHeight', NEW h \in 0..tipHeight', g # h
      PROVE  RepresentationsOf(heightIndex'[g]) \cap RepresentationsOf(heightIndex'[h]) = {}
  <2>1. /\ g \in 0..tipHeight - 1 /\ g \in 0..tipHeight
        /\ h \in 0..tipHeight - 1 /\ h \in 0..tipHeight
    BY <1>1
  <2> QED
    BY <1>1, <1>2, <2>1 DEF Indexed, NoDoubleConfirmation
<1> QED
  BY <1>2 DEF NoDoubleConfirmation, RepresentationsOf

\* Both parts of the index go back to what they were below the old tip.
LEMMA IndexDisconnect ==
    ASSUME Indexed, NEW p \in Plot \ {Genesis}, DisconnectPlot(p)
    PROVE  RepIndexIsExact' /\
           repIndex' \in [Representation -> ((0..MAX_NUMBER) \X Nat) \cup {None}]
<1>1. /\ tipHeight \in 1..MAX_NUMBER
      /\ MAX_NUMBER \in Nat
      /\ tipHeight' = tipHeight - 1
      /\ Height[p] = tipHeight
      /\ heightIndex[tipHeight] = p
      /\ Checked(p)
      /\ \A h \in 0..tipHeight - 1 : heightIndex'[h] = heightIndex[h]
  BY ThreadAfterDisconnect DEF Indexed
<1>2. PLOTS_UNTIL_NEW_SERIES \in Nat /\ PLOTS_UNTIL_NEW_SERIES > 0 /\ PRUNE \in BOOLEAN
  BY ParametersAssumption, LedgerAssumption
<1>3. Located
  BY DEF Indexed
<1> DEFINE old == heightIndex[PrunedHeight(p)]
<1>4. ASSUME Prunes(p)
      PROVE  /\ PRUNE
             /\ PrunedHeight(p) \in 0..tipHeight - 1
             /\ PrunedHeight(p) = tipHeight - 2 * PLOTS_UNTIL_NEW_SERIES
             /\ PrunedRepresentations(p) = RepresentationsOf(old)
             /\ PrunedPubKeyEntries(p) = PubKeyEntries(old)
             /\ old \in Plot /\ Checked(old) /\ Height[old] = PrunedHeight(p)
  <2>1. Height[p] \in tipHeight..tipHeight + 1
    BY <1>1
  <2>2. /\ PRUNE
        /\ PrunedHeight(p) \in 0..tipHeight
        /\ PrunedHeight(p) = Height[p] - 2 * PLOTS_UNTIL_NEW_SERIES
        /\ PrunedRepresentations(p) = RepresentationsOf(old)
        /\ PrunedPubKeyEntries(p) = PubKeyEntries(old)
    BY <1>3, <1>4, <2>1, PrunedPlot
  <2>3. old \in Plot /\ Checked(old) /\ Height[old] = PrunedHeight(p)
    BY <1>3, <2>2, OnThreadAreChecked
  <2> QED
    BY <1>1, <1>2, <2>2, <2>3
<1>5. ~Prunes(p) => PrunedRepresentations(p) = {} /\ PrunedPubKeyEntries(p) = {}
  BY DEF PrunedRepresentations, PrunedPubKeyEntries
<1> HIDE DEF old
<1>6. /\ \A h \in 0..tipHeight - 1 :
           RepresentationsOf(heightIndex[h]) \cap RepresentationsOf(p) = {}
      /\ \A g, h \in 0..tipHeight - 1 : g # h =>
           RepresentationsOf(heightIndex[g]) \cap RepresentationsOf(heightIndex[h]) = {}
  <2>1. 0..tipHeight - 1 \subseteq 0..tipHeight /\ tipHeight \in 0..tipHeight
        /\ tipHeight \notin 0..tipHeight - 1
    BY <1>1
  <2> QED
    BY <1>1, <2>1 DEF Indexed, NoDoubleConfirmation
<1>7. \A h : h \in RetainedHeights' <=>
              \/ Prunes(p) /\ h = PrunedHeight(p)
              \/ h \in RetainedHeights /\ h # tipHeight
  <2>1. PRUNE /\ ~Prunes(p) => tipHeight - 2 * PLOTS_UNTIL_NEW_SERIES < 0
    BY <1>1, <1>2 DEF Prunes, PrunedHeight
  <2> QED
    BY <1>1, <1>2, <1>4, <2>1 DEF RetainedHeights
<1>8. /\ RetainedHeights \subseteq 0..tipHeight
      /\ RetainedHeights' \subseteq 0..tipHeight - 1
      /\ Prunes(p) => PrunedHeight(p) \notin RetainedHeights
  BY <1>1, <1>2, <1>4 DEF RetainedHeights
<1>9. ASSUME NEW r \in Representation
      PROVE  /\ r \in PrunedRepresentations(p) =>
                  repIndex'[r] = <<Height[old], Position(old, r)>>
             /\ r \in RepresentationsOf(p) =>
                  r \notin PrunedRepresentations(p) /\ repIndex'[r] = None
             /\ r \notin PrunedRepresentations(p) /\ r \notin RepresentationsOf(p) =>
                  repIndex'[r] = repIndex[r]
  <2>1. r \in RepresentationsOf(p) => r \notin PrunedRepresentations(p)
    BY <1>4, <1>5, <1>6 DEF old
  <2> QED
    BY <2>1 DEF DisconnectPlot, old
<1>10. repIndex' \in [Representation -> ((0..MAX_NUMBER) \X Nat) \cup {None}]
  <2>1. ASSUME NEW r \in Representation
        PROVE  repIndex'[r] \in ((0..MAX_NUMBER) \X Nat) \cup {None}
    <3>1. CASE r \in PrunedRepresentations(p)
      <4>1. Prunes(p)
        BY <1>5, <3>1
      <4>2. Position(old, r) \in Nat /\ Height[old] \in 0..MAX_NUMBER
        BY <1>1, <1>4, <3>1, <4>1, OwnList
      <4> QED
        BY <1>9, <3>1, <4>2
    <3>2. CASE r \notin PrunedRepresentations(p)
      BY <1>9, <3>2 DEF Indexed
    <3> QED
      BY <3>1, <3>2
  <2> QED
    BY <2>1 DEF DisconnectPlot
<1>11. ASSUME NEW h \in RetainedHeights',
              NEW i \in DOMAIN Representations[heightIndex'[h]]
       PROVE  repIndex'[Representations[heightIndex'[h]][i]] = <<h, i>>
  <2>1. h \in 0..tipHeight - 1 /\ h \in 0..tipHeight /\ heightIndex'[h] = heightIndex[h]
    BY <1>1, <1>8
  <2>2. heightIndex[h] \in Plot
    BY <1>3, <2>1, OnThreadAreChecked
  <2> DEFINE r == Representations[heightIndex[h]][i]
  <2>3. r \in RepresentationsOf(heightIndex[h]) /\ r \in Representation
    BY <2>1, <2>2, OwnList
  <2>4. CASE Prunes(p) /\ h = PrunedHeight(p)
    <3>1. r \in PrunedRepresentations(p) /\ Height[old] = h /\ heightIndex[h] = old
      BY <1>4, <2>3, <2>4 DEF old
    <3>2. Position(old, r) = i
      BY <1>4, <2>1, <2>4, <3>1, PositionIsIndex
    <3> QED
      BY <1>9, <2>1, <2>3, <3>1, <3>2
  <2>5. CASE ~(Prunes(p) /\ h = PrunedHeight(p))
    <3>1. h \in RetainedHeights
      BY <1>7, <2>5
    <3>2. r \notin RepresentationsOf(p)
      BY <1>6, <2>1, <2>3
    <3>3. r \notin PrunedRepresentations(p)
      BY <1>4, <1>5, <1>6, <2>1, <2>3, <2>5 DEF old
    <3>4. repIndex[r] = <<h, i>>
      BY <2>1, <3>1 DEF Indexed, RepIndexIsExact
    <3> QED
      BY <1>9, <2>1, <2>3, <3>2, <3>3, <3>4
  <2> QED
    BY <2>4, <2>5
<1>12. ASSUME NEW r \in Representation, repIndex'[r] # None
       PROVE  \E h \in RetainedHeights' : r \in RepresentationsOf(heightIndex'[h])
  <2>1. CASE r \in PrunedRepresentations(p)
    <3>1. Prunes(p)
      BY <1>5, <2>1
    <3> QED
      BY <1>1, <1>4, <1>7, <2>1, <3>1 DEF old
  <2>2. CASE r \notin PrunedRepresentations(p)
    <3>1. r \notin RepresentationsOf(p) /\ repIndex[r] # None
      BY <1>9, <1>12, <2>2
    <3>2. PICK h \in RetainedHeights : r \in RepresentationsOf(heightIndex[h])
      BY <3>1 DEF Indexed, RepIndexIsExact
    <3>3. h # tipHeight
      BY <1>1, <3>1, <3>2
    <3>4. h \in RetainedHeights' /\ heightIndex'[h] = heightIndex[h]
      BY <1>1, <1>7, <1>8, <3>3
    <3> QED
      BY <3>2, <3>4
  <2> QED
    BY <2>1, <2>2
<1>13. pubKeyIndex' = UNION {PubKeyEntries(heightIndex'[h]) : h \in RetainedHeights'}
  <2>1. pubKeyIndex' = (pubKeyIndex \ PubKeyEntries(p)) \cup PrunedPubKeyEntries(p)
    BY DEF DisconnectPlot
  <2>2. pubKeyIndex = UNION {PubKeyEntries(heightIndex[h]) : h \in RetainedHeights}
    BY DEF Indexed, RepIndexIsExact
  <2>3. /\ \A e \in PubKeyEntries(p) : e[2] = tipHeight
        /\ \A h \in 0..tipHeight : \A e \in PubKeyEntries(heightIndex[h]) : e[2] = h
    BY <1>1, <1>3, EntriesOfThread DEF PubKeyEntries
  <2>4. ASSUME NEW e \in pubKeyIndex'
        PROVE  \E h \in RetainedHeights' : e \in PubKeyEntries(heightIndex'[h])
    <3>1. CASE e \in PrunedPubKeyEntries(p)
      <4>1. Prunes(p)
        BY <1>5, <3>1
      <4> QED
        BY <1>1, <1>4, <1>7, <3>1, <4>1 DEF old
    <3>2. CASE e \in pubKeyIndex /\ e \notin PubKeyEntries(p)
      <4>1. PICK h \in RetainedHeights : e \in PubKeyEntries(heightIndex[h])
        BY <2>2, <3>2
      <4>2. h # tipHeight
        BY <1>1, <3>2, <4>1
      <4>3. h \in RetainedHeights' /\ heightIndex'[h] = heightIndex[h]
        BY <1>1, <1>7, <1>8, <4>2
      <4> QED
        BY <4>1, <4>3
    <3> QED
      BY <2>1, <2>4, <3>1, <3>2
  <2>5. ASSUME NEW h \in RetainedHeights', NEW e \in PubKeyEntries(heightIndex'[h])
        PROVE  e \in pubKeyIndex'
    <3>1. h \in 0..tipHeight - 1 /\ h \in 0..tipHeight /\ heightIndex'[h] = heightIndex[h]
      BY <1>1, <1>8
    <3>2. CASE Prunes(p) /\ h = PrunedHeight(p)
      BY <1>4, <2>1, <2>5, <3>1, <3>2 DEF old
    <3>3. CASE ~(Prunes(p) /\ h = PrunedHeight(p))
      <4>1. h \in RetainedHeights
        BY <1>7, <3>3
      <4>2. e \in pubKeyIndex /\ e[2] = h
        BY <2>2, <2>3, <2>5, <3>1, <4>1
      <4>3. e \notin PubKeyEntries(p)
        BY <1>1, <2>3, <3>1, <4>2
      <4> QED
        BY <2>1, <4>2, <4>3
    <3> QED
      BY <3>2, <3>3
  <2> QED
    BY <2>4, <2>5
<1> QED
  BY <1>10, <1>11, <1>12, <1>13 DEF RepIndexIsExact, RepresentationsOf, PubKeyEntries

----------------------------------------------------------------------------
(* The theorems *)

LEMMA IndexedInit == ASSUME LedgerInit PROVE Indexed
<1>1. Located
  BY LocatedInit
<1>2. 0..tipHeight = {}
  BY DEF LedgerInit
<1>3. RetainedHeights = {}
  BY <1>2 DEF RetainedHeights
<1> QED
  BY <1>1, <1>2, <1>3 DEF LedgerInit, Indexed, NoDoubleConfirmation, RepIndexIsExact

LEMMA IndexedConnect ==
    ASSUME Indexed,
           NEW p \in Plot,
           tip = None => p = Genesis,
           ConnectPlot(p),
           Checked(p)
    PROVE  Indexed'
<1>1. Located'
  BY LocatedConnect DEF Indexed
<1>2. NoDoubleConfirmation'
  BY NoDoubleConfirmationConnect
<1>3. RepIndexIsExact'
  BY RepIndexConnect, PubKeyIndexConnect DEF RepIndexIsExact, RepresentationsOf, PubKeyEntries
<1> QED
  BY <1>1, <1>2, <1>3, RepIndexConnect DEF Indexed

LEMMA IndexedDisconnect ==
    ASSUME Indexed, NEW p \in Plot \ {Genesis}, DisconnectPlot(p)
    PROVE  Indexed'
<1>1. Located'
  BY LocatedDisconnect DEF Indexed
<1> QED
  BY <1>1, NoDoubleConfirmationDisconnect, IndexDisconnect DEF Indexed

LEMMA IndexedFrame ==
    ASSUME Indexed, UNCHANGED <<tip, tipHeight, heightIndex, repIndex, pubKeyIndex>>
    PROVE  Indexed'
<1>1. Located'
  BY LocatedFrame DEF Indexed
<1> QED
  BY <1>1 DEF Indexed, NoDoubleConfirmation, RepIndexIsExact, RetainedHeights,
              RepresentationsOf, PubKeyEntries

LEMMA IndexedNext == Indexed /\ [LedgerNext]_ledgerVars => Indexed'
<1> SUFFICES ASSUME Indexed, [LedgerNext]_ledgerVars PROVE Indexed'
  OBVIOUS
<1>1. ASSUME NEW p \in Plot, tip = None => p = Genesis, ConnectPlot(p), Checked(p)
      PROVE  Indexed'
  BY <1>1, IndexedConnect
<1>2. ASSUME NEW p \in Plot \ {Genesis}, DisconnectPlot(p)
      PROVE  Indexed'
  BY <1>2, IndexedDisconnect
<1>3. ASSUME NEW p \in Plot, SetBranchType(p, SIDE)
      PROVE  Indexed'
  BY <1>3, IndexedFrame DEF SetBranchType
<1>4. ASSUME NEW links \in PlotLinks, IndexLinks(links)
      PROVE  Indexed'
  BY <1>4, IndexedFrame DEF IndexLinks
<1>5. CASE LoseGraph
  BY <1>5, IndexedFrame DEF LoseGraph
<1>6. CASE UNCHANGED ledgerVars
  BY <1>6, IndexedFrame DEF ledgerVars
<1> QED
  BY <1>1, <1>2, <1>3, <1>4, <1>5, <1>6 DEF LedgerNext

(* No representation is ever confirmed twice on one thread, although the   *)
(* index that ConnectPlot consults is pruned.                              *)
THEOREM NothingConfirmedTwice == LedgerSpec => []NoDoubleConfirmation
<1>1. LedgerInit => Indexed
  BY IndexedInit
<1>2. Indexed => NoDoubleConfirmation
  BY DEF Indexed
<1> QED
  BY <1>1, <1>2, IndexedNext, PTL DEF LedgerSpec

(* Pruning and restoring keep both indices exact over the retained plots.  *)
THEOREM IndicesStayExact == LedgerSpec => []RepIndexIsExact
<1>1. LedgerInit => Indexed
  BY IndexedInit
<1>2. Indexed => RepIndexIsExact
  BY DEF Indexed
<1> QED
  BY <1>1, <1>2, IndexedNext, PTL DEF LedgerSpec

----------------------------------------------------------------------------
----------------------------------------------------------------------------
(* Counting positions *)

LEMMA CountType ==
    ASSUME NEW A, NEW i \in Int, NEW j \in Int
    PROVE  /\ IsFiniteSet(A \cap (i..j))
           /\ Cardinality(A \cap (i..j)) \in Nat
BY FS_Interval, FS_Subset, FS_CardinalityType

LEMMA CountLast ==
    ASSUME NEW A, NEW i \in Int, NEW j \in Int, i <= j
    PROVE  Cardinality(A \cap (i..j)) =
             Cardinality(A \cap (i..j-1)) + (IF j \in A THEN 1 ELSE 0)
<1>1. IsFiniteSet(A \cap (i..j-1)) /\ j \notin A \cap (i..j-1)
  <2>1. j - 1 \in Int /\ j \notin i..j-1
    OBVIOUS
  <2> QED
    BY <2>1, CountType
<1>2. CASE j \in A
  <2>1. A \cap (i..j) = (A \cap (i..j-1)) \cup {j}
    BY <1>2
  <2> QED
    BY <1>1, <1>2, <2>1, FS_AddElement
<1>3. CASE j \notin A
  <2>1. A \cap (i..j) = A \cap (i..j-1)
    BY <1>3
  <2> QED
    BY <1>3, <2>1, CountType
<1> QED
  BY <1>2, <1>3

LEMMA CountFirst ==
    ASSUME NEW A, NEW i \in Int, NEW j \in Int, i <= j
    PROVE  Cardinality(A \cap (i..j)) =
             Cardinality(A \cap (i+1..j)) + (IF i \in A THEN 1 ELSE 0)
<1>1. IsFiniteSet(A \cap (i+1..j)) /\ i \notin A \cap (i+1..j)
  <2>1. i + 1 \in Int /\ i \notin i+1..j
    OBVIOUS
  <2> QED
    BY <2>1, CountType
<1>2. CASE i \in A
  <2>1. A \cap (i..j) = (A \cap (i+1..j)) \cup {i}
    BY <1>2
  <2> QED
    BY <1>1, <1>2, <2>1, FS_AddElement
<1>3. CASE i \notin A
  <2>1. A \cap (i..j) = A \cap (i+1..j)
    BY <1>3
  <2> QED
    BY <1>3, <2>1, CountType
<1> QED
  BY <1>2, <1>3

----------------------------------------------------------------------------
(* Received and Sent *)

LEMMA ReceivedAsCount ==
    ASSUME NEW reps, NEW k, NEW i \in Int, NEW j \in Int
    PROVE  Received(reps, k, i, j) = Cardinality({m \in Int : reps[m].For = k} \cap (i..j))
<1>1. {m \in i..j : reps[m].For = k} = {m \in Int : reps[m].For = k} \cap (i..j)
  OBVIOUS
<1> QED
  BY <1>1 DEF Received

LEMMA SentAsCount ==
    ASSUME NEW reps, NEW k, NEW i \in Int, NEW j \in Int
    PROVE  Sent(reps, k, i, j) = Cardinality({m \in Int : reps[m].By = k} \cap (i..j))
<1>1. {m \in i..j : reps[m].By = k} = {m \in Int : reps[m].By = k} \cap (i..j)
  OBVIOUS
<1> QED
  BY <1>1 DEF Sent

LEMMA CountsOfCalls ==
    ASSUME NEW reps, NEW k, NEW i \in Int, NEW j \in Int
    PROVE  /\ Received(reps, k, i, j) \in Nat
           /\ Sent(reps, k, i, j) \in Nat
           /\ i > j => Received(reps, k, i, j) = 0 /\ Sent(reps, k, i, j) = 0
           /\ i <= j =>
                /\ Received(reps, k, i, j) =
                     Received(reps, k, i, j-1) + (IF reps[j].For = k THEN 1 ELSE 0)
                /\ Received(reps, k, i, j) =
                     Received(reps, k, i+1, j) + (IF reps[i].For = k THEN 1 ELSE 0)
                /\ Sent(reps, k, i, j) =
                     Sent(reps, k, i, j-1) + (IF reps[j].By = k THEN 1 ELSE 0)
                /\ Sent(reps, k, i, j) =
                     Sent(reps, k, i+1, j) + (IF reps[i].By = k THEN 1 ELSE 0)
<1> DEFINE F == {m \in Int : reps[m].For = k}
           B == {m \in Int : reps[m].By = k}
<1>1. /\ Received(reps, k, i, j) = Cardinality(F \cap (i..j))
      /\ Received(reps, k, i, j-1) = Cardinality(F \cap (i..j-1))
      /\ Received(reps, k, i+1, j) = Cardinality(F \cap (i+1..j))
  BY ReceivedAsCount
<1>2. /\ Sent(reps, k, i, j) = Cardinality(B \cap (i..j))
      /\ Sent(reps, k, i, j-1) = Cardinality(B \cap (i..j-1))
      /\ Sent(reps, k, i+1, j) = Cardinality(B \cap (i+1..j))
  BY SentAsCount
<1>3. /\ i \in F <=> reps[i].For = k
      /\ j \in F <=> reps[j].For = k
      /\ i \in B <=> reps[i].By = k
      /\ j \in B <=> reps[j].By = k
  OBVIOUS
<1> HIDE DEF F, B
<1>4. Cardinality(F \cap (i..j)) \in Nat /\ Cardinality(B \cap (i..j)) \in Nat
  BY CountType
<1>5. CASE i > j
  <2>1. F \cap (i..j) = {} /\ B \cap (i..j) = {}
    BY <1>5
  <2>2. Cardinality(F \cap (i..j)) = 0 /\ Cardinality(B \cap (i..j)) = 0
    BY <2>1, FS_EmptySet
  <2> QED
    BY <1>1, <1>2, <1>5, <2>2
<1>6. CASE i <= j
  <2>1. /\ Cardinality(F \cap (i..j)) =
             Cardinality(F \cap (i..j-1)) + (IF j \in F THEN 1 ELSE 0)
        /\ Cardinality(B \cap (i..j)) =
             Cardinality(B \cap (i..j-1)) + (IF j \in B THEN 1 ELSE 0)
    BY <1>6, CountLast
  <2>2. /\ Cardinality(F \cap (i..j)) =
             Cardinality(F \cap (i+1..j)) + (IF i \in F THEN 1 ELSE 0)
        /\ Cardinality(B \cap (i..j)) =
             Cardinality(B \cap (i+1..j)) + (IF i \in B THEN 1 ELSE 0)
    <3>1. Cardinality(F \cap (i..j)) =
            Cardinality(F \cap (i+1..j)) + (IF i \in F THEN 1 ELSE 0)
      BY <1>6, CountFirst
    <3>2. Cardinality(B \cap (i..j)) =
            Cardinality(B \cap (i+1..j)) + (IF i \in B THEN 1 ELSE 0)
      BY <1>6, CountFirst
    <3> QED
      BY <3>1, <3>2
  <2>3. /\ Received(reps, k, i, j) =
             Received(reps, k, i, j-1) + (IF reps[j].For = k THEN 1 ELSE 0)
        /\ Sent(reps, k, i, j) =
             Sent(reps, k, i, j-1) + (IF reps[j].By = k THEN 1 ELSE 0)
    BY <1>1, <1>2, <1>3, <2>1
  <2>4. /\ Received(reps, k, i, j) =
             Received(reps, k, i+1, j) + (IF reps[i].For = k THEN 1 ELSE 0)
        /\ Sent(reps, k, i, j) =
             Sent(reps, k, i+1, j) + (IF reps[i].By = k THEN 1 ELSE 0)
    BY <1>1, <1>2, <1>3, <2>2
  <2>5. Received(reps, k, i, j) \in Nat /\ Sent(reps, k, i, j) \in Nat
    BY <1>1, <1>2, <1>4
  <2>6. ~(i > j)
    BY <1>6
  <2> QED
    BY <2>3, <2>4, <2>5, <2>6
<1> QED
  BY <1>5, <1>6

----------------------------------------------------------------------------
(* One call at a time *)

\* Applied is what one more call of Apply makes of it.
LEMMA AppliedCalls ==
    ASSUME NEW cache \in [Key -> Int], NEW reps
    PROVE  /\ Applied(cache, reps, 0) = cache
           /\ \A n \in Nat : Applied(cache, reps, n) \in [Key -> Int]
           /\ \A n \in Nat \ {0} :
                Applied(cache, reps, n) = Apply(Applied(cache, reps, n - 1), reps[n])
<1>1. \A k, n : n \in Nat => /\ Received(reps, k, 1, n) \in Nat
                            /\ Sent(reps, k, 1, n) \in Nat
  BY CountsOfCalls
<1>2. \A k : Received(reps, k, 1, 0) = 0 /\ Sent(reps, k, 1, 0) = 0
  BY CountsOfCalls
<1>3. Applied(cache, reps, 0) = cache
  BY <1>2 DEF Applied
<1>4. \A n \in Nat : Applied(cache, reps, n) \in [Key -> Int]
  BY <1>1 DEF Applied
<1>5. ASSUME NEW n \in Nat \ {0}
      PROVE  Applied(cache, reps, n) = Apply(Applied(cache, reps, n - 1), reps[n])
  <2>1. n \in Int /\ 1 <= n /\ n - 1 \in Nat
    OBVIOUS
  <2>2. ASSUME NEW k \in Key
        PROVE  Applied(cache, reps, n)[k] = Apply(Applied(cache, reps, n - 1), reps[n])[k]
    <3>1. /\ Received(reps, k, 1, n) =
               Received(reps, k, 1, n-1) + (IF reps[n].For = k THEN 1 ELSE 0)
          /\ Sent(reps, k, 1, n) =
               Sent(reps, k, 1, n-1) + (IF reps[n].By = k THEN 1 ELSE 0)
      BY <2>1, CountsOfCalls
    <3>2. /\ Received(reps, k, 1, n-1) \in Nat
          /\ Sent(reps, k, 1, n-1) \in Nat
          /\ cache[k] \in Int
      BY <1>1, <2>1
    <3>3. /\ Applied(cache, reps, n)[k] =
               cache[k] + Received(reps, k, 1, n) - Sent(reps, k, 1, n)
          /\ Applied(cache, reps, n-1)[k] =
               cache[k] + Received(reps, k, 1, n-1) - Sent(reps, k, 1, n-1)
      BY DEF Applied
    <3>4. Apply(Applied(cache, reps, n - 1), reps[n])[k] =
            Applied(cache, reps, n-1)[k] + (IF k = reps[n].For THEN 1 ELSE 0)
                                         - (IF k = reps[n].By THEN 1 ELSE 0)
      BY DEF Apply
    <3> QED
      BY <3>1, <3>2, <3>3, <3>4
  <2> QED
    BY <2>2 DEF Applied, Apply
<1> QED
  BY <1>3, <1>4, <1>5

\* Undone is what one more call of Undo makes of it.
LEMMA UndoneCalls ==
    ASSUME NEW cache \in [Key -> Int], NEW reps, Len(reps) \in Nat
    PROVE  /\ Undone(cache, reps, Len(reps) + 1) = cache
           /\ \A n \in Nat : Undone(cache, reps, n) \in [Key -> Int]
           /\ \A n \in 1..Len(reps) :
                Undone(cache, reps, n) = Undo(Undone(cache, reps, n + 1), reps[n])
<1> DEFINE N == Len(reps)
<1>1. \A k, n : n \in Nat => /\ Received(reps, k, n, N) \in Nat
                            /\ Sent(reps, k, n, N) \in Nat
  BY CountsOfCalls
<1>2. \A k : Received(reps, k, N + 1, N) = 0 /\ Sent(reps, k, N + 1, N) = 0
  BY CountsOfCalls
<1>3. Undone(cache, reps, N + 1) = cache
  BY <1>2 DEF Undone
<1>4. \A n \in Nat : Undone(cache, reps, n) \in [Key -> Int]
  BY <1>1 DEF Undone
<1>5. ASSUME NEW n \in 1..N
      PROVE  Undone(cache, reps, n) = Undo(Undone(cache, reps, n + 1), reps[n])
  <2>1. n \in Int /\ N \in Int /\ n <= N /\ n + 1 \in Nat
    OBVIOUS
  <2>2. ASSUME NEW k \in Key
        PROVE  Undone(cache, reps, n)[k] = Undo(Undone(cache, reps, n + 1), reps[n])[k]
    <3>1. /\ Received(reps, k, n, N) =
               Received(reps, k, n+1, N) + (IF reps[n].For = k THEN 1 ELSE 0)
          /\ Sent(reps, k, n, N) =
               Sent(reps, k, n+1, N) + (IF reps[n].By = k THEN 1 ELSE 0)
      BY <2>1, CountsOfCalls
    <3>2. /\ Received(reps, k, n+1, N) \in Nat
          /\ Sent(reps, k, n+1, N) \in Nat
          /\ cache[k] \in Int
      BY <1>1, <2>1
    <3>3. /\ Undone(cache, reps, n)[k] =
               cache[k] - Received(reps, k, n, N) + Sent(reps, k, n, N)
          /\ Undone(cache, reps, n+1)[k] =
               cache[k] - Received(reps, k, n+1, N) + Sent(reps, k, n+1, N)
      BY DEF Undone
    <3>4. Undo(Undone(cache, reps, n + 1), reps[n])[k] =
            Undone(cache, reps, n+1)[k] - (IF k = reps[n].For THEN 1 ELSE 0)
                                        + (IF k = reps[n].By THEN 1 ELSE 0)
      BY DEF Undo
    <3> QED
      BY <3>1, <3>2, <3>3, <3>4
  <2> QED
    BY <2>2 DEF Undone, Undo
<1> QED
  BY <1>3, <1>4, <1>5

----------------------------------------------------------------------------
(* Whole plots *)

\* While every Apply succeeds, no key goes below zero.
LEMMA AppliedNeverNegative ==
    ASSUME NEW cache \in [Key -> Nat],
           NEW reps \in Seq(Representation),
           CanApplyAll(cache, reps),
           NEW last \in 0..Len(reps)
    PROVE  Applied(cache, reps, last) \in [Key -> Nat]
<1> DEFINE A == {n \in Nat : n <= Len(reps) => Applied(cache, reps, n) \in [Key -> Nat]}
<1>1. /\ Applied(cache, reps, 0) = cache
      /\ \A n \in Nat : Applied(cache, reps, n) \in [Key -> Int]
      /\ \A n \in Nat \ {0} :
           Applied(cache, reps, n) = Apply(Applied(cache, reps, n - 1), reps[n])
  <2>1. cache \in [Key -> Int]
    OBVIOUS
  <2> QED
    BY <2>1, AppliedCalls
<1>2. 0 \in A
  BY <1>1
<1>3. ASSUME NEW n \in Nat, n \in A PROVE n + 1 \in A
  <2> SUFFICES ASSUME n + 1 <= Len(reps)
               PROVE  Applied(cache, reps, n + 1) \in [Key -> Nat]
    OBVIOUS
  <2>1. /\ n + 1 \in DOMAIN reps
        /\ Len(reps) \in Nat
        /\ reps[n+1] \in Representation
    OBVIOUS
  <2>2. Applied(cache, reps, n) \in [Key -> Nat]
    BY <1>3, <2>1
  <2>3. (n + 1) - 1 = n /\ n + 1 \in Nat \ {0}
    OBVIOUS
  <2>4. CanApply(Applied(cache, reps, n), reps[n+1])
    BY <2>1, <2>3 DEF CanApplyAll
  <2>5. Applied(cache, reps, n + 1) = Apply(Applied(cache, reps, n), reps[n+1])
    BY <1>1, <2>3
  <2>6. ASSUME NEW k \in Key
        PROVE  Apply(Applied(cache, reps, n), reps[n+1])[k] \in Nat
    <3>1. k = reps[n+1].By => Applied(cache, reps, n)[k] >= 1
      BY <2>4, RepresentationAssumption DEF CanApply, IsPlotroot
    <3>2. Applied(cache, reps, n)[k] \in Nat
      BY <2>2
    <3> QED
      BY <3>1, <3>2 DEF Apply
  <2> QED
    BY <2>5, <2>6 DEF Apply
<1>4. Nat \subseteq A
  <2> HIDE DEF A
  <2> QED
    BY <1>2, <1>3, Induction
<1> QED
  BY <1>4

\* While every Undo succeeds, no key goes below zero.
LEMMA UndoneNeverNegative ==
    ASSUME NEW cache \in [Key -> Nat],
           NEW reps \in Seq(Representation),
           CanUndoAll(cache, reps)
    PROVE  Undone(cache, reps, 1) \in [Key -> Nat]
<1> DEFINE N == Len(reps)
           A == {d \in Nat : d <= N => Undone(cache, reps, N + 1 - d) \in [Key -> Nat]}
<1>0. N \in Nat
  OBVIOUS
<1>1. /\ Undone(cache, reps, N + 1) = cache
      /\ \A n \in 1..N : Undone(cache, reps, n) = Undo(Undone(cache, reps, n + 1), reps[n])
  <2>1. cache \in [Key -> Int]
    OBVIOUS
  <2> QED
    BY <1>0, <2>1, UndoneCalls
<1>2. 0 \in A
  <2>1. N + 1 - 0 = N + 1
    BY <1>0
  <2> QED
    BY <1>1, <2>1
<1>3. ASSUME NEW d \in Nat, d \in A PROVE d + 1 \in A
  <2> SUFFICES ASSUME d + 1 <= N
               PROVE  Undone(cache, reps, N + 1 - (d + 1)) \in [Key -> Nat]
    OBVIOUS
  <2> DEFINE n == N - d
  <2>1. /\ n \in 1..N
        /\ n \in DOMAIN reps
        /\ N + 1 - (d + 1) = n
        /\ N + 1 - d = n + 1
    BY <1>0
  <2>2. Undone(cache, reps, n + 1) \in [Key -> Nat]
    BY <1>0, <1>3, <2>1
  <2>3. CanUndo(Undone(cache, reps, n + 1), reps[n])
    BY <2>1 DEF CanUndoAll
  <2>4. Undone(cache, reps, n) = Undo(Undone(cache, reps, n + 1), reps[n])
    BY <1>1, <2>1
  <2> HIDE DEF n
  <2>5. ASSUME NEW k \in Key
        PROVE  Undo(Undone(cache, reps, n + 1), reps[n])[k] \in Nat
    <3>1. k = reps[n].For => Undone(cache, reps, n + 1)[k] >= 1
      BY <2>3 DEF CanUndo
    <3>2. Undone(cache, reps, n + 1)[k] \in Nat
      BY <2>2
    <3> QED
      BY <3>1, <3>2 DEF Undo
  <2> QED
    BY <2>1, <2>4, <2>5 DEF Undo
<1>4. Nat \subseteq A
  <2> HIDE DEF A
  <2> QED
    BY <1>2, <1>3, Induction
<1>5. N \in A /\ N + 1 - N = 1
  BY <1>0, <1>4
<1> QED
  BY <1>0, <1>5

\* Undoing a plot right after applying it retraces the same caches.
LEMMA UndoneRetracesApplied ==
    ASSUME NEW cache \in [Key -> Int],
           NEW reps \in Seq(Representation),
           NEW last \in 0..Len(reps)
    PROVE  Undone(Applied(cache, reps, Len(reps)), reps, last + 1) =
             Applied(cache, reps, last)
<1> DEFINE N == Len(reps)
           full == Applied(cache, reps, N)
           A == {d \in Nat : d <= N =>
                   Undone(full, reps, N - d + 1) = Applied(cache, reps, N - d)}
<1>0. N \in Nat
  OBVIOUS
<1>1. /\ \A n \in Nat : Applied(cache, reps, n) \in [Key -> Int]
      /\ \A n \in Nat \ {0} :
           Applied(cache, reps, n) = Apply(Applied(cache, reps, n - 1), reps[n])
  BY AppliedCalls
<1>2. full \in [Key -> Int]
  BY <1>0, <1>1
<1> HIDE DEF full
<1>3. /\ Undone(full, reps, N + 1) = full
      /\ \A n \in 1..N : Undone(full, reps, n) = Undo(Undone(full, reps, n + 1), reps[n])
  BY <1>0, <1>2, UndoneCalls
<1>4. 0 \in A
  <2>1. N - 0 = N
    BY <1>0
  <2> QED
    BY <1>3, <2>1 DEF full
<1>5. ASSUME NEW d \in Nat, d \in A PROVE d + 1 \in A
  <2> SUFFICES ASSUME d + 1 <= N
               PROVE  Undone(full, reps, N - (d + 1) + 1) = Applied(cache, reps, N - (d + 1))
    OBVIOUS
  <2> DEFINE n == N - d
  <2>1. n \in 1..N /\ n \in Nat \ {0} /\ n - 1 \in Nat
    BY <1>0
  <2>2. N - (d + 1) + 1 = n /\ N - (d + 1) = n - 1 /\ N - d + 1 = n + 1 /\ N - d = n
    BY <1>0
  <2>3. Undone(full, reps, n + 1) = Applied(cache, reps, n)
    BY <1>0, <1>5, <2>2
  <2> HIDE DEF n
  <2>4. /\ Undone(full, reps, n) = Undo(Applied(cache, reps, n), reps[n])
        /\ Applied(cache, reps, n) = Apply(Applied(cache, reps, n - 1), reps[n])
        /\ Applied(cache, reps, n - 1) \in [Key -> Int]
    BY <1>1, <1>3, <2>1, <2>3
  <2>5. ASSUME NEW before \in [Key -> Int], NEW r
        PROVE  Undo(Apply(before, r), r) = before
    <3>1. ASSUME NEW k \in Key
          PROVE  Undo(Apply(before, r), r)[k] = before[k]
      <4>1. before[k] \in Int
        OBVIOUS
      <4> QED
        BY <4>1 DEF Undo, Apply
    <3> QED
      BY <3>1 DEF Undo
  <2>6. Undone(full, reps, n) = Applied(cache, reps, n - 1)
    BY <2>4, <2>5
  <2> QED
    BY <2>2, <2>6
<1>6. Nat \subseteq A
  <2> HIDE DEF A
  <2> QED
    BY <1>4, <1>5, Induction
<1>7. N - last \in A /\ N - last <= N /\ N - (N - last) + 1 = last + 1 /\ N - (N - last) = last
  BY <1>0, <1>6
<1> QED
  BY <1>7 DEF full

\* What was applied can be undone: Undo does not panic.
LEMMA AppliedCanBeUndone ==
    ASSUME NEW cache \in [Key -> Nat],
           NEW reps \in Seq(Representation),
           CanApplyAll(cache, reps),
           \A n \in DOMAIN reps : reps[n].By # reps[n].For
    PROVE  CanUndoAll(Applied(cache, reps, Len(reps)), reps)
<1> SUFFICES ASSUME NEW n \in DOMAIN reps
             PROVE  CanUndo(Undone(Applied(cache, reps, Len(reps)), reps, n + 1), reps[n])
  BY DEF CanUndoAll
<1>1. /\ Len(reps) \in Nat
      /\ n \in 0..Len(reps)
      /\ n - 1 \in 0..Len(reps)
      /\ n \in Nat \ {0}
      /\ reps[n] \in Representation
      /\ cache \in [Key -> Int]
  OBVIOUS
<1>2. Undone(Applied(cache, reps, Len(reps)), reps, n + 1) = Applied(cache, reps, n)
  BY <1>1, UndoneRetracesApplied
<1>3. Applied(cache, reps, n) = Apply(Applied(cache, reps, n - 1), reps[n])
  BY <1>1, AppliedCalls
<1>4. Applied(cache, reps, n - 1) \in [Key -> Nat]
  BY <1>1, AppliedNeverNegative
<1>5. reps[n].For \in Key /\ reps[n].For # reps[n].By
  BY <1>1, RepresentationAssumption
<1> QED
  BY <1>2, <1>3, <1>4, <1>5 DEF CanUndo, Apply

----------------------------------------------------------------------------
(* The history of the imbalances *)


\* The imbalances before each height, and after the last one.
Histories == [0..MAX_NUMBER + 1 -> [Key -> Nat]]

Leads(history) ==
    /\ history[0] = [k \in Key |-> 0]
    /\ history[tipHeight + 1] = imbalance
    /\ \A h \in 0..tipHeight :
         LET effects == Effects(heightIndex[h])
         IN  /\ CanApplyAll(history[h], effects)
             /\ history[h+1] = Applied(history[h], effects, Len(effects))

Funded == Located /\ \E history \in Histories : Leads(history)

----------------------------------------------------------------------------
(* Effects *)

LEMMA SequenceWithin ==
    ASSUME NEW R, NEW G, NEW s \in Seq(R), \A i \in 1..Len(s) : s[i] \in G
    PROVE  s \in Seq(G)
OBVIOUS

LEMMA EffectsAreTransfers ==
    ASSUME Located,
           NEW p \in Plot,
           Checked(p),
           Height[p] <= tipHeight + 1
    PROVE  /\ Effects(p) \in Seq(Representation)
           /\ \A n \in DOMAIN Effects(p) : Effects(p)[n].By # Effects(p)[n].For
<1> DEFINE Good == {r \in Representation : r.By # r.For}
<1>1. ASSUME NEW q \in Plot, Checked(q)
      PROVE  Representations[q] \in Seq(Good) /\ Len(Representations[q]) >= 1
  <2>1. Representations[q] \in Seq(Representation)
    BY TreeAssumption
  <2>2. \A i \in DOMAIN Representations[q] : Representations[q][i].By # Representations[q][i].For
    BY <1>1 DEF Checked, CheckPlotContents, CheckRepresentation
  <2>3. Len(Representations[q]) >= 1
    BY <1>1 DEF Checked, CheckPlotContents
  <2>4. \A i \in 1..Len(Representations[q]) : Representations[q][i] \in Good
    BY <2>1, <2>2
  <2> HIDE DEF Good
  <2>5. Representations[q] \in Seq(Good)
    BY <2>1, <2>4, SequenceWithin
  <2> QED
    BY <2>3, <2>5
<1>2. /\ MAX_NUMBER \in Nat
      /\ Height[p] \in Nat
      /\ PLOTROOT_MATURITY \in Nat \ {0}
      /\ tipHeight \in -1..MAX_NUMBER
  BY ParametersAssumption, TreeAssumption DEF Located, ThreadTypeOK
<1>3. Tail(Representations[p]) \in Seq(Good)
  BY <1>1
<1>4. CASE MaturingHeight(p) >= 0
  <2>1. MaturingHeight(p) \in 0..tipHeight
    BY <1>2, <1>4 DEF MaturingHeight
  <2>2. /\ heightIndex[MaturingHeight(p)] \in Plot
        /\ Checked(heightIndex[MaturingHeight(p)])
    BY <2>1, OnThreadAreChecked
  <2> DEFINE matured == Representations[heightIndex[MaturingHeight(p)]]
  <2>3. matured[1] \in Good
    <3>1. matured \in Seq(Good) /\ Len(matured) >= 1
      BY <1>1, <2>2
    <3> HIDE DEF matured, Good
    <3> QED
      BY <3>1
  <2>4. <<Representations[heightIndex[MaturingHeight(p)]][1]>> \in Seq(Good)
    BY <2>3
  <2> HIDE DEF Good
  <2>5. Effects(p) \in Seq(Good)
    BY <1>3, <1>4, <2>4 DEF Effects
  <2> QED
    BY <2>5 DEF Good
<1>5. CASE ~(MaturingHeight(p) >= 0)
  <2> HIDE DEF Good
  <2>1. Effects(p) \in Seq(Good)
    BY <1>3, <1>5 DEF Effects
  <2> QED
    BY <2>1 DEF Good
<1> QED
  BY <1>4, <1>5

\* The effects of a plot are fixed by the plots below it.
LEMMA EffectsFrame ==
    ASSUME NEW p \in Plot,
           NEW h, heightIndex'[h] = p,
           MaturingHeight(p) >= 0 =>
             heightIndex'[MaturingHeight(p)] = heightIndex[MaturingHeight(p)]
    PROVE  Effects(heightIndex[h])' = Effects(p)
BY DEF Effects, MaturingHeight

----------------------------------------------------------------------------
(* Steps *)

LEMMA FundedInit == ASSUME LedgerInit PROVE Funded
<1>1. Located
  BY LocatedInit
<1> DEFINE history == [h \in 0..MAX_NUMBER + 1 |-> [k \in Key |-> 0]]
<1>2. MAX_NUMBER \in Nat /\ tipHeight + 1 = 0 /\ 0..tipHeight = {}
  BY ParametersAssumption DEF LedgerInit
<1>3. history \in Histories
  BY DEF Histories
<1>4. Leads(history)
  BY <1>2 DEF LedgerInit, Leads
<1> QED
  BY <1>1, <1>3, <1>4 DEF Funded

LEMMA FundedConnect ==
    ASSUME Funded,
           NEW p \in Plot,
           tip = None => p = Genesis,
           ConnectPlot(p),
           Checked(p)
    PROVE  Funded'
<1>1. Located /\ Located'
  BY LocatedConnect DEF Funded
<1>2. PICK history \in Histories : Leads(history)
  BY DEF Funded
<1>3. /\ MAX_NUMBER \in Nat
      /\ tipHeight \in -1..MAX_NUMBER
      /\ tipHeight' = tipHeight + 1
      /\ tipHeight + 1 \in 0..MAX_NUMBER
      /\ Height[p] = tipHeight + 1
      /\ heightIndex'[tipHeight + 1] = p
      /\ \A h \in 0..tipHeight : heightIndex'[h] = heightIndex[h]
  BY <1>1, ThreadAfterConnect
<1>4. PLOTROOT_MATURITY \in Nat \ {0}
  BY ParametersAssumption
<1>5. Effects(p) \in Seq(Representation)
  BY <1>1, <1>3, EffectsAreTransfers
<1>6. /\ CanApplyAll(imbalance, Effects(p))
      /\ imbalance' = Applied(imbalance, Effects(p), Len(Effects(p)))
  BY DEF ConnectPlot, CanConnect, IsFunded
<1>7. imbalance \in [Key -> Nat] /\ history[tipHeight + 1] = imbalance
  BY <1>2, <1>3 DEF Leads, Histories
<1>8. imbalance' \in [Key -> Nat]
  <2>1. Len(Effects(p)) \in 0..Len(Effects(p))
    BY <1>5
  <2> QED
    BY <1>5, <1>6, <1>7, <2>1, AppliedNeverNegative
<1> PICK after : after = [history EXCEPT ![tipHeight + 2] = imbalance']
  OBVIOUS
<1>9. after \in Histories
  BY <1>3, <1>8 DEF Histories
<1>10. /\ after[tipHeight + 2] = imbalance'
       /\ \A h \in 0..tipHeight + 1 : after[h] = history[h]
  BY <1>3 DEF Histories
<1>11. ASSUME NEW q \in Plot, NEW h \in 0..tipHeight + 1, heightIndex'[h] = q, Height[q] = h
       PROVE  Effects(heightIndex[h])' = Effects(q)
  <2>1. MaturingHeight(q) >= 0 => MaturingHeight(q) \in 0..tipHeight
    BY <1>3, <1>4, <1>11 DEF MaturingHeight
  <2> QED
    BY <1>3, <1>11, <2>1, EffectsFrame
<1>12. ASSUME NEW h \in 0..tipHeight + 1
       PROVE  LET effects == Effects(heightIndex[h])'
              IN  /\ CanApplyAll(after[h], effects)
                  /\ after[h+1] = Applied(after[h], effects, Len(effects))
  <2>1. CASE h = tipHeight + 1
    <3>1. Effects(heightIndex[h])' = Effects(p)
      BY <1>3, <1>11, <2>1
    <3>2. after[h] = imbalance /\ after[h+1] = imbalance'
      BY <1>3, <1>7, <1>10, <2>1
    <3> QED
      BY <1>6, <3>1, <3>2
  <2>2. CASE h # tipHeight + 1
    <3>1. h \in 0..tipHeight /\ heightIndex'[h] = heightIndex[h]
      BY <1>3, <2>2
    <3>2. heightIndex[h] \in Plot /\ Height[heightIndex[h]] = h
      BY <1>1, <3>1, OnThreadAreChecked
    <3>3. Effects(heightIndex[h])' = Effects(heightIndex[h])
      BY <1>11, <3>1, <3>2
    <3>4. after[h] = history[h] /\ after[h+1] = history[h+1]
      BY <1>3, <1>10, <3>1
    <3> QED
      BY <1>2, <3>1, <3>3, <3>4 DEF Leads
  <2> QED
    BY <2>1, <2>2
<1>13. Leads(after)'
  <2>1. after[0] = [k \in Key |-> 0] /\ tipHeight' + 1 = tipHeight + 2
    BY <1>2, <1>3, <1>10 DEF Leads
  <2>2. \A h \in 0..tipHeight' :
          LET effects == Effects(heightIndex[h])'
          IN  /\ CanApplyAll(after[h], effects)
              /\ after[h+1] = Applied(after[h], effects, Len(effects))
    BY <1>3, <1>12
  <2> QED
    BY <1>10, <2>1, <2>2 DEF Leads
<1> QED
  BY <1>1, <1>9, <1>13 DEF Funded

LEMMA FundedDisconnect ==
    ASSUME Funded, NEW p \in Plot \ {Genesis}, DisconnectPlot(p)
    PROVE  Funded'
<1>1. Located /\ Located'
  BY LocatedDisconnect DEF Funded
<1>2. PICK history \in Histories : Leads(history)
  BY DEF Funded
<1>3. /\ MAX_NUMBER \in Nat
      /\ tipHeight \in 1..MAX_NUMBER
      /\ tipHeight' = tipHeight - 1
      /\ Height[p] = tipHeight
      /\ heightIndex[tipHeight] = p
      /\ Checked(p)
      /\ \A h \in 0..tipHeight - 1 : heightIndex'[h] = heightIndex[h]
  BY <1>1, ThreadAfterDisconnect
<1>4. PLOTROOT_MATURITY \in Nat \ {0}
  BY ParametersAssumption
<1>5. Effects(p) \in Seq(Representation)
  BY <1>1, <1>3, EffectsAreTransfers
<1>6. imbalance = Applied(history[tipHeight], Effects(p), Len(Effects(p)))
  BY <1>2, <1>3 DEF Leads
<1>7. history[tipHeight] \in [Key -> Nat] /\ history[tipHeight] \in [Key -> Int]
  BY <1>3 DEF Histories
<1>8. imbalance' = history[tipHeight]
  <2>1. 0 \in 0..Len(Effects(p))
    BY <1>5
  <2>2. Undone(imbalance, Effects(p), 0 + 1) = Applied(history[tipHeight], Effects(p), 0)
    BY <1>5, <1>6, <1>7, <2>1, UndoneRetracesApplied
  <2>3. Applied(history[tipHeight], Effects(p), 0) = history[tipHeight]
    BY <1>7, AppliedCalls
  <2>4. imbalance' = Undone(imbalance, Effects(p), 1)
    BY DEF DisconnectPlot
  <2> QED
    BY <2>2, <2>3, <2>4
<1>9. ASSUME NEW h \in 0..tipHeight - 1
      PROVE  Effects(heightIndex[h])' = Effects(heightIndex[h])
  <2> DEFINE q == heightIndex[h]
  <2>1. h \in 0..tipHeight /\ heightIndex'[h] = q
    BY <1>3
  <2>2. q \in Plot /\ Height[q] = h
    BY <1>1, <2>1, OnThreadAreChecked
  <2>3. MaturingHeight(q) >= 0 => MaturingHeight(q) \in 0..tipHeight - 1
    BY <1>3, <1>4, <2>2 DEF MaturingHeight
  <2> HIDE DEF q
  <2>4. Effects(heightIndex[h])' = Effects(q)
    BY <1>3, <2>1, <2>2, <2>3, EffectsFrame
  <2> QED
    BY <2>4 DEF q
<1>10. Leads(history)'
  <2>1. history[0] = [k \in Key |-> 0] /\ tipHeight' + 1 = tipHeight
    BY <1>2, <1>3 DEF Leads
  <2>2. \A h \in 0..tipHeight' :
          LET effects == Effects(heightIndex[h])'
          IN  /\ CanApplyAll(history[h], effects)
              /\ history[h+1] = Applied(history[h], effects, Len(effects))
    BY <1>2, <1>3, <1>9 DEF Leads
  <2> QED
    BY <1>8, <2>1, <2>2 DEF Leads
<1> QED
  BY <1>1, <1>10 DEF Funded

LEMMA FundedFrame ==
    ASSUME Funded, UNCHANGED <<tip, tipHeight, heightIndex, imbalance>>
    PROVE  Funded'
<1>1. Located'
  BY LocatedFrame DEF Funded
<1>2. PICK history \in Histories : Leads(history)
  BY DEF Funded
<1>3. Leads(history)'
  BY <1>2 DEF Leads, Effects, MaturingHeight
<1> QED
  BY <1>1, <1>3 DEF Funded

LEMMA FundedNext == Funded /\ [LedgerNext]_ledgerVars => Funded'
<1> SUFFICES ASSUME Funded, [LedgerNext]_ledgerVars PROVE Funded'
  OBVIOUS
<1>1. ASSUME NEW p \in Plot, tip = None => p = Genesis, ConnectPlot(p), Checked(p)
      PROVE  Funded'
  BY <1>1, FundedConnect
<1>2. ASSUME NEW p \in Plot \ {Genesis}, DisconnectPlot(p)
      PROVE  Funded'
  BY <1>2, FundedDisconnect
<1>3. ASSUME NEW p \in Plot, SetBranchType(p, SIDE)
      PROVE  Funded'
  BY <1>3, FundedFrame DEF SetBranchType
<1>4. ASSUME NEW links \in PlotLinks, IndexLinks(links)
      PROVE  Funded'
  BY <1>4, FundedFrame DEF IndexLinks
<1>5. CASE LoseGraph
  BY <1>5, FundedFrame DEF LoseGraph
<1>6. CASE UNCHANGED ledgerVars
  BY <1>6, FundedFrame DEF ledgerVars
<1> QED
  BY <1>1, <1>2, <1>3, <1>4, <1>5, <1>6 DEF LedgerNext

----------------------------------------------------------------------------
(* The theorems *)

LEMMA FundedTipCanBeUndone == ASSUME Funded PROVE UndoNeverPanics
<1> SUFFICES ASSUME tip # None PROVE CanUndoAll(imbalance, Effects(tip))
  BY DEF UndoNeverPanics
<1>1. PICK history \in Histories : Leads(history)
  BY DEF Funded
<1>2. /\ Located
      /\ MAX_NUMBER \in Nat
      /\ tipHeight \in 0..MAX_NUMBER
      /\ heightIndex[tipHeight] = tip
  BY ParametersAssumption DEF Funded, Located, ThreadTypeOK, ThreadIsLinked
<1>3. tipHeight \in 0..tipHeight
  BY <1>2
<1>4. tip \in Plot /\ Checked(tip) /\ Height[tip] = tipHeight
  BY <1>2, <1>3, OnThreadAreChecked
<1>5. /\ Effects(tip) \in Seq(Representation)
      /\ \A n \in DOMAIN Effects(tip) : Effects(tip)[n].By # Effects(tip)[n].For
  <2>1. Height[tip] <= tipHeight + 1
    BY <1>2, <1>4
  <2> QED
    BY <1>2, <1>4, <2>1, EffectsAreTransfers
<1>6. /\ history[tipHeight] \in [Key -> Nat]
      /\ CanApplyAll(history[tipHeight], Effects(tip))
      /\ imbalance = Applied(history[tipHeight], Effects(tip), Len(Effects(tip)))
  BY <1>1, <1>2, <1>3 DEF Leads, Histories
<1> QED
  BY <1>5, <1>6, AppliedCanBeUndone

(* ImbalanceCache.Undo panics when a recipient has less than one unit: no  *)
(* disconnection of the tip ever gets there.                               *)
THEOREM DisconnectingNeverPanics == LedgerSpec => []UndoNeverPanics
<1>1. LedgerInit => Funded
  BY FundedInit
<1>2. Funded => UndoNeverPanics
  BY FundedTipCanBeUndone
<1> QED
  BY <1>1, <1>2, FundedNext, PTL DEF LedgerSpec

\* The two fields that no other invariant types.
MarksTypeOK ==
    /\ branchType \in [Plot -> {MAIN, SIDE, UNKNOWN}]
    /\ graph \subseteq (Key \cup {NoKey}) \X Key

LEMMA MarksNext ==
    ASSUME MarksTypeOK, [LedgerNext]_ledgerVars
    PROVE  MarksTypeOK'
<1>1. ASSUME NEW p \in Plot, ConnectPlot(p) PROVE MarksTypeOK'
  BY <1>1 DEF MarksTypeOK, ConnectPlot
<1>2. ASSUME NEW p \in Plot, DisconnectPlot(p) PROVE MarksTypeOK'
  BY <1>2 DEF MarksTypeOK, DisconnectPlot
<1>3. ASSUME NEW p \in Plot, SetBranchType(p, SIDE) PROVE MarksTypeOK'
  BY <1>3 DEF MarksTypeOK, SetBranchType
<1>4. ASSUME NEW links \in PlotLinks, IndexLinks(links) PROVE MarksTypeOK'
  <2>1. PICK p \in Plot : links = Links(p)
    BY <1>4 DEF PlotLinks
  <2>2. \A r \in RepresentationsOf(p) : r.By \in Key \cup {NoKey} /\ r.For \in Key
    BY OwnList, RepresentationAssumption
  <2>3. links \subseteq (Key \cup {NoKey}) \X Key
    BY <2>1, <2>2 DEF Links
  <2> QED
    BY <1>4, <2>3 DEF MarksTypeOK, IndexLinks
<1>5. CASE LoseGraph
  BY <1>5 DEF MarksTypeOK, LoseGraph
<1>6. CASE UNCHANGED ledgerVars
  BY <1>6 DEF MarksTypeOK, ledgerVars
<1> QED
  BY <1>1, <1>2, <1>3, <1>4, <1>5, <1>6 DEF LedgerNext

LEMMA TypesFollow == Indexed /\ Funded /\ MarksTypeOK => LedgerTypeOK
<1> SUFFICES ASSUME Indexed, Funded, MarksTypeOK PROVE LedgerTypeOK
  OBVIOUS
<1>1. Located
  BY DEF Indexed
<1>2. imbalance \in [Key -> Nat]
  <2>1. PICK history \in Histories : Leads(history)
    BY DEF Funded
  <2>2. tipHeight + 1 \in 0..MAX_NUMBER + 1
    BY <1>1, ParametersAssumption DEF Located, ThreadTypeOK
  <2> QED
    BY <2>1, <2>2 DEF Leads, Histories
<1>3. pubKeyIndex \subseteq Key \X (0..MAX_NUMBER) \X Nat
  <2>1. ASSUME NEW e \in pubKeyIndex
        PROVE  e \in Key \X (0..MAX_NUMBER) \X Nat
    <3>1. PICK h \in RetainedHeights : e \in PubKeyEntries(heightIndex[h])
      BY DEF Indexed, RepIndexIsExact
    <3>2. h \in 0..tipHeight
      BY DEF RetainedHeights
    <3>3. heightIndex[h] \in Plot
      BY <1>1, <3>2, OnThreadAreChecked
    <3>4. /\ Height[heightIndex[h]] \in 0..MAX_NUMBER
          /\ DOMAIN Representations[heightIndex[h]] \subseteq Nat
      BY <3>3, OwnList, TreeAssumption
    <3> QED
      BY <3>1, <3>4 DEF PubKeyEntries
  <2> QED
    BY <2>1
<1> QED
  BY <1>1, <1>2, <1>3 DEF LedgerTypeOK, Located, ThreadTypeOK, Indexed, MarksTypeOK

(* The ledger keeps its types; in particular no key is ever overdrawn.     *)
THEOREM LedgerTypeCorrect == LedgerSpec => []LedgerTypeOK
<1>1. LedgerInit => Indexed /\ Funded /\ MarksTypeOK
  BY IndexedInit, FundedInit DEF LedgerInit, MarksTypeOK
<1>2. MarksTypeOK /\ [LedgerNext]_ledgerVars => MarksTypeOK'
  BY MarksNext
<1> QED
  BY <1>1, <1>2, IndexedNext, FundedNext, TypesFollow, PTL DEF LedgerSpec

----------------------------------------------------------------------------
(* The thread that the ledger implements *)


----------------------------------------------------------------------------
(* Places that count *)

Counted(t) ==
    {c \in Nat \X Nat :
       /\ c[1] \in 1..Len(t)
       /\ c[2] \in 1..Len(Representations[t[c[1]]])
       /\ c[2] = 1 => c[1] + PLOTROOT_MATURITY <= Len(t)}

At(t, c) == Representations[t[c[1]]][c[2]]

LEMMA SameCardinality == \A S : Abstract!Cardinality(S) = Cardinality(S)
BY DEF Abstract!Cardinality, Cardinality

LEMMA CountedPlaces ==
    ASSUME NEW t \in Seq(Plot)
    PROVE  Abstract!EffectivePlaces(t) = Counted(t)
<1>1. DOMAIN t = 1..Len(t) /\ 1..Len(t) \subseteq Nat
  OBVIOUS
<1>2. \A n \in 1..Len(t) :
        /\ DOMAIN Representations[t[n]] = 1..Len(Representations[t[n]])
        /\ 1..Len(Representations[t[n]]) \subseteq Nat
  BY TreeAssumption
<1>3. ASSUME NEW c
      PROVE  c \in Abstract!Places(t) <=>
               /\ c \in Nat \X Nat
               /\ c[1] \in 1..Len(t)
               /\ c[2] \in 1..Len(Representations[t[c[1]]])
  <2>1. c \in Abstract!Places(t) <=>
          \E n \in 1..Len(t) : c \in {n} \X (1..Len(Representations[t[n]]))
    BY <1>1, <1>2 DEF Abstract!Places
  <2> QED
    BY <1>1, <1>2, <2>1
<1> QED
  BY <1>3 DEF Abstract!EffectivePlaces, Counted

\* The effects of a plot on top of a thread, and the place each comes from.
IsMatured(t) == Len(t) + 1 > PLOTROOT_MATURITY

EffectsOn(t, p) ==
    (IF IsMatured(t)
     THEN <<Representations[t[Len(t) + 1 - PLOTROOT_MATURITY]][1]>>
     ELSE <<>>) \o Tail(Representations[p])

PlaceOf(t, m) ==
    IF IsMatured(t)
    THEN IF m = 1 THEN <<Len(t) + 1 - PLOTROOT_MATURITY, 1>> ELSE <<Len(t) + 1, m>>
    ELSE <<Len(t) + 1, m + 1>>

LEMMA PlacesOfEffects ==
    ASSUME NEW t \in Seq(Plot), NEW p \in Plot,
           Len(Representations[p]) >= 1,
           \A n \in 1..Len(t) : Len(Representations[t[n]]) >= 1
    PROVE  /\ EffectsOn(t, p) \in Seq(Representation)
           /\ Len(EffectsOn(t, p)) =
                IF IsMatured(t) THEN Len(Representations[p]) ELSE Len(Representations[p]) - 1
           /\ \A m \in 1..Len(EffectsOn(t, p)) :
                EffectsOn(t, p)[m] = At(Append(t, p), PlaceOf(t, m))
<1> DEFINE reps == Representations[p]
           n == Len(t) + 1 - PLOTROOT_MATURITY
<1>1. reps \in Seq(Representation) /\ Len(reps) \in Nat \ {0}
  BY TreeAssumption
<1>2. /\ Tail(reps) \in Seq(Representation)
      /\ Len(Tail(reps)) = Len(reps) - 1
      /\ \A i \in 1..Len(Tail(reps)) : Tail(reps)[i] = reps[i+1]
  BY <1>1
<1>3. /\ Append(t, p)[Len(t) + 1] = p
      /\ \A i \in 1..Len(t) : Append(t, p)[i] = t[i]
  OBVIOUS
<1>4. PLOTROOT_MATURITY \in Nat \ {0} /\ Len(t) \in Nat
  BY ParametersAssumption
<1>5. CASE IsMatured(t)
  <2>1. n \in 1..Len(t)
    BY <1>4, <1>5 DEF IsMatured
  <2>2. t[n] \in Plot /\ Representations[t[n]] \in Seq(Representation)
    <3>1. t[n] \in Plot
      BY <2>1, ElementOfSeq
    <3> QED
      BY <3>1, TreeAssumption
  <2>3. Representations[t[n]][1] \in Representation
    BY <2>1, <2>2
  <2> DEFINE first == Representations[t[n]][1]
  <2>4. EffectsOn(t, p) = <<first>> \o Tail(reps)
    BY <1>5 DEF EffectsOn
  <2> HIDE DEF first, reps
  <2>5. /\ EffectsOn(t, p) \in Seq(Representation)
        /\ Len(EffectsOn(t, p)) = Len(reps)
        /\ EffectsOn(t, p)[1] = first
        /\ \A m \in 2..Len(reps) : EffectsOn(t, p)[m] = reps[m]
    BY <1>1, <1>2, <2>3, <2>4 DEF first
  <2>6. ASSUME NEW m \in 1..Len(reps)
        PROVE  EffectsOn(t, p)[m] = At(Append(t, p), PlaceOf(t, m))
    <3>1. CASE m = 1
      <4>1. PlaceOf(t, m) = <<n, 1>>
        BY <1>5, <3>1 DEF PlaceOf
      <4>2. At(Append(t, p), <<n, 1>>) = first
        BY <1>3, <2>1 DEF At, first
      <4> QED
        BY <2>5, <3>1, <4>1, <4>2
    <3>2. CASE m # 1
      <4>1. PlaceOf(t, m) = <<Len(t) + 1, m>> /\ m \in 2..Len(reps)
        BY <1>5, <3>2 DEF PlaceOf
      <4>2. At(Append(t, p), <<Len(t) + 1, m>>) = reps[m]
        BY <1>3 DEF At, reps
      <4> QED
        BY <2>5, <4>1, <4>2
    <3> QED
      BY <3>1, <3>2
  <2> QED
    BY <1>5, <2>5, <2>6 DEF reps
<1>6. CASE ~IsMatured(t)
  <2>1. EffectsOn(t, p) = Tail(reps)
    <3>1. EffectsOn(t, p) = <<>> \o Tail(reps)
      BY <1>6 DEF EffectsOn
    <3> HIDE DEF reps
    <3> QED
      BY <1>2, <3>1
  <2>2. ASSUME NEW m \in 1..Len(Tail(reps))
        PROVE  EffectsOn(t, p)[m] = At(Append(t, p), PlaceOf(t, m))
    <3>1. PlaceOf(t, m) = <<Len(t) + 1, m + 1>>
      BY <1>6 DEF PlaceOf
    <3>2. At(Append(t, p), <<Len(t) + 1, m + 1>>) = reps[m + 1]
      BY <1>3 DEF At
    <3> QED
      BY <1>2, <2>1, <3>1, <3>2
  <2> QED
    BY <1>2, <1>6, <2>1, <2>2
<1> QED
  BY <1>5, <1>6

\* The places that a plot makes count are new, and all different.
LEMMA CountedGrows ==
    ASSUME NEW t \in Seq(Plot), NEW p \in Plot,
           Len(Representations[p]) >= 1,
           \A n \in 1..Len(t) : Len(Representations[t[n]]) >= 1
    PROVE  LET effects == EffectsOn(t, p)
           IN  /\ Counted(Append(t, p)) = Counted(t) \cup {PlaceOf(t, m) : m \in 1..Len(effects)}
               /\ \A m \in 1..Len(effects) : PlaceOf(t, m) \notin Counted(t)
               /\ \A m, l \in 1..Len(effects) : PlaceOf(t, m) = PlaceOf(t, l) => m = l
               /\ \A c \in Counted(t) : At(Append(t, p), c) = At(t, c)
<1> DEFINE effects == EffectsOn(t, p)
           u == Append(t, p)
           k == Len(Representations[p])
<1>1. /\ PLOTROOT_MATURITY \in Nat \ {0} /\ Len(t) \in Nat /\ k \in Nat \ {0}
      /\ \A n \in 1..Len(t) : Len(Representations[t[n]]) \in Nat \ {0}
  <2>1. ASSUME NEW q \in Plot, Len(Representations[q]) >= 1
        PROVE  Len(Representations[q]) \in Nat \ {0}
    <3>1. Representations[q] \in Seq(Representation)
      BY TreeAssumption
    <3> QED
      BY <2>1, <3>1
  <2>2. \A n \in 1..Len(t) : t[n] \in Plot
    OBVIOUS
  <2> QED
    BY <2>1, <2>2, ParametersAssumption
<1>2. /\ Len(u) = Len(t) + 1
      /\ u[Len(t) + 1] = p
      /\ \A i \in 1..Len(t) : u[i] = t[i]
  OBVIOUS
<1>3. Len(effects) = IF IsMatured(t) THEN k ELSE k - 1
  BY PlacesOfEffects
<1> HIDE DEF effects, u, k
<1>4. ASSUME NEW i \in Nat, NEW j \in Nat
      PROVE  <<i, j>> \in Counted(u) <=>
               \/ <<i, j>> \in Counted(t)
               \/ i = Len(t) + 1 /\ j \in 2..k
               \/ i + PLOTROOT_MATURITY = Len(t) + 1 /\ i >= 1 /\ j = 1
  <2>1. <<i, j>> \in Counted(u) <=>
          /\ i \in 1..Len(t) + 1
          /\ j \in 1..Len(Representations[u[i]])
          /\ j = 1 => i + PLOTROOT_MATURITY <= Len(t) + 1
    BY <1>2 DEF Counted
  <2>2. <<i, j>> \in Counted(t) <=>
          /\ i \in 1..Len(t)
          /\ j \in 1..Len(Representations[t[i]])
          /\ j = 1 => i + PLOTROOT_MATURITY <= Len(t)
    BY DEF Counted
  <2>3. CASE i = Len(t) + 1
    BY <1>1, <1>2, <2>1, <2>2, <2>3 DEF k
  <2>4. CASE i # Len(t) + 1
    <3>1. i \in 1..Len(t) => u[i] = t[i] /\ Len(Representations[t[i]]) \in Nat \ {0}
      BY <1>1, <1>2
    <3>2. i \in 1..Len(t) + 1 <=> i \in 1..Len(t)
      BY <1>1, <2>4
    <3> QED
      BY <1>1, <2>1, <2>2, <2>4, <3>1, <3>2
  <2> QED
    BY <2>3, <2>4
<1>5. ASSUME NEW i \in Nat, NEW j \in Nat
      PROVE  (\E m \in 1..Len(effects) : PlaceOf(t, m) = <<i, j>>) <=>
               \/ i = Len(t) + 1 /\ j \in 2..k
               \/ i + PLOTROOT_MATURITY = Len(t) + 1 /\ i >= 1 /\ j = 1
  <2>1. CASE IsMatured(t)
    <3>1. Len(t) + 1 - PLOTROOT_MATURITY \in Nat \ {0} /\ Len(effects) = k
      BY <1>1, <1>3, <2>1 DEF IsMatured
    <3>2. i + PLOTROOT_MATURITY = Len(t) + 1 /\ i >= 1 <=> i = Len(t) + 1 - PLOTROOT_MATURITY
      BY <1>1, <3>1
    <3>3. PlaceOf(t, 1) = <<Len(t) + 1 - PLOTROOT_MATURITY, 1>> /\ 1 \in 1..k
      BY <1>1, <2>1 DEF PlaceOf
    <3>4. \A m \in 2..k : PlaceOf(t, m) = <<Len(t) + 1, m>>
      BY <1>1, <2>1 DEF PlaceOf
    <3>5. \A m \in 1..k : m = 1 \/ m \in 2..k
      BY <1>1
    <3>6. \A m \in 2..k : m \in 1..k
      BY <1>1
    <3> QED
      BY <3>1, <3>2, <3>3, <3>4, <3>5, <3>6
  <2>2. CASE ~IsMatured(t)
    <3>1. ~(i + PLOTROOT_MATURITY = Len(t) + 1 /\ i >= 1) /\ Len(effects) = k - 1
      BY <1>1, <1>3, <2>2 DEF IsMatured
    <3>2. \A m \in 1..k - 1 : PlaceOf(t, m) = <<Len(t) + 1, m + 1>>
      BY <2>2 DEF PlaceOf
    <3>3. j \in 2..k => j - 1 \in 1..k - 1 /\ (j - 1) + 1 = j
      BY <1>1
    <3>4. \A m \in 1..k - 1 : m + 1 \in 2..k
      BY <1>1
    <3> QED
      BY <3>1, <3>2, <3>3, <3>4
  <2> QED
    BY <2>1, <2>2
<1>6. \A m \in 1..Len(effects) : PlaceOf(t, m) \in Nat \X Nat
  BY <1>1, <1>3 DEF PlaceOf, IsMatured
<1>7. Counted(u) = Counted(t) \cup {PlaceOf(t, m) : m \in 1..Len(effects)}
  <2>1. Counted(u) \subseteq Nat \X Nat /\ Counted(t) \subseteq Nat \X Nat
    BY DEF Counted
  <2>2. \A i, j \in Nat :
          <<i, j>> \in Counted(u) <=>
            <<i, j>> \in Counted(t) \cup {PlaceOf(t, m) : m \in 1..Len(effects)}
    BY <1>4, <1>5
  <2>3. \A c \in Nat \X Nat : c = <<c[1], c[2]>> /\ c[1] \in Nat /\ c[2] \in Nat
    OBVIOUS
  <2> QED
    BY <1>6, <2>1, <2>2, <2>3
<1>8. ASSUME NEW m \in 1..Len(effects) PROVE PlaceOf(t, m) \notin Counted(t)
  BY <1>1, <1>3 DEF PlaceOf, IsMatured, Counted
<1>9. ASSUME NEW m \in 1..Len(effects), NEW l \in 1..Len(effects),
             PlaceOf(t, m) = PlaceOf(t, l)
      PROVE  m = l
  BY <1>1, <1>3, <1>9 DEF PlaceOf, IsMatured
<1>10. \A c \in Counted(t) : At(u, c) = At(t, c)
  BY <1>2 DEF Counted, At
<1> QED
  BY <1>7, <1>8, <1>9, <1>10 DEF effects, u

\* B is A with a new element for each of M.
IsGain(B, A, M, f) ==
    /\ \A m \in M : f[m] \notin A
    /\ \A m, l \in M : f[m] = f[l] => m = l
    /\ B = A \cup {f[m] : m \in M}

\* Counting what a set gains through an injective function.
LEMMA CountGain ==
    ASSUME NEW A, IsFiniteSet(A), NEW M, IsFiniteSet(M), NEW f, NEW B,
           IsGain(B, A, M, f)
    PROVE  IsFiniteSet(B) /\ Cardinality(B) = Cardinality(A) + Cardinality(M)
<1> DEFINE R == {f[m] : m \in M}
           g == [m \in M |-> f[m]]
<1>1. g \in Bijection(M, R)
  BY DEF IsGain, Bijection, Injection, Surjection, IsInjective
<1>2. IsFiniteSet(R) /\ Cardinality(R) = Cardinality(M)
  BY <1>1, FS_Bijection DEF ExistsBijection
<1>3. A \cap R = {} /\ B = A \cup R
  BY DEF IsGain
<1>4. Cardinality(A) \in Nat /\ Cardinality(M) \in Nat
  BY FS_CardinalityType
<1> HIDE DEF R
<1>5. /\ IsFiniteSet(A \cup R)
      /\ Cardinality(A \cup R) = Cardinality(A) + Cardinality(R) - Cardinality(A \cap R)
  BY <1>2, FS_Union
<1>6. Cardinality(A \cap R) = 0
  BY <1>3, FS_EmptySet
<1> QED
  BY <1>2, <1>3, <1>4, <1>5, <1>6

\* What a plot adds to an imbalance is what its effects add.
LEMMA ImbalanceGrows ==
    ASSUME NEW t \in Seq(Plot), NEW p \in Plot, NEW k,
           Len(Representations[p]) >= 1,
           \A n \in 1..Len(t) : Len(Representations[t[n]]) >= 1,
           IsFiniteSet(Counted(t))
    PROVE  LET effects == EffectsOn(t, p)
           IN  /\ IsFiniteSet(Counted(Append(t, p)))
               /\ Abstract!ImbalanceOf(t, k) \in Int
               /\ Abstract!ImbalanceOf(Append(t, p), k) =
                    Abstract!ImbalanceOf(t, k) + Received(effects, k, 1, Len(effects))
                                               - Sent(effects, k, 1, Len(effects))
<1> DEFINE effects == EffectsOn(t, p)
           u == Append(t, p)
           n == Len(effects)
           f == [m \in 1..n |-> PlaceOf(t, m)]
<1>1. u \in Seq(Plot) /\ effects \in Seq(Representation) /\ n \in Nat
  BY PlacesOfEffects
<1>2. /\ Counted(u) = Counted(t) \cup {PlaceOf(t, m) : m \in 1..n}
      /\ \A m \in 1..n : PlaceOf(t, m) \notin Counted(t)
      /\ \A m, l \in 1..n : PlaceOf(t, m) = PlaceOf(t, l) => m = l
      /\ \A c \in Counted(t) : At(u, c) = At(t, c)
      /\ \A m \in 1..n : effects[m] = At(u, PlaceOf(t, m))
  BY CountedGrows, PlacesOfEffects
<1> HIDE DEF effects, u, n
<1>3. IsFiniteSet(1..n)
  BY <1>1, FS_Interval
<1>4. IsFiniteSet(Counted(u))
  <2>1. Counted(u) = Counted(t) \cup {f[m] : m \in 1..n}
    BY <1>2
  <2>2. /\ \A m \in 1..n : f[m] \notin Counted(t)
        /\ \A m, l \in 1..n : f[m] = f[l] => m = l
    BY <1>2
  <2> HIDE DEF f
  <2>3. IsGain(Counted(u), Counted(t), 1..n, f)
    BY <2>1, <2>2 DEF IsGain
  <2> QED
    BY <1>3, <2>3, CountGain
<1>5. ASSUME NEW A, NEW B, NEW M \in SUBSET (1..n),
             A \subseteq Counted(t),
             B = A \cup {PlaceOf(t, m) : m \in M}
      PROVE  /\ Cardinality(A) \in Nat /\ Cardinality(M) \in Nat
             /\ Cardinality(B) = Cardinality(A) + Cardinality(M)
  <2>1. IsFiniteSet(A) /\ IsFiniteSet(M)
    BY <1>3, <1>5, FS_Subset
  <2>2. \A m \in M : f[m] = PlaceOf(t, m)
    BY <1>5
  <2> HIDE DEF f
  <2>3. \A m \in M : f[m] \notin A
    BY <1>2, <1>5, <2>2
  <2>4. \A m, l \in M : f[m] = f[l] => m = l
    BY <1>2, <1>5, <2>2
  <2>5. B = A \cup {f[m] : m \in M}
    BY <1>5, <2>2
  <2>6. Cardinality(A) \in Nat /\ Cardinality(M) \in Nat
    BY <2>1, FS_CardinalityType
  <2>7. IsGain(B, A, M, f)
    BY <2>3, <2>4, <2>5 DEF IsGain
  <2>8. Cardinality(B) = Cardinality(A) + Cardinality(M)
    BY <2>1, <2>7, CountGain
  <2> QED
    BY <2>6, <2>8
<1> DEFINE ForIn(v) == {c \in Counted(v) : At(v, c).For = k}
           ByIn(v) == {c \in Counted(v) : At(v, c).By = k}
           Gains == {m \in 1..n : effects[m].For = k}
           Losses == {m \in 1..n : effects[m].By = k}
<1>6. ForIn(u) = ForIn(t) \cup {PlaceOf(t, m) : m \in Gains}
  BY <1>2
<1>7. ByIn(u) = ByIn(t) \cup {PlaceOf(t, m) : m \in Losses}
  BY <1>2
<1>8. /\ Gains \in SUBSET (1..n) /\ ForIn(t) \subseteq Counted(t)
      /\ Losses \in SUBSET (1..n) /\ ByIn(t) \subseteq Counted(t)
  OBVIOUS
<1>9. /\ Received(effects, k, 1, n) = Cardinality(Gains)
      /\ Sent(effects, k, 1, n) = Cardinality(Losses)
  BY DEF Received, Sent
<1>10. ASSUME NEW v \in {t, u}
       PROVE  Abstract!ImbalanceOf(v, k) = Cardinality(ForIn(v)) - Cardinality(ByIn(v))
  <2>1. Abstract!EffectivePlaces(v) = Counted(v)
    BY <1>1, <1>10, CountedPlaces
  <2> QED
    BY <2>1, SameCardinality DEF Abstract!ImbalanceOf, Abstract!RepresentationAt, At
<1> HIDE DEF ForIn, ByIn, Gains, Losses
<1>11. /\ Cardinality(ForIn(t)) \in Nat /\ Cardinality(Gains) \in Nat
       /\ Cardinality(ForIn(u)) = Cardinality(ForIn(t)) + Cardinality(Gains)
  BY <1>5, <1>6, <1>8
<1>12. /\ Cardinality(ByIn(t)) \in Nat /\ Cardinality(Losses) \in Nat
       /\ Cardinality(ByIn(u)) = Cardinality(ByIn(t)) + Cardinality(Losses)
  BY <1>5, <1>7, <1>8
<1>13. /\ Abstract!ImbalanceOf(t, k) \in Int
       /\ Abstract!ImbalanceOf(u, k) =
            Abstract!ImbalanceOf(t, k) + Received(effects, k, 1, n) - Sent(effects, k, 1, n)
  BY <1>9, <1>10, <1>11, <1>12
<1> QED
  BY <1>4, <1>13 DEF effects, u, n

----------------------------------------------------------------------------
(* The thread as a sequence *)

LEMMA ThreadIsSequence ==
    ASSUME Located
    PROVE  /\ CurrentThread \in Seq(Plot)
           /\ Len(CurrentThread) = tipHeight + 1
           /\ \A n \in 1 .. tipHeight + 1 :
                /\ CurrentThread[n] = heightIndex[n-1]
                /\ Len(Representations[CurrentThread[n]]) >= 1
<1>1. tipHeight + 1 \in Nat /\ tipHeight \in Int
  BY ParametersAssumption DEF Located, ThreadTypeOK
<1>2. ASSUME NEW n \in 1 .. tipHeight + 1
      PROVE  heightIndex[n-1] \in Plot /\ Len(Representations[heightIndex[n-1]]) >= 1
  <2>1. n - 1 \in 0..tipHeight
    BY <1>1
  <2>2. heightIndex[n-1] \in Plot /\ Checked(heightIndex[n-1])
    BY <2>1, OnThreadAreChecked
  <2> QED
    BY <2>2 DEF Checked, CheckPlotContents
<1>3. CurrentThread \in [1 .. tipHeight + 1 -> Plot]
  BY <1>2 DEF CurrentThread
<1>4. CurrentThread \in Seq(Plot) /\ Len(CurrentThread) = tipHeight + 1
  BY <1>1, <1>3
<1> QED
  BY <1>2, <1>4 DEF CurrentThread

LEMMA ThreadExtends ==
    ASSUME Located,
           NEW p \in Plot,
           tip = None => p = Genesis,
           ConnectPlot(p),
           Checked(p)
    PROVE  /\ CurrentThread' = Append(CurrentThread, p)
           /\ Effects(p) = EffectsOn(CurrentThread, p)
<1>1. Located'
  BY LocatedConnect
<1>2. /\ tipHeight \in Int
      /\ tipHeight' = tipHeight + 1
      /\ tipHeight + 1 \in Nat
      /\ Height[p] = tipHeight + 1
      /\ heightIndex'[tipHeight + 1] = p
      /\ \A h \in 0..tipHeight : heightIndex'[h] = heightIndex[h]
  BY ThreadAfterConnect
<1>3. /\ CurrentThread \in Seq(Plot)
      /\ Len(CurrentThread) = tipHeight + 1
      /\ \A n \in 1 .. tipHeight + 1 : CurrentThread[n] = heightIndex[n-1]
  BY ThreadIsSequence
<1>4. CurrentThread' = [n \in 1 .. tipHeight + 2 |-> heightIndex'[n-1]]
  <2>1. tipHeight' + 1 = tipHeight + 2
    BY <1>2
  <2> QED
    BY <2>1 DEF CurrentThread
<1>5. /\ CurrentThread' \in Seq(Plot) /\ Len(CurrentThread') = tipHeight + 2
  <2>1. (CurrentThread \in Seq(Plot) /\ Len(CurrentThread) = tipHeight + 1)'
    BY <1>1, ThreadIsSequence, PTL
  <2> QED
    BY <1>2, <2>1
<1>6. CurrentThread' = Append(CurrentThread, p)
  <2>1. ASSUME NEW n \in 1 .. tipHeight + 2
        PROVE  CurrentThread'[n] = Append(CurrentThread, p)[n]
    <3>1. CASE n = tipHeight + 2
      BY <1>2, <1>3, <1>4, <3>1
    <3>2. CASE n # tipHeight + 2
      <4>1. n \in 1 .. tipHeight + 1 /\ n - 1 \in 0..tipHeight
        BY <1>2, <3>2
      <4> QED
        BY <1>2, <1>3, <1>4, <4>1
    <3> QED
      BY <3>1, <3>2
  <2>2. /\ Append(CurrentThread, p) \in Seq(Plot)
        /\ Len(Append(CurrentThread, p)) = tipHeight + 2
    BY <1>2, <1>3
  <2> QED
    BY <1>5, <2>1, <2>2, SeqEqual
<1>7. Effects(p) = EffectsOn(CurrentThread, p)
  <2>1. PLOTROOT_MATURITY \in Nat \ {0}
    BY ParametersAssumption
  <2>2. MaturingHeight(p) >= 0 <=> IsMatured(CurrentThread)
    BY <1>2, <1>3, <2>1 DEF MaturingHeight, IsMatured
  <2>3. MaturingHeight(p) >= 0 =>
          CurrentThread[Len(CurrentThread) + 1 - PLOTROOT_MATURITY] = heightIndex[MaturingHeight(p)]
    <3>1. MaturingHeight(p) >= 0 =>
            /\ Len(CurrentThread) + 1 - PLOTROOT_MATURITY \in 1 .. tipHeight + 1
            /\ (Len(CurrentThread) + 1 - PLOTROOT_MATURITY) - 1 = MaturingHeight(p)
      BY <1>2, <1>3, <2>1 DEF MaturingHeight
    <3> QED
      BY <1>3, <3>1
  <2> QED
    BY <2>2, <2>3 DEF Effects, EffectsOn
<1> QED
  BY <1>6, <1>7

LEMMA ThreadRetracts ==
    ASSUME Located, NEW p \in Plot \ {Genesis}, DisconnectPlot(p)
    PROVE  /\ CurrentThread' \in Seq(Plot)
           /\ Len(CurrentThread') >= 1
           /\ CurrentThread = Append(CurrentThread', p)
           /\ Effects(p) = EffectsOn(CurrentThread', p)
<1>1. Located'
  BY LocatedDisconnect
<1>2. /\ tipHeight \in Nat \ {0}
      /\ tipHeight' = tipHeight - 1
      /\ Height[p] = tipHeight
      /\ heightIndex[tipHeight] = p
      /\ \A h \in 0..tipHeight - 1 : heightIndex'[h] = heightIndex[h]
  BY ThreadAfterDisconnect
<1>3. /\ CurrentThread \in Seq(Plot)
      /\ Len(CurrentThread) = tipHeight + 1
      /\ \A n \in 1 .. tipHeight + 1 : CurrentThread[n] = heightIndex[n-1]
  BY ThreadIsSequence
<1>4. /\ CurrentThread' \in Seq(Plot)
      /\ Len(CurrentThread') = tipHeight
      /\ \A n \in 1..tipHeight : CurrentThread'[n] = heightIndex[n-1]
  <2>1. (/\ CurrentThread \in Seq(Plot)
         /\ Len(CurrentThread) = tipHeight + 1
         /\ \A n \in 1 .. tipHeight + 1 :
              /\ CurrentThread[n] = heightIndex[n-1]
              /\ Len(Representations[CurrentThread[n]]) >= 1)'
    BY <1>1, ThreadIsSequence, PTL
  <2>2. tipHeight' + 1 = tipHeight
    BY <1>2
  <2>3. \A n \in 1..tipHeight : n - 1 \in 0..tipHeight - 1
    BY <1>2
  <2> QED
    BY <1>2, <2>1, <2>2, <2>3
<1> DEFINE t == CurrentThread'
<1>5. CurrentThread = Append(t, p)
  <2> HIDE DEF t
  <2>1. Append(t, p) \in Seq(Plot) /\ Len(Append(t, p)) = tipHeight + 1
    BY <1>2, <1>4 DEF t
  <2>2. ASSUME NEW n \in 1 .. tipHeight + 1
        PROVE  CurrentThread[n] = Append(t, p)[n]
    BY <1>2, <1>3, <1>4 DEF t
  <2> QED
    BY <1>2, <1>3, <2>1, <2>2, SeqEqual
<1>6. Effects(p) = EffectsOn(t, p)
  <2> HIDE DEF t
  <2>1. PLOTROOT_MATURITY \in Nat \ {0}
    BY ParametersAssumption
  <2>2. MaturingHeight(p) >= 0 <=> IsMatured(t)
    BY <1>2, <1>4, <2>1 DEF MaturingHeight, IsMatured, t
  <2>3. MaturingHeight(p) >= 0 =>
          t[Len(t) + 1 - PLOTROOT_MATURITY] = heightIndex[MaturingHeight(p)]
    <3>1. MaturingHeight(p) >= 0 =>
            /\ Len(t) + 1 - PLOTROOT_MATURITY \in 1..tipHeight
            /\ (Len(t) + 1 - PLOTROOT_MATURITY) - 1 = MaturingHeight(p)
      BY <1>2, <1>4, <2>1 DEF MaturingHeight, t
    <3> QED
      BY <1>4, <3>1 DEF t
  <2> QED
    BY <2>2, <2>3 DEF Effects, EffectsOn
<1> QED
  BY <1>2, <1>4, <1>5, <1>6

----------------------------------------------------------------------------
(* The stored imbalances are those of the thread *)

Exact ==
    /\ IsFiniteSet(Counted(CurrentThread))
    /\ ImbalancesMatchThread

LEMMA FundedTypes == ASSUME Funded PROVE imbalance \in [Key -> Nat]
<1>1. PICK history \in Histories : Leads(history)
  BY DEF Funded
<1>2. tipHeight + 1 \in 0..MAX_NUMBER + 1
  BY ParametersAssumption DEF Funded, Located, ThreadTypeOK
<1> QED
  BY <1>1, <1>2 DEF Leads, Histories

LEMMA ExactInit == ASSUME LedgerInit PROVE Exact
<1>1. Located
  BY LocatedInit
<1>2. CurrentThread \in Seq(Plot) /\ Len(CurrentThread) = 0
  BY <1>1, ThreadIsSequence DEF LedgerInit
<1>3. Counted(CurrentThread) = {}
  BY <1>2 DEF Counted
<1>4. Abstract!EffectivePlaces(CurrentThread) = {}
  BY <1>2, <1>3, CountedPlaces
<1>5. ASSUME NEW k \in Key PROVE Abstract!ImbalanceOf(CurrentThread, k) = 0
  <2>1. Cardinality({}) = 0
    BY FS_EmptySet
  <2> QED
    BY <1>4, <2>1, SameCardinality DEF Abstract!ImbalanceOf
<1> QED
  BY <1>3, <1>5, FS_EmptySet DEF Exact, ImbalancesMatchThread, LedgerInit

LEMMA ExactConnect ==
    ASSUME Funded,
           Exact,
           NEW p \in Plot,
           tip = None => p = Genesis,
           ConnectPlot(p),
           Checked(p)
    PROVE  Exact'
<1> DEFINE t == CurrentThread
           N == Len(Effects(p))
<1>1. /\ t \in Seq(Plot)
      /\ \A n \in 1..Len(t) : Len(Representations[t[n]]) >= 1
  BY ThreadIsSequence DEF Funded
<1>2. Len(Representations[p]) >= 1
  BY DEF Checked, CheckPlotContents
<1>3. CurrentThread' = Append(t, p) /\ Effects(p) = EffectsOn(t, p)
  BY ThreadExtends DEF Funded
<1>4. IsFiniteSet(Counted(t))
  BY DEF Exact
<1>5. ASSUME NEW k \in Key
      PROVE  imbalance'[k] = imbalance[k] + Received(Effects(p), k, 1, N) - Sent(Effects(p), k, 1, N)
  BY DEF ConnectPlot, Applied
<1>6. ASSUME NEW k \in Key PROVE imbalance[k] = Abstract!ImbalanceOf(t, k)
  BY DEF Exact, ImbalancesMatchThread
<1> HIDE DEF t, N
<1>7. ASSUME NEW k
      PROVE  /\ IsFiniteSet(Counted(Append(t, p)))
             /\ Abstract!ImbalanceOf(Append(t, p), k) =
                  Abstract!ImbalanceOf(t, k) + Received(Effects(p), k, 1, N)
                                             - Sent(Effects(p), k, 1, N)
  BY <1>1, <1>2, <1>3, <1>4, ImbalanceGrows DEF N
<1>8. IsFiniteSet(Counted(CurrentThread)')
  BY <1>3, <1>7 DEF Counted
<1>9. \A k \in Key : imbalance'[k] = Abstract!ImbalanceOf(CurrentThread', k)
  BY <1>3, <1>5, <1>6, <1>7
<1> QED
  BY <1>8, <1>9 DEF Exact, ImbalancesMatchThread

LEMMA ExactDisconnect ==
    ASSUME Funded,
           Exact,
           NEW p \in Plot \ {Genesis},
           DisconnectPlot(p)
    PROVE  Exact'
<1> DEFINE t == CurrentThread'
           N == Len(Effects(p))
<1>1. Located /\ Located'
  BY LocatedDisconnect DEF Funded
<1>2. /\ t \in Seq(Plot)
      /\ \A n \in 1..Len(t) : Len(Representations[t[n]]) >= 1
  <2>1. (/\ CurrentThread \in Seq(Plot)
         /\ Len(CurrentThread) = tipHeight + 1
         /\ \A n \in 1 .. tipHeight + 1 :
              /\ CurrentThread[n] = heightIndex[n-1]
              /\ Len(Representations[CurrentThread[n]]) >= 1)'
    BY <1>1, ThreadIsSequence, PTL
  <2> QED
    BY <2>1
<1>3. Len(Representations[p]) >= 1
  BY <1>1, ThreadAfterDisconnect DEF Checked, CheckPlotContents
<1>4. CurrentThread = Append(t, p) /\ Effects(p) = EffectsOn(t, p)
  BY <1>1, ThreadRetracts
<1>5. ASSUME NEW k \in Key
      PROVE  imbalance'[k] = imbalance[k] - Received(Effects(p), k, 1, N) + Sent(Effects(p), k, 1, N)
  BY DEF DisconnectPlot, Undone
<1>6. ASSUME NEW k \in Key PROVE imbalance[k] = Abstract!ImbalanceOf(Append(t, p), k)
  BY <1>4 DEF Exact, ImbalancesMatchThread
<1>7. IsFiniteSet(Counted(Append(t, p)))
  BY <1>4 DEF Exact
<1>8. Effects(p) \in Seq(Representation)
  BY <1>2, <1>3, <1>4, PlacesOfEffects
<1> HIDE DEF t, N
<1>9. IsFiniteSet(Counted(t))
  <2>1. Counted(t) \subseteq Counted(Append(t, p))
    BY <1>2, <1>3, CountedGrows
  <2> QED
    BY <1>7, <2>1, FS_Subset
<1>10. ASSUME NEW k
       PROVE  /\ Abstract!ImbalanceOf(t, k) \in Int
              /\ Abstract!ImbalanceOf(Append(t, p), k) =
                   Abstract!ImbalanceOf(t, k) + Received(Effects(p), k, 1, N)
                                              - Sent(Effects(p), k, 1, N)
  BY <1>2, <1>3, <1>4, <1>9, ImbalanceGrows DEF N
<1>11. ASSUME NEW k \in Key
       PROVE  imbalance'[k] = Abstract!ImbalanceOf(t, k)
  <2>1. Received(Effects(p), k, 1, N) \in Nat /\ Sent(Effects(p), k, 1, N) \in Nat
    BY <1>8, CountsOfCalls DEF N
  <2> QED
    BY <1>5, <1>6, <1>10, <2>1
<1>12. IsFiniteSet(Counted(CurrentThread)')
  BY <1>9 DEF Counted, t
<1> QED
  BY <1>11, <1>12 DEF Exact, ImbalancesMatchThread, t

LEMMA ExactFrame ==
    ASSUME Exact, UNCHANGED <<tipHeight, heightIndex, imbalance>>
    PROVE  Exact' /\ CurrentThread' = CurrentThread
<1>1. CurrentThread' = CurrentThread
  BY DEF CurrentThread
<1>2. IsFiniteSet(Counted(CurrentThread)')
  BY <1>1 DEF Exact, Counted
<1>3. \A k \in Key : imbalance'[k] = Abstract!ImbalanceOf(CurrentThread', k)
  BY <1>1 DEF Exact, ImbalancesMatchThread
<1> QED
  BY <1>1, <1>2, <1>3 DEF Exact, ImbalancesMatchThread

LEMMA ExactNext == Funded /\ Exact /\ [LedgerNext]_ledgerVars => Exact'
<1> SUFFICES ASSUME Funded, Exact, [LedgerNext]_ledgerVars PROVE Exact'
  OBVIOUS
<1>1. ASSUME NEW p \in Plot, tip = None => p = Genesis, ConnectPlot(p), Checked(p)
      PROVE  Exact'
  BY <1>1, ExactConnect
<1>2. ASSUME NEW p \in Plot \ {Genesis}, DisconnectPlot(p)
      PROVE  Exact'
  BY <1>2, ExactDisconnect
<1>3. ASSUME NEW p \in Plot, SetBranchType(p, SIDE)
      PROVE  Exact'
  BY <1>3, ExactFrame DEF SetBranchType
<1>4. ASSUME NEW links \in PlotLinks, IndexLinks(links)
      PROVE  Exact'
  BY <1>4, ExactFrame DEF IndexLinks
<1>5. CASE LoseGraph
  BY <1>5, ExactFrame DEF LoseGraph
<1>6. CASE UNCHANGED ledgerVars
  BY <1>6, ExactFrame DEF ledgerVars
<1> QED
  BY <1>1, <1>2, <1>3, <1>4, <1>5, <1>6 DEF LedgerNext

(* The imbalance that the database stores for a key, applied and undone    *)
(* plot by plot, never drifts from what the whole thread gives that key.   *)
THEOREM ImbalancesStayExact == LedgerSpec => []ImbalancesMatchThread
<1>1. LedgerInit => Funded /\ Exact
  BY FundedInit, ExactInit
<1>2. Exact => ImbalancesMatchThread
  BY DEF Exact
<1> QED
  BY <1>1, <1>2, FundedNext, ExactNext, PTL DEF LedgerSpec

----------------------------------------------------------------------------
(* The ledger implements the thread *)

LEMMA SameRepresentations ==
    ASSUME NEW p
    PROVE  Abstract!RepresentationsOf(p) = RepresentationsOf(p)
BY DEF Abstract!RepresentationsOf, RepresentationsOf, Abstract!Range, Range

LEMMA SameMedian ==
    ASSUME NEW p
    PROVE  Abstract!ComputeMedianTimestamp(p) = ComputeMedianTimestamp(p)
BY DEF Abstract!ComputeMedianTimestamp, ComputeMedianTimestamp,
       Abstract!MedianWindow, MedianWindow, Abstract!Cardinality, Cardinality

LEMMA SameSeries ==
    ASSUME NEW r, NEW h
    PROVE  Abstract!CheckRepresentationSeries(r, h) <=> CheckRepresentationSeries(r, h)
BY DEF Abstract!CheckRepresentationSeries, CheckRepresentationSeries,
       Abstract!SeriesAt, SeriesAt, Abstract!IsPlotroot, IsPlotroot

LEMMA SameContents ==
    ASSUME NEW p
    PROVE  Abstract!CheckPlotContents(p) <=> CheckPlotContents(p)
BY DEF Abstract!CheckPlotContents, CheckPlotContents,
       Abstract!CheckRepresentation, CheckRepresentation,
       Abstract!IsPlotroot, IsPlotroot, Abstract!IsInjective, IsInjective

LEMMA SameContext ==
    ASSUME NEW p
    PROVE  Abstract!CheckPlotInContext(p) <=> CheckPlotInContext(p)
BY SameRepresentations, SameMedian, SameSeries
DEF Abstract!CheckPlotInContext, CheckPlotInContext,
    Abstract!IsPlotroot, IsPlotroot, Abstract!IsMature, IsMature,
    Abstract!IsExpired, IsExpired

LEMMA ConnectExtends ==
    ASSUME Indexed,
           Funded,
           Exact,
           NEW p \in Plot,
           tip = None => p = Genesis,
           ConnectPlot(p),
           Checked(p)
    PROVE  Abstract!Extend(p)
<1>1. Located
  BY DEF Indexed
<1>2. CurrentThread' = Append(CurrentThread, p)
  BY <1>1, ThreadExtends
<1>3. /\ CurrentThread \in Seq(Plot)
      /\ Len(CurrentThread) = tipHeight + 1
      /\ \A n \in 1 .. tipHeight + 1 : CurrentThread[n] = heightIndex[n-1]
  BY <1>1, ThreadIsSequence
<1>4. Height[p] = tipHeight + 1 /\ tipHeight \in -1..MAX_NUMBER /\ MAX_NUMBER \in Nat
  BY <1>1, ThreadAfterConnect
<1>5. IF CurrentThread = <<>> THEN p = Genesis ELSE Previous[p] = CurrentThread[Len(CurrentThread)]
  <2>1. CASE tip = None
    <3>1. tipHeight = -1
      BY <1>1, <2>1 DEF Located, ThreadIsLinked
    <3>2. CurrentThread = <<>>
      BY <1>3, <3>1
    <3> QED
      BY <2>1, <3>2
  <2>2. CASE tip # None
    <3>1. tipHeight # -1 /\ heightIndex[tipHeight] = tip
      BY <1>1, <2>2 DEF Located, ThreadIsLinked
    <3>2. Previous[p] = tip
      BY <2>2 DEF ConnectPlot, CanConnect, LinksToTip
    <3>3. Len(CurrentThread) = tipHeight + 1 /\ tipHeight + 1 \in 1 .. tipHeight + 1
      BY <1>3, <1>4, <3>1
    <3>4. CurrentThread[tipHeight + 1] = tip
      BY <1>3, <1>4, <3>1, <3>3
    <3>5. CurrentThread # <<>>
      BY <1>4, <3>3
    <3> QED
      BY <3>2, <3>3, <3>4, <3>5
  <2> QED
    BY <2>1, <2>2
<1>6. Abstract!Checked(p)
  BY SameContents, SameContext DEF Abstract!Checked, Checked
<1>7. Abstract!RepresentationsOf(p) \cap Abstract!ConfirmedBy(CurrentThread) = {}
  <2>1. ASSUME NEW n \in DOMAIN CurrentThread
        PROVE  RepresentationsOf(CurrentThread[n]) \cap RepresentationsOf(p) = {}
    <3>1. n \in 1 .. tipHeight + 1
      BY <1>3
    <3>2. n - 1 \in 0..tipHeight /\ CurrentThread[n] = heightIndex[n-1]
      BY <1>3, <1>4, <3>1
    <3>3. IsUnprocessed(p)
      BY DEF ConnectPlot, CanConnect
    <3> QED
      BY <1>4, <3>2, <3>3, NothingRepeated
  <2> QED
    BY <2>1, SameRepresentations DEF Abstract!ConfirmedBy
<1>8. \A k \in Key : Abstract!ImbalanceOf(CurrentThread', k) >= 0
  <2>1. (imbalance \in [Key -> Nat])'
    <3>1. Funded'
      BY FundedConnect
    <3> QED
      BY <3>1, FundedTypes, PTL
  <2>2. \A k \in Key : imbalance'[k] = Abstract!ImbalanceOf(CurrentThread', k)
    <3>1. Exact'
      BY ExactConnect
    <3> QED
      BY <3>1 DEF Exact, ImbalancesMatchThread
  <2> QED
    BY <2>1, <2>2
<1> QED
  BY <1>2, <1>5, <1>6, <1>7, <1>8 DEF Abstract!Extend

LEMMA DisconnectRetracts ==
    ASSUME Located, NEW p \in Plot \ {Genesis}, DisconnectPlot(p)
    PROVE  Abstract!Retract
<1> DEFINE t == CurrentThread'
<1>1. t \in Seq(Plot) /\ Len(t) >= 1 /\ CurrentThread = Append(t, p)
  BY ThreadRetracts
<1> HIDE DEF t
<1>2. Len(CurrentThread) = Len(t) + 1 /\ Len(t) \in Nat
  BY <1>1
<1>3. t = SubSeq(CurrentThread, 1, Len(CurrentThread) - 1)
  <2>1. SubSeq(Append(t, p), 1, Len(t)) = t
    BY <1>1
  <2> QED
    BY <1>1, <1>2, <2>1
<1> QED
  BY <1>1, <1>2, <1>3 DEF t, Abstract!Retract

LEMMA StepsOfThread ==
    Indexed /\ Funded /\ Exact /\ [LedgerNext]_ledgerVars => [Abstract!Next]_CurrentThread
<1> SUFFICES ASSUME Indexed, Funded, Exact, [LedgerNext]_ledgerVars
             PROVE  [Abstract!Next]_CurrentThread
  OBVIOUS
<1>1. ASSUME NEW p \in Plot, tip = None => p = Genesis, ConnectPlot(p), Checked(p)
      PROVE  Abstract!Next
  BY <1>1, ConnectExtends DEF Abstract!Next
<1>2. ASSUME NEW p \in Plot \ {Genesis}, DisconnectPlot(p)
      PROVE  Abstract!Next
  BY <1>2, DisconnectRetracts DEF Indexed, Abstract!Next
<1>3. ASSUME NEW p \in Plot, SetBranchType(p, SIDE)
      PROVE  CurrentThread' = CurrentThread
  BY <1>3, ExactFrame DEF SetBranchType
<1>4. ASSUME NEW links \in PlotLinks, IndexLinks(links)
      PROVE  CurrentThread' = CurrentThread
  BY <1>4, ExactFrame DEF IndexLinks
<1>5. CASE LoseGraph
  BY <1>5, ExactFrame DEF LoseGraph
<1>6. CASE UNCHANGED ledgerVars
  BY <1>6, ExactFrame DEF ledgerVars
<1> QED
  BY <1>1, <1>2, <1>3, <1>4, <1>5, <1>6 DEF LedgerNext

(* The pruned, incremental ledger is a thread: it grows and shrinks at its *)
(* end only, by checked plots that link to it, repeat nothing it holds and *)
(* overdraw nobody.                                                        *)
THEOREM LedgerImplementsThread == LedgerSpec => ImplementsThread
<1>1. LedgerInit => Indexed /\ Funded /\ Exact
  BY IndexedInit, FundedInit, ExactInit
<1>2. LedgerInit => Abstract!Init
  <2> SUFFICES ASSUME LedgerInit PROVE CurrentThread = <<>>
    BY DEF Abstract!Init
  <2>1. CurrentThread \in Seq(Plot) /\ Len(CurrentThread) = 0
    BY LocatedInit, ThreadIsSequence DEF LedgerInit
  <2> QED
    BY <2>1
<1> QED
  BY <1>1, <1>2, IndexedNext, FundedNext, ExactNext, StepsOfThread, PTL
  DEF LedgerSpec, ImplementsThread, Abstract!Spec

==============================================================================
