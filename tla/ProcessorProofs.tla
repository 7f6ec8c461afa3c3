--------------------------- MODULE ProcessorProofs ---------------------------
(***************************************************************************)
(* The processor keeps to the ledger's contract: whatever plots arrive,    *)
(* fail, are rolled back or cut short by a crash, each of its steps is one *)
(* that LedgerNext allows. So everything proved of the ledger holds in a   *)
(* running node, for any tree of plots.                                    *)
(*                                                                         *)
(* The argument: the plots with a branch type are checked and closed under *)
(* Previous, so a walk back from a stored plot meets checked plots only    *)
(* and ends at the genesis plot, which therefore stays connected. A plot   *)
(* with the more work is not on the thread of one with less, so there is   *)
(* always something to connect.                                            *)
(*                                                                         *)
(* When adjusting the thread fails, the old thread can be put back: taking *)
(* plots off never fails halfway, and putting back what was taken off can  *)
(* only fail on a new cycle in the representation graph. Whether a plot    *)
(* fits on a thread depends on nothing but the thread. Every plot of the   *)
(* current thread fitted on those below it, and the old thread is          *)
(* remembered in this form until the processor is done. Two threads that   *)
(* share a plot are the same below it.                                     *)
(*                                                                         *)
(* While the thread is adjusted the old tip stays the best plot known, and *)
(* the new one precedes it but is not known before it is connected, last.  *)
(* So whichever of the two the work ends on is the best.                   *)
(***************************************************************************)
EXTENDS Processor, LedgerProofs

Known == {p \in Plot : IsKnown(p)}

Vetted(p) ==
    /\ Checked(p)
    /\ p # Genesis => Previous[p] \in Known

LedgerIsKnown ==
    /\ branchType \in [Plot -> {MAIN, SIDE, UNKNOWN}]
    /\ tip \in Plot \cup {None}
    /\ \A p \in Known : Vetted(p)
    /\ tip = None => Known = {}
    /\ tip # None => tip \in Known

WorkIsVetted ==
    /\ oldTip # None => oldTip \in Known
    /\ newPlot # None => newPlot \in Plot /\ Vetted(newPlot)
    /\ toConnect \subseteq Plot /\ \A p \in toConnect : Checked(p)
    /\ toDisconnect \subseteq Plot \ {Genesis}
    /\ phase = "accept" => newPlot # None /\ tip # None
    /\ phase = "adjust" => /\ toConnect # {}
                           /\ tip = None => toConnect = {Genesis}

Careful == LedgerIsKnown /\ WorkIsVetted

----------------------------------------------------------------------------
(* Branch types and walks *)

LEMMA BranchTypesDiffer == UNKNOWN \notin {MAIN, SIDE} /\ MAIN # SIDE
<1>1. IsFiniteSet({MAIN}) /\ Cardinality({MAIN}) = 1
  BY FS_Singleton
<1>2. IsFiniteSet({SIDE}) /\ Cardinality({SIDE}) = 1
  BY FS_Singleton
<1>3. ASSUME NEW a, NEW b PROVE Cardinality({a, b}) <= 2 /\ Cardinality({a, b}) \in Nat
  <2>1. IsFiniteSet({a}) /\ Cardinality({a}) = 1
    BY FS_Singleton
  <2>2. {a, b} = {a} \cup {b}
    OBVIOUS
  <2>3. Cardinality({a} \cup {b}) = IF b \in {a} THEN 1 ELSE 1 + 1
    BY <2>1, FS_AddElement
  <2> QED
    BY <2>2, <2>3
<1>4. Cardinality({MAIN, SIDE, UNKNOWN}) = 3
  BY LedgerAssumption
<1>5. ASSUME NEW a, NEW b, {MAIN, SIDE, UNKNOWN} = {a, b} PROVE FALSE
  <2>1. Cardinality({a, b}) = 3
    BY <1>4, <1>5
  <2> QED
    BY <1>3, <2>1
<1>6. UNKNOWN \in {MAIN, SIDE} => {MAIN, SIDE, UNKNOWN} = {MAIN, SIDE}
  OBVIOUS
<1>7. MAIN = SIDE => {MAIN, SIDE, UNKNOWN} = {MAIN, UNKNOWN}
  OBVIOUS
<1> QED
  BY <1>5, <1>6, <1>7

\* The predecessors of a plot are in every set that is closed under Previous,
\* end at the genesis plot, have less work and are lower.
LEMMA Walk ==
    ASSUME NEW K \in SUBSET Plot,
           \A p \in K : Checked(p) /\ (p # Genesis => Previous[p] \in K),
           NEW p \in K
    PROVE  /\ Ancestry[p] \subseteq K
           /\ p \in Ancestry[p]
           /\ Genesis \in Ancestry[p]
           /\ \A a \in Ancestry[p] \ {p} : ThreadWork[a] < ThreadWork[p] /\ Height[a] < Height[p]
           /\ \A a \in Ancestry[p] : Ancestry[a] \subseteq Ancestry[p]
<1> DEFINE Good(q) == /\ Ancestry[q] \subseteq K
                      /\ q \in Ancestry[q]
                      /\ Genesis \in Ancestry[q]
                      /\ \A a \in Ancestry[q] \ {q} :
                           ThreadWork[a] < ThreadWork[q] /\ Height[a] < Height[q]
                      /\ \A a \in Ancestry[q] : Ancestry[a] \subseteq Ancestry[q]
           A == {n \in Nat : \A q \in K : Height[q] = n => Good(q)}
<1>1. /\ MAX_NUMBER \in Nat
      /\ \A q \in Plot : Height[q] \in Nat /\ ThreadWork[q] \in Nat /\ Work[q] \in Nat \ {0}
  BY ParametersAssumption, TreeAssumption
<1>2. Good(Genesis) \/ Genesis \notin K
  BY AncestryAssumption
<1>3. ASSUME NEW q \in K, q # Genesis
      PROVE  /\ Previous[q] \in K
             /\ Height[q] = Height[Previous[q]] + 1
             /\ ThreadWork[q] = ThreadWork[Previous[q]] + Work[q]
             /\ Ancestry[q] = {q} \cup Ancestry[Previous[q]]
  BY <1>3, AncestryAssumption DEF Checked, CheckPlotInContext
<1>4. ASSUME NEW q \in K, q # Genesis, Good(Previous[q]) PROVE Good(q)
  <2>1. /\ ThreadWork[Previous[q]] < ThreadWork[q]
        /\ Height[Previous[q]] < Height[q]
        /\ Previous[q] \in Plot
    BY <1>1, <1>3, <1>4
  <2>2. ASSUME NEW a \in Ancestry[q], a # q
        PROVE  ThreadWork[a] < ThreadWork[q] /\ Height[a] < Height[q]
    <3>1. a \in Ancestry[Previous[q]] /\ a \in Plot
      BY <1>3, <1>4, <2>2
    <3>2. \/ a = Previous[q]
          \/ ThreadWork[a] < ThreadWork[Previous[q]] /\ Height[a] < Height[Previous[q]]
      BY <1>4, <3>1
    <3> QED
      BY <1>1, <2>1, <3>1, <3>2
  <2>3. ASSUME NEW a \in Ancestry[q] PROVE Ancestry[a] \subseteq Ancestry[q]
    BY <1>3, <1>4
  <2> QED
    BY <1>3, <1>4, <2>2, <2>3
<1> HIDE DEF Good
<1>5. 0 \in A
  <2>1. ASSUME NEW q \in K, Height[q] = 0 PROVE Good(q)
    BY <1>1, <1>2, <1>3, <2>1
  <2> QED
    BY <2>1
<1>6. ASSUME NEW n \in Nat, n \in A PROVE n + 1 \in A
  <2>1. ASSUME NEW q \in K, Height[q] = n + 1 PROVE Good(q)
    <3>1. CASE q = Genesis
      BY <1>2, <3>1
    <3>2. CASE q # Genesis
      <4>1. Previous[q] \in K /\ Height[Previous[q]] = n
        BY <1>1, <1>3, <2>1, <3>2
      <4> QED
        BY <1>4, <1>6, <3>2, <4>1
    <3> QED
      BY <3>1, <3>2
  <2> QED
    BY <2>1
<1>7. Nat \subseteq A
  <2> HIDE DEF A
  <2> QED
    BY <1>5, <1>6, Induction
<1> QED
  BY <1>1, <1>7 DEF Good

\* Plots are taken off and put back one by one, in order of height.
LEMMA NextIsOneOfThem ==
    /\ toConnect \subseteq Plot /\ toConnect # {} =>
         /\ NextToConnect \in toConnect
         /\ \A q \in toConnect : Height[NextToConnect] <= Height[q]
    /\ toDisconnect \subseteq Plot /\ toDisconnect # {} =>
         /\ NextToDisconnect \in toDisconnect
         /\ \A q \in toDisconnect : Height[q] <= Height[NextToDisconnect]
<1>1. MAX_NUMBER \in Nat /\ \A q \in Plot : Height[q] \in 0..MAX_NUMBER
  BY ParametersAssumption, TreeAssumption
<1>2. ASSUME toConnect \subseteq Plot, toConnect # {}
      PROVE  /\ NextToConnect \in toConnect
             /\ \A q \in toConnect : Height[NextToConnect] <= Height[q]
  <2> DEFINE A == {Height[q] : q \in toConnect}
  <2>1. A \subseteq Nat /\ A # {}
    BY <1>1, <1>2
  <2>2. PICK n \in A : \A m \in A : n <= m
    BY <2>1, LeastElement
  <2>3. PICK q \in toConnect : \A r \in toConnect : Height[q] <= Height[r]
    BY <2>2
  <2> QED
    BY <2>3 DEF NextToConnect
<1>3. ASSUME toDisconnect \subseteq Plot, toDisconnect # {}
      PROVE  /\ NextToDisconnect \in toDisconnect
             /\ \A q \in toDisconnect : Height[q] <= Height[NextToDisconnect]
  <2> DEFINE A == {MAX_NUMBER - Height[q] : q \in toDisconnect}
  <2>1. A \subseteq Nat /\ A # {}
    BY <1>1, <1>3
  <2>2. PICK n \in A : \A m \in A : n <= m
    BY <2>1, LeastElement
  <2>3. PICK q \in toDisconnect : n = MAX_NUMBER - Height[q]
    BY <2>2
  <2>4. ASSUME NEW r \in toDisconnect PROVE Height[r] <= Height[q]
    <3>1. n <= MAX_NUMBER - Height[r]
      BY <2>2
    <3>2. Height[r] \in Int /\ Height[q] \in Int
      BY <1>1, <1>3
    <3> QED
      BY <1>1, <2>3, <3>1, <3>2
  <2> QED
    BY <2>4 DEF NextToDisconnect
<1> QED
  BY <1>2, <1>3

----------------------------------------------------------------------------
(* What the ledger's operations mean for what is known *)

LEMMA KnownFrame ==
    ASSUME LedgerIsKnown, UNCHANGED <<tip, branchType>>
    PROVE  LedgerIsKnown' /\ Known' = Known
<1>1. Known' = Known
  BY DEF Known, IsKnown, GetBranchType
<1>2. \A p : Vetted(p)' <=> Vetted(p)
  BY <1>1 DEF Vetted
<1> QED
  BY <1>1, <1>2 DEF LedgerIsKnown

\* Giving a vetted plot a branch type makes it known, and no other unknown.
LEMMA KnownGrows ==
    ASSUME LedgerIsKnown,
           NEW p \in Plot, Vetted(p),
           NEW type \in {MAIN, SIDE},
           branchType' = [branchType EXCEPT ![p] = type]
    PROVE  /\ branchType' \in [Plot -> {MAIN, SIDE, UNKNOWN}]
           /\ Known' = Known \cup {p}
           /\ \A q : Vetted(q) => Vetted(q)'
           /\ \A q \in Known' : Vetted(q)'
<1>1. branchType' \in [Plot -> {MAIN, SIDE, UNKNOWN}]
  BY DEF LedgerIsKnown
<1>2. \A q \in Plot : q # None
  BY TreeAssumption
<1>3. \A q \in Plot : branchType'[q] = IF q = p THEN type ELSE branchType[q]
  BY DEF LedgerIsKnown
<1>4. Known' = Known \cup {p}
  BY <1>2, <1>3 DEF Known, IsKnown, GetBranchType
<1>5. \A q : Vetted(q) => Vetted(q)'
  BY <1>4 DEF Vetted
<1> QED
  BY <1>1, <1>4, <1>5 DEF LedgerIsKnown

LEMMA KnownConnect ==
    ASSUME LedgerIsKnown,
           NEW p \in Plot,
           Checked(p),
           tip = None => p = Genesis,
           ConnectPlot(p)
    PROVE  /\ LedgerIsKnown'
           /\ Known \subseteq Known'
           /\ \A q : Vetted(q) => Vetted(q)'
           /\ tip' # None
<1>1. Vetted(p)
  <2>1. CASE tip = None
    BY <2>1 DEF Vetted
  <2>2. CASE tip # None
    BY <2>2 DEF Vetted, LedgerIsKnown, ConnectPlot, CanConnect, LinksToTip
  <2> QED
    BY <2>1, <2>2
<1>2. tip' = p /\ branchType' = [branchType EXCEPT ![p] = MAIN]
  BY DEF ConnectPlot
<1>3. p # None
  BY TreeAssumption
<1>4. /\ branchType' \in [Plot -> {MAIN, SIDE, UNKNOWN}]
      /\ Known' = Known \cup {p}
      /\ \A q : Vetted(q) => Vetted(q)'
      /\ \A q \in Known' : Vetted(q)'
  BY <1>1, <1>2, KnownGrows
<1> QED
  BY <1>2, <1>3, <1>4 DEF LedgerIsKnown

LEMMA KnownDisconnect ==
    ASSUME LedgerIsKnown, NEW p \in Plot \ {Genesis}, DisconnectPlot(p)
    PROVE  /\ LedgerIsKnown'
           /\ Known \subseteq Known'
           /\ \A q : Vetted(q) => Vetted(q)'
           /\ tip' # None
<1>1. tip = p /\ tip' = Previous[p] /\ branchType' = [branchType EXCEPT ![p] = SIDE]
  BY DEF DisconnectPlot, CanDisconnect
<1>2. p # None
  BY TreeAssumption
<1>3. p \in Known /\ Vetted(p)
  BY <1>1, <1>2 DEF LedgerIsKnown
<1>4. Previous[p] \in Known /\ Previous[p] # None
  BY <1>3, TreeAssumption DEF Vetted, Known
<1>5. /\ branchType' \in [Plot -> {MAIN, SIDE, UNKNOWN}]
      /\ Known' = Known \cup {p}
      /\ \A q : Vetted(q) => Vetted(q)'
      /\ \A q \in Known' : Vetted(q)'
  BY <1>1, <1>3, KnownGrows
<1>6. Previous[p] \in Plot
  BY <1>4 DEF Known
<1> QED
  BY <1>1, <1>4, <1>5, <1>6 DEF LedgerIsKnown

LEMMA KnownFlag ==
    ASSUME LedgerIsKnown, tip # None, NEW p \in Plot, Vetted(p), SetBranchType(p, SIDE)
    PROVE  /\ LedgerIsKnown'
           /\ Known \subseteq Known'
           /\ \A q : Vetted(q) => Vetted(q)'
<1>1. tip' = tip /\ branchType' = [branchType EXCEPT ![p] = SIDE]
  BY DEF SetBranchType
<1>2. /\ branchType' \in [Plot -> {MAIN, SIDE, UNKNOWN}]
      /\ Known' = Known \cup {p}
      /\ \A q : Vetted(q) => Vetted(q)'
      /\ \A q \in Known' : Vetted(q)'
  BY <1>1, KnownGrows
<1> QED
  BY <1>1, <1>2 DEF LedgerIsKnown

LEMMA KnownHaveType ==
    ASSUME NEW p, p \in Known
    PROVE  p \in Plot /\ p # None /\ GetBranchType(p) # UNKNOWN
BY BranchTypesDiffer, TreeAssumption DEF Known, IsKnown, GetBranchType

----------------------------------------------------------------------------
(* The processor's steps *)

LEMMA CarefulInit == ASSUME Init PROVE Careful
<1>1. \A p \in Plot : branchType[p] = UNKNOWN /\ p # None
  BY TreeAssumption DEF Init, LedgerInit
<1>2. Known = {}
  BY <1>1, BranchTypesDiffer DEF Known, IsKnown, GetBranchType
<1> QED
  BY <1>2 DEF Init, LedgerInit, Careful, LedgerIsKnown, WorkIsVetted

\* When the processor rests there is nothing in hand to vet.
LEMMA RestIsCareful ==
    ASSUME LedgerIsKnown', Rest PROVE Careful'
BY DEF Rest, Careful, LedgerIsKnown, WorkIsVetted

LEMMA CarefulGenesis ==
    ASSUME Careful, NEW now, ProcessGenesis(now)
    PROVE  Careful'
<1>1. LedgerIsKnown' /\ Known' = Known
  BY KnownFrame DEF Careful, ProcessGenesis, ledgerVars
<1>2. Genesis \in Plot /\ Checked(Genesis)
  BY TreeAssumption, GenesisAssumption DEF Checked
<1>3. /\ phase' = "adjust" /\ newPlot' = Genesis /\ oldTip' = None
      /\ toDisconnect' = {} /\ toConnect' = {Genesis}
  BY DEF ProcessGenesis
<1>4. WorkIsVetted'
  BY <1>2, <1>3 DEF WorkIsVetted, Vetted, Checked
<1> QED
  BY <1>1, <1>4 DEF Careful

LEMMA CarefulAccept ==
    ASSUME Careful, NEW p \in Plot, NEW now, AcceptPlot(p, now)
    PROVE  Careful'
<1>1. LedgerIsKnown' /\ Known' = Known /\ tip' = tip
  BY KnownFrame DEF Careful, AcceptPlot, ledgerVars
<1>2. /\ phase' = "accept" /\ newPlot' = p /\ oldTip' = tip
      /\ toDisconnect' = toDisconnect /\ toConnect' = toConnect
  BY DEF AcceptPlot
<1>3. Previous[p] \in Known
  <2>1. Previous[p] # None
    BY BranchTypesDiffer DEF AcceptPlot, HasKnownParent, IsKnown, GetBranchType
  <2> QED
    BY <2>1, TreeAssumption DEF AcceptPlot, HasKnownParent, Known
<1>4. Checked(p)
  BY DEF AcceptPlot, CheckPlot, Checked
<1>5. tip # None /\ tip \in Known
  BY <1>3 DEF Careful, LedgerIsKnown
<1>6. p # None
  BY TreeAssumption
<1>7. Vetted(p)'
  BY <1>1, <1>3, <1>4 DEF Vetted
<1>8. WorkIsVetted'
  BY <1>1, <1>2, <1>5, <1>6, <1>7 DEF Careful, WorkIsVetted, Vetted
<1> QED
  BY <1>1, <1>8 DEF Careful

LEMMA CarefulChoose ==
    ASSUME Careful, ChooseNewThread
    PROVE  /\ Careful'
           /\ newPlot \in toConnect'
           /\ toConnect' \subseteq Known \cup {newPlot}
<1>1. LedgerIsKnown' /\ Known' = Known /\ tip' = tip
  BY KnownFrame DEF Careful, ChooseNewThread, ledgerVars
<1>2. /\ phase' = "adjust" /\ newPlot' = newPlot /\ oldTip' = oldTip
      /\ toDisconnect' = Ancestry[tip] \ Ancestry[newPlot]
      /\ toConnect' = Ancestry[newPlot] \ Ancestry[tip]
  BY DEF ChooseNewThread, BranchOf
<1>3. /\ newPlot \in Plot /\ Vetted(newPlot) /\ newPlot # tip
      /\ tip \in Known
      /\ \A q \in Known : Vetted(q)
  BY DEF Careful, LedgerIsKnown, WorkIsVetted, ChooseNewThread
<1>4. /\ Ancestry[tip] \subseteq Known
      /\ \A a \in Ancestry[tip] \ {tip} : ThreadWork[a] < ThreadWork[tip]
  <2>1. Known \subseteq Plot /\ \A q \in Known : Checked(q) /\ (q # Genesis => Previous[q] \in Known)
    BY <1>3 DEF Known, Vetted
  <2> QED
    BY <1>3, <2>1, Walk
<1>5. /\ Ancestry[newPlot] \subseteq Known \cup {newPlot}
      /\ newPlot \in Ancestry[newPlot]
      /\ Genesis \in Ancestry[newPlot]
  <2> DEFINE K == Known \cup {newPlot}
  <2>1. K \subseteq Plot /\ \A q \in K : Checked(q) /\ (q # Genesis => Previous[q] \in K)
    BY <1>3 DEF Known, Vetted
  <2> HIDE DEF K
  <2>2. newPlot \in K
    BY DEF K
  <2>3. /\ Ancestry[newPlot] \subseteq K
        /\ newPlot \in Ancestry[newPlot]
        /\ Genesis \in Ancestry[newPlot]
    BY <2>1, <2>2, Walk
  <2> QED
    BY <2>3 DEF K
<1>6. newPlot \notin Ancestry[tip]
  <2>1. ThreadWork[newPlot] \in Nat /\ ThreadWork[tip] \in Nat
    BY <1>3, TreeAssumption DEF Known
  <2>2. ThreadWork[newPlot] >= ThreadWork[tip]
    BY <2>1 DEF ChooseNewThread, IsBetter, Compare
  <2> QED
    BY <1>3, <1>4, <2>1, <2>2
<1>7. toConnect' \subseteq Plot /\ toConnect' # {} /\ \A q \in toConnect' : Checked(q)
  BY <1>2, <1>3, <1>5, <1>6 DEF Known, Vetted
<1>8. toDisconnect' \subseteq Plot \ {Genesis}
  BY <1>2, <1>4, <1>5 DEF Known
<1>9. tip # None
  BY <1>3, KnownHaveType
<1>10. WorkIsVetted'
  BY <1>1, <1>2, <1>7, <1>8, <1>9 DEF Careful, WorkIsVetted, Vetted
<1>11. newPlot \in toConnect' /\ toConnect' \subseteq Known \cup {newPlot}
  BY <1>2, <1>5, <1>6
<1> QED
  BY <1>1, <1>10, <1>11 DEF Careful

LEMMA CarefulReconnect ==
    ASSUME Careful, ReconnectTip
    PROVE  Careful'
<1>1. LedgerIsKnown' /\ Known' = Known /\ tip' = tip
  BY KnownFrame DEF Careful, ReconnectTip, ledgerVars
<1>2. /\ phase' = "accept" /\ newPlot' = oldTip /\ oldTip' = oldTip
      /\ toDisconnect' = {} /\ toConnect' = {}
  BY DEF ReconnectTip
<1>3. oldTip # None /\ oldTip \in Known
  BY DEF ReconnectTip, MayReconnect, Careful, WorkIsVetted
<1>4. oldTip \in Plot /\ Vetted(oldTip) /\ tip # None
  BY <1>3 DEF Careful, LedgerIsKnown, Known
<1>5. WorkIsVetted'
  BY <1>1, <1>2, <1>3, <1>4 DEF WorkIsVetted, Vetted
<1> QED
  BY <1>1, <1>5 DEF Careful

\* Whatever the ledger learns, what is in hand stays vetted.
LEMMA WorkStaysVetted ==
    ASSUME WorkIsVetted,
           phase = "adjust",
           Known \subseteq Known',
           \A q : Vetted(q) => Vetted(q)',
           UNCHANGED <<phase, newPlot, oldTip>>,
           tip' # None,
           toConnect' \subseteq toConnect, toConnect' # {},
           toDisconnect' \subseteq toDisconnect
    PROVE  WorkIsVetted'
BY DEF WorkIsVetted

LEMMA CarefulDisconnect ==
    ASSUME Careful, Disconnect
    PROVE  Careful' /\ \E p \in Plot \ {Genesis} : DisconnectPlot(p)
<1> DEFINE p == NextToDisconnect
<1>1. p \in Plot \ {Genesis} /\ DisconnectPlot(p)
  BY NextIsOneOfThem DEF Disconnect, Careful, WorkIsVetted
<1>2. /\ LedgerIsKnown'
      /\ Known \subseteq Known'
      /\ \A q : Vetted(q) => Vetted(q)'
      /\ tip' # None
  <2> HIDE DEF p
  <2> QED
    BY <1>1, KnownDisconnect DEF Careful
<1>3. /\ toDisconnect' \subseteq toDisconnect /\ phase = "adjust"
      /\ UNCHANGED <<phase, newPlot, oldTip, toConnect>>
  BY DEF Disconnect
<1>4. toConnect # {} /\ WorkIsVetted
  BY <1>3 DEF Careful, WorkIsVetted
<1>5. WorkIsVetted'
  BY <1>2, <1>3, <1>4, WorkStaysVetted
<1> QED
  BY <1>1, <1>2, <1>5 DEF Careful

LEMMA CarefulConnect ==
    ASSUME Careful, Connect
    PROVE  /\ Careful'
           /\ \E p \in Plot : (tip = None => p = Genesis) /\ ConnectPlot(p) /\ Checked(p)
<1> DEFINE p == NextToConnect
<1>1. phase = "adjust" /\ WorkIsVetted /\ LedgerIsKnown
  BY DEF Connect, Careful
<1>2. p \in toConnect
  BY <1>1, NextIsOneOfThem DEF WorkIsVetted
<1>3. p \in Plot /\ Checked(p) /\ (tip = None => p = Genesis)
  BY <1>1, <1>2 DEF WorkIsVetted
<1>4. ConnectPlot(p)
  BY DEF Connect
<1>5. /\ LedgerIsKnown'
      /\ Known \subseteq Known'
      /\ \A q : Vetted(q) => Vetted(q)'
      /\ tip' # None
  <2> HIDE DEF p
  <2> QED
    BY <1>1, <1>3, <1>4, KnownConnect
<1>6. CASE toConnect = {p}
  <2>1. Rest
    BY <1>6 DEF Connect
  <2>2. Careful'
    BY <1>5, <2>1, RestIsCareful
  <2> QED
    BY <1>3, <1>4, <2>2
<1>7. CASE toConnect # {p}
  <2>1. toConnect' = toConnect \ {p} /\ UNCHANGED <<phase, newPlot, oldTip, toDisconnect>>
    BY <1>7 DEF Connect
  <2>2. toConnect' # {}
    BY <1>2, <1>7, <2>1
  <2>3. WorkIsVetted'
    <3> HIDE DEF p
    <3> QED
      BY <1>1, <1>5, <2>1, <2>2, WorkStaysVetted
  <2> QED
    BY <1>3, <1>4, <1>5, <2>3 DEF Careful
<1> QED
  BY <1>6, <1>7

LEMMA CarefulFlag ==
    ASSUME Careful, FlagSideBranch
    PROVE  /\ Careful'
           /\ \E p \in Plot : /\ p # Genesis => GetBranchType(Previous[p]) # UNKNOWN
                              /\ SetBranchType(p, SIDE)
<1>1. /\ newPlot \in Plot /\ Vetted(newPlot) /\ tip # None
      /\ SetBranchType(newPlot, SIDE) /\ LedgerIsKnown
      /\ Rest
  BY DEF Careful, WorkIsVetted, FlagSideBranch
<1>2. LedgerIsKnown'
  BY <1>1, KnownFlag
<1>3. Careful'
  BY <1>1, <1>2, RestIsCareful
<1>4. newPlot # Genesis => GetBranchType(Previous[newPlot]) # UNKNOWN
  BY <1>1, KnownHaveType DEF Vetted
<1> QED
  BY <1>1, <1>3, <1>4

\* The steps that leave the thread and the branch types alone.
LEMMA CarefulFrame ==
    ASSUME Careful, UNCHANGED <<tip, branchType>>, Rest \/ UNCHANGED workVars
    PROVE  Careful'
<1>1. LedgerIsKnown' /\ Known' = Known
  BY KnownFrame DEF Careful
<1>2. CASE Rest
  BY <1>1, <1>2, RestIsCareful
<1>3. CASE UNCHANGED workVars
  <2>1. WorkIsVetted'
    BY <1>1, <1>3 DEF Careful, WorkIsVetted, Vetted, workVars
  <2> QED
    BY <1>1, <2>1 DEF Careful
<1> QED
  BY <1>2, <1>3

LEMMA CarefulNext ==
    Careful /\ [Next]_vars => Careful' /\ [LedgerNext]_ledgerVars
<1> SUFFICES ASSUME Careful, [Next]_vars
             PROVE  Careful' /\ [LedgerNext]_ledgerVars
  OBVIOUS
<1>1. ASSUME NEW now \in Clock, ProcessGenesis(now)
      PROVE  Careful' /\ UNCHANGED ledgerVars
  BY <1>1, CarefulGenesis DEF ProcessGenesis
<1>2. ASSUME NEW p \in Plot, NEW now \in Clock, AcceptPlot(p, now)
      PROVE  Careful' /\ UNCHANGED ledgerVars
  BY <1>2, CarefulAccept DEF AcceptPlot
<1>3. CASE KeepTip
  BY <1>3, CarefulFrame DEF KeepTip, ledgerVars
<1>4. CASE FlagSideBranch
  BY <1>4, CarefulFlag DEF LedgerNext
<1>5. CASE ChooseNewThread
  BY <1>5, CarefulChoose DEF ChooseNewThread
<1>6. CASE Disconnect
  BY <1>6, CarefulDisconnect DEF LedgerNext
<1>7. CASE Connect
  BY <1>7, CarefulConnect DEF LedgerNext
<1>8. CASE ReconnectTip
  BY <1>8, CarefulReconnect DEF ReconnectTip
<1>9. CASE GiveUp
  BY <1>9, CarefulFrame DEF GiveUp, ledgerVars
<1>10. ASSUME NEW p \in Plot, Index(p)
       PROVE  Careful' /\ LedgerNext
  <2>1. Links(p) \in PlotLinks /\ IndexLinks(Links(p))
    BY <1>10 DEF Index, PlotLinks
  <2>2. Careful'
    BY <1>10, CarefulFrame DEF Index, IndexLinks
  <2> QED
    BY <2>1, <2>2 DEF LedgerNext
<1>11. CASE Crash
  BY <1>11, CarefulFrame DEF Crash, LoseGraph, LedgerNext
<1>12. CASE UNCHANGED vars
  BY <1>12, CarefulFrame DEF vars, ledgerVars
<1> QED
  BY <1>1, <1>2, <1>3, <1>4, <1>5, <1>6, <1>7, <1>8, <1>9, <1>10, <1>11, <1>12
  DEF Next, Step

(* Every step of the processor, crashes included, is a step that the       *)
(* ledger's contract allows.                                               *)
THEOREM ProcessorImplementsLedger == Spec => ImplementsLedger
<1>1. Init => Careful
  BY CarefulInit
<1>2. Init => LedgerInit
  BY DEF Init
<1> QED
  BY <1>1, <1>2, CarefulNext, PTL DEF Spec, ImplementsLedger, LedgerSpec

(* So a node's thread only ever grows and shrinks at its end, by checked   *)
(* plots that repeat nothing it holds and overdraw nobody; and putting an  *)
(* old thread back never takes a key below zero.                           *)
THEOREM NodeKeepsThread == Spec => ImplementsThread /\ []ImbalancesMatchThread /\ []UndoNeverPanics
BY ProcessorImplementsLedger, LedgerImplementsThread, ImbalancesStayExact,
   DisconnectingNeverPanics, PTL DEF ImplementsLedger

----------------------------------------------------------------------------
(* The way back *)

Prefix(s, n) == [i \in 1..n |-> s[i]]

Chained(s) ==
    /\ s \in Seq(Plot)
    /\ \A n \in 1..Len(s) :
         /\ Height[s[n]] = n - 1
         /\ n = 1 => s[n] = Genesis
         /\ n # 1 => s[n] # Genesis /\ Previous[s[n]] = s[n-1]

\* What IsUnprocessed and IsFunded ask, of the thread instead of the indices.
Fits(t, p) ==
    /\ \A n \in 1..Len(t) : RepresentationsOf(t[n]) \cap RepresentationsOf(p) = {}
    /\ CanApplyAll([k \in Key |-> Abstract!ImbalanceOf(t, k)], EffectsOn(t, p))

Fitting(s) ==
    /\ Chained(s)
    /\ \A n \in 2..Len(s) : Fits(Prefix(s, n - 1), s[n])

Recalled(p) == \E s \in Seq(Plot) : Fitting(s) /\ Len(s) >= 1 /\ s[Len(s)] = p

----------------------------------------------------------------------------
(* Threads *)

LEMMA ChainedAncestry ==
    ASSUME NEW s, Chained(s), NEW n \in 1..Len(s)
    PROVE  Ancestry[s[n]] = {s[i] : i \in 1..n}
<1> DEFINE A == {m \in Nat : m + 1 <= Len(s) => Ancestry[s[m+1]] = {s[i] : i \in 1 .. m + 1}}
<1>1. s \in Seq(Plot) /\ Len(s) \in Nat
  BY DEF Chained
<1>2. 0 \in A
  BY <1>1, AncestryAssumption DEF Chained
<1>3. ASSUME NEW m \in Nat, m \in A PROVE m + 1 \in A
  <2> SUFFICES ASSUME m + 2 <= Len(s)
               PROVE  Ancestry[s[m+2]] = {s[i] : i \in 1 .. m + 2}
    OBVIOUS
  <2>1. m + 2 \in 1..Len(s) /\ m + 2 # 1 /\ (m + 2) - 1 = m + 1
    BY <1>1
  <2>2. s[m+2] \in Plot /\ s[m+2] # Genesis /\ Previous[s[m+2]] = s[m+1]
    BY <1>1, <2>1 DEF Chained
  <2>3. Ancestry[s[m+2]] = {s[m+2]} \cup Ancestry[s[m+1]]
    BY <2>2, AncestryAssumption
  <2>4. Ancestry[s[m+1]] = {s[i] : i \in 1 .. m + 1}
    BY <1>1, <1>3
  <2>5. 1 .. m + 2 = (1 .. m + 1) \cup {m + 2}
    OBVIOUS
  <2> QED
    BY <2>3, <2>4, <2>5
<1>4. Nat \subseteq A
  <2> HIDE DEF A
  <2> QED
    BY <1>2, <1>3, Induction
<1>5. n - 1 \in Nat /\ (n - 1) + 1 = n /\ n <= Len(s)
  BY <1>1
<1>6. Ancestry[s[(n-1)+1]] = {s[i] : i \in 1 .. (n - 1) + 1}
  <2>1. n - 1 \in A
    BY <1>4, <1>5
  <2> QED
    BY <1>5, <2>1
<1> QED
  BY <1>5, <1>6, Zenon

\* Threads that share a plot share what is below it.
LEMMA ChainedAgree ==
    ASSUME NEW s, Chained(s), NEW t, Chained(t),
           NEW m \in 1..Len(s), NEW n \in 1..Len(t), s[m] = t[n]
    PROVE  m = n /\ Prefix(s, m) = Prefix(t, n)
<1>1. /\ Len(s) \in Nat /\ Len(t) \in Nat
      /\ \A i \in 1..Len(s) : Height[s[i]] = i - 1
      /\ \A i \in 1..Len(t) : Height[t[i]] = i - 1
  BY DEF Chained
<1>2. m = n
  BY <1>1
<1>3. {s[i] : i \in 1..m} = {t[i] : i \in 1..m}
  <2>1. Ancestry[s[m]] = {s[i] : i \in 1..m}
    BY ChainedAncestry
  <2>2. Ancestry[t[n]] = {t[i] : i \in 1..n}
    BY ChainedAncestry
  <2> QED
    BY <1>2, <2>1, <2>2
<1>4. ASSUME NEW i \in 1..m PROVE s[i] = t[i]
  <2>1. PICK j \in 1..m : s[i] = t[j]
    BY <1>3
  <2>2. i - 1 = j - 1 /\ i \in Int /\ j \in Int
    BY <1>1, <1>2, <2>1
  <2> QED
    BY <2>1, <2>2
<1> QED
  BY <1>2, <1>4 DEF Prefix

LEMMA PrefixOfPrefix ==
    ASSUME NEW s, NEW t, NEW m \in Nat, NEW n \in Nat, n <= m,
           \A i \in 1..m : s[i] = t[i]
    PROVE  Prefix(s, n) = Prefix(t, n)
BY DEF Prefix

LEMMA WholePrefix ==
    ASSUME NEW s \in Seq(Plot)
    PROVE  Prefix(s, Len(s)) = s
<1>1. Prefix(s, Len(s)) \in Seq(Plot) /\ Len(Prefix(s, Len(s))) = Len(s)
  BY DEF Prefix
<1>2. \A i \in 1..Len(s) : Prefix(s, Len(s))[i] = s[i]
  BY DEF Prefix
<1> QED
  BY <1>1, <1>2, SeqEqual

LEMMA ThreadIsChainedSequence ==
    ASSUME Located
    PROVE  /\ Chained(CurrentThread)
           /\ tip # None => /\ Len(CurrentThread) >= 1
                            /\ CurrentThread[Len(CurrentThread)] = tip
<1>1. /\ CurrentThread \in Seq(Plot)
      /\ Len(CurrentThread) = tipHeight + 1
      /\ \A n \in 1 .. tipHeight + 1 : CurrentThread[n] = heightIndex[n-1]
  BY ThreadIsSequence
<1>2. tipHeight \in -1..MAX_NUMBER /\ MAX_NUMBER \in Nat
  BY ParametersAssumption DEF Located, ThreadTypeOK
<1>3. ASSUME NEW n \in 1 .. tipHeight + 1
      PROVE  /\ Height[CurrentThread[n]] = n - 1
             /\ n = 1 => CurrentThread[n] = Genesis
             /\ n # 1 => /\ CurrentThread[n] # Genesis
                         /\ Previous[CurrentThread[n]] = CurrentThread[n-1]
  <2>1. n - 1 \in 0..MAX_NUMBER /\ n - 1 <= tipHeight /\ n - 1 \in 0..tipHeight
    BY <1>2
  <2>2. heightIndex[n-1] \in Plot /\ Height[heightIndex[n-1]] = n - 1
    BY <2>1, OnThreadAreChecked
  <2>3. tip # None /\ heightIndex[0] = Genesis
    BY <1>2, <2>1 DEF Located, ThreadIsLinked
  <2>4. n = 1 => heightIndex[n-1] = Genesis
    BY <2>3
  <2>5. ASSUME n # 1
        PROVE  heightIndex[n-1] # Genesis /\ Previous[heightIndex[n-1]] = CurrentThread[n-1]
    <3>1. n - 1 \in 1 .. tipHeight + 1 /\ n - 1 # 0 /\ 0 < n - 1
      BY <1>2, <2>5
    <3>2. Previous[heightIndex[n-1]] = heightIndex[(n-1)-1]
      BY <2>1, <3>1 DEF Located, ThreadIsLinked
    <3> QED
      BY <1>1, <2>2, <3>1, <3>2, GenesisAssumption
  <2> QED
    BY <1>1, <2>2, <2>4, <2>5
<1>4. Chained(CurrentThread)
  BY <1>1, <1>3 DEF Chained
<1>5. ASSUME tip # None
      PROVE  Len(CurrentThread) >= 1 /\ CurrentThread[Len(CurrentThread)] = tip
  <2>1. tipHeight # -1 /\ heightIndex[tipHeight] = tip
    BY <1>5 DEF Located, ThreadIsLinked
  <2> QED
    BY <1>1, <1>2, <2>1
<1> QED
  BY <1>4, <1>5

----------------------------------------------------------------------------
(* What the indices say is what the thread says *)

LEMMA ImbalanceOfThread ==
    ASSUME Funded, Exact
    PROVE  imbalance = [k \in Key |-> Abstract!ImbalanceOf(CurrentThread, k)]
<1>1. imbalance \in [Key -> Nat]
  BY FundedTypes
<1>2. \A k \in Key : imbalance[k] = Abstract!ImbalanceOf(CurrentThread, k)
  BY DEF Exact, ImbalancesMatchThread
<1> QED
  BY <1>1, <1>2

LEMMA EffectsOfNext ==
    ASSUME Located, NEW p \in Plot, Height[p] = tipHeight + 1
    PROVE  Effects(p) = EffectsOn(CurrentThread, p) /\ HasPlot(MaturingHeight(p))
<1>1. PLOTROOT_MATURITY \in Nat \ {0} /\ tipHeight \in -1..MAX_NUMBER /\ MAX_NUMBER \in Nat
  BY ParametersAssumption DEF Located, ThreadTypeOK
<1>2. /\ Len(CurrentThread) = tipHeight + 1
      /\ \A n \in 1 .. tipHeight + 1 : CurrentThread[n] = heightIndex[n-1]
  BY ThreadIsSequence
<1>3. MaturingHeight(p) >= 0 <=> IsMatured(CurrentThread)
  BY <1>1, <1>2 DEF MaturingHeight, IsMatured
<1>4. ASSUME MaturingHeight(p) >= 0
      PROVE  /\ CurrentThread[Len(CurrentThread) + 1 - PLOTROOT_MATURITY] =
                  heightIndex[MaturingHeight(p)]
             /\ heightIndex[MaturingHeight(p)] # None
  <2>1. /\ Len(CurrentThread) + 1 - PLOTROOT_MATURITY \in 1 .. tipHeight + 1
        /\ (Len(CurrentThread) + 1 - PLOTROOT_MATURITY) - 1 = MaturingHeight(p)
        /\ MaturingHeight(p) \in 0..tipHeight
    BY <1>1, <1>2, <1>4 DEF MaturingHeight
  <2>2. heightIndex[MaturingHeight(p)] \in Plot
    BY <2>1, OnThreadAreChecked
  <2> QED
    BY <1>2, <2>1, <2>2, TreeAssumption
<1> QED
  BY <1>3, <1>4 DEF Effects, EffectsOn, HasPlot

LEMMA FittingPassesChecks ==
    ASSUME Indexed, Funded, Exact,
           NEW p \in Plot, Height[p] = tipHeight + 1, Fits(CurrentThread, p)
    PROVE  IsUnprocessed(p) /\ IsFunded(p)
<1>1. Located
  BY DEF Indexed
<1>2. IsFunded(p)
  BY <1>1, EffectsOfNext, ImbalanceOfThread DEF Fits, IsFunded
<1>3. ASSUME NEW r \in RepresentationsOf(p) PROVE repIndex[r] = None
  <2> SUFFICES ASSUME repIndex[r] # None PROVE FALSE
    OBVIOUS
  <2>1. r \in Representation
    BY OwnList
  <2>2. PICK h \in RetainedHeights : r \in RepresentationsOf(heightIndex[h])
    BY <2>1 DEF Indexed, RepIndexIsExact
  <2>3. h \in 0..tipHeight
    BY <2>2 DEF RetainedHeights
  <2>4. h + 1 \in 1 .. tipHeight + 1 /\ (h + 1) - 1 = h
    BY <1>1, <2>3 DEF Located, ThreadTypeOK
  <2>5. CurrentThread[h+1] = heightIndex[h] /\ h + 1 \in 1..Len(CurrentThread)
    BY <1>1, <2>4, ThreadIsSequence
  <2> QED
    BY <2>2, <2>5 DEF Fits
<1> QED
  BY <1>2, <1>3 DEF IsUnprocessed

LEMMA ConnectedFits ==
    ASSUME Indexed, Funded, Exact,
           NEW p \in Plot,
           tip = None => p = Genesis,
           ConnectPlot(p),
           Checked(p)
    PROVE  Fits(CurrentThread, p)
<1>1. Located /\ Height[p] = tipHeight + 1 /\ tipHeight \in -1..MAX_NUMBER /\ MAX_NUMBER \in Nat
  BY ThreadAfterConnect DEF Indexed
<1>2. IsUnprocessed(p) /\ CanApplyAll(imbalance, Effects(p))
  BY DEF ConnectPlot, CanConnect, IsFunded
<1>3. CanApplyAll([k \in Key |-> Abstract!ImbalanceOf(CurrentThread, k)],
                  EffectsOn(CurrentThread, p))
  BY <1>1, <1>2, EffectsOfNext, ImbalanceOfThread
<1>4. ASSUME NEW n \in 1..Len(CurrentThread)
      PROVE  RepresentationsOf(CurrentThread[n]) \cap RepresentationsOf(p) = {}
  <2>1. n \in 1 .. tipHeight + 1 /\ CurrentThread[n] = heightIndex[n-1]
    BY <1>1, ThreadIsSequence
  <2>2. n - 1 \in 0..tipHeight
    BY <1>1, <2>1
  <2>3. RepresentationsOf(heightIndex[n-1]) \cap RepresentationsOf(p) = {}
    BY <1>1, <1>2, <2>2, NothingRepeated
  <2> QED
    BY <2>1, <2>3
<1> QED
  BY <1>3, <1>4 DEF Fits

----------------------------------------------------------------------------
(* The thread fits at every height *)

LEMMA FittingConnect ==
    ASSUME Indexed, Funded, Exact, Fitting(CurrentThread),
           NEW p \in Plot,
           tip = None => p = Genesis,
           ConnectPlot(p),
           Checked(p)
    PROVE  Fitting(CurrentThread')
<1> DEFINE t == CurrentThread
           u == Append(t, p)
<1>1. Located /\ Located'
  BY LocatedConnect DEF Indexed
<1>2. CurrentThread' = u
  BY <1>1, ThreadExtends
<1>3. Chained(u)
  <2>1. Chained(CurrentThread)'
    BY <1>1, ThreadIsChainedSequence, PTL
  <2>2. Chained(CurrentThread')
    BY <2>1 DEF Chained
  <2> QED
    BY <1>2, <2>2
<1>4. /\ t \in Seq(Plot) /\ Len(t) \in Nat
      /\ Len(u) = Len(t) + 1
      /\ u[Len(t) + 1] = p
      /\ \A i \in 1..Len(t) : u[i] = t[i]
  BY <1>1, ThreadIsSequence
<1>5. Fits(t, p)
  BY ConnectedFits
<1>6. \A n \in 2..Len(t) : Fits(Prefix(t, n - 1), t[n])
  BY DEF Fitting
<1>7. Prefix(t, Len(t)) = t
  BY <1>4, WholePrefix
<1> HIDE DEF t, u
<1>8. ASSUME NEW n \in 2..Len(u) PROVE Fits(Prefix(u, n - 1), u[n])
  <2>1. n - 1 \in Nat /\ n - 1 <= Len(t)
    BY <1>4
  <2>2. Prefix(u, n - 1) = Prefix(t, n - 1)
    BY <1>4, <2>1, PrefixOfPrefix
  <2>3. CASE n = Len(t) + 1
    <3>1. n - 1 = Len(t) /\ u[n] = p
      BY <1>4, <2>3
    <3> QED
      BY <1>5, <1>7, <2>2, <3>1
  <2>4. CASE n # Len(t) + 1
    <3>1. n \in 2..Len(t) /\ u[n] = t[n]
      BY <1>4, <2>4
    <3> QED
      BY <1>6, <2>2, <3>1
  <2> QED
    BY <2>3, <2>4
<1> QED
  BY <1>2, <1>3, <1>8 DEF Fitting

LEMMA FittingDisconnect ==
    ASSUME Located, Fitting(CurrentThread), NEW p \in Plot \ {Genesis}, DisconnectPlot(p)
    PROVE  Fitting(CurrentThread')
<1> DEFINE t == CurrentThread'
           u == CurrentThread
<1>1. Located'
  BY LocatedDisconnect
<1>2. t \in Seq(Plot) /\ u = Append(t, p)
  BY ThreadRetracts
<1>3. Chained(t)
  <2>1. Chained(CurrentThread)'
    BY <1>1, ThreadIsChainedSequence, PTL
  <2> QED
    BY <2>1 DEF Chained
<1>4. \A n \in 2..Len(u) : Fits(Prefix(u, n - 1), u[n])
  BY DEF Fitting
<1> HIDE DEF t, u
<1>5. Len(u) = Len(t) + 1 /\ Len(t) \in Nat /\ \A i \in 1..Len(t) : u[i] = t[i]
  BY <1>2
<1>6. ASSUME NEW n \in 2..Len(t) PROVE Fits(Prefix(t, n - 1), t[n])
  <2>1. n - 1 \in Nat /\ n - 1 <= Len(t) /\ n \in 2..Len(u) /\ u[n] = t[n]
    BY <1>5
  <2>2. Prefix(u, n - 1) = Prefix(t, n - 1)
    BY <1>5, <2>1, PrefixOfPrefix
  <2>3. Fits(Prefix(u, n - 1), u[n])
    BY <1>4, <2>1
  <2> QED
    BY <2>1, <2>2, <2>3
<1>7. Fitting(t)
  BY <1>3, <1>6 DEF Fitting
<1> QED
  BY <1>7 DEF t

----------------------------------------------------------------------------
(* What the processor has in hand *)

Rollback ==
    /\ Fitting(CurrentThread)
    /\ phase # "idle" /\ oldTip # None => Recalled(oldTip)
    /\ phase # "idle" /\ reconnecting => oldTip # None /\ newPlot = oldTip
    /\ phase = "adjust" => newPlot # None
    /\ phase = "adjust" /\ tip = None => toDisconnect = {}
    /\ phase = "adjust" /\ tip # None => /\ toDisconnect = BranchOf(tip, newPlot)
                                         /\ toConnect = BranchOf(newPlot, tip)

LedgerIsSound == Indexed /\ Funded /\ Exact

LEMMA WalkFromNew ==
    ASSUME Careful, newPlot # None
    PROVE  /\ newPlot \in Ancestry[newPlot]
           /\ \A a \in Ancestry[newPlot] \ {newPlot} : ThreadWork[a] < ThreadWork[newPlot]
           /\ Ancestry[newPlot] \subseteq Plot
           /\ \A a \in Ancestry[newPlot] \ {newPlot} : Height[a] < Height[newPlot]
           /\ \A a \in Ancestry[newPlot] : Ancestry[a] \subseteq Ancestry[newPlot]
<1> DEFINE K == Known \cup {newPlot}
<1>1. /\ newPlot \in Plot /\ Vetted(newPlot)
      /\ \A q \in Known : Vetted(q)
  BY DEF Careful, LedgerIsKnown, WorkIsVetted
<1>2. K \subseteq Plot /\ \A q \in K : Checked(q) /\ (q # Genesis => Previous[q] \in K)
  BY <1>1 DEF Known, Vetted
<1>3. newPlot \in K
  OBVIOUS
<1> HIDE DEF K
<1>4. /\ Ancestry[newPlot] \subseteq K
      /\ newPlot \in Ancestry[newPlot]
      /\ \A a \in Ancestry[newPlot] \ {newPlot} :
           ThreadWork[a] < ThreadWork[newPlot] /\ Height[a] < Height[newPlot]
      /\ \A a \in Ancestry[newPlot] : Ancestry[a] \subseteq Ancestry[newPlot]
  BY <1>2, <1>3, Walk
<1> QED
  BY <1>2, <1>4

LEMMA TipIsHighest ==
    ASSUME Located, tip # None
    PROVE  /\ tip \in Ancestry[tip]
           /\ tip \in Plot
           /\ Height[tip] = tipHeight
           /\ \A a \in Ancestry[tip] : Height[a] \in Int /\ (a = tip \/ Height[a] < Height[tip])
<1> DEFINE t == CurrentThread
           n == Len(t)
<1>1. Chained(t) /\ n >= 1 /\ t[n] = tip
  BY ThreadIsChainedSequence
<1>2. t \in Seq(Plot) /\ n \in 1..n /\ n = tipHeight + 1
  BY <1>1, ThreadIsSequence
<1>3. tipHeight \in Int
  BY DEF Located, ThreadTypeOK
<1> HIDE DEF t, n
<1>4. Ancestry[tip] = {t[i] : i \in 1..n}
  <2>1. n \in 1..Len(t)
    BY <1>2 DEF n
  <2> QED
    BY <1>1, <2>1, ChainedAncestry
<1>5. \A i \in 1..n : Height[t[i]] = i - 1
  BY <1>1 DEF Chained, n
<1>6. tip \in Plot
  BY <1>1, <1>2 DEF n
<1> QED
  BY <1>1, <1>2, <1>3, <1>4, <1>5, <1>6

\* The next plot to take off is the tip.
LEMMA NextIsTip ==
    ASSUME Located, Careful, Rollback, phase = "adjust", toDisconnect # {}
    PROVE  NextToDisconnect = tip /\ tip \in Plot \ {Genesis} /\ tip \notin Ancestry[newPlot]
<1>1. tip # None /\ newPlot # None /\ toDisconnect = Ancestry[tip] \ Ancestry[newPlot]
  BY DEF Rollback, BranchOf
<1>2. /\ tip \in Ancestry[tip]
      /\ tip \in Plot
      /\ \A a \in Ancestry[tip] : Height[a] \in Int /\ (a = tip \/ Height[a] < Height[tip])
  BY <1>1, TipIsHighest
<1>3. tip \notin Ancestry[newPlot]
  BY <1>1, WalkFromNew
<1>4. tip \in toDisconnect
  BY <1>1, <1>2, <1>3
<1>5. toDisconnect \subseteq Plot \ {Genesis}
  BY DEF Careful, WorkIsVetted
<1>6. /\ NextToDisconnect \in toDisconnect
      /\ \A q \in toDisconnect : Height[q] <= Height[NextToDisconnect]
  BY <1>5, NextIsOneOfThem
<1>7. NextToDisconnect = tip
  <2>1. Height[tip] <= Height[NextToDisconnect] /\ NextToDisconnect \in Ancestry[tip]
    BY <1>1, <1>4, <1>6
  <2> QED
    BY <1>2, <2>1
<1> QED
  BY <1>3, <1>4, <1>5, <1>7

----------------------------------------------------------------------------
(* Steps *)

LEMMA RollbackDisconnect ==
    ASSUME Located, Careful, Rollback, Disconnect
    PROVE  Rollback'
<1> DEFINE p == NextToDisconnect
<1>1. /\ phase = "adjust" /\ toDisconnect # {}
      /\ DisconnectPlot(p)
      /\ toDisconnect' = toDisconnect \ {p}
      /\ UNCHANGED <<phase, newPlot, oldTip, toConnect, reconnecting>>
  BY DEF Disconnect
<1>2. p = tip /\ p \in Plot \ {Genesis} /\ tip \notin Ancestry[newPlot]
  BY <1>1, NextIsTip
<1> HIDE DEF p
<1>3. Fitting(CurrentThread')
  BY <1>1, <1>2, FittingDisconnect DEF Rollback
<1>4. tip # None /\ tip' = Previous[p] /\ tip' \in Plot /\ tip' # None
  BY <1>1, <1>2, TreeAssumption DEF DisconnectPlot
<1>5. Ancestry[p] = {p} \cup Ancestry[tip']
  BY <1>2, <1>4, AncestryAssumption
<1>6. p \notin Ancestry[tip']
  <2>1. Located'
    BY <1>1, <1>2, LocatedDisconnect
  <2>2. (\A a \in Ancestry[tip] : Height[a] \in Int /\ (a = tip \/ Height[a] < Height[tip]))'
        /\ (Height[tip] = tipHeight)'
    <3>1. (Located /\ tip # None)'
      BY <1>4, <2>1
    <3> QED
      BY <3>1, TipIsHighest, PTL
  <2>3. tipHeight' = tipHeight - 1 /\ Height[p] = tipHeight /\ tipHeight \in Int
    BY <1>1, <1>2, ThreadAfterDisconnect
  <2> QED
    BY <1>2, <1>4, <2>2, <2>3
<1>7. toDisconnect = Ancestry[tip] \ Ancestry[newPlot] /\ toConnect = Ancestry[newPlot] \ Ancestry[tip]
  BY <1>1, <1>4 DEF Rollback, BranchOf
<1>8. /\ toDisconnect' = Ancestry[tip'] \ Ancestry[newPlot']
      /\ toConnect' = Ancestry[newPlot'] \ Ancestry[tip']
  BY <1>1, <1>2, <1>5, <1>6, <1>7
<1> QED
  BY <1>1, <1>3, <1>4, <1>8 DEF Rollback, BranchOf, Recalled

LEMMA RollbackConnect ==
    ASSUME LedgerIsSound, Careful, Rollback, Connect
    PROVE  Rollback'
<1> DEFINE p == NextToConnect
<1>1. phase = "adjust" /\ toDisconnect = {} /\ ConnectPlot(p)
  BY DEF Connect
<1>2. p \in toConnect /\ p \in Plot /\ Checked(p) /\ (tip = None => p = Genesis)
  BY <1>1, NextIsOneOfThem DEF Careful, WorkIsVetted
<1>3. Fitting(CurrentThread')
  <2> HIDE DEF p
  <2> QED
    BY <1>1, <1>2, FittingConnect DEF LedgerIsSound, Rollback
<1>4. CASE toConnect = {p}
  <2>1. phase' = "idle"
    BY <1>4 DEF Connect, Rest
  <2> QED
    BY <1>3, <2>1 DEF Rollback
<1>5. CASE toConnect # {p}
  <2>1. /\ toConnect' = toConnect \ {p}
        /\ UNCHANGED <<phase, newPlot, oldTip, toDisconnect, reconnecting>>
    BY <1>5 DEF Connect
  <2>2. tip # None
    BY <1>1, <1>2, <1>5 DEF Careful, WorkIsVetted
  <2> HIDE DEF p
  <2>3. /\ Ancestry[tip] \subseteq Ancestry[newPlot]
        /\ toConnect = Ancestry[newPlot] \ Ancestry[tip]
    BY <1>1, <2>2 DEF Rollback, BranchOf
  <2>4. tip' = p /\ tip = Previous[p]
    BY <1>1, <2>2 DEF ConnectPlot, CanConnect, LinksToTip
  <2>5. p # None /\ p # Genesis
    BY <1>2, <2>2, <2>4, TreeAssumption
  <2>6. Ancestry[p] = {p} \cup Ancestry[tip]
    BY <1>2, <2>4, <2>5, AncestryAssumption
  <2>7. /\ toDisconnect' = Ancestry[tip'] \ Ancestry[newPlot']
        /\ toConnect' = Ancestry[newPlot'] \ Ancestry[tip']
    BY <1>1, <1>2, <2>1, <2>3, <2>4, <2>6
  <2> QED
    BY <1>1, <1>3, <2>1, <2>4, <2>5, <2>7 DEF Rollback, BranchOf, Recalled
<1> QED
  BY <1>4, <1>5

\* The steps that leave the thread alone.
LEMMA ThreadFrame ==
    ASSUME Rollback, UNCHANGED <<tipHeight, heightIndex>>
    PROVE  CurrentThread' = CurrentThread /\ Fitting(CurrentThread')
BY DEF CurrentThread, Rollback

LEMMA RollbackRests ==
    ASSUME Fitting(CurrentThread'), Rest PROVE Rollback'
BY DEF Rest, Rollback

\* The genesis plot is processed when there is no thread yet.
LEMMA GenesisIsFirst ==
    ASSUME Careful, NEW now, ProcessGenesis(now)
    PROVE  tip = None
<1> SUFFICES ASSUME tip # None PROVE FALSE
  OBVIOUS
<1>1. tip \in Known /\ \A q \in Known : Checked(q) /\ (q # Genesis => Previous[q] \in Known)
  BY DEF Careful, LedgerIsKnown, Vetted
<1>2. Known \subseteq Plot
  BY DEF Known
<1>3. Genesis \in Ancestry[tip] /\ Ancestry[tip] \subseteq Known
  BY <1>1, <1>2, Walk
<1> QED
  BY <1>3 DEF Known, ProcessGenesis

LEMMA RollbackGenesis ==
    ASSUME Careful, Rollback, NEW now, ProcessGenesis(now)
    PROVE  Rollback'
<1>1. Fitting(CurrentThread')
  BY ThreadFrame DEF ProcessGenesis, ledgerVars
<1>2. tip = None
  BY GenesisIsFirst
<1>3. Genesis # None
  BY TreeAssumption
<1> QED
  BY <1>1, <1>2, <1>3 DEF Rollback, ProcessGenesis, ledgerVars

LEMMA RollbackAccept ==
    ASSUME Located, Rollback, NEW p \in Plot, NEW now, AcceptPlot(p, now)
    PROVE  Rollback'
<1>1. Fitting(CurrentThread')
  BY ThreadFrame DEF AcceptPlot, ledgerVars
<1>2. tip # None => Recalled(tip)
  BY ThreadIsSequence, ThreadIsChainedSequence DEF Rollback, Recalled
<1>3. phase' = "accept" /\ oldTip' = tip /\ reconnecting' = FALSE
  BY DEF AcceptPlot
<1>4. oldTip' # None => Recalled(oldTip')
  BY <1>2, <1>3
<1> QED
  BY <1>1, <1>3, <1>4 DEF Rollback, Recalled

LEMMA RollbackChoose ==
    ASSUME Careful, Rollback, ChooseNewThread
    PROVE  Rollback'
<1>1. Fitting(CurrentThread') /\ tip' = tip
  BY ThreadFrame DEF ChooseNewThread, ledgerVars
<1>2. newPlot # None /\ tip # None
  BY DEF Careful, WorkIsVetted, ChooseNewThread
<1>3. /\ phase = "accept" /\ phase' = "adjust"
      /\ UNCHANGED <<newPlot, oldTip, reconnecting>>
      /\ toDisconnect' = BranchOf(tip, newPlot)
      /\ toConnect' = BranchOf(newPlot, tip)
  BY DEF ChooseNewThread
<1> QED
  BY <1>1, <1>2, <1>3 DEF Rollback, Recalled, BranchOf

LEMMA RollbackReconnect ==
    ASSUME Rollback, ReconnectTip
    PROVE  Rollback'
<1>1. Fitting(CurrentThread')
  BY ThreadFrame DEF ReconnectTip, ledgerVars
<1>2. /\ phase = "adjust" /\ phase' = "accept"
      /\ oldTip # None /\ oldTip' = oldTip /\ newPlot' = oldTip
  BY DEF ReconnectTip, MayReconnect
<1> QED
  BY <1>1, <1>2 DEF Rollback, Recalled

LEMMA RollbackFrame ==
    ASSUME Rollback, UNCHANGED <<tip, tipHeight, heightIndex>>, UNCHANGED workVars
    PROVE  Rollback'
<1>1. Fitting(CurrentThread')
  BY ThreadFrame
<1> QED
  BY <1>1 DEF Rollback, Recalled, BranchOf, workVars

LEMMA RollbackNext ==
    LedgerIsSound /\ Careful /\ Rollback /\ [Next]_vars => Rollback'
<1> SUFFICES ASSUME LedgerIsSound, Careful, Rollback, [Next]_vars
             PROVE  Rollback'
  OBVIOUS
<1>0. Located
  BY DEF LedgerIsSound, Indexed
<1>1. ASSUME NEW now \in Clock, ProcessGenesis(now) PROVE Rollback'
  BY <1>1, RollbackGenesis
<1>2. ASSUME NEW p \in Plot, NEW now \in Clock, AcceptPlot(p, now) PROVE Rollback'
  BY <1>0, <1>2, RollbackAccept
<1>3. ASSUME UNCHANGED <<tipHeight, heightIndex>>, Rest PROVE Rollback'
  BY <1>3, ThreadFrame, RollbackRests
<1>4. CASE KeepTip
  BY <1>3, <1>4 DEF KeepTip, ledgerVars
<1>5. CASE FlagSideBranch
  BY <1>3, <1>5 DEF FlagSideBranch, SetBranchType
<1>6. CASE ChooseNewThread
  BY <1>6, RollbackChoose
<1>7. CASE Disconnect
  BY <1>0, <1>7, RollbackDisconnect
<1>8. CASE Connect
  BY <1>8, RollbackConnect
<1>9. CASE ReconnectTip
  BY <1>9, RollbackReconnect
<1>10. CASE GiveUp
  BY <1>3, <1>10 DEF GiveUp, ledgerVars
<1>11. ASSUME NEW p \in Plot, Index(p) PROVE Rollback'
  BY <1>11, RollbackFrame DEF Index, IndexLinks
<1>12. CASE Crash
  BY <1>3, <1>12 DEF Crash, LoseGraph
<1>13. CASE UNCHANGED vars
  BY <1>13, RollbackFrame DEF vars, ledgerVars
<1> QED
  BY <1>1, <1>2, <1>4, <1>5, <1>6, <1>7, <1>8, <1>9, <1>10, <1>11, <1>12, <1>13
  DEF Next, Step

----------------------------------------------------------------------------
(* The theorem *)

\* The tip that is to be taken off meets every check of DisconnectPlot.
LEMMA TipComesOff ==
    ASSUME LedgerIsSound, Careful, Rollback, phase = "adjust", toDisconnect # {}
    PROVE  CanDisconnect(NextToDisconnect) /\ CanUndoAll(imbalance, Effects(NextToDisconnect))
<1>1. Located
  BY DEF LedgerIsSound, Indexed
<1>2. NextToDisconnect = tip /\ tip \in Plot /\ tip # None
  BY <1>1, NextIsTip, TreeAssumption
<1>3. Height[tip] = tipHeight
  BY <1>1, <1>2, TipIsHighest
<1>4. /\ PLOTROOT_MATURITY \in Nat /\ PLOTS_UNTIL_NEW_SERIES \in Nat
      /\ tipHeight \in -1..MAX_NUMBER /\ MAX_NUMBER \in Nat
  BY <1>1, ParametersAssumption DEF Located, ThreadTypeOK
<1>5. ASSUME NEW h \in Int, h <= tipHeight PROVE HasPlot(h)
  <2>1. h >= 0 => heightIndex[h] \in Plot
    BY <1>1, <1>4, <1>5, OnThreadAreChecked
  <2> QED
    BY <2>1, TreeAssumption DEF HasPlot
<1>6. /\ MaturingHeight(tip) \in Int /\ MaturingHeight(tip) <= tipHeight
      /\ PrunedHeight(tip) \in Int /\ PrunedHeight(tip) <= tipHeight
  BY <1>3, <1>4 DEF MaturingHeight, PrunedHeight
<1>7. CanDisconnect(tip)
  BY <1>5, <1>6 DEF CanDisconnect
<1>8. CanUndoAll(imbalance, Effects(tip))
  BY <1>2, FundedTipCanBeUndone DEF LedgerIsSound, UndoNeverPanics
<1> QED
  BY <1>2, <1>7, <1>8

\* The next plot of the old thread meets every check of ConnectPlot but the
\* graph's.
LEMMA OldPlotFits ==
    ASSUME LedgerIsSound, Careful, Rollback, phase = "adjust", reconnecting, toDisconnect = {}
    PROVE  LET p == NextToConnect IN LinksToTip(p) /\ IsUnprocessed(p) /\ IsFunded(p)
<1> DEFINE p == NextToConnect
           t == CurrentThread
<1>1. Located
  BY DEF LedgerIsSound, Indexed
<1>2. oldTip # None /\ newPlot = oldTip /\ newPlot # None /\ Recalled(newPlot)
  BY DEF Rollback
<1>3. tip # None
  BY <1>2 DEF Careful, LedgerIsKnown, WorkIsVetted
<1>4. PICK s \in Seq(Plot) : Fitting(s) /\ Len(s) >= 1 /\ s[Len(s)] = newPlot
  BY <1>2 DEF Recalled
<1>5. /\ Chained(s) /\ Len(s) \in Nat /\ Len(s) \in 1..Len(s)
      /\ \A n \in 1..Len(s) : Height[s[n]] = n - 1
  BY <1>4 DEF Fitting, Chained
<1>6. Ancestry[newPlot] = {s[i] : i \in 1..Len(s)}
  BY <1>4, <1>5, ChainedAncestry
<1>7. /\ tip \in Ancestry[tip] /\ Ancestry[tip] \subseteq Ancestry[newPlot]
      /\ toConnect = Ancestry[newPlot] \ Ancestry[tip]
  BY <1>1, <1>3, TipIsHighest DEF Rollback, BranchOf
<1>8. PICK m \in 1..Len(s) : s[m] = tip
  BY <1>6, <1>7
<1>9. /\ Chained(t) /\ t \in Seq(Plot) /\ Len(t) \in 1..Len(t) /\ t[Len(t)] = tip
      /\ Len(t) = tipHeight + 1
  <2>1. Chained(t) /\ Len(t) >= 1 /\ t[Len(t)] = tip
    BY <1>1, <1>3, ThreadIsChainedSequence
  <2>2. t \in Seq(Plot) /\ Len(t) = tipHeight + 1
    BY <1>1, ThreadIsSequence
  <2> QED
    BY <2>1, <2>2
<1>10. m = Len(t) /\ Prefix(s, m) = t
  <2> HIDE DEF t
  <2>1. s[m] = t[Len(t)]
    BY <1>8, <1>9
  <2>2. m = Len(t) /\ Prefix(s, m) = Prefix(t, Len(t))
    BY <1>5, <1>8, <1>9, <2>1, ChainedAgree
  <2> QED
    BY <1>9, <2>2, WholePrefix
<1>11. Ancestry[tip] = {s[i] : i \in 1..m}
  BY <1>5, <1>8, ChainedAncestry
<1>12. /\ p \in toConnect
       /\ \A q \in toConnect : Height[p] <= Height[q]
  BY NextIsOneOfThem DEF Careful, WorkIsVetted
<1> HIDE DEF p, t
<1>13. PICK j \in 1..Len(s) : p = s[j]
  BY <1>6, <1>7, <1>12
<1>14. j > m
  BY <1>7, <1>11, <1>12, <1>13
<1>15. m + 1 \in 1..Len(s) /\ m + 1 # 1 /\ (m + 1) - 1 = m
  BY <1>5, <1>8, <1>13, <1>14
<1>16. s[m+1] \in toConnect
  <2>1. s[m+1] \in Ancestry[newPlot]
    BY <1>6, <1>15
  <2>2. ASSUME NEW i \in 1..m PROVE s[i] # s[m+1]
    <3>1. Height[s[i]] = i - 1 /\ Height[s[m+1]] = (m + 1) - 1
      BY <1>5, <1>8, <1>15
    <3> QED
      BY <1>8, <3>1
  <2> QED
    BY <1>7, <1>11, <2>1, <2>2
<1>17. j = m + 1
  <2>1. Height[p] = j - 1 /\ Height[s[m+1]] = (m + 1) - 1 /\ Height[p] <= Height[s[m+1]]
    BY <1>5, <1>12, <1>13, <1>15, <1>16
  <2> QED
    BY <1>14, <2>1
<1>18. Previous[p] = tip /\ p \in Plot /\ Height[p] = tipHeight + 1
  <2>1. p = s[m+1] /\ s[m+1] \in Plot
    BY <1>13, <1>15, <1>17
  <2>2. Previous[s[m+1]] = s[m]
    BY <1>5, <1>15 DEF Chained
  <2>3. Height[s[m+1]] = m
    BY <1>5, <1>15
  <2> QED
    BY <1>8, <1>9, <1>10, <2>1, <2>2, <2>3
<1>19. Fits(CurrentThread, p)
  <2>1. m + 1 \in 2..Len(s)
    BY <1>8, <1>15
  <2>2. Fits(Prefix(s, (m + 1) - 1), s[m+1])
    BY <1>4, <2>1 DEF Fitting
  <2> QED
    BY <1>10, <1>13, <1>15, <1>17, <2>2 DEF t
<1>20. IsUnprocessed(p) /\ IsFunded(p)
  BY <1>18, <1>19, FittingPassesChecks DEF LedgerIsSound
<1> QED
  BY <1>18, <1>20 DEF LinksToTip, p

\* What holds in every state, for this theorem and the next.
LEMMA SoundAlways == Spec => [](LedgerIsSound /\ Careful /\ Rollback)
<1>1. Init => LedgerIsSound /\ Careful /\ Rollback
  <2> SUFFICES ASSUME Init PROVE LedgerIsSound /\ Careful /\ Rollback
    OBVIOUS
  <2>1. LedgerInit /\ LedgerIsSound
    BY IndexedInit, FundedInit, ExactInit DEF Init, LedgerIsSound
  <2>2. Chained(CurrentThread) /\ Len(CurrentThread) = 0
    BY <2>1, LocatedInit, ThreadIsChainedSequence, ThreadIsSequence DEF LedgerInit
  <2>3. Fitting(CurrentThread)
    BY <2>2 DEF Fitting
  <2> QED
    BY <2>1, <2>3, CarefulInit DEF Init, Rollback
<1>2. LedgerIsSound /\ Careful /\ [Next]_vars => LedgerIsSound'
  BY CarefulNext, IndexedNext, FundedNext, ExactNext DEF LedgerIsSound
<1> QED
  BY <1>1, <1>2, CarefulNext, RollbackNext, PTL DEF Spec

(* Whatever fails while the processor adjusts the thread, it gets back:    *)
(* disconnecting is never refused and never panics, and of the checks of   *)
(* connecting only the one for cycles can refuse a plot of the old thread. *)
THEOREM OldThreadCanReturn == Spec => []OldThreadFitsAgain
<1>1. LedgerIsSound /\ Careful /\ Rollback => OldThreadFitsAgain
  BY TipComesOff, OldPlotFits DEF OldThreadFitsAgain
<1> QED
  BY <1>1, SoundAlways, PTL

----------------------------------------------------------------------------
(* The best thread, also while another one is being tried *)

Best(p) == \A q \in Known \ {p} : Precedes(p, q)

\* What is known, or in hand, was stored at some time.
Stamped ==
    /\ when \in [Plot -> Clock \cup {None}]
    /\ \A p \in Known : when[p] \in Clock
    /\ newPlot # None => when[newPlot] \in Clock

\* A new plot gets its branch type when the work is done: until then the old
\* tip is still the best of the known plots.
Trying ==
    /\ phase = "adjust" => newPlot \in toConnect /\ toConnect \subseteq Known \cup {newPlot}
    /\ phase # "idle" /\ ~reconnecting => newPlot \notin Known
    /\ phase # "idle" /\ oldTip = None => tip = None
    /\ phase = "accept" /\ ~reconnecting => tip = oldTip

Preferred ==
    ~disturbed =>
      /\ phase = "idle" /\ tip # None => Best(tip)
      /\ phase # "idle" /\ oldTip # None => Best(oldTip)
      /\ phase = "adjust" /\ oldTip # None /\ ~reconnecting => Precedes(newPlot, oldTip)

\* No known plot stands on p.
Topmost(p) == \A q \in Known : p \in Ancestry[q] => q = p

\* Where no adjustment was cut short, nothing that is known stands on the tip,
\* and nothing on the old tip while another is tried.
Unburied ==
    ~stranded =>
      /\ phase = "idle" /\ tip # None => Topmost(tip)
      /\ phase # "idle" /\ oldTip # None => Topmost(oldTip)

Labelled ==
    /\ BranchTypesMatchThread
    /\ misfiled \subseteq {p \in Plot : OnThread(p)}

Settled == Stamped /\ Trying /\ Preferred /\ Unburied /\ Labelled

LEMMA PrecedesTransitive ==
    ASSUME NEW p \in Plot, NEW q \in Plot, NEW r \in Plot,
           when[p] \in Clock, when[q] \in Clock, when[r] \in Clock,
           Precedes(p, q), Precedes(q, r)
    PROVE  Precedes(p, r)
<1>1. /\ ThreadWork[p] \in Nat /\ ThreadWork[q] \in Nat /\ ThreadWork[r] \in Nat
      /\ IDNumber[p] \in Nat /\ IDNumber[q] \in Nat /\ IDNumber[r] \in Nat
  BY TreeAssumption DEF Injection
<1>2. when[p] \in Nat /\ when[q] \in Nat /\ when[r] \in Nat
  BY ProcessorAssumption
<1> QED
  BY <1>1, <1>2 DEF Precedes

\* Of two plots one comes first: IDs differ.
LEMMA PrecedesTotal ==
    ASSUME NEW p \in Plot, NEW q \in Plot, p # q,
           when[p] \in Clock, when[q] \in Clock
    PROVE  Precedes(p, q) \/ Precedes(q, p)
<1>1. /\ ThreadWork[p] \in Nat /\ ThreadWork[q] \in Nat
      /\ IDNumber[p] \in Nat /\ IDNumber[q] \in Nat /\ IDNumber[p] # IDNumber[q]
  BY TreeAssumption DEF Injection, IsInjective
<1>2. when[p] \in Nat /\ when[q] \in Nat
  BY ProcessorAssumption
<1> QED
  BY <1>1, <1>2 DEF Precedes

LEMMA BetterPrecedes == ASSUME NEW p PROVE IsBetter(p) <=> Precedes(p, tip)
BY DEF IsBetter, Compare, Precedes

\* Storing a plot that is not known changes no order among those that are.
LEMMA BestKept ==
    ASSUME NEW p \in Known, Best(p), Known' = Known, \A q \in Known : when'[q] = when[q]
    PROVE  Best(p)'
BY DEF Best, Precedes

LEMMA KnownAreStamped ==
    ASSUME Careful, Stamped, NEW p \in Known
    PROVE  p \in Plot /\ when[p] \in Clock
BY DEF Known, Stamped

LEMMA TypesFrame ==
    ASSUME Labelled, UNCHANGED <<branchType, heightIndex, misfiled>>
    PROVE  Labelled'
BY DEF Labelled, BranchTypesMatchThread, OnThread

\* The plots of the height index are the tip and its ancestors.
LEMMA OnThreadIsBelowTip ==
    ASSUME Located, NEW p \in Plot, OnThread(p)
    PROVE  tip # None /\ p \in Ancestry[tip]
<1> DEFINE t == CurrentThread
           n == Height[p] + 1
<1>1. /\ MAX_NUMBER \in Nat /\ tipHeight \in -1..MAX_NUMBER
      /\ Height[p] \in 0..MAX_NUMBER /\ p # None
  BY ParametersAssumption, TreeAssumption DEF Located, ThreadTypeOK
<1>2. Height[p] <= tipHeight
  BY <1>1 DEF OnThread, Located, ThreadIsLinked
<1>3. /\ Len(t) = tipHeight + 1
      /\ \A i \in 1 .. tipHeight + 1 : t[i] = heightIndex[i-1]
  BY ThreadIsSequence
<1>4. n \in 1..Len(t) /\ t[n] = p
  BY <1>1, <1>2, <1>3 DEF OnThread
<1>5. tip # None
  BY <1>1, <1>2 DEF Located, ThreadIsLinked
<1>6. Chained(t) /\ Len(t) >= 1 /\ t[Len(t)] = tip
  BY <1>5, ThreadIsChainedSequence
<1> HIDE DEF t, n
<1>7. Ancestry[t[Len(t)]] = {t[i] : i \in 1..Len(t)}
  <2>1. Len(t) \in 1..Len(t)
    BY <1>4
  <2> QED
    BY <1>6, <2>1, ChainedAncestry
<1> QED
  BY <1>4, <1>5, <1>6, <1>7

LEMMA SettledInit == ASSUME Init PROVE Settled
<1>1. \A p \in Plot : branchType[p] = UNKNOWN /\ p # None
  BY TreeAssumption DEF Init, LedgerInit
<1>2. Known = {}
  BY <1>1, BranchTypesDiffer DEF Known, IsKnown, GetBranchType
<1>3. \A p \in Plot : ~OnThread(p)
  BY <1>1, TreeAssumption DEF Init, LedgerInit, OnThread
<1>4. Labelled
  BY <1>1, <1>3, BranchTypesDiffer DEF Labelled, BranchTypesMatchThread, Init
<1> QED
  BY <1>2, <1>4 DEF Init, LedgerInit, Settled, Stamped, Trying, Preferred, Unburied

\* The work ends with the thread as it is.
LEMMA SettledRests ==
    ASSUME Careful, Settled, Rest,
           UNCHANGED <<tip, tipHeight, heightIndex, branchType, when, misfiled>>,
           ~disturbed' => ~disturbed /\ (tip # None => Best(tip)),
           CutShort
    PROVE  Settled'
<1>1. Known' = Known /\ Labelled'
  BY TypesFrame, KnownFrame DEF Careful, Settled
<1>2. Stamped' /\ Trying'
  BY <1>1 DEF Settled, Stamped, Trying, Rest
<1>3. tip # None => tip \in Known
  BY DEF Careful, LedgerIsKnown
<1>4. ASSUME ~disturbed', tip # None PROVE Best(tip)'
  BY <1>1, <1>3, <1>4, BestKept DEF Best, Precedes
<1>5. Preferred'
  BY <1>4 DEF Preferred, Rest
<1>6. Unburied'
  <2> SUFFICES ASSUME ~stranded', tip # None PROVE Topmost(tip)'
    BY DEF Unburied, Rest
  <2>1. ~stranded /\ (phase = "idle" \/ tip = oldTip)
    BY DEF CutShort
  <2>2. Topmost(tip)
    BY <2>1 DEF Settled, Unburied
  <2> QED
    BY <1>1, <2>2 DEF Topmost
<1> QED
  BY <1>1, <1>2, <1>5, <1>6 DEF Settled

LEMMA SettledFrame ==
    ASSUME Careful, Settled,
           UNCHANGED <<tip, tipHeight, heightIndex, branchType, when, workVars, pastVars>>
    PROVE  Settled'
<1>1. Known' = Known /\ Labelled'
  BY TypesFrame, KnownFrame DEF Careful, Settled, pastVars
<1>2. Stamped' /\ Trying' /\ Preferred' /\ Unburied'
  BY <1>1 DEF Settled, Stamped, Trying, Preferred, Best, Precedes, Unburied, Topmost, workVars, pastVars
<1> QED
  BY <1>1, <1>2 DEF Settled

LEMMA SettledGenesis ==
    ASSUME Careful, Settled, NEW now \in Clock, ProcessGenesis(now)
    PROVE  Settled'
<1>1. tip = None /\ Genesis \in Plot /\ Genesis # None
  BY GenesisIsFirst, TreeAssumption
<1>2. Known' = Known /\ Known = {}
  BY <1>1, KnownFrame DEF Careful, LedgerIsKnown, ProcessGenesis, ledgerVars
<1>3. Labelled'
  BY TypesFrame DEF Settled, ProcessGenesis, ledgerVars, pastVars
<1>4. Stamped'
  BY <1>1, <1>2 DEF Settled, Stamped, ProcessGenesis, Store
<1>5. Trying' /\ Preferred' /\ Unburied'
  BY <1>1, <1>2 DEF Trying, Preferred, Unburied, ProcessGenesis, ledgerVars
<1> QED
  BY <1>3, <1>4, <1>5 DEF Settled

LEMMA SettledAccept ==
    ASSUME Careful, Settled, NEW p \in Plot, NEW now \in Clock, AcceptPlot(p, now)
    PROVE  Settled'
<1>1. /\ phase = "idle" /\ phase' = "accept"
      /\ newPlot' = p /\ oldTip' = tip /\ tip' = tip /\ reconnecting' = FALSE
      /\ when' = [when EXCEPT ![p] = now]
      /\ UNCHANGED <<disturbed, stranded>>
  BY DEF AcceptPlot, Store, ledgerVars, pastVars
<1>2. p # None /\ p \notin Known
  BY TreeAssumption DEF AcceptPlot, Known
<1>3. Known' = Known
  BY KnownFrame DEF Careful, AcceptPlot, ledgerVars
<1>4. Labelled'
  BY TypesFrame DEF Settled, AcceptPlot, ledgerVars, pastVars
<1>5. /\ when' \in [Plot -> Clock \cup {None}] /\ when'[p] = now
      /\ \A q \in Known : when'[q] = when[q]
  BY <1>1, <1>2 DEF Settled, Stamped, Known
<1>6. Stamped'
  BY <1>1, <1>3, <1>5 DEF Settled, Stamped
<1>7. Trying'
  BY <1>1, <1>2, <1>3 DEF Trying
<1>8. tip # None => tip \in Known
  BY DEF Careful, LedgerIsKnown
<1>9. ASSUME ~disturbed, tip # None PROVE Best(oldTip)'
  <2>1. Best(tip)'
    <3>1. Best(tip)
      BY <1>1, <1>9 DEF Settled, Preferred
    <3> QED
      BY <1>1, <1>3, <1>5, <1>8, <1>9, <3>1 DEF Best, Precedes
  <2> QED
    BY <1>1, <2>1 DEF Best, Precedes
<1>10. Preferred'
  BY <1>1, <1>9 DEF Preferred
<1>11. Unburied'
  BY <1>1, <1>3 DEF Settled, Unburied, Topmost
<1> QED
  BY <1>4, <1>6, <1>7, <1>10, <1>11 DEF Settled

LEMMA SettledChoose ==
    ASSUME Careful, Settled, ChooseNewThread
    PROVE  Settled'
<1>1. /\ phase = "accept" /\ phase' = "adjust" /\ IsBetter(newPlot)
      /\ UNCHANGED <<tip, when, newPlot, oldTip, reconnecting, disturbed, stranded>>
  BY DEF ChooseNewThread, ledgerVars, pastVars
<1>2. Known' = Known
  BY KnownFrame DEF Careful, ChooseNewThread, ledgerVars
<1>3. Labelled'
  BY TypesFrame DEF Settled, ChooseNewThread, ledgerVars, pastVars
<1>4. Stamped'
  BY <1>1, <1>2 DEF Settled, Stamped
<1>5. Trying'
  BY <1>1, <1>2, CarefulChoose DEF Settled, Trying
<1>6. ~reconnecting => Precedes(newPlot, oldTip)
  BY <1>1, BetterPrecedes DEF Settled, Trying
<1>7. Preferred' /\ Unburied'
  BY <1>1, <1>2, <1>6 DEF Settled, Preferred, Best, Precedes, Unburied, Topmost
<1> QED
  BY <1>3, <1>4, <1>5, <1>7 DEF Settled

LEMMA SettledReconnect ==
    ASSUME Careful, Settled, ReconnectTip
    PROVE  Settled'
<1>1. /\ phase = "adjust" /\ phase' = "accept" /\ reconnecting' = TRUE
      /\ newPlot' = oldTip /\ oldTip # None
      /\ UNCHANGED <<tip, when, oldTip, disturbed, stranded>>
  BY DEF ReconnectTip, MayReconnect, ledgerVars, pastVars
<1>2. Known' = Known
  BY KnownFrame DEF Careful, ReconnectTip, ledgerVars
<1>3. Labelled'
  BY TypesFrame DEF Settled, ReconnectTip, ledgerVars, pastVars
<1>4. oldTip \in Known
  BY <1>1 DEF Careful, WorkIsVetted
<1>5. Stamped'
  BY <1>1, <1>2, <1>4 DEF Settled, Stamped
<1>6. Trying' /\ Preferred' /\ Unburied'
  BY <1>1, <1>2 DEF Settled, Trying, Preferred, Best, Precedes, Unburied, Topmost
<1> QED
  BY <1>3, <1>5, <1>6 DEF Settled

LEMMA SettledDisconnect ==
    ASSUME Located, Careful, Rollback, Settled, Disconnect
    PROVE  Settled'
<1> DEFINE p == NextToDisconnect
<1>1. /\ phase = "adjust" /\ toDisconnect # {}
      /\ DisconnectPlot(p)
      /\ misfiled' = misfiled \ {p}
      /\ UNCHANGED <<when, phase, newPlot, oldTip, toConnect, reconnecting, disturbed, stranded>>
  BY DEF Disconnect
<1>2. p = tip /\ p \in Plot \ {Genesis}
  BY <1>1, NextIsTip
<1> HIDE DEF p
<1>3. /\ tip # None /\ tip \in Known
      /\ branchType' = [branchType EXCEPT ![p] = SIDE]
  BY <1>1, <1>2, TreeAssumption DEF Careful, LedgerIsKnown, DisconnectPlot
<1>4. Known' = Known
  <2>1. Vetted(p) /\ LedgerIsKnown
    BY <1>2, <1>3 DEF Careful, LedgerIsKnown
  <2>2. Known' = Known \cup {p}
    BY <1>2, <1>3, <2>1, KnownGrows
  <2> QED
    BY <1>2, <1>3, <2>2
<1>5. Stamped'
  BY <1>1, <1>4 DEF Settled, Stamped
<1>6. Trying' /\ Preferred' /\ Unburied'
  BY <1>1, <1>3, <1>4 DEF Settled, Trying, Preferred, Best, Precedes, Unburied, Topmost
<1>7. ASSUME NEW q \in Plot
      PROVE  /\ (branchType'[q] = MAIN) <=> OnThread(q)' /\ q \notin misfiled'
             /\ q \in misfiled' => OnThread(q)'
  <2>1. branchType[q] = MAIN <=> OnThread(q) /\ q \notin misfiled
    BY DEF Settled, Labelled, BranchTypesMatchThread
  <2>2. branchType'[q] = IF q = p THEN SIDE ELSE branchType[q]
    BY <1>3 DEF Careful, LedgerIsKnown
  <2>3. /\ MAX_NUMBER \in Nat
        /\ tipHeight \in 1..MAX_NUMBER
        /\ Height[p] = tipHeight
        /\ heightIndex[tipHeight] = p
    BY <1>1, <1>2, ThreadAfterDisconnect
  <2>4. /\ heightIndex \in [0..MAX_NUMBER -> Plot \cup {None}]
        /\ heightIndex' = [heightIndex EXCEPT ![Height[p]] = None]
        /\ Height[q] \in 0..MAX_NUMBER /\ q # None
    BY <1>1, TreeAssumption DEF DisconnectPlot, Located, ThreadTypeOK
  <2>5. heightIndex'[Height[q]] = IF Height[q] = tipHeight THEN None ELSE heightIndex[Height[q]]
    BY <2>3, <2>4
  <2>6. OnThread(q)' <=> OnThread(q) /\ q # p
    BY <2>3, <2>4, <2>5 DEF OnThread
  <2>7. (branchType'[q] = MAIN) <=> OnThread(q)' /\ q \notin misfiled'
    BY <1>1, <2>1, <2>2, <2>6, BranchTypesDiffer
  <2>8. q \in misfiled' => OnThread(q)'
    BY <1>1, <2>6 DEF Settled, Labelled
  <2> QED
    BY <2>7, <2>8
<1>8. Labelled'
  BY <1>1, <1>7 DEF Settled, Labelled, BranchTypesMatchThread
<1> QED
  BY <1>5, <1>6, <1>8 DEF Settled

\* The next plot to connect is known, unless it is the new plot itself, which
\* is the last.
LEMMA NextIsKnownOrLast ==
    ASSUME Careful, Rollback, Trying, phase = "adjust"
    PROVE  /\ NextToConnect \in toConnect
           /\ NextToConnect \in Plot
           /\ toConnect = {NextToConnect} => NextToConnect = newPlot
           /\ toConnect # {NextToConnect} => NextToConnect # newPlot /\ NextToConnect \in Known
<1> DEFINE p == NextToConnect
<1>1. toConnect \subseteq Plot /\ toConnect # {} /\ newPlot # None
  BY DEF Careful, WorkIsVetted, Rollback
<1>2. p \in toConnect /\ \A q \in toConnect : Height[p] <= Height[q]
  BY <1>1, NextIsOneOfThem
<1>3. newPlot \in toConnect /\ toConnect \subseteq Known \cup {newPlot}
  BY DEF Trying
<1> HIDE DEF p
<1>4. ASSUME p = newPlot PROVE toConnect = {p}
  <2>1. CASE tip = None
    BY <1>2, <2>1 DEF Careful, WorkIsVetted
  <2>2. CASE tip # None
    <3>1. toConnect \subseteq Ancestry[newPlot]
      BY <2>2 DEF Rollback, BranchOf
    <3>2. \A a \in Ancestry[newPlot] \ {newPlot} : Height[a] < Height[newPlot]
      BY <1>1, WalkFromNew
    <3>3. ASSUME NEW q \in toConnect, q # newPlot PROVE FALSE
      <4>1. Height[q] < Height[newPlot] /\ Height[newPlot] <= Height[q]
        BY <1>2, <1>4, <3>1, <3>2, <3>3
      <4>2. Height[q] \in Int /\ Height[newPlot] \in Int
        BY <1>1, <1>3, TreeAssumption, ParametersAssumption
      <4> QED
        BY <4>1, <4>2
    <3> QED
      BY <1>2, <1>4, <3>3
  <2> QED
    BY <2>1, <2>2
<1> QED
  BY <1>1, <1>2, <1>3, <1>4 DEF p

\* Connecting p makes it known, and p the plot of its height.
LEMMA TypesConnect ==
    ASSUME Located, Careful, Settled, NEW p \in Plot, Checked(p),
           tip = None => p = Genesis, ConnectPlot(p), misfiled' = misfiled
    PROVE  /\ Known' = Known \cup {p}
           /\ tip' = p
           /\ Labelled'
<1>1. tip' = p /\ branchType' = [branchType EXCEPT ![p] = MAIN]
  BY DEF ConnectPlot
<1>2. Known' = Known \cup {p}
  <2>1. Vetted(p)
    <3>1. CASE tip = None
      BY <3>1 DEF Vetted
    <3>2. CASE tip # None
      BY <3>2 DEF Careful, Vetted, LedgerIsKnown, ConnectPlot, CanConnect, LinksToTip
    <3> QED
      BY <3>1, <3>2
  <2> QED
    BY <1>1, <2>1, KnownGrows DEF Careful
<1>3. ASSUME NEW q \in Plot
      PROVE  /\ (branchType'[q] = MAIN) <=> OnThread(q)' /\ q \notin misfiled
             /\ q \in misfiled => OnThread(q)'
  <2>1. branchType[q] = MAIN <=> OnThread(q) /\ q \notin misfiled
    BY DEF Settled, Labelled, BranchTypesMatchThread
  <2>2. branchType'[q] = IF q = p THEN MAIN ELSE branchType[q]
    BY <1>1 DEF Careful, LedgerIsKnown
  <2>3. /\ MAX_NUMBER \in Nat
        /\ tipHeight \in -1..MAX_NUMBER
        /\ tipHeight + 1 \in 0..MAX_NUMBER
        /\ Height[p] = tipHeight + 1
    BY ThreadAfterConnect
  <2>4. heightIndex[tipHeight + 1] = None
    BY <2>3 DEF Located, ThreadIsLinked
  <2>5. /\ heightIndex \in [0..MAX_NUMBER -> Plot \cup {None}]
        /\ heightIndex' = [heightIndex EXCEPT ![Height[p]] = p]
        /\ Height[q] \in 0..MAX_NUMBER /\ q # None
    BY TreeAssumption DEF ConnectPlot, Located, ThreadTypeOK
  <2>6. heightIndex'[Height[q]] = IF Height[q] = tipHeight + 1 THEN p ELSE heightIndex[Height[q]]
    BY <2>3, <2>5
  <2>7. OnThread(q)' <=> OnThread(q) \/ q = p
    BY <2>3, <2>4, <2>5, <2>6 DEF OnThread
  <2>8. ~OnThread(p)
    BY <2>3, <2>4, TreeAssumption DEF OnThread
  <2>9. p \notin misfiled
    BY <2>8 DEF Settled, Labelled
  <2>10. (branchType'[q] = MAIN) <=> OnThread(q)' /\ q \notin misfiled
    BY <2>1, <2>2, <2>7, <2>9
  <2>11. q \in misfiled => OnThread(q)'
    BY <2>7 DEF Settled, Labelled
  <2> QED
    BY <2>10, <2>11
<1>4. Labelled'
  BY <1>3 DEF Settled, Labelled, BranchTypesMatchThread
<1> QED
  BY <1>1, <1>2, <1>4

\* The new plot, connected last, is the best there is.
LEMMA NewPlotIsBest ==
    ASSUME Careful, Settled, Rollback, phase = "adjust", ~disturbed
    PROVE  \A q \in Known \ {newPlot} : Precedes(newPlot, q)
<1> SUFFICES ASSUME NEW q \in Known, q # newPlot PROVE Precedes(newPlot, q)
  OBVIOUS
<1>1. oldTip # None
  <2>1. tip # None
    BY DEF Careful, LedgerIsKnown
  <2> QED
    BY <2>1 DEF Settled, Trying
<1>2. Best(oldTip) /\ oldTip \in Known
  BY <1>1 DEF Settled, Preferred, Careful, WorkIsVetted
<1>3. CASE reconnecting
  BY <1>2, <1>3 DEF Rollback, Best
<1>4. CASE ~reconnecting
  <2>1. Precedes(newPlot, oldTip)
    BY <1>1, <1>4 DEF Settled, Preferred
  <2>2. newPlot \in Plot /\ when[newPlot] \in Clock
    BY DEF Careful, WorkIsVetted, Rollback, Settled, Stamped
  <2>3. /\ q \in Plot /\ when[q] \in Clock
        /\ oldTip \in Plot /\ when[oldTip] \in Clock
    BY <1>2, KnownAreStamped DEF Settled
  <2>4. q = oldTip \/ Precedes(oldTip, q)
    BY <1>2 DEF Best
  <2> QED
    BY <2>1, <2>2, <2>3, <2>4, PrecedesTransitive
<1> QED
  BY <1>3, <1>4

\* Nor does anything known stand on it: a plot's predecessors are known first.
LEMMA NewPlotIsTopmost ==
    ASSUME Careful, Settled, Rollback, phase = "adjust", ~(stranded /\ reconnecting)
    PROVE  Topmost(newPlot)
<1>1. CASE reconnecting
  <2>1. newPlot = oldTip /\ oldTip # None
    BY <1>1 DEF Rollback
  <2> QED
    BY <1>1, <2>1 DEF Settled, Unburied
<1>2. CASE ~reconnecting
  <2>1. newPlot \notin Known
    BY <1>2 DEF Settled, Trying
  <2>2. ASSUME NEW q \in Known PROVE newPlot \notin Ancestry[q]
    <3>1. Known \subseteq Plot /\ \A k \in Known : Checked(k) /\ (k # Genesis => Previous[k] \in Known)
      BY DEF Careful, LedgerIsKnown, Vetted, Known
    <3>2. Ancestry[q] \subseteq Known
      BY <3>1, Walk
    <3> QED
      BY <2>1, <3>2
  <2> QED
    BY <2>2 DEF Topmost
<1> QED
  BY <1>1, <1>2

LEMMA SettledConnect ==
    ASSUME Located, Careful, Rollback, Settled, Connect
    PROVE  Settled'
<1> DEFINE p == NextToConnect
<1>1. /\ phase = "adjust" /\ ConnectPlot(p)
      /\ UNCHANGED <<when, disturbed, misfiled>>
      /\ IF toConnect = {p}
         THEN Rest /\ stranded' = (stranded /\ reconnecting)
         ELSE /\ toConnect' = toConnect \ {p}
              /\ UNCHANGED <<phase, newPlot, oldTip, toDisconnect, reconnecting, stranded>>
  BY DEF Connect
<1>2. /\ p \in toConnect /\ p \in Plot
      /\ toConnect = {p} => p = newPlot
      /\ toConnect # {p} => p # newPlot /\ p \in Known
  BY <1>1, NextIsKnownOrLast DEF Settled
<1>3. Checked(p) /\ (tip = None => p = Genesis)
  BY <1>1, <1>2 DEF Careful, WorkIsVetted
<1> HIDE DEF p
<1>4. Known' = Known \cup {p} /\ tip' = p /\ Labelled'
  BY <1>1, <1>2, <1>3, TypesConnect
<1>5. CASE toConnect = {p}
  <2>1. Rest /\ p = newPlot /\ newPlot # None
    BY <1>1, <1>2, <1>5 DEF Rollback
  <2>2. Stamped' /\ Trying'
    BY <1>1, <1>4, <2>1 DEF Settled, Stamped, Trying, Rest
  <2>3. ASSUME ~disturbed PROVE Best(tip)'
    <3>1. \A q \in Known \ {newPlot} : Precedes(newPlot, q)
      BY <1>1, <2>3, NewPlotIsBest
    <3> QED
      BY <1>1, <1>4, <2>1, <3>1 DEF Best, Precedes
  <2>4. Preferred'
    BY <1>1, <2>1, <2>3 DEF Preferred, Rest
  <2>5. Unburied'
    <3> SUFFICES ASSUME ~stranded' PROVE Topmost(tip)'
      BY <2>1 DEF Unburied, Rest
    <3>1. ~(stranded /\ reconnecting)
      BY <1>1, <1>5
    <3>2. Topmost(newPlot)
      BY <1>1, <3>1, NewPlotIsTopmost
    <3> QED
      BY <1>4, <2>1, <3>2 DEF Topmost
  <2> QED
    BY <1>4, <2>2, <2>4, <2>5 DEF Settled
<1>6. CASE toConnect # {p}
  <2>1. /\ p # newPlot /\ Known' = Known
        /\ toConnect' = toConnect \ {p}
        /\ UNCHANGED <<when, disturbed, stranded, phase, newPlot, oldTip, reconnecting>>
    BY <1>1, <1>2, <1>4, <1>6
  <2>2. tip # None
    BY <1>1, <1>2, <1>6 DEF Careful, WorkIsVetted
  <2>3. Stamped'
    BY <2>1 DEF Settled, Stamped
  <2>4. Trying'
    BY <1>1, <2>1, <2>2 DEF Settled, Trying
  <2>5. Preferred' /\ Unburied'
    BY <1>1, <2>1 DEF Settled, Preferred, Best, Precedes, Unburied, Topmost
  <2> QED
    BY <1>4, <2>3, <2>4, <2>5 DEF Settled
<1> QED
  BY <1>5, <1>6

LEMMA SettledFlag ==
    ASSUME Located, Careful, Rollback, Settled, FlagSideBranch
    PROVE  Settled'
<1>1. /\ phase = "accept" /\ newPlot # tip /\ ~IsBetter(newPlot)
      /\ Rest /\ CutShort /\ Misfile
      /\ branchType' = [branchType EXCEPT ![newPlot] = SIDE]
      /\ UNCHANGED <<tip, tipHeight, heightIndex, when, disturbed>>
  BY DEF FlagSideBranch, SetBranchType
<1>2. /\ newPlot \in Plot /\ newPlot # None /\ Vetted(newPlot) /\ tip # None /\ tip \in Known
      /\ when[newPlot] \in Clock
  BY <1>1 DEF Careful, WorkIsVetted, LedgerIsKnown, Settled, Stamped
<1>3. Known' = Known \cup {newPlot}
  BY <1>1, <1>2, KnownGrows DEF Careful
<1>4. Stamped' /\ Trying'
  BY <1>1, <1>2, <1>3 DEF Settled, Stamped, Trying, Rest
<1>5. ~Precedes(newPlot, tip)
  BY <1>1, BetterPrecedes
<1>6. ASSUME ~disturbed PROVE newPlot \notin Known /\ Best(tip)
  <2>1. CASE reconnecting
    <3>1. newPlot = oldTip /\ Best(oldTip)
      BY <1>1, <1>2, <1>6, <2>1 DEF Rollback, Settled, Preferred
    <3>2. Precedes(newPlot, tip)
      BY <1>1, <1>2, <3>1 DEF Best
    <3> QED
      BY <1>5, <3>2
  <2>2. CASE ~reconnecting
    BY <1>1, <1>2, <1>6, <2>2 DEF Settled, Trying, Preferred
  <2> QED
    BY <2>1, <2>2
<1>7. Precedes(tip, newPlot)
  <2>1. tip \in Plot /\ when[tip] \in Clock
    BY <1>2, KnownAreStamped DEF Settled
  <2> QED
    BY <1>1, <1>2, <1>5, <2>1, PrecedesTotal
<1>8. ASSUME ~disturbed PROVE Best(tip)'
  <2>1. Best(tip)
    BY <1>6, <1>8
  <2> QED
    BY <1>1, <1>3, <1>7, <2>1 DEF Best, Precedes
<1>9. Preferred'
  BY <1>1, <1>8 DEF Preferred, Rest
<1>10. OnThread(newPlot) => reconnecting /\ stranded
  <2> SUFFICES ASSUME OnThread(newPlot) PROVE reconnecting /\ stranded
    OBVIOUS
  <2>1. newPlot \in Known
    <3>1. newPlot \in Ancestry[tip]
      BY <1>2, OnThreadIsBelowTip
    <3>2. Known \subseteq Plot /\ \A k \in Known : Checked(k) /\ (k # Genesis => Previous[k] \in Known)
      BY DEF Careful, LedgerIsKnown, Vetted, Known
    <3>3. Ancestry[tip] \subseteq Known
      BY <1>2, <3>2, Walk
    <3> QED
      BY <3>1, <3>3
  <2>2. reconnecting /\ newPlot = oldTip
    BY <1>1, <1>2, <2>1 DEF Settled, Trying, Rollback
  <2>3. newPlot \in Ancestry[tip]
    BY <1>2, OnThreadIsBelowTip
  <2>4. ~Topmost(oldTip)
    BY <1>1, <1>2, <2>2, <2>3 DEF Topmost
  <2> QED
    BY <1>1, <1>2, <2>2, <2>4 DEF Settled, Unburied
<1>11. ASSUME NEW q \in Plot
       PROVE  /\ (branchType'[q] = MAIN) <=> OnThread(q)' /\ q \notin misfiled'
              /\ q \in misfiled' => OnThread(q)'
  <2>1. branchType[q] = MAIN <=> OnThread(q) /\ q \notin misfiled
    BY DEF Settled, Labelled, BranchTypesMatchThread
  <2>2. branchType'[q] = IF q = newPlot THEN SIDE ELSE branchType[q]
    BY <1>1 DEF Careful, LedgerIsKnown
  <2>3. OnThread(q)' <=> OnThread(q)
    BY <1>1 DEF OnThread
  <2>4. misfiled' = IF OnThread(newPlot) THEN misfiled \cup {newPlot} ELSE misfiled
    BY <1>1, <1>10 DEF Misfile
  <2>5. (branchType'[q] = MAIN) <=> OnThread(q)' /\ q \notin misfiled'
    BY <2>1, <2>2, <2>3, <2>4, BranchTypesDiffer
  <2>6. q \in misfiled' => OnThread(q)'
    BY <2>3, <2>4 DEF Settled, Labelled
  <2> QED
    BY <2>5, <2>6
<1>12. Labelled'
  <2>1. misfiled' \subseteq Plot
    BY <1>1, <1>2 DEF Misfile, Settled, Labelled
  <2> QED
    BY <1>11, <2>1 DEF Labelled, BranchTypesMatchThread
<1>13. Unburied'
  <2> SUFFICES ASSUME ~stranded' PROVE Topmost(tip)'
    BY <1>1 DEF Unburied, Rest
  <2>1. ~stranded /\ tip = oldTip
    BY <1>1 DEF CutShort
  <2>2. Topmost(tip)
    BY <1>1, <1>2, <2>1 DEF Settled, Unburied
  <2>3. tip \notin Ancestry[newPlot]
    <3>1. \A a \in Ancestry[newPlot] \ {newPlot} : ThreadWork[a] < ThreadWork[newPlot]
      BY <1>2, WalkFromNew
    <3>2. ThreadWork[tip] \in Nat /\ ThreadWork[newPlot] \in Nat
      BY <1>2, TreeAssumption DEF Known
    <3>3. ~(ThreadWork[newPlot] > ThreadWork[tip])
      BY <1>5 DEF Precedes
    <3> QED
      BY <1>1, <3>1, <3>2, <3>3
  <2> QED
    BY <1>1, <1>3, <2>2, <2>3 DEF Topmost
<1> QED
  BY <1>4, <1>9, <1>12, <1>13 DEF Settled

\* Work that ends with the old tip in place ends with the best thread.
LEMMA SettledKeep ==
    ASSUME Careful, Rollback, Settled, KeepTip
    PROVE  Settled'
<1>1. /\ phase = "accept" /\ newPlot = tip /\ Rest
      /\ UNCHANGED <<tip, tipHeight, heightIndex, branchType, when, disturbed, stranded, misfiled>>
  BY DEF KeepTip, ledgerVars, pastVars
<1>2. tip # None => tip \in Known
  BY DEF Careful, LedgerIsKnown
<1>3. tip # None /\ reconnecting /\ newPlot = oldTip
  BY <1>1, <1>2 DEF Careful, WorkIsVetted, Settled, Trying, Rollback
<1>4. ~disturbed => Best(tip)
  BY <1>1, <1>3 DEF Settled, Preferred
<1>5. Stamped' /\ Trying' /\ Preferred' /\ Unburied' /\ Labelled'
  <2>1. Known' = Known /\ Labelled'
    BY <1>1, TypesFrame, KnownFrame DEF Careful, Settled
  <2>2. Stamped' /\ Trying' /\ Preferred'
    BY <1>1, <1>4, <2>1 DEF Settled, Stamped, Trying, Preferred, Rest, Best, Precedes
  <2>3. Unburied'
    BY <1>1, <1>3, <2>1 DEF Settled, Unburied, Topmost, Rest
  <2> QED
    BY <2>1, <2>2, <2>3
<1> QED
  BY <1>5 DEF Settled

LEMMA SettledNext ==
    LedgerIsSound /\ Careful /\ Rollback /\ Settled /\ [Next]_vars => Settled'
<1> SUFFICES ASSUME LedgerIsSound, Careful, Rollback, Settled, [Next]_vars
             PROVE  Settled'
  OBVIOUS
<1>0. Located
  BY DEF LedgerIsSound, Indexed
<1>1. ASSUME NEW now \in Clock, ProcessGenesis(now) PROVE Settled'
  BY <1>1, SettledGenesis
<1>2. ASSUME NEW p \in Plot, NEW now \in Clock, AcceptPlot(p, now) PROVE Settled'
  BY <1>2, SettledAccept
<1>3. CASE KeepTip
  BY <1>3, SettledKeep
<1>4. CASE FlagSideBranch
  BY <1>0, <1>4, SettledFlag
<1>5. CASE ChooseNewThread
  BY <1>5, SettledChoose
<1>6. CASE Disconnect
  BY <1>0, <1>6, SettledDisconnect
<1>7. CASE Connect
  BY <1>0, <1>7, SettledConnect
<1>8. CASE ReconnectTip
  BY <1>8, SettledReconnect
<1>9. CASE GiveUp
  <2>1. /\ phase = "adjust" /\ Rest
        /\ reconnecting \/ oldTip = None
        /\ disturbed' = (disturbed \/ reconnecting) /\ CutShort
        /\ UNCHANGED <<tip, tipHeight, heightIndex, branchType, when, misfiled>>
    BY <1>9 DEF GiveUp, MayReconnect, ledgerVars
  <2>2. ~disturbed' => ~disturbed /\ tip = None
    BY <2>1 DEF Settled, Trying
  <2> QED
    BY <2>1, <2>2, SettledRests
<1>10. ASSUME NEW p \in Plot, Index(p) PROVE Settled'
  BY <1>10, SettledFrame DEF Index, IndexLinks
<1>11. CASE Crash
  <2>1. /\ Rest
        /\ disturbed' = (disturbed \/ (phase # "idle" /\ tip # oldTip)) /\ CutShort
        /\ UNCHANGED <<tip, tipHeight, heightIndex, branchType, when, misfiled>>
    BY <1>11 DEF Crash, LoseGraph
  <2>2. ~disturbed' => ~disturbed /\ (tip # None => Best(tip))
    BY <2>1 DEF Settled, Preferred
  <2> QED
    BY <2>1, <2>2, SettledRests
<1>12. CASE UNCHANGED vars
  BY <1>12, SettledFrame DEF vars, ledgerVars
<1> QED
  BY <1>1, <1>2, <1>3, <1>4, <1>5, <1>6, <1>7, <1>8, <1>9, <1>10, <1>11, <1>12
  DEF Next, Step

LEMMA SettledAlways == Spec => [](Careful /\ Settled)
BY SoundAlways, SettledInit, SettledNext, PTL DEF Spec

LEMMA SettledIsBest == Careful /\ Settled => BestThread
<1> SUFFICES ASSUME Careful, Settled, phase = "idle", ~disturbed,
                    NEW p \in Plot, p # tip, IsKnown(p)
             PROVE  Precedes(tip, p)
  BY DEF BestThread
<1>1. p \in Known
  BY DEF Known
<1>2. tip # None
  BY <1>1 DEF Careful, LedgerIsKnown
<1> QED
  BY <1>1, <1>2 DEF Settled, Preferred, Best

(* Whatever plots arrive, in whatever order, fail and are rolled back: the *)
(* processor rests on the best thread that it knows of.                    *)
THEOREM BestThreadStays == Spec => []BestThread
BY SettledIsBest, SettledAlways, PTL

(* The branch types, written plot by plot and again by failed adjustments, *)
(* always say which plots are on the thread, but for the stranded tips     *)
(* that a later roll-back misfiled.                                        *)
THEOREM BranchTypesStay == Spec => []BranchTypesMatchThread
BY SettledAlways, PTL DEF Settled, Labelled

----------------------------------------------------------------------------
(* Back at the old tip: for the modules that the processor is a part of *)

\* The height index loses its last plot.
Shrinks(p) ==
    /\ tipHeight \in Nat \ {0}
    /\ tipHeight' = tipHeight - 1
    /\ heightIndex[tipHeight] = p
    /\ \A h \in 0..tipHeight - 1 : heightIndex'[h] = heightIndex[h]

\* The height index gets one more plot.
Grows(p) ==
    /\ tipHeight \in Int /\ tipHeight >= -1
    /\ tipHeight' = tipHeight + 1
    /\ heightIndex'[tipHeight + 1] = p
    /\ \A h \in 0..tipHeight : heightIndex'[h] = heightIndex[h]

LEMMA DisconnectShrinks ==
    ASSUME Located, Careful, Rollback, Disconnect
    PROVE  /\ NextToDisconnect = tip
           /\ tip \in Known /\ tip \in Plot /\ tip # Genesis
           /\ Shrinks(tip)
           /\ tip' = Previous[tip]
           /\ UNCHANGED <<graph, phase, oldTip, disturbed>>
           /\ phase = "adjust"
<1> DEFINE p == NextToDisconnect
<1>1. phase = "adjust" /\ toDisconnect # {} /\ DisconnectPlot(p)
      /\ UNCHANGED <<phase, oldTip, disturbed>>
  BY DEF Disconnect
<1>2. p = tip /\ p \in Plot \ {Genesis}
  BY <1>1, NextIsTip
<1> HIDE DEF p
<1>3. /\ tipHeight \in 1..MAX_NUMBER
      /\ tipHeight' = tipHeight - 1
      /\ heightIndex[tipHeight] = p
      /\ \A h \in 0..tipHeight - 1 : heightIndex'[h] = heightIndex[h]
  BY <1>1, <1>2, ThreadAfterDisconnect
<1>4. tip \in Known
  BY <1>2, TreeAssumption DEF Careful, LedgerIsKnown
<1>5. tip' = Previous[tip] /\ graph' = graph
  BY <1>1, <1>2 DEF DisconnectPlot
<1> QED
  BY <1>1, <1>2, <1>3, <1>4, <1>5 DEF Shrinks, p

LEMMA ConnectGrows ==
    ASSUME Located, Careful, Connect
    PROVE  /\ NextToConnect \in Plot
           /\ NextToConnect \in Known'
           /\ tip # None => Previous[NextToConnect] = tip /\ NextToConnect # Genesis
           /\ CanConnect(NextToConnect)
           /\ Grows(NextToConnect)
           /\ tip' = NextToConnect
           /\ UNCHANGED <<graph, disturbed>>
           /\ phase = "adjust"
<1> DEFINE p == NextToConnect
<1>1. phase = "adjust" /\ ConnectPlot(p) /\ disturbed' = disturbed
  BY DEF Connect
<1>2. p \in toConnect /\ p \in Plot /\ Checked(p) /\ (tip = None => p = Genesis)
  BY <1>1, NextIsOneOfThem DEF Careful, WorkIsVetted
<1> HIDE DEF p
<1>3. /\ tipHeight \in -1..MAX_NUMBER
      /\ tipHeight' = tipHeight + 1
      /\ heightIndex'[tipHeight + 1] = p
      /\ \A h \in 0..tipHeight : heightIndex'[h] = heightIndex[h]
  BY <1>1, <1>2, ThreadAfterConnect
<1>4. CanConnect(p) /\ LinksToTip(p) /\ tip' = p /\ graph' = graph
  BY <1>1 DEF ConnectPlot, CanConnect
<1>5. tip # None => p # Genesis /\ Previous[p] = tip
  BY <1>2, <1>4, ConnectGoesUp
<1>6. LedgerIsKnown'
  BY <1>1, <1>2, KnownConnect DEF Careful
<1>7. p \in Known'
  BY <1>2, <1>4, <1>6, TreeAssumption DEF LedgerIsKnown
<1> QED
  BY <1>1, <1>2, <1>3, <1>4, <1>5, <1>7 DEF Grows, p

\* What the processor keeps to.
Node == LedgerIsSound /\ Careful /\ Rollback /\ Settled

LEMMA NodeIsLocated == Node => Located /\ Careful /\ Rollback /\ Settled
BY DEF Node, LedgerIsSound, Indexed

LEMMA NodeInit == Init => Node
<1> SUFFICES ASSUME Init PROVE Node
  OBVIOUS
<1>1. LedgerInit /\ LedgerIsSound /\ phase = "idle"
  BY IndexedInit, FundedInit, ExactInit DEF Init, LedgerIsSound
<1>2. Rollback
  <2>1. Chained(CurrentThread) /\ Len(CurrentThread) = 0
    BY <1>1, LocatedInit, ThreadIsChainedSequence, ThreadIsSequence DEF LedgerInit
  <2>2. Fitting(CurrentThread)
    BY <2>1 DEF Fitting
  <2> QED
    BY <1>1, <2>2 DEF Rollback
<1> QED
  BY <1>1, <1>2, CarefulInit, SettledInit DEF Node

LEMMA NodeNext == Node /\ [Next]_vars => Node'
BY CarefulNext, IndexedNext, FundedNext, ExactNext, RollbackNext, SettledNext
   DEF Node, LedgerIsSound

\* The old tip is not connected again on the way to a new plot.
Aside == phase = "adjust" => oldTip \notin toConnect \ {newPlot}

LEMMA AsideNext ==
    ASSUME Node, Aside, [Next]_vars
    PROVE  Aside'
<1>0. Careful /\ Rollback /\ Settled
  BY NodeIsLocated
<1>1. ASSUME NEW now \in Clock, ProcessGenesis(now) PROVE Aside'
  BY <1>1 DEF ProcessGenesis, Aside
<1>2. ASSUME NEW p \in Plot, NEW now \in Clock, AcceptPlot(p, now) PROVE Aside'
  BY <1>2 DEF AcceptPlot, Aside
<1>3. CASE KeepTip \/ FlagSideBranch \/ ReconnectTip \/ GiveUp \/ Crash
  BY <1>3 DEF KeepTip, FlagSideBranch, ReconnectTip, GiveUp, Crash, Rest, Aside
<1>4. CASE ChooseNewThread
  <2>1. /\ phase = "accept" /\ toConnect' = Ancestry[newPlot] \ Ancestry[tip]
        /\ UNCHANGED <<newPlot, oldTip>>
    BY <1>4 DEF ChooseNewThread, BranchOf
  <2>2. CASE reconnecting
    <3>1. newPlot = oldTip
      BY <1>0, <2>1, <2>2 DEF Rollback
    <3> QED
      BY <2>1, <3>1 DEF Aside
  <2>3. CASE ~reconnecting
    <3>1. tip = oldTip /\ tip \in Known
      BY <1>0, <2>1, <2>3 DEF Settled, Trying, Careful, WorkIsVetted, LedgerIsKnown
    <3>2. Known \subseteq Plot /\ \A q \in Known : Checked(q) /\ (q # Genesis => Previous[q] \in Known)
      BY <1>0 DEF Careful, LedgerIsKnown, Vetted, Known
    <3>3. tip \in Ancestry[tip]
      BY <3>1, <3>2, Walk
    <3> QED
      BY <2>1, <3>1, <3>3 DEF Aside
  <2> QED
    BY <2>2, <2>3
<1>5. CASE Disconnect
  BY <1>5 DEF Disconnect, Aside
<1>6. CASE Connect
  BY <1>6 DEF Connect, Rest, Aside
<1>7. ASSUME NEW p \in Plot, Index(p) PROVE Aside'
  BY <1>7 DEF Index, workVars, Aside
<1>8. CASE UNCHANGED vars
  BY <1>8 DEF vars, workVars, Aside
<1> QED
  BY <1>1, <1>2, <1>3, <1>4, <1>5, <1>6, <1>7, <1>8 DEF Next, Step

\* A step that changes no thread only brings the old tip back if it was there.
LEMMA OldTipStays ==
    ASSUME Node, [Next]_vars, UNCHANGED <<tip, tipHeight>>, tip # None, ~disturbed',
           phase' = "idle" \/ tip' = oldTip'
    PROVE  ~disturbed /\ (phase = "idle" \/ tip = oldTip)
<1>0. Careful /\ Rollback /\ Settled /\ tip' = tip /\ [Next]_vars
  BY NodeIsLocated
<1>1. ASSUME NEW now \in Clock, ProcessGenesis(now) PROVE ~disturbed /\ phase = "idle"
  BY <1>1 DEF ProcessGenesis
<1>2. ASSUME NEW p \in Plot, NEW now \in Clock, AcceptPlot(p, now)
      PROVE  ~disturbed /\ phase = "idle"
  BY <1>2 DEF AcceptPlot, pastVars
<1>3. CASE KeepTip
  <2>1. phase = "accept" /\ newPlot = tip /\ disturbed' = disturbed /\ tip \in Known
    BY <1>0, <1>3 DEF KeepTip, Careful, LedgerIsKnown, pastVars
  <2>2. newPlot = oldTip
    BY <1>0, <2>1 DEF Rollback, Settled, Trying
  <2> QED
    BY <2>1, <2>2
<1>4. CASE FlagSideBranch
  <2>1. /\ phase = "accept" /\ newPlot # tip /\ ~IsBetter(newPlot) /\ disturbed' = disturbed
    BY <1>4 DEF FlagSideBranch
  <2>2. CASE reconnecting
    <3>1. newPlot = oldTip /\ oldTip # None
      BY <1>0, <2>1, <2>2 DEF Rollback, Careful, WorkIsVetted
    <3>2. Best(oldTip)
      BY <1>0, <2>1, <3>1 DEF Settled, Preferred
    <3>3. Precedes(newPlot, tip)
      BY <1>0, <2>1, <3>1, <3>2 DEF Best, Careful, LedgerIsKnown
    <3> QED
      BY <2>1, <3>3, BetterPrecedes
  <2>3. CASE ~reconnecting
    BY <1>0, <2>1, <2>3 DEF Settled, Trying
  <2> QED
    BY <2>1, <2>2, <2>3
<1>5. CASE ChooseNewThread
  BY <1>0, <1>5 DEF ChooseNewThread, pastVars
<1>6. CASE Disconnect
  <2>1. tip' # tip
    <3>1. tip \in Known /\ tip \in Plot /\ tip # Genesis /\ tip' = Previous[tip]
      BY <1>6, NodeIsLocated, DisconnectShrinks
    <3>2. Height[tip] = Height[Previous[tip]] + 1 /\ Height[Previous[tip]] \in Int
      BY <1>0, <3>1, TreeAssumption, ParametersAssumption
      DEF Careful, LedgerIsKnown, Vetted, Checked, CheckPlotInContext
    <3> QED
      BY <3>1, <3>2
  <2> QED
    BY <1>0, <2>1
<1>7. CASE Connect
  <2>1. Grows(NextToConnect)
    BY <1>7, NodeIsLocated, ConnectGrows
  <2> QED
    BY <2>1 DEF Grows
<1>8. CASE ReconnectTip
  BY <1>0, <1>8 DEF ReconnectTip, pastVars
<1>9. CASE GiveUp
  <2>1. phase = "adjust" /\ disturbed' = (disturbed \/ reconnecting) /\ (reconnecting \/ oldTip = None)
    BY <1>9 DEF GiveUp, MayReconnect
  <2> QED
    BY <1>0, <2>1 DEF Settled, Trying
<1>10. ASSUME NEW p \in Plot, Index(p) PROVE ~disturbed /\ (phase = "idle" \/ tip = oldTip)
  BY <1>0, <1>10 DEF Index, workVars, pastVars
<1>11. CASE Crash
  BY <1>0, <1>11 DEF Crash
<1>12. CASE UNCHANGED vars
  BY <1>0, <1>12 DEF vars, workVars, pastVars
<1> QED
  BY <1>0, <1>1, <1>2, <1>3, <1>4, <1>5, <1>6, <1>7, <1>8, <1>9, <1>10, <1>11, <1>12
  DEF Next, Step

\* Taking a plot off never arrives at the old tip: the thread is no better then.
LEMMA NotYetThere ==
    ASSUME Node, Disconnect, ~disturbed
    PROVE  tip' # oldTip
<1>0. Careful /\ Settled
  BY NodeIsLocated
<1>1. /\ tip \in Known /\ tip \in Plot /\ tip # Genesis /\ tip' = Previous[tip]
      /\ phase = "adjust"
  BY NodeIsLocated, DisconnectShrinks
<1>2. Previous[tip] \in Known /\ ThreadWork[tip] = ThreadWork[Previous[tip]] + Work[tip]
  BY <1>0, <1>1 DEF Careful, LedgerIsKnown, Vetted, Checked, CheckPlotInContext
<1>3. /\ ThreadWork[tip] \in Nat /\ ThreadWork[Previous[tip]] \in Nat
      /\ Work[tip] \in Nat \ {0}
  BY <1>1, <1>2, TreeAssumption DEF Known
<1>4. Previous[tip] # None
  BY <1>1, TreeAssumption
<1>5. ASSUME oldTip = Previous[tip] PROVE FALSE
  <2>1. Best(oldTip) /\ tip # oldTip
    BY <1>0, <1>1, <1>2, <1>3, <1>4, <1>5 DEF Settled, Preferred
  <2>2. Precedes(oldTip, tip)
    BY <1>1, <2>1 DEF Best
  <2> QED
    BY <1>2, <1>3, <1>5, <2>2 DEF Precedes
<1> QED
  BY <1>1, <1>5

\* Putting plots on only arrives at the old tip, or rests, with the last one.
LEMMA LastArrives ==
    ASSUME Node, Aside, Connect, phase' = "idle" \/ tip' = oldTip'
    PROVE  toConnect = {NextToConnect} /\ phase' = "idle"
<1> DEFINE p == NextToConnect
<1>1. tip' = p /\ phase = "adjust"
  BY NodeIsLocated, ConnectGrows
<1>2. toConnect = {p}
  <2> SUFFICES ASSUME toConnect # {p} PROVE FALSE
    OBVIOUS
  <2>1. UNCHANGED <<phase, oldTip>>
    BY <1>1 DEF Connect
  <2>2. p \in toConnect /\ p # newPlot
    BY <1>1, NodeIsLocated, NextIsKnownOrLast DEF Settled
  <2>3. p # oldTip
    BY <1>1, <2>2 DEF Aside
  <2> QED
    BY <1>1, <2>1, <2>3
<1>3. phase' = "idle"
  BY <1>2 DEF Connect, Rest
<1> QED
  BY <1>2, <1>3

----------------------------------------------------------------------------
(* Types *)

\* The fields that no other invariant types.
FlagsTypeOK ==
    /\ phase \in {"idle", "accept", "adjust"}
    /\ reconnecting \in BOOLEAN
    /\ disturbed \in BOOLEAN
    /\ stranded \in BOOLEAN

LEMMA FlagsNext ==
    ASSUME FlagsTypeOK, [Next]_vars
    PROVE  FlagsTypeOK'
<1>1. ASSUME NEW now \in Clock, ProcessGenesis(now) PROVE FlagsTypeOK'
  BY <1>1 DEF FlagsTypeOK, ProcessGenesis, pastVars
<1>2. ASSUME NEW p \in Plot, NEW now \in Clock, AcceptPlot(p, now) PROVE FlagsTypeOK'
  BY <1>2 DEF FlagsTypeOK, AcceptPlot, pastVars
<1>3. CASE KeepTip
  BY <1>3 DEF FlagsTypeOK, KeepTip, Rest, pastVars
<1>4. CASE FlagSideBranch
  <2>1. stranded' \in BOOLEAN
    BY Zenon, <1>4 DEF FlagsTypeOK, FlagSideBranch, CutShort
  <2> QED
    BY <1>4, <2>1 DEF FlagsTypeOK, FlagSideBranch, Rest
<1>5. CASE ChooseNewThread
  BY <1>5 DEF FlagsTypeOK, ChooseNewThread, pastVars
<1>6. CASE Disconnect
  BY <1>6 DEF FlagsTypeOK, Disconnect
<1>7. CASE Connect
  <2>1. stranded' \in BOOLEAN
    BY Zenon, <1>7 DEF FlagsTypeOK, Connect
  <2> QED
    BY <1>7, <2>1 DEF FlagsTypeOK, Connect, Rest
<1>8. CASE ReconnectTip
  BY <1>8 DEF FlagsTypeOK, ReconnectTip, pastVars
<1>9. CASE GiveUp
  <2>1. disturbed' \in BOOLEAN /\ stranded' \in BOOLEAN
    BY Zenon, <1>9 DEF FlagsTypeOK, GiveUp, CutShort
  <2> QED
    BY <1>9, <2>1 DEF FlagsTypeOK, GiveUp, Rest
<1>10. ASSUME NEW p \in Plot, Index(p) PROVE FlagsTypeOK'
  BY <1>10 DEF FlagsTypeOK, Index, workVars, pastVars
<1>11. CASE Crash
  <2>1. disturbed' \in BOOLEAN /\ stranded' \in BOOLEAN
    BY Zenon, <1>11 DEF FlagsTypeOK, Crash, CutShort
  <2> QED
    BY <1>11, <2>1 DEF FlagsTypeOK, Crash, Rest
<1>12. CASE UNCHANGED vars
  BY <1>12 DEF FlagsTypeOK, vars, workVars, pastVars
<1> QED
  BY <1>1, <1>2, <1>3, <1>4, <1>5, <1>6, <1>7, <1>8, <1>9, <1>10, <1>11, <1>12
  DEF Next, Step

(* Every field of the processor and of the ledger keeps its type: each     *)
(* plot it holds, has held or has yet to put on is a plot of the tree, and *)
(* the ledger's types are those of the ledger it implements.               *)
THEOREM ProcessorTypeCorrect == Spec => []TypeOK
<1>1. Init => FlagsTypeOK
  BY DEF Init, FlagsTypeOK
<1>2. Spec => []LedgerTypeOK
  BY ProcessorImplementsLedger, LedgerTypeCorrect, PTL DEF ImplementsLedger
<1>3. Spec => []FlagsTypeOK
  <2>1. FlagsTypeOK /\ [Next]_vars => FlagsTypeOK'
    BY FlagsNext
  <2> QED
    BY <1>1, <2>1, PTL DEF Spec
<1>4. LedgerTypeOK /\ FlagsTypeOK /\ Careful /\ Settled => TypeOK
  <2> SUFFICES ASSUME LedgerTypeOK, FlagsTypeOK, Careful, Settled PROVE TypeOK
    OBVIOUS
  <2>1. when \in [Plot -> Clock \cup {None}]
    BY DEF Settled, Stamped
  <2>2. oldTip \in Plot \cup {None} /\ newPlot \in Plot \cup {None}
    BY DEF Careful, WorkIsVetted, Known
  <2>3. toDisconnect \subseteq Plot /\ toConnect \subseteq Plot
    BY DEF Careful, WorkIsVetted
  <2>4. misfiled \subseteq Plot
    BY DEF Settled, Labelled
  <2> QED
    BY <2>1, <2>2, <2>3, <2>4 DEF TypeOK, FlagsTypeOK
<1> QED
  BY <1>2, <1>3, <1>4, SettledAlways, PTL
=============================================================================
