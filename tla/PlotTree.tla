------------------------------ MODULE PlotTree ------------------------------
(***************************************************************************)
(* Plots, representations and the checks a plot passes on its own.         *)
(*                                                                         *)
(* A plot header names its predecessor by hash, so the plots that can ever *)
(* be presented to a node form a fixed tree: the constants below.  A       *)
(* representation's identity is the hash of its contents, so here it is    *)
(* the record of those contents.  Everything in this module is a function  *)
(* of a plot and of its predecessors; nothing depends on a node's state.   *)
(* Proof of work, hash-list roots, signatures and memo texts are left out: *)
(* the plots of the model are those that pass these checks.                *)
(***************************************************************************)
EXTENDS Integers, Sequences, FiniteSets, Functions

CONSTANTS
    Plot,            \* every plot that may be presented to the node
    Genesis,         \* the genesis plot
    None,            \* no plot, no index entry: a missing key of a database
    Key,             \* public keys
    NoKey,           \* the absent sender of a plotroot
    Representation,  \* every representation of every plot
    Previous,        \* Header.Previous
    Height,          \* Header.Height
    Work,            \* computePlotWork(Header.Target)
    ThreadWork,      \* Header.ThreadWork
    Time,            \* Header.Time
    IDNumber,        \* the plot's ID as a number (GetBigInt), the last tie-break
    Representations, \* the plot's list of representations
    Ancestry         \* the plot and all its predecessors

CONSTANTS
    PLOTROOT_MATURITY,             \* plots until a plotroot can be spent
    PLOTS_UNTIL_NEW_SERIES,        \* length of a series
    MAX_NUMBER,                    \* largest height a header may carry
    MAX_FUTURE_SECONDS,            \* tolerated clock difference
    NUM_PLOTS_FOR_MEDIAN_TMESTAMP, \* window of the median timestamp
    MaxRepresentationsPerPlot      \* computeMaxRepresentationsPerPlot(height)

ASSUME ParametersAssumption ==
    /\ PLOTROOT_MATURITY \in Nat \ {0}
    /\ PLOTS_UNTIL_NEW_SERIES \in Nat \ {0}
    /\ MAX_NUMBER \in Nat
    /\ MAX_FUTURE_SECONDS \in Nat
    /\ NUM_PLOTS_FOR_MEDIAN_TMESTAMP \in Nat \ {0}
    /\ MaxRepresentationsPerPlot \in [0..MAX_NUMBER -> Nat]

ASSUME RepresentationAssumption ==
    /\ NoKey \notin Key
    /\ \A r \in Representation :
         /\ r.By \in Key \cup {NoKey}
         /\ r.For \in Key
         /\ r.Matures \in Nat
         /\ r.Expires \in Nat
         /\ r.Series \in Nat

ASSUME TreeAssumption ==
    /\ None \notin Plot
    /\ Genesis \in Plot
    /\ Previous \in [Plot -> Plot \cup {None}]
    /\ \A p \in Plot : Previous[p] = None <=> p = Genesis
    /\ Height \in [Plot -> 0..MAX_NUMBER]
    /\ Work \in [Plot -> Nat \ {0}]
    /\ ThreadWork \in [Plot -> Nat]
    /\ Time \in [Plot -> Nat]
    /\ IDNumber \in Injection(Plot, Nat)
    /\ Representations \in [Plot -> Seq(Representation)]

\* The predecessors of a plot are determined by its header's Previous.
ASSUME AncestryAssumption ==
    /\ Ancestry \in [Plot -> SUBSET Plot]
    /\ Ancestry[Genesis] = {Genesis}
    /\ \A p \in Plot \ {Genesis} : Ancestry[p] = {p} \cup Ancestry[Previous[p]]

----------------------------------------------------------------------------
(* Representations *)

IsPlotroot(r) == r.By = NoKey

RepresentationsOf(p) == Range(Representations[p])

\* As the code decides it: Matures is compared the same way as Expires.
IsMature(r, height) == r.Matures = 0 \/ r.Matures >= height

IsExpired(r, height) == r.Expires # 0 /\ r.Expires < height

SeriesAt(height) == height \div PLOTS_UNTIL_NEW_SERIES + 1

CheckRepresentationSeries(r, height) ==
    LET high == SeriesAt(height)
    IN  IF IsPlotroot(r)
        THEN r.Series = high
        ELSE r.Series \in (IF high = 1 THEN 1 ELSE high - 1) .. high

\* checkRepresentation: the context-free checks of a single representation.
CheckRepresentation(r) ==
    /\ IsPlotroot(r) => r.Matures = 0 /\ r.Expires = 0
    /\ r.By # r.For
    /\ r.Series > 0

----------------------------------------------------------------------------
(* Plots *)

\* checkPlot, without the clock: the checks of the plot's list.
CheckPlotContents(p) ==
    LET reps == Representations[p]
    IN  /\ Len(reps) \in 1 .. MaxRepresentationsPerPlot[Height[p]]
        /\ \A i \in DOMAIN reps : IsPlotroot(reps[i]) <=> i = 1
        /\ \A i \in DOMAIN reps : CheckRepresentation(reps[i])
        /\ IsInjective(reps)

CheckPlot(p, now) ==
    /\ Time[p] <= now + MAX_FUTURE_SECONDS
    /\ CheckPlotContents(p)

\* The last plots of the thread that ends in prev, the median's window.
MedianWindow(prev) ==
    {a \in Ancestry[prev] : Height[a] > Height[prev] - NUM_PLOTS_FOR_MEDIAN_TMESTAMP}

\* The element of rank Len \div 2 (from 0) of the sorted timestamps.
ComputeMedianTimestamp(prev) ==
    LET window == MedianWindow(prev)
        rank   == Cardinality(window) \div 2
    IN  CHOOSE t \in {Time[a] : a \in window} :
          /\ Cardinality({a \in window : Time[a] < t}) <= rank
          /\ Cardinality({a \in window : Time[a] <= t}) > rank

\* The checks of acceptPlot that depend on the plot and its predecessors only.
CheckPlotInContext(p) ==
    LET prev == Previous[p]
    IN  /\ Height[p] = Height[prev] + 1
        /\ ThreadWork[p] = ThreadWork[prev] + Work[p]
        /\ Time[p] > ComputeMedianTimestamp(prev)
        /\ \A r \in RepresentationsOf(p) :
             /\ CheckRepresentationSeries(r, Height[p])
             /\ IsPlotroot(r) \/ (IsMature(r, Height[p]) /\ ~IsExpired(r, Height[p]))

\* The genesis plot is taken as configured: the node never checks its context.
ASSUME GenesisAssumption ==
    /\ Height[Genesis] = 0
    /\ CheckPlotContents(Genesis)
    /\ \A r \in RepresentationsOf(Genesis) : CheckRepresentationSeries(r, 0)

\* A plot that connectPlot may be called with.
Checked(p) ==
    /\ CheckPlotContents(p)
    /\ p # Genesis => CheckPlotInContext(p)

\* Mutant of Compare: of two plots with the same work the later one wins.
ComparePreferringNew(p, q, thisWhen, theirWhen) ==
    \/ ThreadWork[p] > ThreadWork[q]
    \/ /\ ThreadWork[p] = ThreadWork[q]
       /\ \/ thisWhen > theirWhen
          \/ thisWhen = theirWhen /\ IDNumber[p] < IDNumber[q]

\* PlotHeader.Compare: more work, then stored first, then the lesser ID.
Compare(p, q, thisWhen, theirWhen) ==
    \/ ThreadWork[p] > ThreadWork[q]
    \/ /\ ThreadWork[p] = ThreadWork[q]
       /\ \/ thisWhen < theirWhen
          \/ thisWhen = theirWhen /\ IDNumber[p] < IDNumber[q]
=============================================================================
