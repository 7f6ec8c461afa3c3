------------------------------- MODULE Ledger -------------------------------
(***************************************************************************)
(* LedgerDisk: the database that holds the current thread of plots, an     *)
(* index of its representations and the imbalance of every public key.     *)
(*                                                                         *)
(* ConnectPlot and DisconnectPlot each write one atomic, synced batch, so  *)
(* each is one step.  The ledger does not choose what to connect: the      *)
(* processor does.  LedgerNext lets any caller connect a checked plot to   *)
(* the tip or take the tip away again.                                     *)
(***************************************************************************)
EXTENDS ImbalanceCache, RepresentationGraph

CONSTANTS
    PRUNE,                      \* whether old indices are pruned (l.prune)
    MAIN, SIDE, UNKNOWN         \* branch types

ASSUME LedgerAssumption ==
    /\ Cardinality({MAIN, SIDE, UNKNOWN}) = 3
    /\ PRUNE \in BOOLEAN
    /\ None \notin (0..MAX_NUMBER) \X Nat

VARIABLES
    tip,          \* the thread tip's plot, None before the genesis plot
    tipHeight,    \* the height stored with it
    heightIndex,  \* plots by height
    branchType,   \* UNKNOWN when the database has no entry
    repIndex,     \* height and position of each processed representation
    pubKeyIndex,  \* entries <<key, height, position>>
    imbalance,    \* 0 when the database has no entry
    graph         \* the in-memory representation graph

ledgerVars == <<tip, tipHeight, heightIndex, branchType, repIndex,
                pubKeyIndex, imbalance, graph>>

LedgerInit ==
    /\ tip = None
    /\ tipHeight = -1
    /\ heightIndex = [h \in 0..MAX_NUMBER |-> None]
    /\ branchType = [p \in Plot |-> UNKNOWN]
    /\ repIndex = [r \in Representation |-> None]
    /\ pubKeyIndex = {}
    /\ imbalance = [k \in Key |-> 0]
    /\ graph = {}

----------------------------------------------------------------------------
(* What a plot changes *)

\* Mutant of PrunedHeight: indices are pruned after one series instead of two.
PrunedHeightOfOneSeries(p) == Height[p] - PLOTS_UNTIL_NEW_SERIES

\* The plot at the height of the plotroot that matures with p, and the one
\* whose indices are two series old.
MaturingHeight(p) == Height[p] - PLOTROOT_MATURITY

PrunedHeight(p) == Height[p] - 2 * PLOTS_UNTIL_NEW_SERIES

HasPlot(h) == h >= 0 => heightIndex[h] # None

\* Mutant of Effects: a plotroot counts at once.
EffectsWithoutMaturity(p) == Representations[p]

\* The representations whose effect p has on imbalances, in order: instead
\* of p's own plotroot, the one that p makes mature.
Effects(p) ==
    (IF MaturingHeight(p) >= 0
     THEN <<Representations[heightIndex[MaturingHeight(p)]][1]>>
     ELSE <<>>) \o Tail(Representations[p])

Position(p, r) == CHOOSE i \in DOMAIN Representations[p] : Representations[p][i] = r

PubKeyEntries(p) ==
    {e \in Key \X {Height[p]} \X DOMAIN Representations[p] :
       LET r == Representations[p][e[3]] IN e[1] \in {r.By, r.For}}

\* Mutant of Prunes: the genesis plot's indices are forgotten about.
PrunesAboveGenesis(p) == PRUNE /\ PrunedHeight(p) > 0

\* The indices that pruneIndices deletes and restoreIndices puts back.
Prunes(p) == PRUNE /\ PrunedHeight(p) >= 0

PrunedRepresentations(p) ==
    IF Prunes(p) THEN RepresentationsOf(heightIndex[PrunedHeight(p)]) ELSE {}

PrunedPubKeyEntries(p) ==
    IF Prunes(p) THEN PubKeyEntries(heightIndex[PrunedHeight(p)]) ELSE {}

----------------------------------------------------------------------------
(* Connecting and disconnecting *)

GetBranchType(p) == IF p = None THEN UNKNOWN ELSE branchType[p]

SetBranchType(p, type) ==
    /\ branchType' = [branchType EXCEPT ![p] = type]
    /\ UNCHANGED <<tip, tipHeight, heightIndex, repIndex, pubKeyIndex, imbalance, graph>>

\* Mutant of LinksToTip: any plot of the main thread may be extended.
LinksToThread(p) == tip # None => GetBranchType(Previous[p]) = MAIN

\* Mutant of IsUnprocessed: only the plotroot is looked up.
HasNewPlotroot(p) == repIndex[Representations[p][1]] = None

\* The checks of ConnectPlot, each an error return.
LinksToTip(p) == tip # None => tip = Previous[p]

IsUnprocessed(p) == \A r \in RepresentationsOf(p) : repIndex[r] = None

IsFunded(p) == HasPlot(MaturingHeight(p)) /\ CanApplyAll(imbalance, Effects(p))

IsAcyclic(p) ==
    \A i \in DOMAIN Effects(p) :
      ~IsParentDescendant(graph, Effects(p)[i].For, Effects(p)[i].By)

CanConnect(p) ==
    /\ LinksToTip(p)
    /\ IsUnprocessed(p)
    /\ IsFunded(p)
    /\ IsAcyclic(p)
    /\ PRUNE => HasPlot(PrunedHeight(p))

ConnectPlot(p) ==
    /\ CanConnect(p)
    /\ imbalance' = Applied(imbalance, Effects(p), Len(Effects(p)))
    /\ repIndex' = [r \in Representation |->
                      CASE r \in PrunedRepresentations(p) -> None
                        [] r \in RepresentationsOf(p) \ PrunedRepresentations(p) ->
                             <<Height[p], Position(p, r)>>
                        [] OTHER -> repIndex[r]]
    /\ pubKeyIndex' = (pubKeyIndex \cup PubKeyEntries(p)) \ PrunedPubKeyEntries(p)
    /\ heightIndex' = [heightIndex EXCEPT ![Height[p]] = p]
    /\ branchType' = [branchType EXCEPT ![p] = MAIN]
    /\ tip' = p
    /\ tipHeight' = Height[p]
    /\ UNCHANGED graph

\* Every error return of DisconnectPlot that is not an I/O error.
CanDisconnect(p) ==
    /\ tip = p
    /\ HasPlot(MaturingHeight(p))
    /\ PRUNE => HasPlot(PrunedHeight(p))

DisconnectPlot(p) ==
    /\ CanDisconnect(p)
    /\ CanUndoAll(imbalance, Effects(p))
    /\ imbalance' = Undone(imbalance, Effects(p), 1)
    /\ repIndex' = [r \in Representation |->
                      CASE r \in PrunedRepresentations(p) ->
                             LET old == heightIndex[PrunedHeight(p)]
                             IN  <<Height[old], Position(old, r)>>
                        [] r \in RepresentationsOf(p) \ PrunedRepresentations(p) -> None
                        [] OTHER -> repIndex[r]]
    /\ pubKeyIndex' = (pubKeyIndex \ PubKeyEntries(p)) \cup PrunedPubKeyEntries(p)
    /\ heightIndex' = [heightIndex EXCEPT ![Height[p]] = None]
    /\ branchType' = [branchType EXCEPT ![p] = SIDE]
    /\ tip' = Previous[p]
    /\ tipHeight' = Height[p] - 1
    /\ UNCHANGED graph

\* The indexer follows the tip at its own pace, and links a plot when it is
\* connected and again, with a negative weight, when it is disconnected: by then
\* the plot may be off the thread.  Here the links may be those of any plot; the
\* module Processor says that it was connected, and Indexer which one and when.
\* The graph is rebuilt from nothing when the program restarts.
PlotLinks == {Links(p) : p \in Plot}

IndexLinks(links) ==
    /\ graph' = graph \cup links
    /\ UNCHANGED <<tip, tipHeight, heightIndex, branchType, repIndex, pubKeyIndex, imbalance>>

LoseGraph ==
    /\ graph' = {}
    /\ UNCHANGED <<tip, tipHeight, heightIndex, branchType, repIndex, pubKeyIndex, imbalance>>

\* A caller passes checked plots, begins with the genesis plot and keeps it.
LedgerNext ==
    \/ \E p \in Plot : (tip = None => p = Genesis) /\ ConnectPlot(p) /\ Checked(p)
    \/ \E p \in Plot \ {Genesis} : DisconnectPlot(p)
    \/ \E p \in Plot :
         /\ p # Genesis => GetBranchType(Previous[p]) # UNKNOWN
         /\ SetBranchType(p, SIDE)
    \/ \E links \in PlotLinks : IndexLinks(links)
    \/ LoseGraph

LedgerSpec == LedgerInit /\ [][LedgerNext]_ledgerVars

----------------------------------------------------------------------------
(* Correctness *)

(* Every field of the database has its type. *)
LedgerTypeOK ==
    /\ tip \in Plot \cup {None}
    /\ tipHeight \in -1..MAX_NUMBER
    /\ heightIndex \in [0..MAX_NUMBER -> Plot \cup {None}]
    /\ branchType \in [Plot -> {MAIN, SIDE, UNKNOWN}]
    /\ repIndex \in [Representation -> ((0..MAX_NUMBER) \X Nat) \cup {None}]
    /\ pubKeyIndex \subseteq Key \X (0..MAX_NUMBER) \X Nat
    /\ imbalance \in [Key -> Nat]
    /\ graph \subseteq (Key \cup {NoKey}) \X Key

(* The height index is one thread: it is filled exactly up to the stored   *)
(* tip height, starts with the genesis plot, ends with the tip, and each   *)
(* plot in it names the one below as its predecessor.                      *)
ThreadIsLinked ==
    /\ tip = None <=> tipHeight = -1
    /\ tip # None => heightIndex[tipHeight] = tip /\ heightIndex[0] = Genesis
    /\ \A h \in 0..MAX_NUMBER :
         /\ heightIndex[h] # None <=> h <= tipHeight
         /\ h <= tipHeight => Height[heightIndex[h]] = h
         /\ 0 < h /\ h <= tipHeight => Previous[heightIndex[h]] = heightIndex[h-1]

(* No representation is confirmed twice on the thread, although the index  *)
(* that rejects duplicates forgets everything older than two series.       *)
NoDoubleConfirmation ==
    \A g, h \in 0..tipHeight :
      g # h => RepresentationsOf(heightIndex[g]) \cap RepresentationsOf(heightIndex[h]) = {}

(* The index of representations is exact over the plots not pruned yet: it *)
(* points at the representation's place on the thread, and has nothing else.*)
RetainedHeights ==
    {h \in 0..tipHeight : PRUNE => h > tipHeight - 2 * PLOTS_UNTIL_NEW_SERIES}

RepIndexIsExact ==
    /\ \A h \in RetainedHeights : \A i \in DOMAIN Representations[heightIndex[h]] :
         repIndex[Representations[heightIndex[h]][i]] = <<h, i>>
    /\ \A r \in Representation :
         repIndex[r] # None =>
           \E h \in RetainedHeights : r \in RepresentationsOf(heightIndex[h])
    /\ pubKeyIndex = UNION {PubKeyEntries(heightIndex[h]) : h \in RetainedHeights}

(* The ledger's thread as a sequence, for the abstract specification. *)
CurrentThread == [n \in 1 .. tipHeight + 1 |-> heightIndex[n-1]]

Abstract == INSTANCE Thread WITH thread <- CurrentThread

(* Incrementally applied and undone imbalances never drift from what the   *)
(* whole thread says every key has, and disconnecting never takes a key    *)
(* below zero, where Undo panics.                                          *)
ImbalancesMatchThread ==
    \A k \in Key : imbalance[k] = Abstract!ImbalanceOf(CurrentThread, k)

UndoNeverPanics == tip # None => CanUndoAll(imbalance, Effects(tip))

(* The indexed, pruned, incremental ledger implements the thread.          *)
ImplementsThread == Abstract!Spec
=============================================================================
