------------------------------ MODULE Processor ------------------------------
(***************************************************************************)
(* Processor: the goroutine that takes plots one at a time, stores the     *)
(* ones that pass its checks and reorganizes the ledger when a plot ends a *)
(* better thread than the current one.                                     *)
(*                                                                         *)
(* Each durable write is one step: storing a plot, each batch of the       *)
(* ledger, each change of a branch type.  A crash can come between any two *)
(* of them.  The representation queue and the channels that the processor  *)
(* notifies are not part of this module: nothing here reads them.          *)
(***************************************************************************)
EXTENDS Ledger

CONSTANTS
    Clock,          \* what time.Now() may read when a plot is processed
    Target,         \* Header.Target
    OriginalTarget, \* computeTargetBitcoin, a function of the previous header
    RevisedTarget,  \* computeTargetBitcoinCash, of the previous and first header
    BITCOIN_CASH_RETARGET_ALGORITHM_HEIGHT,
    RETARGET_SMA_WINDOW

ASSUME ProcessorAssumption ==
    /\ Clock \subseteq Nat
    /\ DOMAIN Target = Plot
    /\ DOMAIN OriginalTarget = Plot
    /\ DOMAIN RevisedTarget = Plot /\ \A p \in Plot : DOMAIN RevisedTarget[p] = Plot
    /\ RETARGET_SMA_WINDOW \in Nat
    /\ BITCOIN_CASH_RETARGET_ALGORITHM_HEIGHT \in Nat
    /\ BITCOIN_CASH_RETARGET_ALGORITHM_HEIGHT >= RETARGET_SMA_WINDOW

VARIABLES
    when,         \* when each plot was stored, None if it is not
    phase,        \* "idle", "accept" or "adjust": where the processor is
    newPlot,      \* the plot that acceptPlotContinue is called with
    oldTip,       \* the tip before acceptPlot tried to adjust the thread
    toDisconnect, \* plotsToDisconnect still to go
    toConnect,    \* plotsToConnect still to go, then newPlot
    reconnecting, \* whether this call of acceptPlotContinue is reconnectTip's
    disturbed,    \* history: a crash or a failed reconnectTip cut an adjustment short
    stranded,     \* history: one was cut short at the tip (while working, at oldTip)
    misfiled      \* history: stranded tips of the thread that a roll-back flagged SIDE

workVars == <<phase, newPlot, oldTip, toDisconnect, toConnect, reconnecting>>
pastVars == <<disturbed, stranded, misfiled>>
vars == <<ledgerVars, when, workVars, pastVars>>

Init ==
    /\ LedgerInit
    /\ when = [p \in Plot |-> None]
    /\ phase = "idle"
    /\ newPlot = None
    /\ oldTip = None
    /\ toDisconnect = {}
    /\ toConnect = {}
    /\ reconnecting = FALSE
    /\ disturbed = FALSE
    /\ stranded = FALSE
    /\ misfiled = {}

----------------------------------------------------------------------------
(* Checks against the current thread *)

IsKnown(p) == GetBranchType(p) \in {MAIN, SIDE}

HasKnownParent(p) == IsKnown(Previous[p])

\* The first header of the window: whatever the main thread has at that
\* height, also when prev is on a side branch.
FirstOfWindow(prev) == heightIndex[Height[prev] - RETARGET_SMA_WINDOW]

UsesRevisedTarget(prev) == Height[prev] >= BITCOIN_CASH_RETARGET_ALGORITHM_HEIGHT

ComputeTarget(prev) ==
    IF UsesRevisedTarget(prev)
    THEN RevisedTarget[prev][FirstOfWindow(prev)]
    ELSE OriginalTarget[prev]

\* Without a first header the code dereferences nil and the program stops:
\* no state has changed, so the plot is simply not accepted.
HasDeclaredTarget(p) ==
    /\ UsesRevisedTarget(Previous[p]) => FirstOfWindow(Previous[p]) # None
    /\ Target[p] = ComputeTarget(Previous[p])

----------------------------------------------------------------------------
(* processPlot and acceptPlot: check the plot and store it *)

Store(p, now) == when' = [when EXCEPT ![p] = now]

ProcessGenesis(now) ==
    /\ phase = "idle"
    /\ ~IsKnown(Genesis)
    /\ CheckPlot(Genesis, now)
    /\ Store(Genesis, now)
    /\ phase' = "adjust"
    /\ newPlot' = Genesis
    /\ oldTip' = None
    /\ toDisconnect' = {}
    /\ toConnect' = {Genesis}
    /\ reconnecting' = FALSE
    /\ UNCHANGED <<ledgerVars, pastVars>>

AcceptPlot(p, now) ==
    /\ phase = "idle"
    /\ ~IsKnown(p)
    /\ HasKnownParent(p)
    /\ CheckPlot(p, now)
    /\ CheckPlotInContext(p)
    /\ HasDeclaredTarget(p)
    /\ Store(p, now)
    /\ phase' = "accept"
    /\ newPlot' = p
    /\ oldTip' = tip
    /\ reconnecting' = FALSE
    /\ UNCHANGED <<ledgerVars, toDisconnect, toConnect, pastVars>>

----------------------------------------------------------------------------
(* acceptPlotContinue: choose, then adjust the thread plot by plot *)

Rest ==
    /\ phase' = "idle"
    /\ newPlot' = None
    /\ oldTip' = None
    /\ toDisconnect' = {}
    /\ toConnect' = {}
    /\ reconnecting' = FALSE

\* The work ends, and the tip is neither the old one nor the new plot.
CutShort == stranded' = (stranded \/ (phase # "idle" /\ tip # oldTip))

OnThread(p) == heightIndex[Height[p]] = p

Misfile ==
    misfiled' = IF reconnecting /\ stranded /\ OnThread(newPlot)
                THEN misfiled \cup {newPlot}
                ELSE misfiled

IsBetter(p) == Compare(p, tip, when[p], when[tip])

KeepTip ==
    /\ phase = "accept"
    /\ newPlot = tip
    /\ Rest
    /\ UNCHANGED <<ledgerVars, when, pastVars>>

\* Mutant of FlagSideBranch: also when the plot is the tip itself.
FlagUnlessBetter ==
    /\ phase = "accept"
    /\ ~IsBetter(newPlot)
    /\ SetBranchType(newPlot, SIDE)
    /\ Rest
    /\ CutShort /\ Misfile
    /\ UNCHANGED <<when, disturbed>>

FlagSideBranch ==
    /\ phase = "accept"
    /\ newPlot # tip
    /\ ~IsBetter(newPlot)
    /\ SetBranchType(newPlot, SIDE)
    /\ Rest
    /\ CutShort /\ Misfile
    /\ UNCHANGED <<when, disturbed>>

\* Mutant of BranchOf: the walk does not stop at the common ancestor.
WholeThreadOf(p, other) == Ancestry[p]

\* What a walk back from p to its common ancestor with the other plot collects.
BranchOf(p, other) == Ancestry[p] \ Ancestry[other]

ChooseNewThread ==
    /\ phase = "accept"
    /\ newPlot # tip
    /\ IsBetter(newPlot)
    /\ phase' = "adjust"
    /\ toDisconnect' = BranchOf(tip, newPlot)
    /\ toConnect' = BranchOf(newPlot, tip)
    /\ UNCHANGED <<ledgerVars, when, newPlot, oldTip, reconnecting, pastVars>>

NextToDisconnect == CHOOSE p \in toDisconnect : \A q \in toDisconnect : Height[q] <= Height[p]

NextToConnect == CHOOSE p \in toConnect : \A q \in toConnect : Height[p] <= Height[q]

Disconnect ==
    /\ phase = "adjust"
    /\ toDisconnect # {}
    /\ CanDisconnect(NextToDisconnect)
    /\ DisconnectPlot(NextToDisconnect)
    /\ toDisconnect' = toDisconnect \ {NextToDisconnect}
    /\ misfiled' = misfiled \ {NextToDisconnect}
    /\ UNCHANGED <<when, phase, newPlot, oldTip, toConnect, reconnecting, disturbed, stranded>>

Connect ==
    /\ phase = "adjust"
    /\ toDisconnect = {}
    /\ ConnectPlot(NextToConnect)
    /\ IF toConnect = {NextToConnect}
       THEN /\ Rest
            /\ stranded' = (stranded /\ reconnecting)
       ELSE /\ toConnect' = toConnect \ {NextToConnect}
            /\ UNCHANGED <<phase, newPlot, oldTip, toDisconnect, reconnecting, stranded>>
    /\ UNCHANGED <<when, disturbed, misfiled>>

CannotGoOn ==
    IF toDisconnect # {}
    THEN ~CanDisconnect(NextToDisconnect)
    ELSE ~CanConnect(NextToConnect)

\* Mutant of MayReconnect: reconnecting is tried again when it has failed.
MayReconnectForever == oldTip # None

MayReconnect == ~reconnecting /\ oldTip # None

\* acceptPlot calls reconnectTip, which calls acceptPlotContinue again.
ReconnectTip ==
    /\ phase = "adjust"
    /\ CannotGoOn
    /\ MayReconnect
    /\ phase' = "accept"
    /\ newPlot' = oldTip
    /\ toDisconnect' = {}
    /\ toConnect' = {}
    /\ reconnecting' = TRUE
    /\ UNCHANGED <<ledgerVars, when, oldTip, pastVars>>

\* An error of reconnectTip is logged and forgotten.
GiveUp ==
    /\ phase = "adjust"
    /\ CannotGoOn
    /\ ~MayReconnect
    /\ Rest
    /\ disturbed' = (disturbed \/ reconnecting)
    /\ CutShort
    /\ UNCHANGED <<ledgerVars, when, misfiled>>

----------------------------------------------------------------------------
(* The rest of the program *)

\* A plot that is, or was, on the thread.
Index(p) == branchType[p] # UNKNOWN /\ IndexLinks(Links(p)) /\ UNCHANGED <<when, workVars, pastVars>>

\* The databases survive; the processor's work and the graph do not.
Crash ==
    /\ Rest
    /\ LoseGraph
    /\ disturbed' = (disturbed \/ (phase # "idle" /\ tip # oldTip))
    /\ CutShort
    /\ UNCHANGED <<when, misfiled>>

Step ==
    \/ KeepTip
    \/ FlagSideBranch
    \/ ChooseNewThread
    \/ Disconnect
    \/ Connect
    \/ ReconnectTip
    \/ GiveUp

Next ==
    \/ \E now \in Clock : ProcessGenesis(now)
    \/ \E p \in Plot, now \in Clock : AcceptPlot(p, now)
    \/ Step
    \/ \E p \in Plot : Index(p)
    \/ Crash

\* The goroutine keeps running while it has a plot in hand.
Spec == Init /\ [][Next]_vars /\ WF_vars(Step)

----------------------------------------------------------------------------
(* Correctness *)

(* Every variable has its type; the ledger's are checked by LedgerTypeOK.  *)
TypeOK ==
    /\ LedgerTypeOK
    /\ when \in [Plot -> Clock \cup {None}]
    /\ phase \in {"idle", "accept", "adjust"}
    /\ newPlot \in Plot \cup {None}
    /\ oldTip \in Plot \cup {None}
    /\ toDisconnect \subseteq Plot
    /\ toConnect \subseteq Plot
    /\ reconnecting \in BOOLEAN
    /\ disturbed \in BOOLEAN
    /\ stranded \in BOOLEAN
    /\ misfiled \subseteq Plot

(* Between plots the tip ends the best thread the node knows of, by work,  *)
(* then by arrival, then by ID - whatever failed on the way and was rolled *)
(* back - unless a crash or a failed reconnectTip cut an adjustment short. *)
Precedes(p, q) ==
    \/ ThreadWork[p] > ThreadWork[q]
    \/ ThreadWork[p] = ThreadWork[q] /\ when[p] < when[q]
    \/ ThreadWork[p] = ThreadWork[q] /\ when[p] = when[q] /\ IDNumber[p] < IDNumber[q]

BestThread ==
    phase = "idle" /\ ~disturbed =>
      \A p \in Plot \ {tip} : IsKnown(p) => Precedes(tip, p)

(* The plots of type MAIN are the plots of the height index, but for those *)
(* that a roll-back misfiled: an adjustment was cut short at their tip, by *)
(* a crash or by a roll-back that stopped there, and when a later plot     *)
(* above that tip fails, the roll-back to it finds a better plot connected *)
(* and flags it SIDE where it stands, until it leaves the thread.  No      *)
(* other plot is ever flagged on the thread, nor left MAIN off it, in any  *)
(* order of arrivals, failures, roll-backs and crashes.                    *)
BranchTypesMatchThread ==
    \A p \in Plot : branchType[p] = MAIN <=> OnThread(p) /\ p \notin misfiled

(* Taking plots off the thread never fails halfway, and putting the old    *)
(* thread back only fails if the representation graph has a new cycle: the *)
(* ledger is exactly as it was when these plots were connected before.     *)
OldThreadFitsAgain ==
    phase = "adjust" =>
      /\ toDisconnect # {} => CanDisconnect(NextToDisconnect)
                              /\ CanUndoAll(imbalance, Effects(NextToDisconnect))
      /\ reconnecting /\ toDisconnect = {} =>
           LET p == NextToConnect
           IN  LinksToTip(p) /\ IsUnprocessed(p) /\ IsFunded(p)

(* A plot in hand is always dealt with: failing, reconnecting the old tip  *)
(* and failing again comes to an end.                                      *)
ProcessingEnds == phase # "idle" ~> phase = "idle"

(* The processor uses the ledger as it is meant to be used.                *)
ImplementsLedger == LedgerSpec
=============================================================================
