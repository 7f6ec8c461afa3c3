------------------------------ MODULE Indexer ------------------------------
(***************************************************************************)
(* The indexer's goroutine and the processor that it follows.              *)
(*                                                                         *)
(* The indexer reads the thread by height, plot by plot, and registers for *)
(* tip changes when it finds no plot.  From then on the processor sends it *)
(* a notice of every plot that it connects or disconnects, over a channel  *)
(* that holds one, and waits while the channel is full.  The indexer links *)
(* the representations of the plots in the graph, with weight +1 or -1,    *)
(* and ranks the graph unless more notices are to come.  With a cycle in   *)
(* the graph the ranking may never end.                                    *)
(*                                                                         *)
(* In turn the processor's ledger asks the same graph, whatever it holds   *)
(* by then, whether a new plot's representation closes a cycle.  The graph *)
(* is the processor's variable; here are the weights of its edges and what *)
(* the indexer knows.  The links of one plot are one step.  Leaving the    *)
(* channel at shutdown is in the module Channels.                          *)
(***************************************************************************)
EXTENDS Processor

ASSUME IndexerAssumption == None \notin [plot : Plot, connect : BOOLEAN, more : BOOLEAN]

VARIABLES
    weight,       \* of the edges: an edge that is not in the graph has none
    ranked,       \* the weights that the ranking was computed from
    doing,        \* "wait", "read", "link", "rank", "register" or "listen"
    nextHeight,   \* the next height to read
    inHand,       \* the change being linked, or None
    latestPlotID, \* idx.latestPlotID
    registered,   \* whether the processor knows its channel
    tipChan,      \* the notice in the channel, or None
    outgoing,     \* the notice the processor is sending, or None
    unheard,      \* history: plots connected or disconnected while it read
    unvetted      \* history: plots checked against a graph that was behind

channelVars == <<registered, tipChan, outgoing>>
indexVars == <<weight, ranked, doing, nextHeight, inHand, latestPlotID>>
indexerVars == <<vars, channelVars, indexVars, unheard, unvetted>>

Edge == (Key \cup {NoKey}) \X Key

NoWeight == [e \in Edge |-> 0]

Change(p, connect, more) == [plot |-> p, connect |-> connect, more |-> more]

StartIndexer ==
    /\ weight = NoWeight /\ ranked = NoWeight
    /\ doing = "wait"
    /\ nextHeight = 0
    /\ inHand = None
    /\ latestPlotID = Genesis
    /\ registered = FALSE
    /\ tipChan = None /\ outgoing = None
    /\ unheard = {}

IndexerInit == Init /\ StartIndexer /\ unvetted = {}

----------------------------------------------------------------------------
(* The processor's goroutine *)

\* Every notice is linked and none was missed.
IsUpToDate ==
    registered /\ outgoing = None /\ tipChan = None /\ inHand = None /\ unheard = {}

Notify(p, connect, more) ==
    /\ outgoing' = IF registered THEN Change(p, connect, more) ELSE None
    /\ unheard' = IF registered \/ doing = "wait" THEN unheard ELSE unheard \cup {p}

\* Disconnecting says nothing of what is to follow.
DisconnectAndNotify ==
    /\ Disconnect
    /\ Notify(NextToDisconnect, FALSE, FALSE)
    /\ UNCHANGED unvetted

ConnectAndNotify ==
    /\ Connect
    /\ Notify(NextToConnect, TRUE, toConnect # {NextToConnect})
    /\ unvetted' = IF IsUpToDate THEN unvetted ELSE unvetted \cup {NextToConnect}

Silently(step) == step /\ UNCHANGED <<outgoing, unheard, unvetted>>

SendTip ==
    /\ outgoing # None
    /\ tipChan = None
    /\ tipChan' = outgoing
    /\ outgoing' = None
    /\ UNCHANGED <<vars, registered, indexVars, unheard, unvetted>>

\* The processor goes on with its plot when the notice is sent.
Process ==
    /\ outgoing = None
    /\ \/ DisconnectAndNotify
       \/ ConnectAndNotify
       \/ Silently(KeepTip)
       \/ Silently(FlagSideBranch)
       \/ Silently(ChooseNewThread)
       \/ Silently(ReconnectTip)
       \/ Silently(GiveUp)
    /\ UNCHANGED <<registered, tipChan, indexVars>>

TakePlot ==
    /\ outgoing = None
    /\ \/ \E now \in Clock : ProcessGenesis(now)
       \/ \E p \in Plot, now \in Clock : AcceptPlot(p, now)
    /\ UNCHANGED <<channelVars, indexVars, unheard, unvetted>>

----------------------------------------------------------------------------
(* The indexer's goroutine *)

IndexerOnly == UNCHANGED <<when, workVars, pastVars, outgoing, unheard, unvetted>>

\* The first plotthread sync is over when the tip is new enough, at some time.
BeginIndexing ==
    /\ doing = "wait"
    /\ GetBranchType(latestPlotID) = MAIN
    /\ doing' = "read"
    /\ nextHeight' = Height[latestPlotID]
    /\ UNCHANGED <<ledgerVars, registered, tipChan, weight, ranked, inHand, latestPlotID>>
    /\ IndexerOnly

\* Mutant of ReadHeight: the tip itself is left for later.
ReadBelowTip ==
    /\ doing = "read"
    /\ IF nextHeight >= tipHeight
       THEN doing' = "rank" /\ UNCHANGED <<nextHeight, inHand>>
       ELSE /\ doing' = "link"
            /\ inHand' = Change(heightIndex[nextHeight], TRUE, TRUE)
            /\ nextHeight' = nextHeight + 1
    /\ UNCHANGED <<ledgerVars, registered, tipChan, weight, ranked, latestPlotID>>
    /\ IndexerOnly

GetPlotIDForHeight(h) == IF h \in DOMAIN heightIndex THEN heightIndex[h] ELSE None

ReadHeight ==
    /\ doing = "read"
    /\ IF GetPlotIDForHeight(nextHeight) = None
       THEN doing' = "rank" /\ UNCHANGED <<nextHeight, inHand>>
       ELSE /\ doing' = "link"
            /\ inHand' = Change(GetPlotIDForHeight(nextHeight), TRUE, TRUE)
            /\ nextHeight' = nextHeight + 1
    /\ UNCHANGED <<ledgerVars, registered, tipChan, weight, ranked, latestPlotID>>
    /\ IndexerOnly

\* Where the plot has a representation from the one key for the other.
LinksAt(p, e) ==
    {i \in DOMAIN Representations[p] :
       <<Representations[p][i].By, Representations[p][i].For>> = e}

LinksOf == [p \in Plot |-> [e \in Edge |-> Cardinality(LinksAt(p, e))]]

\* Mutant of Linked: a disconnected plot counts once more.
LinkedTwice(w, change) == [e \in Edge |-> w[e] + LinksOf[change.plot][e]]

Linked(w, change) ==
    [e \in Edge |-> IF change.connect THEN w[e] + LinksOf[change.plot][e]
                                      ELSE w[e] - LinksOf[change.plot][e]]

\* Mutant of IndexRepresentations: the graph is ranked once only.
IndexAndListen ==
    /\ doing = "link"
    /\ weight' = Linked(weight, inHand)
    /\ IndexLinks(Links(inHand.plot))
    /\ latestPlotID' = inHand.plot
    /\ inHand' = None
    /\ doing' = IF registered THEN "listen" ELSE "read"
    /\ UNCHANGED <<registered, tipChan, ranked, nextHeight>>
    /\ IndexerOnly

IndexRepresentations ==
    /\ doing = "link"
    /\ weight' = Linked(weight, inHand)
    /\ IndexLinks(Links(inHand.plot))
    /\ latestPlotID' = inHand.plot
    /\ inHand' = None
    /\ doing' = IF ~registered THEN "read" ELSE IF inHand.more THEN "listen" ELSE "rank"
    /\ UNCHANGED <<registered, tipChan, ranked, nextHeight>>
    /\ IndexerOnly

\* With a damping factor of 1, rank only leaks from keys that have given none
\* away: if one is reachable from every key the iteration converges.  Otherwise
\* it may go round a cycle for ever, depending on the weights.
Settles ==
    LET carrying == {e \in graph : weight[e] > 0}
        Gives(k) == \E e \in carrying : e[1] = k
    IN  /\ \A e \in graph : weight[e] >= 0
        /\ \A k \in GraphKeys(graph) : \E j \in Reachable(carrying, k) : ~Gives(j)

\* Mutant of RankGraph: the indexer listens without having registered.
RankAndListen ==
    /\ doing = "rank"
    /\ ranked' = weight
    /\ doing' = "listen"
    /\ UNCHANGED <<ledgerVars, registered, tipChan, weight, nextHeight, inHand, latestPlotID>>
    /\ IndexerOnly

RankGraph ==
    /\ doing = "rank"
    /\ ranked' = weight
    /\ doing' = IF registered THEN "listen" ELSE "register"
    /\ UNCHANGED <<ledgerVars, registered, tipChan, weight, nextHeight, inHand, latestPlotID>>
    /\ IndexerOnly

\* A rendezvous with the processor's select statement: no plot is in its hands.
RegisterForTipChange ==
    /\ doing = "register"
    /\ phase = "idle" /\ outgoing = None
    /\ registered' = TRUE
    /\ doing' = "listen"
    /\ UNCHANGED <<ledgerVars, tipChan, weight, ranked, nextHeight, inHand, latestPlotID>>
    /\ IndexerOnly

\* Mutant of TakeNotice: the goroutine waits until the processor is idle.
TakeNoticeWhenIdle ==
    /\ doing = "listen"
    /\ tipChan # None
    /\ phase = "idle"
    /\ inHand' = tipChan
    /\ tipChan' = None
    /\ doing' = "link"
    /\ UNCHANGED <<ledgerVars, registered, weight, ranked, nextHeight, latestPlotID>>
    /\ IndexerOnly

TakeNotice ==
    /\ doing = "listen"
    /\ tipChan # None
    /\ inHand' = tipChan
    /\ tipChan' = None
    /\ doing' = "link"
    /\ UNCHANGED <<ledgerVars, registered, weight, ranked, nextHeight, latestPlotID>>
    /\ IndexerOnly

IndexerStep == ReadHeight \/ IndexRepresentations \/ RankGraph \/ TakeNotice

\* The steps that the goroutine takes in the end, if it can.
CertainStep == ReadHeight \/ IndexRepresentations \/ (Settles /\ RankGraph) \/ TakeNotice

----------------------------------------------------------------------------
(* The whole *)

\* The graph is in memory only, and is built again after a restart.
CrashAndRestart ==
    /\ Crash
    /\ weight' = NoWeight /\ ranked' = NoWeight
    /\ doing' = "wait"
    /\ nextHeight' = 0
    /\ inHand' = None
    /\ latestPlotID' = Genesis
    /\ registered' = FALSE
    /\ tipChan' = None /\ outgoing' = None
    /\ unheard' = {}
    /\ UNCHANGED unvetted

IndexerNext ==
    \/ TakePlot
    \/ Process
    \/ SendTip
    \/ BeginIndexing
    \/ IndexerStep
    \/ RegisterForTipChange
    \/ CrashAndRestart

\* Both goroutines go on, but for a ranking that may not end; a select chooses
\* at random among what is ready, so that a registration is taken in the end;
\* nothing makes a first sync end.
IndexerSpec ==
    /\ IndexerInit /\ [][IndexerNext]_indexerVars
    /\ WF_indexerVars(Process \/ SendTip)
    /\ WF_indexerVars(CertainStep)
    /\ SF_indexerVars(RegisterForTipChange)

----------------------------------------------------------------------------
(* Correctness *)

(* The indexed weights and the notices that are still on their way give    *)
(* the representations of the thread, edge by edge, once the indexer has   *)
(* registered: reorganizations, rolled back or not, leave nothing behind.  *)
(* Not so for plots that were connected or disconnected after it began to  *)
(* read the thread and before it registered: those are never made up for.  *)
Awaited(w) ==
    LET Hear(v, change) == IF change = None THEN v ELSE Linked(v, change)
    IN  Hear(Hear(Hear(w, inHand), tipChan), outgoing)

LinksOfThread(e) == Cardinality(UNION {{h} \X LinksAt(heightIndex[h], e) : h \in 0..tipHeight})

WeightsFollowThread ==
    registered => \A e \in Edge :
      (\A p \in unheard : LinksOf[p][e] = 0) => Awaited(weight)[e] = LinksOfThread(e)

(* "Checks for relationship to prevent cycles": a plot that was connected  *)
(* while the indexer was up to date has no representation whose recipient  *)
(* led to its sender on the thread below, however the graph came about.    *)
ThreadBelow(p) == UNION {{<<r.By, r.For>> : r \in RepresentationsOf(q)} : q \in Ancestry[p] \ {p}}

CyclicPlots ==
    {p \in Plot : \E r \in RepresentationsOf(p) : IsParentDescendant(ThreadBelow(p), r.For, r.By)}

PlotsOfThread == {heightIndex[h] : h \in 0..tipHeight}

VettedPlotsCloseNoCycle == PlotsOfThread \cap CyclicPlots \subseteq unvetted

(* When the processor waits for plots and the indexer for notices, the     *)
(* ranking is that of the weights, and what peers are told it is of is the *)
(* tip, although a reorganization ranks the graph halfway.                 *)
AllQuiet == phase = "idle" /\ doing = "listen" /\ outgoing = None /\ tipChan = None

RankIsOfTip ==
    AllQuiet /\ unheard = {} /\ ~disturbed => ranked = weight /\ latestPlotID = tip

RunsOn == doing = "rank" /\ ~Settles

(* The processor goes on as it does on its own, and the graph it sees is   *)
(* one the module Processor allows: of all that the indexer does, only a   *)
(* ranking of a graph with a cycle that never ends can stop it, since the  *)
(* notices are not taken any more.                                         *)
ImplementsProcessor == Init /\ [][Next]_vars /\ (<>[]RunsOn \/ WF_vars(Step))

(* Once it has begun, the indexer registers, or the program is restarted,  *)
(* unless it ranks a graph with a cycle from some time on.                 *)
IndexerRegisters == <>[]RunsOn \/ (doing # "wait" ~> (registered \/ doing = "wait"))
=============================================================================
