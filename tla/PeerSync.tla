------------------------------ MODULE PeerSync ------------------------------
(***************************************************************************)
(* A node downloads the threads of its peers.                              *)
(*                                                                         *)
(* A connection is a reader goroutine with a queue of plots to download    *)
(* and a queue of plots in flight; all connections share one queue of      *)
(* plots in flight, which says who downloads a plot.  Messages of a        *)
(* connection arrive in order.  The other ends are nodes too: they answer  *)
(* with the same program, or stop answering.  Only this direction is       *)
(* modelled; the other ends' own downloads are the same.                   *)
(*                                                                         *)
(* The processor is abstracted to the plots it has processed and stored.   *)
(* Checkpoints are disabled in the code, so no plot is ever ignored.  An   *)
(* inventory that is too long, and the answer that a plot is unknown, come *)
(* from no program like this one and are left out.                         *)
(***************************************************************************)
EXTENDS Integers, Sequences, FiniteSets, SequencesExt

CONSTANTS
    Peer,
    Reliable,            \* the peers that stay and answer everything in good time
    Plot, Genesis, None,
    Previous,            \* of each plot but genesis
    ThreadTo,            \* the thread that ends in each plot, genesis first
    Invalid,             \* plots that the processor refuses
    InitialTip,          \* of this node
    InitialRemoteTip, FinalRemoteTip,  \* of each peer
    SyncedHeight,        \* a tip at this height is recent
    maxPlotsPerInv,
    inflightQueueMax,
    downloadQueueMax,
    DenseIDs             \* IDs of a common ancestor request before it skips any

Height(plot) == Len(ThreadTo[plot]) - 1

ASSUME PeerSyncAssumption ==
    /\ Genesis \in Plot /\ None \notin Plot \cup Peer
    /\ Previous \in [Plot \ {Genesis} -> Plot]
    /\ Reliable \subseteq Peer /\ Invalid \subseteq Plot \ {Genesis}
    /\ InitialTip \in Plot
    /\ InitialRemoteTip \in [Peer -> Plot] /\ FinalRemoteTip \in [Peer -> Plot]
    /\ \A p \in Peer : InitialRemoteTip[p] \in Range(ThreadTo[FinalRemoteTip[p]])
    /\ {maxPlotsPerInv, inflightQueueMax, downloadQueueMax} \subseteq Nat \ {0}
    /\ {SyncedHeight, DenseIDs} \subseteq Nat

\* A plot names its predecessor by hash, so each ends a thread of its own.
ASSUME ThreadAssumption ==
    /\ ThreadTo \in [Plot -> Seq(Plot)]
    /\ ThreadTo[Genesis] = <<Genesis>>
    /\ \A plot \in Plot \ {Genesis} : ThreadTo[plot] = Append(ThreadTo[Previous[plot]], plot)

VARIABLES
    known, stored, tip,    \* the ledger's and the storage's view of plots
    owner,                 \* global in-flight queue: who downloads a plot
    link,                  \* this end of each connection
    inbox, outbox,         \* messages on their way from and to each peer
    remoteTip,             \* of each peer
    continuationPlot       \* at each peer: the last plot of its last inventory

ledgerVars == <<known, stored, tip>>
remoteVars == <<remoteTip, continuationPlot>>
vars == <<ledgerVars, owner, link, inbox, outbox, remoteVars>>

IsInitialPlotDownload == Height(tip) < SyncedHeight

\* conn: "down", "new" until the first request is sent, then "up"
\* pc: what the reader does: "read", "process", "remove", "drain" or "claim"
Down == [conn |-> "down", ibd |-> FALSE, pc |-> "read",
         download |-> <<>>, inflight |-> <<>>]

Init ==
    /\ tip = InitialTip
    /\ known = Range(ThreadTo[InitialTip])
    /\ stored = known
    /\ owner = [plot \in Plot |-> None]
    /\ link = [p \in Peer |-> Down]
    /\ inbox = [p \in Peer |-> <<>>]
    /\ outbox = [p \in Peer |-> <<>>]
    /\ remoteTip = InitialRemoteTip
    /\ continuationPlot = [p \in Peer |-> None]

Inv(ids, length) == [type |-> "inv_plot", ids |-> ids, length |-> length]
PlotMessage(id) == [type |-> "plot", id |-> id]
GetPlot(id) == [type |-> "get_plot", id |-> id]
FindCommonAncestor(ids) == [type |-> "find_common_ancestor", ids |-> ids]

Send(p, message) == outbox' = [outbox EXCEPT ![p] = Append(@, message)]

----------------------------------------------------------------------------
(* The common ancestor request *)

Gap(n) == IF n <= DenseIDs + 1 THEN 1 ELSE 2 ^ (n - DenseIDs - 1)

\* IDs of the thread that start is on or branches off from, ever sparser.  Below
\* start they are taken from this node's main thread by height.
AncestorIDs(start) ==
    LET height[n \in Nat] == IF n = 1 THEN Height(start) ELSE height[n - 1] - Gap(n - 1)
        HasID(n) == height[n] \in 1 .. (IF n = 1 THEN Height(start) ELSE Height(tip))
        count == Cardinality({n \in 1 .. Height(start) : \A m \in 1 .. n : HasID(m)})
    IN  [n \in 1 .. count |-> IF n = 1 THEN start ELSE ThreadTo[tip][height[n] + 1]]
          \o <<Genesis>>

SendFindCommonAncestor(p, start) == Send(p, FindCommonAncestor(AncestorIDs(start)))

----------------------------------------------------------------------------
(* Connections *)

\* Mutant of Closed: the plots in flight keep their owner.
ClosedKeepingOwner(p) ==
    /\ link' = [link EXCEPT ![p] = Down]
    /\ inbox' = [inbox EXCEPT ![p] = <<>>]
    /\ outbox' = [outbox EXCEPT ![p] = <<>>]
    /\ continuationPlot' = [continuationPlot EXCEPT ![p] = None]
    /\ UNCHANGED <<owner, remoteTip>>

\* The deferred calls of run, on both ends.
Closed(p) ==
    LET released == {id \in Range(link[p].inflight) : owner[id] = p}
    IN  /\ link' = [link EXCEPT ![p] = Down]
        /\ inbox' = [inbox EXCEPT ![p] = <<>>]
        /\ outbox' = [outbox EXCEPT ![p] = <<>>]
        /\ continuationPlot' = [continuationPlot EXCEPT ![p] = None]
        /\ owner' = [id \in Plot |-> IF id \in released THEN None ELSE owner[id]]
        /\ UNCHANGED remoteTip

Connect(p) ==
    /\ link[p].conn = "down"
    /\ link' = [link EXCEPT ![p] = [Down EXCEPT !.conn = "new", !.ibd = IsInitialPlotDownload]]
    /\ UNCHANGED <<ledgerVars, owner, inbox, outbox, remoteVars>>

\* Five seconds after connecting, from the writer.
FirstRequest(p) ==
    /\ link[p].conn = "new"
    /\ SendFindCommonAncestor(p, tip)
    /\ link' = [link EXCEPT ![p].conn = "up"]
    /\ UNCHANGED <<ledgerVars, owner, inbox, remoteVars>>

Reads(p) == link[p].conn # "down" /\ link[p].pc = "read"

\* The reader finds the connection lost.
Lose(p) ==
    /\ Reads(p)
    /\ p \notin Reliable
    /\ Closed(p)
    /\ UNCHANGED ledgerVars

\* The pong handler: during the initial download it only looks whether that is
\* over, afterwards it tries the download queue again.
Pong(p) ==
    /\ Reads(p)
    /\ link' = IF link[p].ibd
               THEN [link EXCEPT ![p].ibd = IsInitialPlotDownload]
               ELSE [link EXCEPT ![p].pc = "drain"]
    /\ UNCHANGED <<ledgerVars, owner, inbox, outbox, remoteVars>>

\* The pong handler again: in the initial download no new plot has come for
\* longer than syncWait, in which a reliable peer has answered everything.
SyncStalls(p) ==
    /\ Reads(p)
    /\ link[p].conn = "up" /\ link[p].ibd /\ IsInitialPlotDownload
    /\ p \in Reliable => inbox[p] = <<>> /\ outbox[p] = <<>>
    /\ Closed(p)
    /\ UNCHANGED ledgerVars

----------------------------------------------------------------------------
(* processDownloadQueue *)

Drain(p) ==
    /\ link[p].pc = "drain"
    /\ LET queue == link[p].download
       IN  link' = IF Len(link[p].inflight) >= inflightQueueMax \/ queue = <<>>
                   THEN [link EXCEPT ![p].pc = "read"]
                   ELSE IF Head(queue) \in known
                   THEN [link EXCEPT ![p].download = Tail(queue)]
                   ELSE [link EXCEPT ![p].pc = "claim"]
    /\ UNCHANGED <<ledgerVars, owner, inbox, outbox, remoteVars>>

NextDownload(p) == Head(link[p].download)

Request(p, id) ==
    /\ owner' = [owner EXCEPT ![id] = p]
    /\ link' = [link EXCEPT ![p].download = Tail(@),
                            ![p].inflight = Append(@, id),
                            ![p].pc = "drain"]
    /\ Send(p, GetPlot(id))

Claim(p) ==
    /\ link[p].pc = "claim"
    /\ LET id == NextDownload(p)
       IN  /\ owner[id] = None
           /\ Request(p, id)
    /\ UNCHANGED <<ledgerVars, inbox, remoteVars>>

\* Mutant of TakeOver: only the owner may ask again.
TakeOverOwn(p) ==
    /\ link[p].pc = "claim"
    /\ LET id == NextDownload(p)
       IN  /\ owner[id] = p
           /\ Request(p, id)
    /\ UNCHANGED <<ledgerVars, inbox, remoteVars>>

\* The owner has not sent the plot for longer than maxQueueWait.
TakeOver(p) ==
    /\ link[p].pc = "claim"
    /\ LET id == NextDownload(p)
       IN  /\ owner[id] # None
           /\ Request(p, id)
    /\ UNCHANGED <<ledgerVars, inbox, remoteVars>>

\* It may still do so.
Wait(p) ==
    /\ link[p].pc = "claim"
    /\ owner[NextDownload(p)] # None
    /\ link' = [link EXCEPT ![p].pc = "read"]
    /\ UNCHANGED <<ledgerVars, owner, inbox, outbox, remoteVars>>

----------------------------------------------------------------------------
(* Messages *)

IsNext(p, type) == Reads(p) /\ inbox[p] # <<>> /\ Head(inbox[p]).type = type

Consumed(p) == inbox' = [inbox EXCEPT ![p] = Tail(@)]

IsPending(p, id) == id \in Range(link[p].download) \cup Range(link[p].inflight)

\* The IDs of an inventory are handled one by one.
OnInvPlot(p) ==
    /\ IsNext(p, "inv_plot")
    /\ LET message == Head(inbox[p])
           id == Head(message.ids)
           isLast == Len(message.ids) = 1
       IN  /\ IF isLast
              THEN Consumed(p)
              ELSE inbox' = [inbox EXCEPT ![p][1].ids = Tail(@)]
           /\ IF ~IsPending(p, id) /\ id \in known /\ message.length > 1 /\ isLast
              THEN SendFindCommonAncestor(p, id)
              ELSE UNCHANGED outbox
           /\ link' = IF ~IsPending(p, id) /\ id \notin known /\ Len(link[p].download) < downloadQueueMax
                      THEN [link EXCEPT ![p].download = Append(@, id), ![p].pc = "drain"]
                      ELSE link
    /\ UNCHANGED <<ledgerVars, owner, remoteVars>>

\* Mutant of Removed: what another peer has taken over stays in flight here.
RemovedByOwner(p, id) ==
    /\ link' = [link EXCEPT ![p].inflight = IF owner[id] = p
                                           THEN RemoveFirst(@, id)
                                           ELSE @,
                            ![p].pc = "drain"]
    /\ owner' = [owner EXCEPT ![id] = IF @ = p THEN None ELSE @]

\* PlotQueue.Remove, on the local and the global queue; then the next plots.
Removed(p, id) ==
    /\ link' = [link EXCEPT ![p].inflight = RemoveFirst(@, id),
                            ![p].pc = "drain"]
    /\ owner' = [owner EXCEPT ![id] = IF @ = p THEN None ELSE @]

IsUnrequested(p, id) == link[p].inflight = <<>> \/ Head(link[p].inflight) # id

IsOrphan(id) == Previous[id] \notin stored

\* A plot that was not asked for ends the connection, an orphan leads to a
\* common ancestor request, any other plot goes to the processor.
OnPlot(p) ==
    /\ IsNext(p, "plot")
    /\ LET id == Head(inbox[p]).id
       IN  IF IsUnrequested(p, id)
           THEN Closed(p)
           ELSE IF IsOrphan(id)
           THEN /\ Removed(p, id)
                /\ SendFindCommonAncestor(p, tip)
                /\ Consumed(p)
                /\ UNCHANGED remoteVars
           ELSE /\ link' = [link EXCEPT ![p].pc = "process"]
                /\ UNCHANGED <<owner, inbox, outbox, remoteVars>>
    /\ UNCHANGED ledgerVars

\* The processor's answer while the reader waits.  A refused plot may have been
\* stored, and ends the connection.
ProcessPlot(p) ==
    /\ link[p].pc = "process"
    /\ LET id == Head(inbox[p]).id
       IN  IF id \in known \/ (Previous[id] \in known /\ id \notin Invalid)
           THEN /\ known' = known \cup {id}
                /\ stored' = stored \cup {id}
                /\ tip' = IF Height(id) > Height(tip) THEN id ELSE tip
                /\ link' = [link EXCEPT ![p].pc = "remove"]
                /\ UNCHANGED <<owner, inbox, outbox, remoteVars>>
           ELSE /\ stored' \in {stored} \cup (IF id \in Invalid THEN {stored \cup {id}} ELSE {})
                /\ Closed(p)
                /\ UNCHANGED <<known, tip>>

RemoveProcessed(p) ==
    /\ link[p].pc = "remove"
    /\ Removed(p, Head(inbox[p]).id)
    /\ Consumed(p)
    /\ UNCHANGED <<ledgerVars, outbox, remoteVars>>

----------------------------------------------------------------------------
(* The other ends *)

\* The plots after the first of these IDs that is on the peer's main thread.
PlotsAfter(p, ids) ==
    LET thread == ThreadTo[remoteTip[p]]
        ancestor == SelectInSeq(ids, LAMBDA id : id \in Range(thread))
        height == Height(ids[ancestor])
    IN  SubSeq(thread, height + 2, Min({height + 1 + maxPlotsPerInv, Len(thread)}))

Deliver(p, messages) == inbox' = [inbox EXCEPT ![p] = @ \o messages]

OnFindCommonAncestor(p, ids) ==
    LET plots == PlotsAfter(p, ids)
    IN  IF plots = <<>>
        THEN UNCHANGED <<continuationPlot, inbox>>
        ELSE /\ continuationPlot' = [continuationPlot EXCEPT ![p] = Last(plots)]
             /\ Deliver(p, <<Inv(plots, Len(plots))>>)

\* After the last plot of an inventory comes the tip, to prompt another request.
OnGetPlot(p, id) ==
    IF id = continuationPlot[p]
    THEN /\ continuationPlot' = [continuationPlot EXCEPT ![p] = None]
         /\ Deliver(p, <<PlotMessage(id), Inv(<<remoteTip[p]>>, 1)>>)
    ELSE /\ Deliver(p, <<PlotMessage(id)>>)
         /\ UNCHANGED continuationPlot

Answer(p) ==
    /\ outbox[p] # <<>>
    /\ LET message == Head(outbox[p])
       IN  IF message.type = "get_plot"
           THEN OnGetPlot(p, message.id)
           ELSE OnFindCommonAncestor(p, message.ids)
    /\ outbox' = [outbox EXCEPT ![p] = Tail(@)]
    /\ UNCHANGED <<ledgerVars, owner, link, remoteTip>>

\* A peer has a new tip and announces it.
NewRemoteTip(p) ==
    /\ remoteTip[p] # FinalRemoteTip[p]
    /\ LET new == ThreadTo[FinalRemoteTip[p]][Height(remoteTip[p]) + 2]
       IN  /\ remoteTip' = [remoteTip EXCEPT ![p] = new]
           /\ IF link[p].conn = "down"
              THEN UNCHANGED inbox
              ELSE Deliver(p, <<Inv(<<new>>, 1)>>)
    /\ UNCHANGED <<ledgerVars, owner, link, outbox, continuationPlot>>

----------------------------------------------------------------------------

ReadMessage(p) == OnInvPlot(p) \/ OnPlot(p)

Work(p) == Drain(p) \/ Claim(p) \/ Wait(p) \/ ProcessPlot(p) \/ RemoveProcessed(p)

Next ==
    \E p \in Peer :
      \/ Connect(p) \/ FirstRequest(p) \/ Lose(p) \/ Pong(p) \/ SyncStalls(p)
      \/ ReadMessage(p) \/ TakeOver(p) \/ Work(p)
      \/ Answer(p) \/ NewRemoteTip(p)

\* Readers work, a pong comes once a minute, a message that has arrived is not
\* overtaken by pongs for ever, and waiting for another peer has an end.
Fairness ==
    /\ \A p \in Peer :
         /\ WF_vars(Work(p)) /\ SF_vars(Pong(p))
         /\ SF_vars(ReadMessage(p)) /\ SF_vars(TakeOver(p))
    /\ \A p \in Reliable : WF_vars(Answer(p))

Spec == Init /\ [][Next]_vars /\ Fairness

----------------------------------------------------------------------------
(* Correctness *)

(* Types, and the limits of the queues.                                    *)
LinkType ==
    [conn : {"down", "new", "up"}, ibd : BOOLEAN,
     pc : {"read", "process", "remove", "drain", "claim"},
     download : Seq(Plot), inflight : Seq(Plot)]

TypeOK ==
    /\ known \subseteq stored /\ stored \subseteq Plot /\ tip \in known
    /\ owner \in [Plot -> Peer \cup {None}]
    /\ \A p \in Peer :
         /\ link[p] \in LinkType
         /\ Len(link[p].inflight) <= inflightQueueMax
         /\ Len(link[p].download) <= downloadQueueMax
         /\ remoteTip[p] \in Plot

(* What is in flight is exactly what was asked for and has not been        *)
(* handled, in that order: so no answer of a peer that runs this program   *)
(* is taken for an unrequested plot, after takeovers, orphans and lost     *)
(* connections alike.                                                      *)
IDs(messages, type) ==
    LET upTo[n \in 0 .. Len(messages)] ==
          IF n = 0 THEN <<>>
          ELSE IF messages[n].type = type THEN Append(upTo[n-1], messages[n].id)
          ELSE upTo[n-1]
    IN  upTo[Len(messages)]

AnswersAreExpected ==
    \A p \in Peer :
      link[p].inflight = IDs(inbox[p], "plot") \o IDs(outbox[p], "get_plot")

(* A plot of the global queue is in flight on its owner's connection, so a *)
(* closed connection leaves nothing behind that nobody downloads.          *)
OwnersDownload ==
    \A id \in Plot : owner[id] # None => id \in Range(link[owner[id]].inflight)

\* Connections that stay, after the initial download.
ConnectionsLast == <>[](\A p \in Peer : link[p].conn = "up" /\ ~link[p].ibd)

(* If connections last, the node ends at the height of every peer that     *)
(* goes on answering, or it got the last plot of that peer's inventory     *)
(* from another one: the peer waits to be asked for it before it offers    *)
(* more.  Plots that another peer claimed and never sent do not stop it.   *)
SyncCompletesIfAsked ==
    ConnectionsLast =>
      \A p \in Reliable :
        <>[](Height(tip) >= Height(remoteTip[p]) \/ continuationPlot[p] \in known)
=============================================================================
