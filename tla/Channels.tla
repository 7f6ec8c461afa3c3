------------------------------ MODULE Channels ------------------------------
(***************************************************************************)
(* The goroutines around the processor and the channels between them.      *)
(*                                                                         *)
(* Callers put a plot or a representation on a buffered channel and wait   *)
(* for the result.  The processor handles one request at a time; for every *)
(* tip change and every new representation it sends a notice to each       *)
(* registered channel and blocks while that channel is full.  Registering  *)
(* and unregistering are rendezvous with the processor's select statement. *)
(*                                                                         *)
(* Scribers and the peers' writers do both: they read notices, and call    *)
(* the processor with a plot that they, or a peer that scribes for them,   *)
(* have solved.  The peers' readers only call.  Indexers only read, and    *)
(* rank after what they read, which may not end (module Indexer).  Any     *)
(* subscriber may leave, by unregistering.                                 *)
(*                                                                         *)
(* The ledger is abstracted to the thread of plots, each a number and the  *)
(* loose representations it confirms; what a peer's plot does to it is a   *)
(* choice among the outcomes of the module Processor.                      *)
(***************************************************************************)
EXTENDS Integers, Sequences, SequencesExt

CONSTANTS
    Reader, Scriber, Indexer, Writer,  \* goroutines
    Leaving,                           \* the subscribers that may leave
    Tx,                                \* loose representations
    None,
    TipCapacity,                       \* of each subscriber's tip change channel
    TxCapacity,                        \* of each subscriber's new tx channel
    PlotCapacity, RepresentationCapacity,     \* of the processor's channels
    MAX_REPRESENTATIONS_TO_INCLUDE_PER_PLOT,
    MaxCalls,                          \* bound: calls of all readers and writers together
    MaxSolutions                       \* bound: plots solved by scribers

Subscriber == Scriber \cup Indexer \cup Writer
TxSubscriber == Scriber \cup Writer
Caller == Reader \cup Writer
Goroutine == Reader \cup Subscriber

ASSUME ChannelsAssumption ==
    /\ Leaving \subseteq Subscriber
    /\ TipCapacity \in [Subscriber -> Nat \ {0}]
    /\ TxCapacity \in [TxSubscriber -> Nat \ {0}]
    /\ {PlotCapacity, RepresentationCapacity, MAX_REPRESENTATIONS_TO_INCLUDE_PER_PLOT}
         \subseteq Nat \ {0}
    /\ {MaxCalls, MaxSolutions} \subseteq Nat

VARIABLES
    thread,      \* the ledger: plots [id, txs], the genesis plot first
    txQueue,     \* the representation queue
    at,          \* where the processor is: "select", "plot", "queue" or "tx"
    caller,      \* whose request it handles
    todo,        \* tip changes this request still has to make
    settled,     \* history: the last request to change the thread did not break off
    notice,      \* the notice being sent
    left,        \* the subscribers it has not been sent to yet
    tipSubs, txSubs,  \* registered channels, named by their owner
    plotChan, txChan, \* requests: [by, plot] and [by, tx]
    tipChan, newTxChan, \* notices not read yet, by subscriber
    pc,          \* where each goroutine is
    work,        \* the plot each scriber works on: [parent, txs] or None
    count,       \* bounded counters: plots made, changes made, calls, solutions
    heard        \* history: the last tip change each subscriber has read

procVars == <<thread, txQueue, at, caller, todo, settled, notice, left, tipSubs, txSubs>>
vars == <<procVars, plotChan, txChan, tipChan, newTxChan, pc, work, count, heard>>

Genesis == [id |-> 0, txs |-> <<>>]

Init ==
    /\ thread = <<Genesis>>
    /\ txQueue = <<>>
    /\ at = "select"
    /\ caller = None
    /\ todo = <<>>
    /\ settled = TRUE
    /\ notice = None
    /\ left = {}
    /\ tipSubs = {} /\ txSubs = {}
    /\ plotChan = <<>> /\ txChan = <<>>
    /\ tipChan = [s \in Subscriber |-> <<>>]
    /\ newTxChan = [s \in TxSubscriber |-> <<>>]
    /\ pc = [g \in Goroutine |-> IF g \in Reader THEN "run" ELSE "registerTip"]
    /\ work = [s \in Scriber |-> None]
    /\ count = [plots |-> 0, changes |-> 0, calls |-> 0, solutions |-> 0]
    /\ heard = [s \in Subscriber |-> 0]

Tip == Last(thread)

Confirmed(t) == UNION {Range(t[n].txs) : n \in DOMAIN t}

GoTo(g, place) == pc' = [pc EXCEPT ![g] = place]

----------------------------------------------------------------------------
(* What a plot does to the thread *)

Connection(plot, more) == [plot |-> plot, connect |-> TRUE, more |-> more]
Disconnection(plot) == [plot |-> plot, connect |-> FALSE, more |-> FALSE]

NewPlot(n, txs) == [id |-> count.plots + n, txs |-> txs]

\* At most one representation, not confirmed by the thread the plot is put on.
Contents(t) == {<<>>} \cup {<<x>> : x \in Tx \ Confirmed(t)}

Extension(txs) == <<Connection(NewPlot(1, txs), FALSE)>>

\* Mutant of Reorganization: more to come after the last plot.
ReorganizationWithMore(txs) ==
    <<Disconnection(Tip), Connection(NewPlot(1, txs), TRUE), Connection(NewPlot(2, <<>>), TRUE)>>

Reorganization(txs) ==
    <<Disconnection(Tip), Connection(NewPlot(1, txs), TRUE), Connection(NewPlot(2, <<>>), FALSE)>>

\* One that fails at its first or at its second plot; the old tip is put back.
RolledBack(txs) ==
    LET off == Disconnection(Tip)
        back == Connection(Tip, FALSE)
    IN  {<<off, back>>,
         <<off, Connection(NewPlot(1, txs), TRUE), Disconnection(NewPlot(1, txs)), back>>}

\* The old tip is not put back: the graph refuses it, it loses to what has been
\* put on, or taking that off fails.  An error is only logged.
BrokenOff(txs) ==
    LET off == Disconnection(Tip)
        on == Connection(NewPlot(1, txs), TRUE)
    IN  {<<off>>, <<off, on>>, <<off, on, Disconnection(NewPlot(1, txs))>>}

AllBrokenOff == UNION {BrokenOff(txs) : txs \in Contents(Front(thread))}

Reorganizations ==
    IF Len(thread) > 1
    THEN AllBrokenOff \cup UNION {{Reorganization(txs)} \cup RolledBack(txs) :
                                    txs \in Contents(Front(thread))}
    ELSE {}

\* A peer's plot is refused or of a side branch, extends the thread, or causes
\* a reorganization that succeeds or fails.
PeerOutcomes ==
    {<<>>} \cup {Extension(txs) : txs \in Contents(thread)} \cup Reorganizations

\* A scriber's plot on the tip extends it if it is valid; one on another plot is
\* of a side branch, or of one that is the better for it.
IsValid(plot) ==
    IsInjective(plot.txs) /\ Range(plot.txs) \cap Confirmed(thread) = {}

ScriberOutcomes(plot) ==
    IF plot.parent = Tip.id
    THEN {IF IsValid(plot) THEN Extension(plot.txs) ELSE <<>>}
    ELSE {<<>>} \cup Reorganizations

----------------------------------------------------------------------------
(* The processor's goroutine *)

TakePlot ==
    /\ at = "select"
    /\ plotChan # <<>>
    /\ LET call == Head(plotChan)
       IN  /\ caller' = call.by
           /\ todo' \in IF call.plot = None THEN PeerOutcomes ELSE ScriberOutcomes(call.plot)
    /\ settled' = IF todo' = <<>> THEN settled ELSE todo' \notin AllBrokenOff
    /\ plotChan' = Tail(plotChan)
    /\ at' = "plot"
    /\ UNCHANGED <<thread, txQueue, notice, left, tipSubs, txSubs, txChan, tipChan,
                   newTxChan, pc, work, count, heard>>

\* processRepresentation: refused if confirmed or queued, else queued.
TakeRepresentation ==
    /\ at = "select"
    /\ txChan # <<>>
    /\ LET call == Head(txChan)
           isNew == call.tx \notin Confirmed(thread) \cup Range(txQueue)
       IN  /\ caller' = call.by
           /\ txQueue' = IF isNew THEN Append(txQueue, call.tx) ELSE txQueue
           /\ notice' = call.tx
           /\ left' = IF isNew THEN txSubs ELSE {}
    /\ txChan' = Tail(txChan)
    /\ at' = "tx"
    /\ UNCHANGED <<thread, todo, settled, tipSubs, txSubs, plotChan, tipChan, newTxChan, pc,
                   work, count, heard>>

\* connectPlot and disconnectPlot update the ledger first; a scriber may look
\* at the ledger and at the queue before the queue follows.
ChangeLedger ==
    /\ at = "plot"
    /\ left = {}
    /\ todo # <<>>
    /\ LET change == Head(todo)
       IN  /\ thread' = IF change.connect THEN Append(thread, change.plot) ELSE Front(thread)
           /\ notice' = [change |-> change, number |-> count.changes + 1]
           /\ count' = [count EXCEPT !.changes = @ + 1,
                                     !.plots = IF change.connect /\ change.plot.id > @
                                               THEN change.plot.id ELSE @]
    /\ todo' = Tail(todo)
    /\ at' = "queue"
    /\ UNCHANGED <<txQueue, caller, settled, left, tipSubs, txSubs, plotChan, txChan, tipChan,
                   newTxChan, pc, work, heard>>

\* The rest of the queue, in its order.
Without(txs) ==
    LET rest[n \in 0..Len(txQueue)] ==
          IF n = 0 THEN <<>>
          ELSE IF txQueue[n] \in Range(txs) THEN rest[n-1]
          ELSE Append(rest[n-1], txQueue[n])
    IN  rest[Len(txQueue)]

ChangeQueue ==
    /\ at = "queue"
    /\ LET txs == notice.change.plot.txs
       IN  txQueue' = IF notice.change.connect THEN Without(txs) ELSE txs \o Without(txs)
    /\ at' = "plot"
    /\ left' = tipSubs
    /\ UNCHANGED <<thread, caller, todo, settled, notice, tipSubs, txSubs, plotChan, txChan,
                   tipChan, newTxChan, pc, work, count, heard>>

\* Mutant of SendTip: a full channel is skipped.
SendTipUnlessFull(s) ==
    /\ at = "plot"
    /\ s \in left
    /\ tipChan' = IF Len(tipChan[s]) < TipCapacity[s]
                  THEN [tipChan EXCEPT ![s] = Append(@, notice)]
                  ELSE tipChan
    /\ left' = left \ {s}
    /\ UNCHANGED <<thread, txQueue, at, caller, todo, settled, notice, tipSubs, txSubs, plotChan,
                   txChan, newTxChan, pc, work, count, heard>>

\* The channels of a map are visited in any order.
SendTip(s) ==
    /\ at = "plot"
    /\ s \in left
    /\ Len(tipChan[s]) < TipCapacity[s]
    /\ tipChan' = [tipChan EXCEPT ![s] = Append(@, notice)]
    /\ left' = left \ {s}
    /\ UNCHANGED <<thread, txQueue, at, caller, todo, settled, notice, tipSubs, txSubs, plotChan,
                   txChan, newTxChan, pc, work, count, heard>>

SendTx(s) ==
    /\ at = "tx"
    /\ s \in left
    /\ Len(newTxChan[s]) < TxCapacity[s]
    /\ newTxChan' = [newTxChan EXCEPT ![s] = Append(@, notice)]
    /\ left' = left \ {s}
    /\ UNCHANGED <<thread, txQueue, at, caller, todo, settled, notice, tipSubs, txSubs, plotChan,
                   txChan, tipChan, pc, work, count, heard>>

\* Mutant of Reply: a plot that changed nothing is not answered.
ReplyToChange ==
    /\ at = "tx" \/ (at = "plot" /\ notice # None)
    /\ left = {}
    /\ todo = <<>>
    /\ at' = "select"
    /\ notice' = None
    /\ caller' = None
    /\ GoTo(caller, "run")
    /\ UNCHANGED <<thread, txQueue, todo, settled, left, tipSubs, txSubs, plotChan, txChan,
                   tipChan, newTxChan, work, count, heard>>

\* The caller waits for the result, so the send never blocks.
Reply ==
    /\ at \in {"plot", "tx"}
    /\ left = {}
    /\ todo = <<>>
    /\ at' = "select"
    /\ notice' = None
    /\ caller' = None
    /\ GoTo(caller, "run")
    /\ UNCHANGED <<thread, txQueue, todo, settled, left, tipSubs, txSubs, plotChan, txChan,
                   tipChan, newTxChan, work, count, heard>>

Register(s) ==
    /\ at = "select"
    /\ \/ /\ pc[s] = "registerTip"
          /\ tipSubs' = tipSubs \cup {s}
          /\ heard' = [heard EXCEPT ![s] = count.changes]
          /\ GoTo(s, IF s \in TxSubscriber THEN "registerTx" ELSE "run")
          /\ UNCHANGED txSubs
       \/ /\ pc[s] = "registerTx"
          /\ txSubs' = txSubs \cup {s}
          /\ GoTo(s, "run")
          /\ UNCHANGED <<tipSubs, heard>>
    /\ UNCHANGED <<thread, txQueue, at, caller, todo, settled, notice, left, plotChan, txChan,
                   tipChan, newTxChan, work, count>>

\* Mutant of Unregister: the maps change while the processor sends.
UnregisterAnytime(s) ==
    /\ \/ pc[s] = "leaveTx" /\ txSubs' = txSubs \ {s} /\ GoTo(s, "leaveTip") /\ UNCHANGED tipSubs
       \/ pc[s] = "leaveTip" /\ tipSubs' = tipSubs \ {s} /\ GoTo(s, "gone") /\ UNCHANGED txSubs
    /\ UNCHANGED <<thread, txQueue, at, caller, todo, settled, notice, left, plotChan, txChan,
                   tipChan, newTxChan, work, count, heard>>

\* Deferred calls run in reverse order.
Unregister(s) ==
    /\ at = "select"
    /\ \/ pc[s] = "leaveTx" /\ txSubs' = txSubs \ {s} /\ GoTo(s, "leaveTip") /\ UNCHANGED tipSubs
       \/ pc[s] = "leaveTip" /\ tipSubs' = tipSubs \ {s} /\ GoTo(s, "gone") /\ UNCHANGED txSubs
    /\ UNCHANGED <<thread, txQueue, at, caller, todo, settled, notice, left, plotChan, txChan,
                   tipChan, newTxChan, work, count, heard>>

ProcessorStep ==
    \/ TakePlot
    \/ TakeRepresentation
    \/ ChangeLedger
    \/ ChangeQueue
    \/ \E s \in Subscriber : SendTip(s)
    \/ \E s \in TxSubscriber : SendTx(s)
    \/ Reply
    \/ \E s \in Subscriber : Register(s) \/ Unregister(s)

----------------------------------------------------------------------------
(* The peers' readers, and writers whose peers scribe (onSubmitWork) *)

ProcessPlot(c) ==
    /\ pc[c] = "run"
    /\ count.calls < MaxCalls
    /\ Len(plotChan) < PlotCapacity
    /\ plotChan' = Append(plotChan, [by |-> c, plot |-> None])
    /\ count' = [count EXCEPT !.calls = @ + 1]
    /\ GoTo(c, "wait")
    /\ UNCHANGED <<procVars, txChan, tipChan, newTxChan, work, heard>>

\* onPushRepresentation passes on only what is not queued.
ProcessRepresentation(c, x) ==
    /\ pc[c] = "run"
    /\ count.calls < MaxCalls
    /\ Len(txChan) < RepresentationCapacity
    /\ x \notin Range(txQueue)
    /\ txChan' = Append(txChan, [by |-> c, tx |-> x])
    /\ count' = [count EXCEPT !.calls = @ + 1]
    /\ GoTo(c, "wait")
    /\ UNCHANGED <<procVars, plotChan, tipChan, newTxChan, work, heard>>

----------------------------------------------------------------------------
(* Subscribers *)

\* createNextPlot: one place is kept for the plotroot.
NextPlot(parent) ==
    [parent |-> parent,
     txs |-> SubSeq(txQueue, 1, IF Len(txQueue) < MAX_REPRESENTATIONS_TO_INCLUDE_PER_PLOT - 1
                                THEN Len(txQueue)
                                ELSE MAX_REPRESENTATIONS_TO_INCLUDE_PER_PLOT - 1)]

\* An indexer that no more is announced to ranks; where the keys represent each
\* other in a circle it may do so for ever.
ReadTip(s) ==
    /\ pc[s] = "run"
    /\ tipChan[s] # <<>>
    /\ LET change == Head(tipChan[s]).change
       IN  /\ work' = IF s \in Scriber /\ change.connect /\ ~change.more
                      THEN [work EXCEPT ![s] = NextPlot(change.plot.id)]
                      ELSE work
           /\ UNCHANGED pc \/ (s \in Indexer /\ ~change.more /\ GoTo(s, "rank"))
    /\ tipChan' = [tipChan EXCEPT ![s] = Tail(@)]
    /\ heard' = [heard EXCEPT ![s] = Head(tipChan[s]).number]
    /\ UNCHANGED <<procVars, plotChan, txChan, newTxChan, count>>

HasRoom(plot) == Len(plot.txs) + 1 < MAX_REPRESENTATIONS_TO_INCLUDE_PER_PLOT

ReadTx(s) ==
    /\ pc[s] = "run"
    /\ newTxChan[s] # <<>>
    /\ work' = IF s \in Scriber /\ work[s] # None /\ HasRoom(work[s])
               THEN [work EXCEPT ![s].txs = Append(@, Head(newTxChan[s]))]
               ELSE work
    /\ newTxChan' = [newTxChan EXCEPT ![s] = Tail(@)]
    /\ UNCHANGED <<procVars, plotChan, txChan, tipChan, pc, count, heard>>

\* The default case of the scriber's select: nothing to read.
IsQuiet(s) == pc[s] = "run" /\ tipChan[s] = <<>> /\ newTxChan[s] = <<>>

\* The tip is read from the ledger, and the queue after that.
ReadThreadTip(s) ==
    /\ IsQuiet(s)
    /\ work[s] = None
    /\ work' = [work EXCEPT ![s] = [parent |-> Tip.id, txs |-> <<>>]]
    /\ GoTo(s, "create")
    /\ UNCHANGED <<procVars, plotChan, txChan, tipChan, newTxChan, count, heard>>

CreateNextPlot(s) ==
    /\ pc[s] = "create"
    /\ work' = [work EXCEPT ![s] = NextPlot(@.parent)]
    /\ GoTo(s, "run")
    /\ UNCHANGED <<procVars, plotChan, txChan, tipChan, newTxChan, count, heard>>

Solve(s) ==
    /\ IsQuiet(s)
    /\ work[s] # None
    /\ count.solutions < MaxSolutions
    /\ Len(plotChan) < PlotCapacity
    /\ plotChan' = Append(plotChan, [by |-> s, plot |-> work[s]])
    /\ work' = [work EXCEPT ![s] = None]
    /\ count' = [count EXCEPT !.solutions = @ + 1]
    /\ GoTo(s, "wait")
    /\ UNCHANGED <<procVars, txChan, tipChan, newTxChan, heard>>

\* Mutant of Leave: also while a result is due.
LeaveAnytime(s) ==
    /\ pc[s] \in {"run", "wait"}
    /\ GoTo(s, IF s \in TxSubscriber THEN "leaveTx" ELSE "leaveTip")
    /\ UNCHANGED <<procVars, plotChan, txChan, tipChan, newTxChan, work, count, heard>>

Leave(s) ==
    /\ pc[s] = "run"
    /\ GoTo(s, IF s \in TxSubscriber THEN "leaveTx" ELSE "leaveTip")
    /\ UNCHANGED <<procVars, plotChan, txChan, tipChan, newTxChan, work, count, heard>>

Listen(s) ==
    \/ ReadTip(s)
    \/ s \in TxSubscriber /\ ReadTx(s)
    \/ s \in Scriber /\ (ReadThreadTip(s) \/ CreateNextPlot(s))

Next ==
    \/ ProcessorStep
    \/ \E c \in Caller : ProcessPlot(c)
    \/ \E c \in Reader : \E x \in Tx : ProcessRepresentation(c, x)
    \/ \E s \in Subscriber : Listen(s)
    \/ \E s \in Scriber : Solve(s)
    \/ \E s \in Leaving : Leave(s)

\* Every goroutine that can go on does; nobody has to call, solve or leave, and
\* an indexer that ranks need not come back to its channel.
Spec ==
    /\ Init /\ [][Next]_vars
    /\ WF_vars(ProcessorStep)
    /\ \A s \in Subscriber : WF_vars(Listen(s))

----------------------------------------------------------------------------
(* Correctness *)

(* Types, and no channel holds more than it was made for.                  *)
Places ==
    {"registerTip", "registerTx", "run", "create", "rank", "wait", "leaveTx", "leaveTip", "gone"}

TypeOK ==
    /\ thread \in Seq([id : Nat, txs : Seq(Tx)]) /\ Head(thread) = Genesis
    /\ txQueue \in Seq(Tx) /\ IsInjective(txQueue)
    /\ at \in {"select", "plot", "queue", "tx"}
    /\ at = "select" => todo = <<>> /\ left = {}
    /\ tipSubs \subseteq Subscriber /\ txSubs \subseteq TxSubscriber
    /\ Len(plotChan) <= PlotCapacity /\ Len(txChan) <= RepresentationCapacity
    /\ \A s \in Subscriber : Len(tipChan[s]) <= TipCapacity[s]
    /\ \A s \in TxSubscriber : Len(newTxChan[s]) <= TxCapacity[s]
    /\ pc \in [Goroutine -> Places]
    /\ \A s \in Scriber :
         work[s] # None => Len(work[s].txs) < MAX_REPRESENTATIONS_TO_INCLUDE_PER_PLOT

(* From its registration on, a subscriber hears of every tip change, once  *)
(* and in order: peers relay them as filter_plot and filter_plot_undo, and *)
(* the indexer links and unlinks by them.                                  *)
Sent(s) ==
    count.changes - (IF at = "queue" \/ (at = "plot" /\ s \in left) THEN 1 ELSE 0)

NoticesAreComplete ==
    \A s \in tipSubs :
      /\ heard[s] + Len(tipChan[s]) = Sent(s)
      /\ \A n \in DOMAIN tipChan[s] : tipChan[s][n].number = heard[s] + n

(* A scriber that has read all its notices works on the current tip, also  *)
(* after a reorganization that was rolled back.  The exception is the time *)
(* from a request that broke off to the next one that changes the thread:  *)
(* the roll-back of a failed reorganization may fail too, or leave part of *)
(* the new branch on, and the last notice is then of a disconnected plot   *)
(* or of one with more to come, which a scriber passes over.               *)
ScriberFollowsTip ==
    at = "select" /\ settled =>
      \A s \in Scriber \cap tipSubs :
        pc[s] = "run" /\ tipChan[s] = <<>> /\ work[s] # None => work[s].parent = Tip.id

(* A call is in one place, a channel or the processor's hand, from when it *)
(* is made until it is answered, and its caller waits for it: the result   *)
(* goes over an unbuffered channel, and sending it never blocks the loop.  *)
Calls(g) ==
    ({"plot"} \X {n \in DOMAIN plotChan : plotChan[n].by = g})
      \cup ({"tx"} \X {n \in DOMAIN txChan : txChan[n].by = g})
      \cup (IF at # "select" /\ caller = g THEN {<<"processor", 0>>} ELSE {})

CallersWait ==
    \A g \in Goroutine :
      /\ pc[g] = "wait" <=> Calls(g) # {}
      /\ \A c, d \in Calls(g) : c = d

(* Whom the processor has still to send a notice to has not left: a channel *)
(* that fills up without a reader would stop the node.                      *)
NoticesHaveReaders ==
    \A s \in left :
      /\ pc[s] \notin {"registerTip", "gone"}
      /\ at = "tx" => pc[s] \notin {"registerTx", "leaveTip"}

(* Results and notices are sent from the processor's loop: whomever it     *)
(* sends to, and will send to for the calls it has, is there to receive.   *)
ReceiversAreThere == CallersWait /\ NoticesHaveReaders

(* Every call of ProcessPlot or ProcessRepresentation gets its result.     *)
CallsReturn == \A g \in Goroutine : pc[g] = "wait" ~> pc[g] # "wait"

(* There are two ways not to get it.  Either the processor sends to a      *)
(* channel that is full and whose reader itself waits for the processor:   *)
(* for a result, or to register or unregister.  Or it sends to one whose   *)
(* reader, an indexer, ranks for ever and waits for nobody.                *)
IsFull(s) ==
    \/ at = "plot" /\ Len(tipChan[s]) = TipCapacity[s]
    \/ at = "tx" /\ Len(newTxChan[s]) = TxCapacity[s]

InCycle == \E s \in left : IsFull(s) /\ pc[s] \in {"registerTx", "wait", "leaveTx", "leaveTip"}

BehindRanking == \E s \in left : IsFull(s) /\ pc[s] = "rank"

CallsReturnUnlessStuck ==
    \A g \in Goroutine : pc[g] = "wait" ~> pc[g] # "wait" \/ InCycle \/ BehindRanking
=============================================================================
