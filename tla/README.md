# A TLA+ model of plot-thread

plot-thread is a peer-to-peer ledger written in Go. A *plot* (a block) holds
*representations* (transactions of exactly one unit); the first one of a plot is
its *plotroot*, which credits the scriber (miner). Plots form a *thread*; every
node follows the thread with the most work and keeps, for every public key, an
*imbalance* (its units). A *representation graph* between keys is used to refuse
cycles and to rank keys.

This directory holds TLA+ modules for the node (the ledger and what decides what
is in it, the goroutines around it, its peers and its connections) and for the
keyholder (the program with a user's keys), the configurations that check them with
TLC, and theorems about them proved with TLAPS.

## 1. The system

| Component | State | Operations | Interacts with |
|---|---|---|---|
| Processor (`processor.go`) | registered channels; otherwise the databases | `processPlot`, `acceptPlot`, `acceptPlotContinue`, `reconnectTip`, `processRepresentation`, (un)registration | one goroutine; calls ledger, storage and queue; sends `NewTx` and `TipChange` synchronously on channels of scriber, indexer, peers |
| Ledger (`ledger_disk.go`) | thread tip, plot by height, branch types, representation index, public-key index, imbalances | `ConnectPlot`, `DisconnectPlot`, `SetBranchType`, queries | one atomic synced batch per call; reads the plot storage and the graph |
| Imbalance cache (`imbalance_cache.go`) | imbalances touched so far | `Apply`, `Undo`, `Reset` | falls back to the ledger; one per connect or disconnect, one in the queue |
| Representation graph (`representation_graph.go`) | nodes, weighted edges | `Link`, `IsParentDescendant`, `Rank` | written by the indexer, read by the processor and by peers, without a lock |
| Plot storage (`plot_storage_disk.go`) | plots, headers, time of storing | `Store`, `GetPlot`, `GetPlotHeader`, ... | written by the processor, read by all |
| Representation queue (`representation_queue_memory.go`) | FIFO list, map by ID, imbalance cache | `Add`, `AddBatch`, `RemoveBatch`, `Get` | written by the processor, read by scriber and peers |
| Indexer (`indexer.go`) | height and plot it got to, the plot the ranking is of | reads the thread, registers, links and ranks what tip changes tell it | fills the graph that the ledger asks; channel of capacity 1 from the processor |
| Scriber (`scriber.go`) | plot being hashed | new plot on tip change or new representation; `ProcessPlot` when solved | channels of capacity 1 from the processor, which it also calls |
| Peer (`peer.go`, `plot_queue.go`) | in-flight and queued plots, filters, work | inventories, download, common ancestor, queries, work for scribing pools | a reader and a writer goroutine per connection; calls the processor |
| Peer manager (`peer_manager.go`) | inbound and outbound sets, inbound count by host, channel of addresses, whether it accepts and is known to be reachable | a main loop that dials, drops and stores; one handler per inbound connection; `Shutdown` | starts peers, waits for their ends, is called back by their readers; calls the storage |
| Peer storage (`peer_storage_disk.go`) | per address its last attempt and success, an index by each time, the connected addresses in memory | `Store`, `Get`, `Delete`, `OnConnectAttempt`, `OnConnectSuccess`, `OnConnectFailure`, `OnDisconnect` | a read and a batch per call, without a lock; called by the main loop, handlers and peers' writers |
| Keyholder (`keyholder.go`, `keyholder/main.go`) | encrypted keys and the newest one, passphrase, filter; one connection, its two channels | commands of one or several calls, new and imported keys, connecting, `Shutdown` | a command line, a reader and a writer goroutine; the peer it is connected to |
| Client, inspector (`client/`, `inspector/`) | none | start-up, shutdown order; offline verification of the sum of imbalances | |
| DNS, IRC, TLS, UPnP, header hasher, genesis tool | none of the ledger's | input and output | |

### What is hard here, and what makes it correct

* **Reorganization.** A better branch is connected plot by plot after the old one
  was taken off plot by plot. Plots of a side branch have never been connected
  before, so a refusal in the middle is normal, and the old thread must then be put
  back (`BestThread`, `OldThreadFitsAgain`, `ProcessingEnds`).
* **Crashes.** Every plot of a reorganization is a durable write of its own, and a
  restart does not look for unfinished work (`BestThread`, `ImplementsLedger`,
  `BranchTypesMatchThread`).
* **Pruning.** The index that prevents a representation from being confirmed twice
  forgets everything older than two series (`NoDoubleConfirmation`,
  `RepIndexIsExact`).
* **Incremental imbalances.** Stored imbalances are only adjusted, plotroots with a
  delay, and undone in reverse (`ImbalancesMatchThread`, `UndoNeverPanics`).
* **A queue that follows the ledger.** Disconnected representations return to the
  queue and confirmed ones leave it, plot by plot, also when a reorganization is
  rolled back (`NothingQueuedIsConfirmed`, `QueueIsEligible`, `NothingIsForgotten`);
  its cached imbalances must agree with what it holds (`QueueIsFundedUntilDrift`).
* **A graph that lags.** Whether a plot can be connected depends on a graph that
  another goroutine fills later, from the notices of reorganizations it may hear of
  halfway; edges stay when plots are disconnected, and a ranking of a graph with a cycle
  may never end (`WeightsFollowThread`, `RankIsOfTip`, `VettedPlotsCloseNoCycle`,
  `ImplementsProcessor`, `IndexerRegisters`).
* **Validity that depends on the main thread.** The target of a side-branch plot is
  computed from the main thread's height index; see "Observations".
* **Channels.** The processor sends synchronously to goroutines that block on the
  processor; registration and shutdown use unbuffered channels, and so do results
  (`NoticesAreComplete`, `ScriberFollowsTip`, `ReceiversAreThere`,
  `CallsReturnUnlessStuck`).
* **Download.** Plots arrive from several peers, requests are taken over after a
  timeout and connections end with requests open: no honest answer may be taken for an
  unrequested one (`AnswersAreExpected`), nothing may stay claimed by a connection that
  is gone (`OwnersDownload`), and the node must reach every answering peer's height
  (`SyncCompletesIfAsked`).
* **Connections.** Dialling, accepting, the ends of a peer's two goroutines and
  `Shutdown` overlap; sets, counts and the storage's marks must be given back exactly
  once (`InboundIsCounted`, `OutboundIsUnique`, `MarkedAreConnected`), nothing may be
  left running (`ShutdownLeavesLatecomers`, `ShutdownEnds`) and the one peer of a node
  started with `-peer` must be tried again (`ExplicitIsRetried`).
* **A database of addresses without a lock.** Three kinds of goroutine read a record
  and write back one computed from it (`IndicesMatchInfoUnlessRaced`).
* **Answers matched by order.** A keyholder's requests carry no number; lost
  connections, late errors and unknown answers must not shift them (`AnswersAreOwn`,
  `CallsReturn`, `ShutdownEnds`).
* **Keys.** The passphrase is checked against one key only, and the filter is kept in
  three places, any of which may refuse it (`KeysAreReadable`, `FilterHasKeys`,
  `PeerHasKeys`).

`PROJECT.json` lists each hazard at its line, with the properties that watch it.

## 2. The modules

```
PlotTree            plots, representations, the checks that depend on them alone
  |-- ImbalanceCache        Apply and Undo, one call and a run of calls
  |-- RepresentationGraph   links and the cycle check
  |-- Thread                abstract specification: a thread, nothing stored
  |
  Ledger  (ImbalanceCache + RepresentationGraph)     implements Thread
    |-- MCLedger                                     TLC instance
    |-- LedgerProofs
    |
    Processor                                        implements Ledger
      |-- MCProcessor                                TLC instance
      |-- ProcessorProofs (with LedgerProofs)
      |
      |-- QueuedProcessor (with RepresentationQueue) Processor and its queue
      |     |-- MCQueue                              TLC instance
      |     |-- QueueProofs (with ProcessorProofs)
      |
      Indexer       Processor and the indexer that   implements Processor
        |           follows it and fills its graph
        |-- MCIndexer                                TLC instance
        |-- IndexerProofs (with ProcessorProofs)

Channels            the goroutines around the processor (the ledger abstracted)
  |-- MCChannels                                     TLC instance
  |-- ChannelsProofs

PeerSync            downloading from several peers (the processor abstracted)
  |-- MCPeerSync                                     TLC instance
  |-- PeerSyncProofs

PeerStorage         the database of addresses
  |
  PeerManager       the connections of a node
    |-- MCPeerManager                                TLC instance
    |-- PeerManagerProofs

KeyStore            a keyholder's keys, passphrase and filter
  |
  Keyholder         its commands, goroutines and connections, and the peer
    |-- MCKeyholder                                  TLC instance
    |-- KeyholderProofs
```

**PlotTree.** A header names its predecessor by hash, so the plots a node can ever
be shown form a fixed tree: `Plot`, `Previous`, `Height`, `ThreadWork`, ... are
constants with the assumptions a hash tree gives. A representation's ID is the hash
of its contents, so a representation *is* the record of its contents. Operators keep
the code's names: `IsMature`, `IsExpired`, `CheckRepresentationSeries`, `CheckPlot`,
`ComputeMedianTimestamp`, `CheckPlotInContext` (the part of `acceptPlot` that needs
the predecessors only), `Compare`.

**ImbalanceCache.** A cache is a function on keys; the code's fall-back to the ledger
for an untouched key is the ledger's imbalance at the start. `Applied` and `Undone`
say what a run of calls leaves behind by counting, since each representation moves
one unit; they need no recursion, and `AppliedCalls` and `UndoneCalls` (`LedgerProofs`)
show that they are what the calls do.

**RepresentationGraph.** The set of edges. The weights are in `Indexer`: `dfs` follows an
edge whatever its weight, so for the cycle check disconnecting never removes one. Keys
that spell a location code are indexed under another node by the code; the model's keys
are ordinary ones.

**Ledger.** One variable per table of the database, and the graph. `ConnectPlot` and
`DisconnectPlot` each write one batch, so each is one action that includes the prune and
restore of indices; every error return is a named conjunct (`LinksToTip`, `IsUnprocessed`,
`IsFunded`, `IsAcyclic`, `CanConnect`, `CanDisconnect`). `IndexLinks` adds the links of
any plot at any time, so the graph may lag by any number of plots and may still be given
those of a plot after its disconnection; `Processor` restricts it to plots that are or
were on the thread, and `Indexer` says which and when. `LoseGraph` is a restart. Positions
in a plot count from 1, the code's from 0. A representation for the key whose base64 text
is all zeros would be confused with a plotroot's sender in the graph and is left out.

**Thread.** What the ledger promises: a sequence of plots, `Extend` and `Retract`,
every imbalance computed from the whole thread. `Ledger` implements it under
`thread <- CurrentThread`.

**Processor.** The goroutine that handles one plot at a time, as a small state machine
(`phase`): `AcceptPlot` is everything up to storing the plot, `ChooseNewThread` the walk
back to the common ancestor, `Disconnect` and `Connect` one plot each, `ReconnectTip` the
roll-back by a second call of `acceptPlotContinue`, `GiveUp` an error that is returned or
logged. `Crash` can happen anywhere: the databases stay, the work in hand and the graph
go. Three history variables name what the properties must excuse. `disturbed`: a crash or
a failed roll-back cut an adjustment short. `stranded`: one was cut short at the current
tip (while the processor works, at `oldTip`), so the tip need not be the best plot known.
`misfiled`: such tips that a later roll-back flagged SIDE where they stand on the thread;
a plot leaves the set when it is disconnected. A nil dereference in
`computeTargetBitcoinCash` (no plot at the window's height) stops the program before
anything is written; it is a plot that is not accepted.

**RepresentationQueue.** The list and its imbalance cache. The cache is filled lazily:
an untouched key (`None`) falls back to the ledger at the time it is asked about.
`Add` applies before it asks the graph, as the code does. `Reprocessed` is
`reprocessQueue`, one round per element of the list, beginning with an empty cache.

**QueuedProcessor.** Every action of `Processor` joined with what it does to the
queue: `Disconnect` with `AddBatch`, `Connect` with `RemoveBatch` (`more` unless it is
the last), a crash with the loss of the queue, and `ProcessRepresentation` between
plots. The ledger's batch and the queue's update after it are one step; readers of
both (scriber, peers) are not in this module.

**Channels.** One action per step of a goroutine between two places where it can block.
The processor (`at`) takes a request, changes the ledger, changes the queue, sends the
notice to every registered channel in any order, and replies; `Register` and `Unregister`
are its rendezvous. A reader puts a plot or a representation on the processor's channel
and waits. Subscribers read their channels; `Scriber` also builds a plot (`ReadThreadTip`,
`CreateNextPlot`), adds representations it hears of, and calls the processor with the plot
it solved. `Leave` is a shutdown or a lost connection: the goroutine stops reading and
runs its deferred calls. The ledger is the sequence of plots and what they confirm, and
what a peer's plot does to it is one of the outcomes `Processor` has, of depth one: an
extension, a reorganization, one that is rolled back, and one whose roll-back fails too
and is only logged, or stops on the new branch (`BrokenOff`). A scriber's plot that is not
on the tip has the outcomes of a peer's. A peer's writer whose peer scribes calls
`ProcessPlot` too (`onSubmitWork`). An indexer that no more is announced to ranks (`pc =
"rank"`), for which it leaves its channel alone and from which it need not come back.
`heard` is a history variable, and so is `settled`: the last request that changed the
thread did not break off.

**PeerSync.** One node and the other ends of its connections. `link[p]` is what a `Peer`
value keeps (download queue, local in-flight queue, `ibd`) and where its reader is (`pc`);
`owner` is the global in-flight queue; `inbox` and `outbox` are the connection and the
channel before it, in order. The reader's work is split where another reader can come in
between: looking the plot up in the ledger (`Drain`), claiming it in the global queue
(`Claim`, `TakeOver`, `Wait`), the processor's answer (`ProcessPlot`) and the release of
the plot (`RemoveProcessed`). Clocks are not kept: a claim may be taken over at any time,
and an initial download may be found stalled whenever a reliable peer has nothing left
to answer, so every real timing is among the model's. The other ends answer with the
code of the same program (`onFindCommonAncestor`, `onGetPlot` with its continuation
plot, and the inventory of a new tip); those not in `Reliable` may stop at any time. The
processor is reduced to three sets of plots: processed, stored and refused. A connection
that the reader closes ends in the same step. Checkpoints are disabled in the code
(`CheckpointsEnabled`), which makes the list of ignored plots dead code, and
inventories that are too long or answers that a plot is unknown come from no such peer.

**Indexer.** `Processor` and the indexer's goroutine on both ends of one channel of
capacity 1 (`outgoing`, `tipChan`): a connect or a disconnect sends its notice, if the
indexer is registered, before the processor goes on. `doing` is where the indexer's
goroutine is: waiting for the first sync, reading a height, linking a plot, ranking,
registering, listening. `weight` has the weights of the edges and `graph`, the processor's
variable, says which exist; the ranking is represented by the weights it was computed from
(`ranked`). Two history variables name what the properties must excuse: plots connected or
disconnected between the first reading and the registration (`unheard`), and plots checked
against a graph that was behind (`unvetted`). The code ranks with a damping factor of 1,
with which only rank that reaches a key without outgoing weight leaks. `Settles` says when
each key reaches such a key, so that the iteration converges; otherwise it may go round a
cycle for ever, which depends on the numbers. `RankGraph` may then still be taken but is
not among the steps that are certain (`CertainStep`). `Indexer` implements `Processor`:
the graph the ledger is given is among those `Processor` allows, and waiting for the
channel stops the processor only if such a ranking goes on for ever (`RunsOn`).

**PeerStorage.** Each operation is two steps, `Read` of an address's record and a `Write`
of one batch computed from what was read, by any of the goroutines that call it. Times
count the changes of the clock; whether an interval (hours for a retry, a week for a
deletion) has passed is a choice between what the code could find. An address never tried
has the random low rank that the code gives it. `Results` are the lists `Get` may return.
`raced` is a history variable: addresses written from a record that had changed.

**PeerManager.** The main loop is one state machine (`main.pc`); each step lies between
two calls of the storage or two places where another goroutine can come in. `connect`
reserves a place in the outbound set, records the attempt, dials, and runs the peer or
gives the place back. An inbound connection's handler checks the limits, stores the
address and takes the connection over, adds it to the set and runs it, in steps of their
own. A peer's reader and writer end separately, in any order. `Shutdown` stops the main
loop first, then copies the sets, then closes and waits for each peer. Other nodes refuse,
accept and close as they like. `latecomers` and `crowded` are history variables: inbound
peers that `Shutdown` missed, and hosts whose connections passed the check of their limit
before one of them was counted.

**KeyStore, Keyholder.** An encrypted key is the passphrase it was encrypted with. A
command is a sequence of requests (`Command`): `Send` is the rendezvous with the writer,
`TakeResult` takes from the channel of results, which holds one. The goroutines use the
keyholder's fields each time they need the connection or a channel, and connecting again
changes these, so a writer of an old connection may end up on the new one's; `late` is a
history variable that says when. `Lose`, `Quit` and `Restart` can come at any time that
the code allows. The peer answers in order with the type of message its code sends
(`AnswerType`), which need not be one the keyholder's reader hands on (`Handled`). The
answers to `Fallible` requests can hold an error, which ends the call and with it the
command; a peer that refuses a filter keeps the one it has, and the connection (`refused`,
a history variable). The keyholder's own filter is of a fixed size: `NewKeysRefused` is
the insertion that fails, or the batch that is not written, after which no new key is
stored, but the filter may have displaced a key to make room (`displaced`, a history
variable).

## 3. The runs

| Run | Expect | Question |
|---|---|---|
| `ledger` | pass | Over every thread of a tree of plots up to height 6 (three series of two plots, maturity 1), with connects, disconnects, an indexer at any lag and restarts, do indices, imbalances and undo stay exact, and is it a `Thread`? |
| `processor` | pass | Three branches of ten plots, one of them with an overdraft that only connecting shows, one with another thread's target; every order of arrival, two clock values, crashes anywhere: does the node end on the best thread, or back on the old one? |
| `queue` | pass | Loose representations between plots of two branches, with reorganizations that succeed and that fail: is the queue fit for the next plot, and is nothing forgotten? |
| `maturity` | violation | `representation.go:22` and `:95` and the keyholder's prompt say that a representation cannot be scribed before its maturity; one that matures at height 3 is queued for height 2. |
| `indexer` | pass | Two branches with opposite representations, one of which a roll-back may disconnect, while the indexer reads, registers and listens: are weights and ranking those of the thread, are cycles refused when the graph is up to date, and is it still the processor? |
| `channels` | pass | A reader, a scriber and an indexer that may leave, and a peer's writer: are notices complete and in order, does the scriber end up on the tip unless a roll-back broke off, is whomever the processor sends to there to receive, and is a reply missing only in a cycle of waiting around a full channel, or behind an indexer that ranks for ever? |
| `hang` | violation | `processor.go:121` sends back the result of every plot; a scriber that waits for it while its own channel of tip changes is full stops the processor for good. |
| `sync` | pass | A peer that answers for ever with three plots, and one that has two of them, then forks off with a refused plot, and may stall or leave whenever it likes: is every answer an expected one, is nothing left claimed, and does the node get to the first peer's height? |
| `peers` | pass | Dialling, accepting, losing and refreshing connections, and a shutdown at any point: are counts, sets, marks and the storage's indices right, and is nothing left running but latecomers? |
| `peers_ending` | pass | With the channel of addresses full at one entry: does `Shutdown` end, and is the explicit peer dialled again? |
| `keyholder` | pass | Commands of several calls, a generated and an imported key, two passphrases, refused keys, filters and calls, lost connections and restarts: does each call take its own answer, and is every key readable and watched, but for those named? |
| `keyholder_calls` | pass | With one key and one passphrase: does a call return, and does `Shutdown` end? |

Bounds. *Ledger*: series of 2, maturity 1 and height 6 make plots prune and restore
indices of the first two series while threads differ below the pruned height; up to two
transfers per plot in both directions between two keys make overdrafts, repeated
representations within and across series, and cycles. The choices per height are listed in
`MCLedger.ChoicesAt`. No action of `Ledger` depends on a branch type except that a plot
can be flagged only if its predecessor is known, which changes nothing else; the view
leaves the branch types out, and `Processor` has them in its state. *Processor*: ten plots
are the least with a fork at genesis, a fork above it, a reorganization of depth three
that fails after connecting a plot, and a child of the plot that failed. Two clock values,
of which the first is too early for most plots, make ties broken by time and by ID, plots
refused and later accepted, and `when` overwritten. The retarget window is 3, no less than
any fork. *Queue*: seven plots with a reorganization each way and one that fails at its
third plot, three keys, seven loose representations of which one expires and one has a
maturity height of 3 (which the code admits at heights 2 and 3), a limit of three (which
`AddBatch` exceeds). One clock value makes ties break by ID. *Channels*: one call, of a
reader or a writer, and two solutions of the scriber are enough for an extension, a
reorganization (also one rolled back or broken off) by a peer's plot or by a stale plot of
the scriber, and for two goroutines that wait at the same time (329,000 states); the
scriber's and the indexer's channels have the code's capacity of 1, the writer's (10 and
10000) are shortened to 2 and 1 so that they can be full. *PeerSync*: the code's limits
(500 plots per inventory, 8 in flight, 5000 queued, 10 dense IDs) shrink to 2, 1, 4 and 1,
so that a thread of three plots needs a second inventory, the in-flight limit and the
sparse IDs; two of the plots are offered by both peers, which is what takeover needs. The
height above which the initial download is over is 1. A peer may come and go any number of
times. *Indexer*: five plots (a common one, a branch of one and a branch of two) are the
least with a reorganization, one that the cycle check stops halfway, and its roll-back;
the indexer may be restarted any number of times. *PeerManager*: one other node's address
and the node's own, two generations of an outbound connection, so that a second can be
dialled while the first one's writer still ends; two handlers of one host with a limit of
one, so that both can pass the check; four ways to start the node (`MCConfiguration`); two
ranks and two clock values tell never tried, tried before and tried now apart. The channel
of addresses (10000 in the code) holds one, so that it can be full. `peers` has 3.1
million states; `peers_ending` (one outbound and one inbound connection, one clock value,
without the start in which both nodes dial each other) has 30,000, which liveness needs.
*Keyholder*: two connections are what a late writer needs, and three calls are a filter
and an answered call on one of them and a filter on the other; one relayed representation
on its way at a time; a generated and an imported key, so that inserting one can displace
the other (10 million states). `keyholder_calls`, for liveness, is without the imported
key and the second passphrase (434,000). The reader's and the writer's channels have the
code's capacities of 1 and 0.

Fairness: `WF_vars(Step)` in `Processor` says that the goroutine goes on while it has a
plot in hand; in `Channels` the processor goes on while any of its steps can be taken, and
each subscriber reads its channels, but an indexer that ranks need not come back. Both are
Go's scheduling. In `PeerSync` every reader goes on with what it began
(`WF_vars(Work(p))`). Pongs and messages are strong: pongs come once a minute
(`SF_vars(Pong(p))`), a message that has arrived is not overtaken by pongs for ever
(`SF_vars(ReadMessage(p))`), and a claim that another reader keeps does not stay younger
than `maxQueueWait` for ever (`SF_vars(TakeOver(p))`). Only peers in `Reliable` must
answer. Completion is claimed for executions in which connections come to last and the
initial download is over (`ConnectionsLast`): before that a reader that finds the download
stalled hangs up, and two of them can do so in turn. In `Indexer` the processor and the
indexer's goroutine each go on, but for a ranking of a graph on which it need not converge
(`WF(CertainStep)`), and a registration offered again and again is taken, since Go's
`select` chooses at random among what is ready (`SF(RegisterForTipChange)`); nothing makes
a first sync end. In `PeerManager` the main loop and `Shutdown` go on, handlers finish,
the ticker fires (`SF(Tick)`) and the cancelled context is not passed over for ever
(`SF(TakeShutdown)`); a peer that is waited for goes on whenever it can (`SF(Awaited)`), a
refresh that has begun is written, and a writer that has been told to stop does
(`SF(StopWriting)`, as it may find its timers ready first). Other nodes owe nothing. In
`Keyholder` the command line, both goroutines and the peer go on; the user and the
connection owe nothing. Nothing obliges a plot to arrive, a scriber to solve one, a
subscriber to leave or a crash to happen.

Deadlock is checked except in the runs of `Channels`, `PeerManager` and `Keyholder`. The
calls of the first are bounded and its subscribers leave, so it may come to rest; the other
two programs end. The deadlocks that matter are a call that never returns and a shutdown
that never ends: `CallsReturn`, `CallsReturnUnlessStuck`, `ShutdownEnds`.

The modules with a next-state relation of their own have a type invariant, except `Indexer`,
whose state is mostly `Processor`'s. They are proved, for every value of the constants, and
hold on the instances above.

## 4. The proofs

Each theorem is about a module's own specification and holds for every value of its
constants that its assumptions allow. `LedgerSpec` is proved about for every tree of plots,
every series length, maturity and pruning setting; what runs the ledger, for any clock,
targets and order of arrival; the network's modules for any peers, limits and losses.

### The ledger (LedgerProofs)

* *The thread.* `Located` (types of the tip and of the height index, linkage, and
  that the thread's plots are checked) is inductive; `ThreadStaysLinked` follows.
* *The indices.* `Indexed` adds that the two indices are exact over the plots that
  are not pruned and that no representation is on the thread twice. The step that
  matters is `ConnectPlot`: the index proves that a new representation is on none of
  the retained plots; on a pruned plot it cannot be because of its series
  (`SeriesMovesOn`, `SeriesApart`: a plot at least two series back has only series the
  new plot may not use). `NothingConfirmedTwice` and `IndicesStayExact` follow.
* *The cache.* `AppliedCalls` and `UndoneCalls`: counting agrees with calling
  `Apply` and `Undo` one at a time. `UndoneRetracesApplied`: undoing the last n of a
  run that was applied gives the cache before them; `AppliedCanBeUndone`: and each
  single undo finds a positive imbalance. The induction over the number of calls is
  set-based, by the least element of a set of naturals.
* *The imbalances.* That disconnecting never panics is not inductive: it needs to
  know that the current imbalances came from a connect. The strengthening says that
  there is a history of imbalances, one per height, in which each is the result of
  connecting that height's plot to the one before and ends with the current one
  (`Histories`, `Leads`, `Funded`). Connecting appends to the history, disconnecting
  drops its last element. `DisconnectingNeverPanics` and `LedgerTypeCorrect` (no
  imbalance is ever negative) follow.
* *The refinement* of `Thread` by `Ledger`, and with it that the stored
  imbalances are those of the whole thread. The abstract imbalance counts places of the
  thread (`Counted`: height and position, a plotroot only once it is mature); connecting a
  plot makes exactly as many new places count as it has effects, each new and different
  (`PlacesOfEffects`, `CountedGrows`), so both sides grow by the same numbers
  (`ImbalanceGrows`); disconnecting is the same equation read backwards. `Exact` carries
  this, with the finiteness that counting needs. `ConnectExtends` and `DisconnectRetracts`
  map the steps: that nothing repeats comes from `Indexed`, that nobody is overdrawn from
  `Funded`. `ImbalancesStayExact` and `LedgerImplementsThread` follow.

### The processor (ProcessorProofs)

* *It keeps the ledger's contract*, crashes and rollbacks included: it connects checked
  plots, begins with the genesis plot, never takes it off and flags only plots whose parent
  it knows. The invariant (`Careful`) is that every plot with a branch type is checked and
  has a known parent, and that everything in hand is checked. `Walk` does the induction
  along Previous, by height: all predecessors of a known plot are known, the genesis plot
  is one of them, and they have less work - so the plot of a better thread is never on the
  current one and there is always one to connect. `ProcessorImplementsLedger` follows;
  `NodeKeepsThread` carries the ledger's theorems over to the node.
* *A failed adjustment can always be taken back*, but for a new cycle in the graph. The
  indices and imbalances are functions of the thread (`Indexed`, `Exact`), so whether a
  plot fits is one too (`Fits`); every plot of the current thread fitted on those below it
  (`Fitting`), and the thread that ended in `oldTip` is kept in that form until the
  processor rests (`Recalled`). `Rollback` adds that what is still to be taken off and put
  on are the two branches between the tip and `newPlot`. Threads that share a plot agree
  below it (`ChainedAgree`), so the plot to put back meets exactly the thread it was on
  before. `OldThreadCanReturn` follows.
* *The tip is the best plot known.* A plot the node has refused loses its branch type or
  never gets one, so the best is meant among those that have one (`Known`). While the thread
  is adjusted the old tip precedes every other known plot (`Preferred`) and the new one
  precedes it but is not known before it is connected, last (`Trying`); so whichever of
  the two the work ends on is the best (`SettledIsBest`). That `Compare` is a strict order
  rests on different plots having different IDs. `BestThreadStays` follows.
* *Branch types.* That MAIN and the height index agree, but for the `misfiled` (`Labelled`),
  needs that a flagged plot is off the thread. While nothing is `stranded`, nothing that is
  known stands on the tip, nor on the old tip while another is tried (`Topmost`, `Unburied`),
  so a roll-back cannot find a better plot connected above it; one that can is a roll-back to
  a stranded tip, which `misfiled` names.
  `BranchTypesStay` follows.
* *Types.* `ProcessorTypeCorrect`: what the processor holds are plots of the tree because
  `Careful` says so of each, arrivals are stamped (`Settled`), and the ledger's types are
  those of the ledger it implements.

### The queue (QueueProofs)

`QueuedProcessorIsProcessor`: each step is one of the processor's, so its invariants hold of
the pair. `Queued` adds to them:

* *Nothing twice.* In every state, not only at rest, nothing queued is on the thread. A
  plot that is put back takes its representations out of the list; one that comes off puts
  them in, and they are not on the rest of the thread because no representation is on a
  thread twice. A new one is admitted by what the index says, which is pruned: a
  representation that the index forgot is of a series that is no longer eligible
  (`AdmittedIsNew`). `QueuedOnce` follows.
* *Fit for the next plot* (`Ready`). The last plot of an adjustment leaves a list of
  which each element was eligible and paid for (`Fit`, kept round by round by
  `Reconsider`). Plots taken off and put back leave it unfit; this lasts until the tip
  is the old one again, where nothing was done yet, or the last plot is connected. That a failed
  adjustment ends back at the old tip by putting its last plot back, hence with a reprocessed
  list, is shown under "Back at the old tip" in ProcessorProofs. `QueueStaysEligible` and
  `QueueStaysFunded` follow; the cached imbalance is what the list leaves of the ledger's
  only while nothing `drifted`.
* *Nothing is forgotten.* What reprocessing drops is not eligible, closes a cycle, or its
  sender had nothing left: each representation kept before it spends one, so that there are
  more of that sender than imbalance (`ReprocessedDrops`, `SendersOfList`).
  `NothingGetsLost` is an action property and follows from the invariant.

The code's loops over the list are recursive functions; `RecursionExists` shows that there is
such a function, after which what it returns is proved by induction on the length.

### The indexer (IndexerProofs)

`IndexerKeepsProcessor` is the safety part of the refinement of `Processor`: the graph is
given links of plots that are or were on the thread only. So the processor's invariants hold
of the pair (`IndexedThreadIsBest`), and the rest can use them.

* *Weights.* The weight of an edge, corrected by the notices in hand, in the channel and
  being sent (`Balance`), is the number of its links on the part of the thread that has been
  read (`Weighed`). Once the indexer is registered this is the whole thread. A plot that
  comes or goes before it registers is `unheard`, and the edges it touches are let go.
  Connecting adds a plot's links at a height that had none (`CountTo`), disconnecting takes
  them off. `WeightsStayExact` follows.
* *Ranking.* The last notice on its way is of the tip and says that nothing follows, when
  the processor rests or is back at its old tip (`Latest`). This needs that disconnecting
  alone never gets it back to the old tip, which the order of plots gives: the old tip
  is not among the plots to connect. `RankingFollowsTip` follows.
* *Cycles.* Every plot of the thread is drawn in the graph, on its way, unheard or still to
  be read (`Drawn`); when a plot is vetted nothing is on its way, so the graph has the
  thread's links, and what is reachable along fewer edges is reachable along more. The search
  is a recursive function whose rounds only grow, so it is compared round by round.
  `VettedPlotsStayAcyclic` follows.

### The channels (ChannelsProofs)

`Hears` counts a notice where it is: in the processor's hand (`Sent`), in the channel or
read (`heard`). It is kept because the subscribers still to be sent to are registered ones
and what is sent is the last change made (`Handling`), and because a channel is empty when
it is registered (`Fresh`). `Follows` is about the last change a scriber has not read, or
its work if there is none: once the request has no more changes to make (`todo`), it tells
of the tip. This needs that every request that changes the thread ends with a plot that is
connected, with no more to come (`ChangesOfPlot`), unless it broke off; so `Follows` is
claimed while the last one `settled`. `NoticesStayComplete` and `ScriberStaysOnTip`
follow; no assumption about the capacities is used.

Three more invariants are kept by themselves or beside this one.

* *Calls* (`Requests`). A goroutine that waits has one entry in one channel, or the processor
  has its request in hand; placing, taking and answering a call are the only steps that move
  it (`CallIsPlaced`, `CallIsTaken`, `CallIsAnswered`): sending the result never blocks, so
  `Reply` may leave out its channel.
* *Readers* (`Present`). A registered channel's owner is where its deferred calls have not yet
  taken it out (`Registered`), and whom a notice is still due is registered (`Sending`),
  because registering and leaving happen at the processor's `select` only. With the calls
  it gives `ReceiversStay`.
* *Types* (`Typed`). The changes of a request never take off the genesis plot (`TodoTyped`), a
  plot's representations are different, and the queue's stay so when a plot's are taken out
  (`RestOfQueue`, by induction over the queue) or put before the rest. `ChannelsTypeCorrect`
  follows; it needs the capacities to be numbers and room for a plotroot.

### Downloading (PeerSyncProofs)

`AnswersAreExpected` is an equation between sequences: what a connection has in flight is
what its inbox answers followed by what its outbox asks for. `SyncInv` adds what the reader's
place in its loop says of its queues and of the message it handles (`ReaderOK`): while a plot
is processed, its answer is still first in the inbox and so is its ID in flight, so
that removing the ID takes off the head of both. A step belongs to one connection, and
another can only lose the ownership of a plot (`OneConnection`). Together they give
`AnswersStayExpected`, `OwnersAreDownloading` and `SyncTypeCorrect`. The ancestor request
needs that its IDs end with the genesis plot, and the answer to it that it is on the
answerer's thread (`ThreadAssumption` is what a hash chain gives).

### Connections (PeerManagerProofs)

`Inv` has a part for each piece of state and the goroutines that work on it. A step belongs to
one goroutine: its effect on the peers and on the storage is stated once (`MainEffect`,
`HandlerSteps`, `PeerEffect`, `WriteEffect`), and each part is kept because of these effects.

* *Storage* (`IndicesMatch`). A caller's `Write` is computed from what it read; if the record
  is as it was, the entries deleted are those of the record, and otherwise the address is `raced`.
* *Outbound* (`OutboundUnique`, `MarkedConnected`). A live peer keeps its place in `outPeers`
  (`LiveInv`) and the main loop dials only an address it has just reserved. A mark always has
  a goroutine that will take it back: the peer's writer, or the main loop after a dial that
  found the other node busy (`MarkedInv`).
* *Inbound* (`InboundCounted`). The set is the handlers that run a peer and the peers that
  live; at most one handler of a host is between the check of the limit and the count
  unless they passed the check together (`LimitInv`). The history variable `crowded` has the
  hosts of which two did; for those the limit is not claimed, for the others it is exact.
* *Shutdown* (`ShutdownLeaves`). Once the sets are copied, a live peer is a latecomer, still to
  be shut, or the one being waited for (`ShutdownInv`).

### The keyholder (KeyholderProofs)

* *Keys.* That an accepted passphrase decrypts every key is not inductive: the check looks at
  the newest generated key only. `KeyInv` adds that this key is encrypted with the current
  passphrase, and that until there is one every key is among those imported without a
  check (`NewestGuards`). A refused insertion stores nothing and adds the key it displaced to
  those excused (`NewKeysRefusedKeepsKeyInv`). `KeysStayReadable` and `FilterKeepsKeys` follow.
* *Answers.* Only the newest connection is up (`ConnInv`), and a request of the current call,
  or the answer to it, is in one place only: with one writer, on the wire to the peer, on
  the wire back, with the reader, or in the channel (`WriterInv`, `PeerInv`, `ReplyInv`,
  `ResultInv`). A message left from before is with a writer that holds a lost connection
  and can only become an error of that one. All this under `~late`, which is false for good
  once a writer was left behind. `AnswersStayOwn`, `PeerKeepsKeys` (from `FilterInv`: the
  peer has the filter, or has refused it, or the call that loads it is on its way) and `KeyholderTypeCorrect`
  follow.

### Assumptions

Besides the types of the constants: what hash chains give (`TreeAssumption`,
`AncestryAssumption`, `ThreadAssumption`: a plot has one predecessor and ends one thread;
different plots have different IDs), the genesis plot's own validity (`GenesisAssumption`),
finitely many keys (`GraphAssumption`), connections and goroutines told apart
(`PeerManagerAssumption`), commands that are sequences of known requests
(`KeyholderAssumption`), and `None` being different from whatever stands beside it (plots,
records, notices, sets of keys). TLC evaluates each of them on the instances.

### Only model-checked

Every liveness property: fairness and ENABLED are beyond the prover. So is the fairness part
of `ImplementsProcessor`, which is claimed unless a ranking goes on for ever (`RunsOn`).

## 5. Observations

What the models do because the code does it, and a reader of the code may not expect.
Where a property excuses one of these, its definition names the excuse.

*Ledger and processor.*
- `ledger.go:20` promises the thread with the most work. After a crash within a
  reorganization the tip is an ancestor of the old tip or a plot of the new branch, and
  nothing at start-up goes on with either; the next plot that is better than that tip
  does. `BestThread` holds unless an adjustment was cut short (`disturbed`).
- When such a later plot fails to connect after plots below it were connected, the roll-back
  to the tip finds them better, takes nothing off and flags the tip SIDE, although its
  representations stay confirmed (`processor.go:780`), against `ledger.go:8`. The node works on
  as if the plot were of a side branch until it is disconnected (`misfiled` in
  `BranchTypesMatchThread`).
- `representation.go:100` compares `Matures` with the height in the same direction as
  `Expires`, so a representation can be confirmed until its maturity, not from it on;
  `:22`, `:95` and the keyholder's prompt say the opposite (run `maturity`). `IsMature` is the
  code's. `QueueIsEligible` says nothing of maturity.
- `processor.go:699` takes the first header of the retarget window from the height index
  of the main thread also for a plot of a side branch. On a fork deeper than the window
  the target is computed from another thread, and past the tip the code dereferences nil.
- `representation_queue_memory.go:51` credits the recipient in the queue's cache before
  the cycle check refuses the representation. Until the next reprocessing the cache has a
  unit too many and the queue may accept what cannot be paid
  (`QueueIsFundedUntilDrift`).
- `ledger_disk.go:859` answers a query about a past height with the maturity of the
  current tip.

*Scriber and channels.*
- A scriber waits for the result of its plot in the goroutine that reads its tip changes:
  the cycle of the run `hang`. A shutdown, or a lost connection, can close the same cycle
  at its rendezvous with the processor, and so can a peer's writer that submits work
  (`CallsReturnUnlessStuck`).
- When a reorganization fails and its roll-back too, which is only logged
  (`processor.go:619`), the last notice is of a disconnected plot or of one with more to
  come. The scriber passes over both (`scriber.go:121`) and works on a plot that is off the
  tip until the next notice (`ScriberFollowsTip` excuses it, as not `settled`).
- The notice of a representation may come after the scriber took it from the queue
  (`scriber.go:161`); its plot then has it twice and is refused.

*Indexer.*
- Plots whose representations close a cycle are connected while the graph is behind
  (`unvetted`), against the comment at `representation_graph.go:111`, and the first sync is
  over before anything is linked. Whether a plot is valid depends on the progress of the
  node's own indexer, so nodes may disagree for good.
- `rankGraph` uses a damping factor of 1. On a graph with a cycle that leaks nothing the
  iteration need not converge: two keys that represent each other, with plotroots for one and
  three units, swap the ranks 5/12 and 7/12 for ever, against the comment at
  `representation_graph.go:148`. The indexer then reads no notice, the processor waits for it
  at the next but one, and so does every call after that.
- An edge whose weight is back at zero still refuses its opposite. When a reorganization
  fails, the graph may then refuse the old tip too; the error is logged and the node stays
  on a shorter thread until a better plot comes.
- What changes between the indexer's last read and its registration is never indexed
  (`unheard`): the weights stay wrong until a restart.
- During a reorganization `latestPlotID`, which peers are told, names a disconnected plot.

*Download.*
- `peer.go:1128` says the request for the continuation plot triggers the rest of the
  download. A node that got that plot from another peer never requests it, and after the
  initial download nothing else asks (`SyncCompletesIfAsked` excuses it).

*Connections.*
- A handler whose connection is taken over when `Shutdown` copies the sets adds and runs
  its peer afterwards; nothing closes it (`latecomers`).
- With `-peer`, the storage deletes the only address after its first failure (it has never
  succeeded) or a week later; `connect` then refuses it and nothing else is dialled
  (`peer_manager.go:308`, `:312`).
- Two overlapping operations on an address leave an index entry behind that is never
  removed (`peer_storage_disk.go:38`); when the address is deleted, `Get` dereferences its
  missing record and the main loop panics (`:105`).
- A reader that hands an address to the full channel waits for the main loop, which may wait
  for that reader in `Peer.Shutdown` (`Blocked`).
- The limit per host is checked before the peer is added (`peer_manager.go:637`), so as many
  connections as pass the check together exceed it.
- Two nodes that dial each other at the same time both refuse with 429 (`peer.go:116`), and
  both record a success.

*Keyholder.*
- `GetImbalances` waits for ever: the reader does not hand on "imbalances". So does
  a request for a profile, unless it fails: the peer's error has the type "imbalance"
  (`peer.go:1183`). The peer has no handler for "get_rankings". A "filter_plot_undo" notice
  (`peer.go:322`) is ignored.
- A writer that is busy when the keyholder connects again may write its message, or its
  error, to the new connection: from then on each call takes the answer to the one before
  it, and `Shutdown` may wait for a writer whose channel nobody reads.
- A call made after the reader's error was taken by the call before it may wait for ever; a
  call made while the reader's deferred functions run sends on a closed channel, and the
  writer may dereference the connection that they set to nil: both end the program.
- A full filter refuses a new key and may drop an earlier one that is stored
  (`keyholder.go:121`); the key is not watched until the next start.
- A peer that refuses a filter (one over 64 KiB, `peer.go:1524`) goes on without one, or with
  the one before. `connect` returns the error, but the connection stays and the next command
  finds it up (`keyholder/main.go:88`, `:95`), so nothing is watched.
- An imported key is not in the filter until the next start. Keys imported before the first
  key is generated are encrypted with a passphrase nothing will be checked against.

## 6. What is not modelled

Hashes, proof of work, signatures, memos, JSON and the computation of targets from
work are abstracted: the model's plots pass these checks, and a target is named by
the headers it was computed from. Input and output errors of the databases are left
out. The numbers of the ranking are floating-point arithmetic and nothing in the ledger
depends on them. Of the peer, what scribing pools are given to work on, read limits and the contents of
read-only queries are not modelled (`GetPublicKeyImbalanceAt` and the walk over the
public-key index among them); of the peer storage, `GetSince`, which only reads for other
nodes; of the peer manager, how external addresses, name servers and chat are asked; of the
keyholder, prompts, files, the encryption itself and the repair of its database. The links
of one plot are one step of the indexer, so a check in the middle of them, a data race of
the code, is not covered. DNS, IRC, TLS, UPnP, command lines, the header hasher and the
genesis tool keep none of the node's state.

## 7. Plan

Every invariant of the passing runs is stated by a theorem. To add: the work that a peer's
writer hands to scribing pools (`onGetWork`), of which `Channels` has the submission only.
