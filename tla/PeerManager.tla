---------------------------- MODULE PeerManager ----------------------------
(***************************************************************************)
(* The connections of a node: its main loop, which dials known addresses   *)
(* one after the other, the handlers of inbound connections, the peers'    *)
(* reader and writer goroutines, and Shutdown.                             *)
(*                                                                         *)
(* A peer is named by its address and a generation (outbound) or by its    *)
(* handler (inbound).  Its reader hands addresses to the main loop on a    *)
(* bounded channel; its writer refreshes the storage.  Other nodes answer  *)
(* or refuse a connection, and close one, as they like.                    *)
(***************************************************************************)
EXTENDS PeerStorage, SequencesExt

CONSTANTS
    Outbound,               \* outbound connections: [address, generation]
    Handler,                \* inbound connections
    Main,                   \* the main loop, as a caller of the storage
    Self,                   \* the address of the node itself
    Configuration,          \* how the node may be started: what is
                            \* fixed at the start, [explicit, banned, open, inbound]
    HostOf, AnnouncedBy,    \* of each handler's other end: host, and address or None
    Local,                  \* hosts without a limit
    MAX_OUTBOUND_PEER_CONNECTIONS,
    MAX_INBOUND_PEER_CONNECTIONS_FROM_SAME_HOST,
    InboundLimit,
    AddrCapacity            \* of addrChan: 10000 in the code

PeerID == Outbound \cup Handler
Host == {HostOf[h] : h \in Handler}

PeerState == [conn : {"open", "closed"}, reader : {"new", "run", "send", "closing", "gone"},
              writer : {"new", "run", "refresh", "gone"}]

ASSUME PeerManagerAssumption ==
    /\ Caller = Outbound \cup Handler \cup {Main}
    /\ Outbound \cap Handler = {} /\ Main \notin Outbound \cup Handler
    /\ HostOf \in [Handler -> Host]
    /\ None \notin PeerState
    /\ Outbound \subseteq Addr \X {1, 2}
    /\ Self \in Addr
    /\ Configuration \subseteq
         [explicit : (Addr \ {Self}) \cup {None}, banned : SUBSET (Addr \ {Self}), open : BOOLEAN,
          inbound : SUBSET Handler]
    /\ AnnouncedBy \in [Handler -> (Addr \ {Self}) \cup {None}]
    /\ {MAX_OUTBOUND_PEER_CONNECTIONS, MAX_INBOUND_PEER_CONNECTIONS_FROM_SAME_HOST,
        InboundLimit, AddrCapacity} \subseteq Nat \ {0}

VARIABLES
    main,       \* the main loop: where it is and what it works on
    explicit, banned,  \* p.peer, and the addresses on the hosts of p.banMap
    inbound,    \* the connections other nodes make
    accepting, open,
    outPeers,   \* addresses dialled or connected
    inPeers, inPeerCountByHost,
    addrChan,
    handler,    \* where each handler is
    peer,       \* [conn, reader, writer] of each peer, or None
    stopping,   \* Shutdown has been called
    toShut,     \* the peers Shutdown has still to stop
    latecomers, \* history: inbound peers upgraded but not yet run when it looked
    crowded     \* history: hosts whose connections passed the check before one was counted

managerVars == <<main, explicit, banned, inbound, accepting, open, outPeers, inPeers, inPeerCountByHost,
                 addrChan, handler, peer, stopping, toShut, latecomers, crowded>>
vars == <<storageVars, managerVars>>

\* Where the main loop is, the address it dials, the addresses left, those
\* tried, how it got to dialling and where it goes from the self check, the
\* outcome of a dial, and the peer whose end it waits for.
Idle == [pc |-> "select", addr |-> None, todo |-> <<>>, tried |-> {}, want |-> 0,
         for |-> None, ret |-> None, outcome |-> None, id |-> None]

At(pc) == [Idle EXCEPT !.pc = pc]

NewPeer == [conn |-> "open", reader |-> "new", writer |-> "new"]

Init ==
    /\ StorageInit
    /\ \E c \in Configuration : explicit = c.explicit /\ banned = c.banned /\ open = c.open
                               /\ inbound = c.inbound
    /\ main = IF explicit = None THEN At("start") ELSE At("boot")
    /\ accepting = FALSE
    /\ outPeers = {} /\ inPeers = {}
    /\ inPeerCountByHost = [x \in Host |-> 0]
    /\ addrChan = <<>>
    /\ handler = [h \in Handler |-> "idle"]
    /\ peer = [id \in PeerID |-> None]
    /\ stopping = FALSE
    /\ toShut = {} /\ latecomers = {} /\ crowded = {}

----------------------------------------------------------------------------
(* The sets of connections *)

IsFull == Cardinality(outPeers) = MAX_OUTBOUND_PEER_CONNECTIONS

\* Mutant of FitsOutbound: an address that is connected is dialled again.
FitsOutboundAgain(a) == ~IsFull

FitsOutbound(a) == ~IsFull /\ a \notin outPeers

AddToInboundSet(h) ==
    /\ inPeers' = inPeers \cup {h}
    /\ inPeerCountByHost' = [inPeerCountByHost EXCEPT ![HostOf[h]] = @ + 1]

\* Mutant of RemoveFromInboundSet: the count is left.
RemoveFromInboundSetOnly(h) ==
    /\ inPeers' = inPeers \ {h}
    /\ UNCHANGED inPeerCountByHost

RemoveFromInboundSet(h) ==
    /\ inPeers' = inPeers \ {h}
    /\ inPeerCountByHost' = [inPeerCountByHost EXCEPT ![HostOf[h]] = IF @ > 0 THEN @ - 1 ELSE 0]

CheckHostConnectionLimit(x) ==
    x \in Local \/ inPeerCountByHost[x] < MAX_INBOUND_PEER_CONNECTIONS_FROM_SAME_HOST

----------------------------------------------------------------------------
(* The main loop *)

\* The reader of this peer has not ended.
IsLive(id) == peer[id] # None /\ peer[id].reader \in {"run", "send", "closing"}

Go(next) == main' = next

\* What a step of the main loop that stays within it leaves alone.
LoopOnly == UNCHANGED <<storageVars, explicit, banned, inbound, accepting, open, outPeers, inPeers,
                        inPeerCountByHost, addrChan, handler, peer, stopping, toShut, latecomers, crowded>>
StorageOnly == UNCHANGED <<explicit, banned, inbound, accepting, open, outPeers, inPeers,
                           inPeerCountByHost, addrChan, handler, peer, stopping, toShut, latecomers, crowded>>

\* The address given with -peer is stored once.
Boot ==
    \/ main.pc = "boot" /\ Read(Main, explicit) /\ Go(At("booting")) /\ StorageOnly
    \/ main.pc = "booting" /\ WriteStore(Main) /\ Go(At("start")) /\ StorageOnly

\* listenForPeers, at the start and at each tick of the ticker.
AfterListening == IF main.pc = "start" THEN "plan" ELSE "drop"

ListenForPeers ==
    /\ main.pc \in {"start", "tick"}
    /\ \/ Go(At(AfterListening)) /\ UNCHANGED <<accepting, storageVars>>  \* off, or syncing
       \/ /\ ~accepting
          /\ accepting' = TRUE
          /\ IF open
             THEN Go(At(AfterListening)) /\ UNCHANGED storageVars
             ELSE Read(Main, Self) /\ Go([At("storeSelf") EXCEPT !.ret = AfterListening])
    /\ UNCHANGED <<explicit, banned, inbound, open, outPeers, inPeers, inPeerCountByHost, addrChan, handler,
                   peer, stopping, toShut, latecomers, crowded>>

StoreSelf ==
    /\ main.pc = "storeSelf"
    /\ WriteStore(Main)
    /\ Go([main EXCEPT !.pc = "connect", !.addr = Self, !.for = "self"])
    /\ StorageOnly

\* A seeder drops a random peer at a tick.
DropRandomPeer ==
    /\ main.pc = "drop"
    /\ \/ Go(At("plan")) /\ UNCHANGED peer
       \/ \E id \in Outbound :
            /\ id[1] \in outPeers /\ IsLive(id)
            /\ peer' = [peer EXCEPT ![id].conn = "closed"]
            /\ Go([At("await") EXCEPT !.id = id, !.ret = "plan"])
    /\ UNCHANGED <<storageVars, explicit, banned, inbound, accepting, open, outPeers, inPeers,
                   inPeerCountByHost, addrChan, handler, stopping, toShut, latecomers, crowded>>

\* Peer.Shutdown waits for both goroutines.
HasEnded(id) ==
    peer[id] # None => peer[id].reader \in {"new", "gone"} /\ peer[id].writer \in {"new", "gone"}

Await ==
    /\ main.pc = "await"
    /\ HasEnded(main.id)
    /\ Go(At(main.ret))
    /\ LoopOnly

\* Mutant of ConnectToPeers: the explicit peer is tried once.
ConnectToPeersOnce ==
    /\ main.pc = "plan"
    /\ IF explicit # None
       THEN Go(IF info[explicit] = None \/ ~IsNeverTried(info[explicit]) THEN At("select")
               ELSE [At("connect") EXCEPT !.addr = explicit, !.for = "explicit"])
       ELSE \E want \in {1, MAX_OUTBOUND_PEER_CONNECTIONS} :
              Go(IF Cardinality(outPeers) >= want THEN At("select")
                 ELSE [At("get") EXCEPT !.want = want])
    /\ LoopOnly

\* connectToPeers: one peer until the node is synced, as many as allowed then.
ConnectToPeers ==
    /\ main.pc = "plan"
    /\ IF explicit # None
       THEN Go(IF outPeers # {} THEN At("select")
               ELSE [At("connect") EXCEPT !.addr = explicit, !.for = "explicit"])
       ELSE \E want \in {1, MAX_OUTBOUND_PEER_CONNECTIONS} :
              Go(IF Cardinality(outPeers) >= want THEN At("select")
                 ELSE [At("get") EXCEPT !.want = want])
    /\ LoopOnly

Need == main.want - Cardinality(outPeers)

GetAddresses ==
    /\ main.pc = "get"
    /\ \/ \E s \in Results(Need) :
            Go(IF s = <<>> THEN At("select") ELSE [main EXCEPT !.pc = "next", !.todo = s])
       \/ GetMayPanic(Need) /\ Go(At("panic"))
    /\ LoopOnly

\* The next address of the list, or another look at how many are needed.
NextAddress ==
    /\ main.pc = "next"
    /\ IF main.todo = <<>>
       THEN Go(IF Need > 0 THEN [main EXCEPT !.pc = "get"] ELSE At("select")) /\ UNCHANGED storageVars
       ELSE LET a == Head(main.todo)
                rest == [main EXCEPT !.todo = Tail(@), !.tried = @ \cup {a}]
            IN  IF a \in main.tried
                THEN Go(At("select")) /\ UNCHANGED storageVars
                ELSE IF a \in banned
                THEN Read(Main, a) /\ Go([rest EXCEPT !.pc = "delete"])
                ELSE Go([rest EXCEPT !.pc = "connect", !.addr = a, !.for = "list"])
                     /\ UNCHANGED storageVars
    /\ StorageOnly

DeleteBanned ==
    /\ main.pc = "delete"
    /\ WriteDelete(Main)
    /\ Go([main EXCEPT !.pc = "next"])
    /\ StorageOnly

\* Where connect returns to; an error after the context was cancelled ends
\* the list.
Returned(failed) ==
    CASE main.for = "explicit" -> At("select")
      [] main.for = "self" -> At(main.ret)
      [] main.for = "list" ->
           IF failed /\ stopping THEN At("select")
           ELSE [main EXCEPT !.pc = "next", !.addr = None, !.for = None, !.outcome = None]

\* connect reserves a place in the set first.
Reserve ==
    /\ main.pc = "connect"
    /\ IF FitsOutbound(main.addr)
       THEN /\ outPeers' = outPeers \cup {main.addr}
            /\ Read(Main, main.addr)
            /\ Go([main EXCEPT !.pc = "attempt"])
       ELSE Go(Returned(TRUE)) /\ UNCHANGED <<outPeers, storageVars>>
    /\ UNCHANGED <<explicit, banned, inbound, accepting, open, inPeers, inPeerCountByHost, addrChan, handler,
                   peer, stopping, toShut, latecomers, crowded>>

OnConnectAttempt ==
    /\ main.pc = "attempt"
    /\ WriteAttempt(Main)
    /\ IF IsKnown(Main)
       THEN Go([main EXCEPT !.pc = "dial"]) /\ UNCHANGED outPeers
       ELSE Go(Returned(TRUE)) /\ outPeers' = outPeers \ {main.addr}
    /\ UNCHANGED <<explicit, banned, inbound, accepting, open, inPeers, inPeerCountByHost, addrChan, handler,
                   peer, stopping, toShut, latecomers, crowded>>

\* What a dial can end with: a connection, 429, 508 (the other end is this
\* node, which is accepting), or any other failure.
Outcome ==
    {"failed"} \cup (IF stopping THEN {} ELSE {"connected", "busy"})
      \cup (IF accepting /\ ~stopping THEN {"loop"} ELSE {})

Dial ==
    /\ main.pc = "dial"
    /\ \E outcome \in Outcome : Go([main EXCEPT !.pc = "dialled", !.outcome = outcome])
    /\ Read(Main, main.addr)
    /\ StorageOnly

\* The peer runs; the self check closes what it connected to.
Dialled ==
    /\ main.pc = "dialled"
    /\ main.outcome = "connected" /\ IsKnown(Main)
    /\ WriteSuccess(Main)
    /\ \E id \in Outbound :
         /\ id[1] = main.addr
         /\ peer[id] = None
         /\ peer' = [peer EXCEPT ![id] = [conn |-> IF main.for = "self" THEN "closed" ELSE "open",
                                          reader |-> "run", writer |-> "run"]]
         /\ Go(IF main.for = "self" THEN [At("await") EXCEPT !.id = id, !.ret = main.ret]
               ELSE Returned(FALSE))
    /\ UNCHANGED <<explicit, banned, inbound, accepting, open, outPeers, inPeers, inPeerCountByHost, addrChan,
                   handler, stopping, toShut, latecomers, crowded>>

\* A failure may delete the address; one that is busy with an inbound
\* connection counts as a success.
NotDialled ==
    /\ main.pc = "dialled"
    /\ main.outcome # "connected" \/ ~IsKnown(Main)
    /\ IF main.outcome \in {"connected", "busy"} THEN WriteSuccess(Main) ELSE WriteFailure(Main)
    /\ Go([main EXCEPT !.pc = "failed"])
    /\ StorageOnly

Release ==
    /\ main.pc = "failed"
    /\ IF main.outcome = "busy" THEN OnDisconnect(main.addr) ELSE UNCHANGED storageVars
    /\ outPeers' = outPeers \ {main.addr}
    /\ open' = (open \/ (main.for = "self" /\ main.outcome = "loop"))
    /\ Go(Returned(TRUE))
    /\ UNCHANGED <<explicit, banned, inbound, accepting, inPeers, inPeerCountByHost, addrChan, handler,
                   peer, stopping, toShut, latecomers, crowded>>

\* The three cases of the loop's select.  Addresses that are not valid are
\* never stored.
TakeAddress ==
    /\ main.pc = "select"
    /\ addrChan # <<>>
    /\ addrChan' = Tail(addrChan)
    /\ \/ Go(main) /\ UNCHANGED storageVars                    \* invalid or banned
       \/ /\ Head(addrChan) \notin banned
          /\ Read(Main, Head(addrChan))
          /\ Go(At("store"))
    /\ UNCHANGED <<explicit, banned, inbound, accepting, open, outPeers, inPeers, inPeerCountByHost, handler,
                   peer, stopping, toShut, latecomers, crowded>>

StoreAddress ==
    /\ main.pc = "store"
    /\ WriteStore(Main)
    /\ Go(At(IF IsKnown(Main) THEN "select" ELSE "plan"))
    /\ StorageOnly

Tick == main.pc = "select" /\ Go(At("tick")) /\ LoopOnly

TakeShutdown == main.pc = "select" /\ stopping /\ Go(At("closing")) /\ LoopOnly

\* server.Shutdown waits for the handlers that have not taken their connection over.
CloseServer ==
    /\ main.pc = "closing"
    /\ \A h \in Handler : handler[h] # "store"
    /\ Go(At("stopped"))
    /\ LoopOnly

\* The main loop but for the choices of its select statement.
Loop ==
    \/ Boot \/ ListenForPeers \/ StoreSelf \/ DropRandomPeer \/ Await \/ ConnectToPeers
    \/ GetAddresses \/ NextAddress \/ DeleteBanned \/ Reserve \/ OnConnectAttempt
    \/ Dial \/ Dialled \/ NotDialled \/ Release \/ StoreAddress \/ CloseServer

----------------------------------------------------------------------------
(* Shutdown, called once by another goroutine *)

Shutdown ==
    /\ ~stopping
    /\ stopping' = TRUE
    /\ UNCHANGED <<storageVars, main, explicit, banned, inbound, accepting, open, outPeers, inPeers,
                   inPeerCountByHost, addrChan, handler, peer, toShut, latecomers, crowded>>

\* Mutant of CopyPeers: outbound peers are left running.
CopyInboundPeers ==
    /\ main.pc = "stopped"
    /\ toShut' = inPeers
    /\ latecomers' = {h \in Handler : handler[h] \in {"add", "run"}}
    /\ Go(At("shut"))
    /\ UNCHANGED <<storageVars, explicit, banned, inbound, accepting, open, outPeers, inPeers,
                   inPeerCountByHost, addrChan, handler, peer, stopping, crowded>>

\* Once the main loop has ended the two sets are copied.
CopyPeers ==
    /\ main.pc = "stopped"
    /\ toShut' = {id \in Outbound : id[1] \in outPeers /\ IsLive(id)} \cup inPeers
    /\ latecomers' = {h \in Handler : handler[h] \in {"add", "run"}}
    /\ Go(At("shut"))
    /\ UNCHANGED <<storageVars, explicit, banned, inbound, accepting, open, outPeers, inPeers,
                   inPeerCountByHost, addrChan, handler, peer, stopping, crowded>>

\* Mutant of ShutPeer: waits for the peer without closing its connection.
ShutPeerSoftly ==
    /\ main.pc = "shut"
    /\ IF toShut = {}
       THEN Go(At("down")) /\ UNCHANGED <<peer, toShut>>
       ELSE \E id \in toShut :
              /\ toShut' = toShut \ {id}
              /\ UNCHANGED peer
              /\ Go([At("await") EXCEPT !.id = id, !.ret = "shut"])
    /\ UNCHANGED <<storageVars, explicit, banned, inbound, accepting, open, outPeers, inPeers,
                   inPeerCountByHost, addrChan, handler, stopping, latecomers, crowded>>

ShutPeer ==
    /\ main.pc = "shut"
    /\ IF toShut = {}
       THEN Go(At("down")) /\ UNCHANGED <<peer, toShut>>
       ELSE \E id \in toShut :
              /\ toShut' = toShut \ {id}
              /\ peer' = IF peer[id] = None THEN peer ELSE [peer EXCEPT ![id].conn = "closed"]
              /\ Go([At("await") EXCEPT !.id = id, !.ret = "shut"])
    /\ UNCHANGED <<storageVars, explicit, banned, inbound, accepting, open, outPeers, inPeers,
                   inPeerCountByHost, addrChan, handler, stopping, latecomers, crowded>>

ShutdownStep == CopyPeers \/ ShutPeer

----------------------------------------------------------------------------
(* The handlers of inbound connections *)

HandlerOnly == UNCHANGED <<main, explicit, banned, inbound, accepting, open, outPeers, addrChan, stopping, toShut, latecomers>>

HandlersOf(x) == {h \in Handler : HostOf[h] = x}

\* Past the check of the limit, and not yet in the count it reads.
IsUncounted(h) == handler[h] \in {"store", "add"}

IsServing ==
    accepting /\ main.pc \notin {"closing", "stopped", "shut", "down"} /\ main.ret # "shut"

\* The checks; refused is a host with too many connections, one that is
\* connected outbound, a banned one, and this node itself.
Accept(h) ==
    /\ IsServing /\ h \in inbound
    /\ handler[h] = "idle" /\ peer[h] = None
    /\ CheckHostConnectionLimit(HostOf[h])
    /\ IF AnnouncedBy[h] = None
       THEN UNCHANGED storageVars
       ELSE AnnouncedBy[h] \notin outPeers /\ Read(h, AnnouncedBy[h])
    /\ handler' = [handler EXCEPT ![h] = "store"]
    /\ crowded' = IF \E other \in HandlersOf(HostOf[h]) : IsUncounted(other)
                  THEN crowded \cup {HostOf[h]} ELSE crowded
    /\ UNCHANGED <<inPeers, inPeerCountByHost, peer>>
    /\ HandlerOnly

\* The announced address is stored and the connection taken over.
Upgrade(h) ==
    /\ handler[h] = "store"
    /\ IF AnnouncedBy[h] = None THEN UNCHANGED storageVars ELSE WriteStore(h)
    /\ handler' = [handler EXCEPT ![h] = "add"]
    /\ peer' = [peer EXCEPT ![h] = NewPeer]
    /\ UNCHANGED <<inPeers, inPeerCountByHost, crowded>>
    /\ HandlerOnly

AddInbound(h) ==
    /\ handler[h] = "add"
    /\ IF Cardinality(inPeers) = InboundLimit
       THEN /\ handler' = [handler EXCEPT ![h] = "idle"]
            /\ peer' = [peer EXCEPT ![h] = None]
            /\ UNCHANGED <<inPeers, inPeerCountByHost>>
       ELSE /\ AddToInboundSet(h)
            /\ handler' = [handler EXCEPT ![h] = "run"]
            /\ UNCHANGED peer
    /\ UNCHANGED <<storageVars, crowded>>
    /\ HandlerOnly

\* An inbound peer's writer has no part in this module.
RunInbound(h) ==
    /\ handler[h] = "run"
    /\ handler' = [handler EXCEPT ![h] = "idle"]
    /\ peer' = [peer EXCEPT ![h].reader = "run", ![h].writer = "gone"]
    /\ UNCHANGED <<storageVars, inPeers, inPeerCountByHost, crowded>>
    /\ HandlerOnly

Handle(h) == Upgrade(h) \/ AddInbound(h) \/ RunInbound(h)

----------------------------------------------------------------------------
(* The goroutines of a peer *)

PeerOnly == UNCHANGED <<main, explicit, banned, inbound, accepting, open, handler, stopping, toShut, latecomers, crowded>>

\* A peer whose goroutines have both ended is forgotten.
Becomes(id, p) ==
    peer' = [peer EXCEPT ![id] = IF p.reader = "gone" /\ p.writer = "gone" THEN None ELSE p]

\* The other end closes the connection, or it is lost.
Lose(id) ==
    /\ IsLive(id) /\ peer[id].conn = "open"
    /\ Becomes(id, [peer[id] EXCEPT !.conn = "closed"])
    /\ UNCHANGED <<storageVars, outPeers, inPeers, inPeerCountByHost, addrChan>>
    /\ PeerOnly

ReadAddresses(id) ==
    /\ IsLive(id) /\ peer[id].conn = "open" /\ peer[id].reader = "run"
    /\ Becomes(id, [peer[id] EXCEPT !.reader = "send"])
    /\ UNCHANGED <<storageVars, outPeers, inPeers, inPeerCountByHost, addrChan>>
    /\ PeerOnly

\* onPeerAddresses: one of the addresses, on the channel of the main loop.
SendAddress(id) ==
    /\ IsLive(id) /\ peer[id].reader = "send"
    /\ Len(addrChan) < AddrCapacity
    /\ \E a \in Addr \ {Self} : addrChan' = Append(addrChan, a)
    /\ Becomes(id, [peer[id] EXCEPT !.reader = "run"])
    /\ UNCHANGED <<storageVars, outPeers, inPeers, inPeerCountByHost>>
    /\ PeerOnly

\* The reader finds the connection closed and tells the writer; then it runs
\* the close handler.
StopReading(id) ==
    /\ IsLive(id) /\ peer[id].conn = "closed" /\ peer[id].reader = "run"
    /\ Becomes(id, [peer[id] EXCEPT !.reader = "closing"])
    /\ UNCHANGED <<storageVars, outPeers, inPeers, inPeerCountByHost, addrChan>>
    /\ PeerOnly

OnClose(id) ==
    /\ IsLive(id) /\ peer[id].reader = "closing"
    /\ Becomes(id, [peer[id] EXCEPT !.reader = "gone"])
    /\ IF id \in Outbound
       THEN outPeers' = outPeers \ {id[1]} /\ UNCHANGED <<inPeers, inPeerCountByHost>>
       ELSE RemoveFromInboundSet(id) /\ UNCHANGED outPeers
    /\ UNCHANGED <<storageVars, addrChan>>
    /\ PeerOnly

\* The writer of an outbound peer refreshes its last success every 5 minutes.
Refresh(id) ==
    /\ peer[id] # None /\ peer[id].writer = "run"
    /\ Read(id, id[1])
    /\ Becomes(id, [peer[id] EXCEPT !.writer = "refresh"])
    /\ UNCHANGED <<outPeers, inPeers, inPeerCountByHost, addrChan>>
    /\ PeerOnly

Refreshed(id) ==
    /\ peer[id] # None /\ peer[id].writer = "refresh"
    /\ WriteSuccess(id)
    /\ Becomes(id, [peer[id] EXCEPT !.writer = "run"])
    /\ UNCHANGED <<outPeers, inPeers, inPeerCountByHost, addrChan>>
    /\ PeerOnly

\* Mutant of StopWriting: the storage is not told.
StopWritingSilently(id) ==
    /\ peer[id] # None
    /\ peer[id].reader \in {"closing", "gone"} /\ peer[id].writer = "run"
    /\ Becomes(id, [peer[id] EXCEPT !.writer = "gone"])
    /\ UNCHANGED storageVars
    /\ UNCHANGED <<outPeers, inPeers, inPeerCountByHost, addrChan>>
    /\ PeerOnly

StopWriting(id) ==
    /\ peer[id] # None
    /\ peer[id].reader \in {"closing", "gone"} /\ peer[id].writer = "run"
    /\ Becomes(id, [peer[id] EXCEPT !.writer = "gone"])
    /\ IF id \in Outbound THEN OnDisconnect(id[1]) ELSE UNCHANGED storageVars
    /\ UNCHANGED <<outPeers, inPeers, inPeerCountByHost, addrChan>>
    /\ PeerOnly

\* Addresses also come from name servers and chat.
Seed(a) ==
    /\ explicit = None
    /\ Len(addrChan) < AddrCapacity
    /\ addrChan' = Append(addrChan, a)
    /\ UNCHANGED <<storageVars, outPeers, inPeers, inPeerCountByHost, peer>>
    /\ PeerOnly

GoOn(id) == SendAddress(id) \/ StopReading(id) \/ OnClose(id) \/ StopWriting(id)

Next ==
    /\ main.pc # "panic"
    /\ \/ Loop \/ TakeAddress \/ Tick \/ TakeShutdown
       \/ Shutdown \/ ShutdownStep
       \/ \E h \in Handler : Accept(h) \/ Handle(h)
       \/ \E id \in PeerID : GoOn(id) \/ Lose(id) \/ ReadAddresses(id)
       \/ \E id \in Outbound : Refresh(id) \/ Refreshed(id)
       \/ \E a \in Addr \ {Self} : Seed(a)
       \/ PassTime /\ UNCHANGED managerVars

\* The goroutine of a peer that the main loop or Shutdown waits for.
Awaited == \E id \in PeerID : main.id = id /\ GoOn(id)

\* Go runs a goroutine that can go on, the ticker fires again and again, and a
\* select statement does not pass over a ready case for ever.
Spec ==
    /\ Init /\ [][Next]_vars
    /\ WF_vars(Loop \/ ShutdownStep)
    /\ SF_vars(Tick) /\ SF_vars(TakeShutdown)
    /\ WF_vars(\E h \in Handler : Handle(h))
    /\ SF_vars(Awaited)
    /\ WF_vars(\E id \in Outbound : Refreshed(id))
    /\ WF_vars(\E id \in Outbound : main.id = id /\ Refreshed(id))
    /\ SF_vars(\E id \in Outbound : StopWriting(id))

----------------------------------------------------------------------------
(* Correctness *)

TypeOK ==
    /\ main.pc \in {"boot", "booting", "start", "tick", "storeSelf", "drop", "await", "plan", "get",
                    "panic", "next", "delete", "connect", "attempt", "dial", "dialled", "failed",
                    "select", "store", "closing", "stopped", "shut", "down"}
    /\ main.todo \in Seq(Addr) /\ main.tried \subseteq Addr
    /\ outPeers \subseteq Addr /\ Cardinality(outPeers) <= MAX_OUTBOUND_PEER_CONNECTIONS
    /\ inPeers \subseteq Handler /\ toShut \subseteq PeerID
    /\ addrChan \in Seq(Addr) /\ Len(addrChan) <= AddrCapacity
    /\ handler \in [Handler -> {"idle", "store", "add", "run"}]
    /\ peer \in [PeerID -> PeerState \cup {None}]
    /\ \A a \in Addr :
         info[a] # None => info[a].attempt \in 1..now /\ info[a].success \in {0} \cup MaxRank+1..now

(* The counts by host are the inbound peers of that host, and stay within  *)
(* the limit with the connection that is on its way to be counted, unless  *)
(* a host's connections passed the check of the limit together.            *)
InboundIsCounted ==
    /\ Cardinality(inPeers) <= InboundLimit
    /\ \A x \in Host :
         /\ inPeerCountByHost[x] = Cardinality(inPeers \cap HandlersOf(x))
         /\ x \notin Local \cup crowded =>
              inPeerCountByHost[x] + Cardinality({h \in HandlersOf(x) : IsUncounted(h)})
                <= MAX_INBOUND_PEER_CONNECTIONS_FROM_SAME_HOST

(* An address has at most one outbound connection: a second is dialled     *)
(* only when the first one's reader is done with it.  While there is one,  *)
(* the storage knows the address.                                          *)
OutboundIsUnique ==
    \A a \in Addr :
      LET live == {id \in Outbound : id[1] = a /\ IsLive(id)}
      IN  /\ Cardinality(live) <= 1
          /\ live # {} => a \in outPeers /\ info[a] # None

(* The storage never keeps an address from being tried that no goroutine   *)
(* is left to take off connectedPeers.                                     *)
MarkedAreConnected ==
    \A a \in connectedPeers :
      \/ \E id \in Outbound : id[1] = a /\ peer[id] # None
      \/ main.pc = "failed" /\ main.addr = a

(* After Shutdown no peer reads any more, but for inbound ones that had    *)
(* been upgraded and not yet run when it looked at the sets.               *)
ShutdownLeavesLatecomers ==
    main.pc = "down" => \A id \in PeerID : IsLive(id) => id \in latecomers

(* Shutdown ends, unless a peer's reader waits for the main loop to take   *)
(* an address from the full channel.                                       *)
Blocked ==
    /\ main.pc = "await" /\ peer[main.id] # None /\ peer[main.id].reader = "send"
    /\ Len(addrChan) = AddrCapacity

ShutdownEnds == stopping ~> main.pc \in {"down", "panic"} \/ Blocked

(* With -peer, as long as the storage knows its address, a node without a  *)
(* connection dials it again.                                              *)
ExplicitIsRetried ==
    \A a \in Addr :
      (explicit = a /\ a \notin outPeers)
        ~> (a \in outPeers \/ info[a] = None \/ stopping \/ main.pc = "panic" \/ Blocked)
=============================================================================
