------------------------- MODULE PeerManagerProofs -------------------------
(***************************************************************************)
(* The invariants of PeerManager and PeerStorage, for any numbers of       *)
(* addresses, handlers and generations.                                    *)
(*                                                                         *)
(* Inv has a part for each piece of the state and the goroutines that work *)
(* on it.  A step belongs to one goroutine: its effect on the peers and on *)
(* the storage is stated once (MainEffect, HandlerSteps, PeerEffect,       *)
(* WriteEffect), and each part is kept because of these effects.  The      *)
(* parts need each other: that no live peer loses its place in outPeers    *)
(* rests on where the main loop is, and what the storage writes on the     *)
(* lookup that the calling goroutine made before.                          *)
(***************************************************************************)
EXTENDS PeerManager, TLAPS, FiniteSetTheorems

(* The addresses, their records and what the callers have read of them.    *)
StorageTyped ==
    /\ info \in [Addr -> Info \cup {None}]
    /\ pending \in [Caller -> Lookup \cup {None}]
    /\ now \in Nat /\ now > MaxRank
    /\ attempts \subseteq Nat \X Addr
    /\ connectedPeers \subseteq Addr
    /\ \A a \in Addr : info[a] # None =>
         info[a].attempt \in 1..now /\ info[a].success \in {0} \cup MaxRank+1..now
    /\ \A g \in Caller : pending[g] # None /\ pending[g].seen # None =>
         /\ pending[g].seen.attempt \in 1..now
         /\ pending[g].seen.success \in {0} \cup MaxRank+1..now

StorageInv == StorageTyped /\ IndicesMatchInfoUnlessRaced

----------------------------------------------------------------------------
(* The main loop: where it is, and what it works on there. *)

Pc == {"boot", "booting", "start", "tick", "storeSelf", "drop", "await", "plan", "get",
       "panic", "next", "delete", "connect", "attempt", "dial", "dialled", "failed",
       "select", "store", "closing", "stopped", "shut", "down"}

MainState ==
    [pc : Pc, addr : Addr \cup {None}, todo : Seq(Addr), tried : SUBSET Addr, want : Nat,
     for : {None, "list", "self", "explicit"}, ret : {None, "plan", "drop", "shut"},
     outcome : {None, "failed", "connected", "busy", "loop"}, id : PeerID \cup {None}]

\* Between the two steps of an operation of the storage.
Calling == {"booting", "storeSelf", "delete", "attempt", "dialled", "store"}

\* It holds a place in outPeers for the address it dials.
Dialling == {"attempt", "dial", "dialled", "failed"}

MainTyped ==
    /\ main \in MainState
    /\ explicit \in (Addr \ {Self}) \cup {None} /\ banned \subseteq Addr \ {Self}
    /\ outPeers \subseteq Addr /\ IsFiniteSet(outPeers)
    /\ Cardinality(outPeers) <= MAX_OUTBOUND_PEER_CONNECTIONS
    /\ addrChan \in Seq(Addr) /\ Len(addrChan) <= AddrCapacity

MainCalls ==
    /\ main.pc \in Calling => pending[Main] # None
    /\ main.pc \in {"attempt", "dialled"} => pending[Main].addr = main.addr
    /\ main.pc = "delete" => pending[Main].addr \in banned

MainPlans ==
    /\ main.pc \in {"boot", "booting"} => explicit # None
    /\ main.pc \in {"get", "next", "delete"} => explicit = None
    /\ main.pc = "storeSelf" => main.ret \in {"plan", "drop"}
    /\ main.pc = "await" => main.ret \in {"plan", "drop", "shut"}
    /\ main.pc \in {"connect"} \cup Dialling =>
         /\ main.addr \in Addr
         /\ main.for \in {"list", "self", "explicit"}
         /\ main.for = "list" => explicit = None /\ main.addr \notin banned
         /\ main.for = "self" => main.addr = Self /\ main.ret \in {"plan", "drop"}
         /\ main.for = "explicit" => explicit # None
    /\ main.pc \in Dialling => main.addr \in outPeers
    /\ explicit = None => outPeers \cap banned = {}

MainInv == MainTyped /\ MainCalls /\ MainPlans

----------------------------------------------------------------------------
(* The outbound connections. *)

PeersTyped == peer \in [PeerID -> PeerState \cup {None}]

\* An address with a live peer is reserved and known, and is not dialled.
LiveInv ==
    /\ \A id \in Outbound : IsLive(id) => id[1] \in outPeers /\ info[id[1]] # None
    /\ \A i, j \in Outbound : IsLive(i) /\ IsLive(j) /\ i[1] = j[1] => i = j
    /\ main.pc \in Dialling => \A id \in Outbound : id[1] = main.addr => ~IsLive(id)

RefreshInv ==
    \A id \in Outbound :
      peer[id] # None /\ peer[id].writer = "refresh" =>
        pending[id] # None /\ pending[id].addr = id[1]

\* The goroutine that will take the address off connectedPeers: a writer, or
\* the main loop after a dial that found the other node busy.
IsWriting(id) == peer[id] # None /\ peer[id].writer \in {"run", "refresh"}
Releasing(a) == main.pc = "failed" /\ main.outcome = "busy" /\ main.addr = a

MarkedInv ==
    \A a \in connectedPeers : Releasing(a) \/ \E id \in Outbound : id[1] = a /\ IsWriting(id)

OutboundInv == PeersTyped /\ LiveInv /\ RefreshInv /\ MarkedInv

----------------------------------------------------------------------------
(* The handlers and the inbound connections. *)

HandlersTyped ==
    /\ handler \in [Handler -> {"idle", "store", "add", "run"}]
    /\ \A h \in Handler :
         /\ handler[h] = "store" =>
              peer[h] = None /\ (AnnouncedBy[h] # None => pending[h] # None)
         /\ handler[h] \in {"add", "run"} =>
              peer[h] # None /\ peer[h].reader = "new" /\ peer[h].writer = "new"

InboundInv ==
    /\ inPeers = {h \in Handler : handler[h] = "run" \/ IsLive(h)}
    /\ IsFiniteSet(inPeers) /\ Cardinality(inPeers) <= InboundLimit
    /\ inPeerCountByHost \in [Host -> Nat]
    /\ \A x \in Host : inPeerCountByHost[x] = Cardinality(inPeers \cap HandlersOf(x))

LimitInv ==
    \A x \in Host \ (Local \cup crowded) :
      /\ inPeerCountByHost[x] <= MAX_INBOUND_PEER_CONNECTIONS_FROM_SAME_HOST
      /\ \A h, i \in HandlersOf(x) :
           IsUncounted(h) /\ IsUncounted(i) =>
             h = i /\ inPeerCountByHost[x] < MAX_INBOUND_PEER_CONNECTIONS_FROM_SAME_HOST

----------------------------------------------------------------------------
(* Shutdown. *)

IsCopied == main.pc \in {"shut", "down"} \/ (main.pc = "await" /\ main.ret = "shut")

ShutdownInv ==
    /\ toShut \subseteq PeerID
    /\ main.pc = "stopped" \/ IsCopied => \A h \in Handler : handler[h] # "store"
    /\ IsCopied => \A h \in Handler : handler[h] \in {"add", "run"} => h \in latecomers
    /\ IsCopied => \A id \in PeerID :
         IsLive(id) => \/ id \in latecomers \/ (id \in toShut /\ main.pc # "down")
                       \/ main.pc = "await" /\ main.id = id

Inv == StorageInv /\ MainInv /\ OutboundInv /\ HandlersTyped /\ InboundInv /\ LimitInv
       /\ ShutdownInv

----------------------------------------------------------------------------
(* The storage *)

LEMMA Constants ==
    /\ Main \in Caller /\ Outbound \subseteq Caller /\ Handler \subseteq Caller
    /\ \A id \in Outbound : id \in PeerID /\ id \notin Handler /\ id # Main /\ id[1] \in Addr
    /\ \A h \in Handler : h \in PeerID /\ h # Main
    /\ None \notin Addr /\ None \notin Caller
    /\ None \notin Info /\ None \notin Lookup /\ None \notin PeerState
    /\ Self \in Addr
    /\ MaxRank \in Nat /\ MaxRank > 0 /\ MaxTime \in Nat
    /\ MAX_OUTBOUND_PEER_CONNECTIONS \in Nat /\ MAX_OUTBOUND_PEER_CONNECTIONS > 0
    /\ MAX_INBOUND_PEER_CONNECTIONS_FROM_SAME_HOST \in Nat
    /\ MAX_INBOUND_PEER_CONNECTIONS_FROM_SAME_HOST > 0
    /\ InboundLimit \in Nat /\ InboundLimit > 0
    /\ AddrCapacity \in Nat /\ AddrCapacity > 0
    /\ AnnouncedBy \in [Handler -> (Addr \ {Self}) \cup {None}]
    /\ \A h \in Handler : HostOf[h] \in Host
BY PeerStorageAssumption, PeerManagerAssumption DEF PeerID, Host

LEMMA StorageReads ==
    ASSUME StorageInv, NEW g \in Caller, NEW a \in Addr, Read(g, a)
    PROVE  StorageInv'
<1>1. StorageTyped'
  <2>1. [addr |-> a, seen |-> info[a]] \in Lookup
    BY DEF StorageInv, StorageTyped, Lookup
  <2>2. pending' \in [Caller -> Lookup \cup {None}]
    BY <2>1 DEF StorageInv, StorageTyped, Read
  <2>3. ASSUME NEW f \in Caller, pending'[f] # None, pending'[f].seen # None
        PROVE  /\ pending'[f].seen.attempt \in 1..now
               /\ pending'[f].seen.success \in {0} \cup MaxRank+1..now
    <3>1. CASE f = g
      BY <2>3, <3>1 DEF StorageInv, StorageTyped, Read
    <3>2. CASE f # g
      BY <2>3, <3>2 DEF StorageInv, StorageTyped, Read
    <3> QED
      BY <3>1, <3>2
  <2> QED
    BY <2>2, <2>3 DEF StorageInv, StorageTyped, Read
<1>2. IndicesMatchInfoUnlessRaced'
  BY DEF StorageInv, Read, IndicesMatchInfoUnlessRaced, KeysOf
<1> QED
  BY <1>1, <1>2 DEF StorageInv

LEMMA TimePasses ==
    ASSUME StorageInv, PassTime
    PROVE  StorageInv'
<1>1. now \in Nat /\ now' = now + 1 /\ MaxRank \in Nat
  BY Constants DEF StorageInv, StorageTyped, PassTime
<1>2. \A n : n \in 1..now => n \in 1..now'
  BY <1>1
<1>3. \A n : n \in {0} \cup MaxRank+1..now => n \in {0} \cup MaxRank+1..now'
  BY <1>1
<1>4. StorageTyped'
  BY <1>1, <1>2, <1>3 DEF StorageInv, StorageTyped, PassTime
<1>5. IndicesMatchInfoUnlessRaced'
  BY DEF StorageInv, PassTime, IndicesMatchInfoUnlessRaced, KeysOf
<1> QED
  BY <1>4, <1>5 DEF StorageInv

LEMMA Disconnects ==
    ASSUME StorageInv, NEW a, OnDisconnect(a)
    PROVE  StorageInv'
BY DEF StorageInv, StorageTyped, OnDisconnect, IndicesMatchInfoUnlessRaced, KeysOf

\* The four operations that write a batch.
WriteAny(g) == WriteStore(g) \/ WriteAttempt(g) \/ WriteSuccess(g) \/ WriteDelete(g) \/ Unwritten(g)

\* What a caller has read.
LEMMA PendingTyped ==
    ASSUME StorageInv, NEW g \in Caller, pending[g] # None
    PROVE  /\ Addressed(g) \in Addr /\ Seen(g) \in Info \cup {None}
           /\ IsKnown(g) =>
                /\ Seen(g).attempt \in 1..now /\ Seen(g).success \in {0} \cup MaxRank+1..now
                /\ Seen(g) \in Info
BY DEF StorageInv, StorageTyped, Lookup, Addressed, Seen, IsKnown

\* What any batch leaves of the types, given the one record it writes.
LEMMA BatchTyped ==
    ASSUME StorageInv, NEW g \in Caller, pending[g] # None, Return(g),
           NEW i \in Info \cup {None}, info' = [info EXCEPT ![Addressed(g)] = i],
           i # None => i.attempt \in 1..now /\ i.success \in {0} \cup MaxRank+1..now,
           attempts' \subseteq Nat \X Addr, connectedPeers' \subseteq Addr
    PROVE  StorageTyped'
<1>1. pending' \in [Caller -> Lookup \cup {None}] /\ now' = now
  BY DEF StorageInv, StorageTyped, Return
<1>2. \A f \in Caller : pending'[f] # None => pending'[f] = pending[f]
  BY DEF StorageInv, StorageTyped, Return
<1>3. info' \in [Addr -> Info \cup {None}]
  BY DEF StorageInv, StorageTyped
<1>4. ASSUME NEW a \in Addr, info'[a] # None
      PROVE  info'[a].attempt \in 1..now' /\ info'[a].success \in {0} \cup MaxRank+1..now'
  <2>1. CASE a = Addressed(g)
    BY <1>1, <1>4, <2>1 DEF StorageInv, StorageTyped
  <2>2. CASE a # Addressed(g)
    BY <1>1, <1>4, <2>2 DEF StorageInv, StorageTyped
  <2> QED
    BY <2>1, <2>2
<1> QED
  BY <1>1, <1>2, <1>3, <1>4 DEF StorageInv, StorageTyped

\* The indices list the times of this record.
ListsOf(a, i, byAttempt, bySuccess) ==
    IF i = None
    THEN KeysOf(byAttempt, a) = {} /\ KeysOf(bySuccess, a) = {}
    ELSE /\ KeysOf(byAttempt, a) = {<<i.attempt, a>>}
         /\ KeysOf(bySuccess, a) = IF i.success = 0 THEN {} ELSE {<<i.success, a>>}

\* It is enough that the batch is right for the record it was computed from.
LEMMA BatchIndexed ==
    ASSUME StorageInv, NEW g \in Caller, pending[g] # None, Noted(g),
           NEW i, info' = [info EXCEPT ![Addressed(g)] = i],
           \A b : b # Addressed(g) =>
             KeysOf(attempts', b) = KeysOf(attempts, b) /\ KeysOf(successes', b) = KeysOf(successes, b),
           ListsOf(Addressed(g), Seen(g), attempts, successes)
             => ListsOf(Addressed(g), i, attempts', successes')
    PROVE  IndicesMatchInfoUnlessRaced'
<1> SUFFICES ASSUME NEW a \in Addr, a \notin raced'
             PROVE  ListsOf(a, info'[a], attempts', successes')
  BY DEF IndicesMatchInfoUnlessRaced, ListsOf, KeysOf
<1>1. a \notin raced /\ (a = Addressed(g) => info[a] = Seen(g))
  BY DEF Noted
<1>2. ListsOf(a, info[a], attempts, successes)
  BY <1>1 DEF StorageInv, IndicesMatchInfoUnlessRaced, ListsOf
<1>3. CASE a = Addressed(g)
  <2>1. info'[a] = i
    BY <1>3 DEF StorageInv, StorageTyped
  <2> QED
    BY <1>1, <1>2, <1>3, <2>1
<1>4. CASE a # Addressed(g)
  <2>1. info'[a] = info[a]
    BY <1>4 DEF StorageInv, StorageTyped
  <2> QED
    BY <1>2, <1>4, <2>1 DEF ListsOf
<1> QED
  BY <1>3, <1>4

LEMMA UnwrittenKeeps ==
    ASSUME StorageInv, NEW g \in Caller, Unwritten(g)
    PROVE  StorageInv'
<1>1. \A f \in Caller : pending'[f] # None => pending'[f] = pending[f]
  BY DEF StorageInv, StorageTyped, Unwritten, Return
<1>2. pending' \in [Caller -> Lookup \cup {None}]
  BY DEF StorageInv, StorageTyped, Unwritten, Return
<1>3. StorageTyped'
  BY <1>1, <1>2 DEF StorageInv, StorageTyped, Unwritten, Return
<1>4. IndicesMatchInfoUnlessRaced'
  BY DEF StorageInv, IndicesMatchInfoUnlessRaced, Unwritten, KeysOf
<1> QED
  BY <1>3, <1>4 DEF StorageInv

LEMMA StoreKeeps ==
    ASSUME StorageInv, NEW g \in Caller, pending[g] # None, WriteStore(g)
    PROVE  StorageInv'
<1>1. CASE IsKnown(g)
  BY <1>1, UnwrittenKeeps DEF WriteStore
<1>2. CASE ~IsKnown(g)
  <2>1. PICK rank \in 1..MaxRank :
          /\ info' = [info EXCEPT ![Addressed(g)] = [attempt |-> rank, success |-> 0]]
          /\ attempts' = attempts \cup {<<rank, Addressed(g)>>}
    BY <1>2 DEF WriteStore
  <2>2. /\ Noted(g) /\ Return(g)
        /\ successes' = successes /\ connectedPeers' = connectedPeers
    BY <1>2 DEF WriteStore
  <2> DEFINE a == Addressed(g)
             i == [attempt |-> rank, success |-> 0]
  <2>3. a \in Addr
    BY PendingTyped
  <2>4. MaxRank \in Nat /\ now \in Nat /\ now > MaxRank
    BY Constants DEF StorageInv, StorageTyped
  <2>5. /\ i \in Info /\ i # None /\ i.attempt = rank /\ i.success = 0
        /\ i.attempt \in 1..now /\ i.success \in {0} \cup MaxRank+1..now
    BY <2>4, Constants DEF Info
  <2>6. attempts' \subseteq Nat \X Addr /\ connectedPeers' \subseteq Addr
    BY <2>1, <2>2, <2>3, <2>4 DEF StorageInv, StorageTyped
  <2>7. StorageTyped'
    <3> HIDE DEF i
    <3> QED
      BY <2>1, <2>2, <2>5, <2>6, BatchTyped DEF i
  <2>8. IndicesMatchInfoUnlessRaced'
    <3>1. Seen(g) = None
      BY <1>2 DEF IsKnown
    <3>2. \A b : KeysOf(attempts', b)
                   = IF b = a THEN KeysOf(attempts, a) \cup {<<rank, a>>} ELSE KeysOf(attempts, b)
      BY <2>1 DEF KeysOf
    <3>3. ListsOf(a, Seen(g), attempts, successes) => ListsOf(a, i, attempts', successes')
      BY <2>2, <2>5, <3>1, <3>2 DEF ListsOf
    <3>4. \A b : b # a =>
            KeysOf(attempts', b) = KeysOf(attempts, b) /\ KeysOf(successes', b) = KeysOf(successes, b)
      BY <2>2, <3>2
    <3> HIDE DEF i
    <3> QED
      BY <2>1, <2>2, <3>3, <3>4, BatchIndexed DEF i
  <2> QED
    BY <2>7, <2>8 DEF StorageInv
<1> QED
  BY <1>1, <1>2

LEMMA AttemptKeeps ==
    ASSUME StorageInv, NEW g \in Caller, pending[g] # None, WriteAttempt(g)
    PROVE  StorageInv'
<1>1. CASE ~IsKnown(g)
  BY <1>1, UnwrittenKeeps DEF WriteAttempt
<1>2. CASE IsKnown(g)
  <2> DEFINE a == Addressed(g)
             s == Seen(g)
             i == [Seen(g) EXCEPT !.attempt = now]
  <2>1. /\ info' = [info EXCEPT ![a] = i]
        /\ attempts' = (attempts \ {<<s.attempt, a>>}) \cup {<<now, a>>}
        /\ Noted(g) /\ Return(g)
        /\ successes' = successes /\ connectedPeers' = connectedPeers
    BY <1>2 DEF WriteAttempt
  <2>2. a \in Addr /\ s \in Info /\ s # None /\ s.success \in {0} \cup MaxRank+1..now
    BY <1>2, PendingTyped DEF IsKnown
  <2>3. MaxRank \in Nat /\ now \in Nat /\ now > MaxRank
    BY Constants DEF StorageInv, StorageTyped
  <2>4. i \in Info /\ i.attempt = now /\ i.success = s.success
    BY <2>2, <2>3 DEF Info
  <2>5. i # None /\ i.attempt \in 1..now /\ i.success \in {0} \cup MaxRank+1..now
    BY <2>2, <2>3, <2>4, Constants
  <2>6. attempts' \subseteq Nat \X Addr /\ connectedPeers' \subseteq Addr
    BY <2>1, <2>2, <2>3 DEF StorageInv, StorageTyped
  <2>7. \A b : KeysOf(attempts', b)
                 = IF b = a THEN (KeysOf(attempts, a) \ {<<s.attempt, a>>}) \cup {<<now, a>>}
                   ELSE KeysOf(attempts, b)
    BY <2>1 DEF KeysOf
  <2>8. ListsOf(a, s, attempts, successes) => ListsOf(a, i, attempts', successes')
    <3> HIDE DEF i, s, a
    <3> QED
      BY <2>1, <2>2, <2>4, <2>5, <2>7 DEF ListsOf
  <2> HIDE DEF i
  <2>9. StorageTyped'
    BY <2>1, <2>4, <2>5, <2>6, BatchTyped
  <2>10. IndicesMatchInfoUnlessRaced'
    BY <2>1, <2>7, <2>8, BatchIndexed
  <2> QED
    BY <2>9, <2>10 DEF StorageInv
<1> QED
  BY <1>1, <1>2

LEMMA SuccessKeeps ==
    ASSUME StorageInv, NEW g \in Caller, pending[g] # None, WriteSuccess(g)
    PROVE  StorageInv'
<1>1. CASE ~IsKnown(g)
  BY <1>1, UnwrittenKeeps DEF WriteSuccess
<1>2. CASE IsKnown(g)
  <2> DEFINE a == Addressed(g)
             s == Seen(g)
             i == [Seen(g) EXCEPT !.success = now]
  <2>1. /\ info' = [info EXCEPT ![a] = i]
        /\ successes' = (successes \ {<<s.success, a>>}) \cup {<<now, a>>}
        /\ Noted(g) /\ Return(g)
        /\ attempts' = attempts /\ connectedPeers' = connectedPeers \cup {a}
    BY <1>2 DEF WriteSuccess
  <2>2. a \in Addr /\ s \in Info /\ s # None /\ s.attempt \in 1..now
    BY <1>2, PendingTyped DEF IsKnown
  <2>3. MaxRank \in Nat /\ now \in Nat /\ now > MaxRank
    BY Constants DEF StorageInv, StorageTyped
  <2>4. i \in Info /\ i.attempt = s.attempt /\ i.success = now
    BY <2>2, <2>3 DEF Info
  <2>5. i # None /\ i.attempt \in 1..now /\ i.success \in {0} \cup MaxRank+1..now /\ i.success # 0
    BY <2>2, <2>3, <2>4, Constants
  <2>6. attempts' \subseteq Nat \X Addr /\ connectedPeers' \subseteq Addr
    BY <2>1, <2>2 DEF StorageInv, StorageTyped
  <2>7. \A b : KeysOf(successes', b)
                 = IF b = a THEN (KeysOf(successes, a) \ {<<s.success, a>>}) \cup {<<now, a>>}
                   ELSE KeysOf(successes, b)
    BY <2>1 DEF KeysOf
  <2>8. ListsOf(a, s, attempts, successes) => ListsOf(a, i, attempts', successes')
    <3> HIDE DEF i, s, a
    <3> QED
      BY <2>1, <2>2, <2>4, <2>5, <2>7 DEF ListsOf
  <2> HIDE DEF i
  <2>9. StorageTyped'
    BY <2>1, <2>4, <2>5, <2>6, BatchTyped
  <2>10. IndicesMatchInfoUnlessRaced'
    BY <2>1, <2>7, <2>8, BatchIndexed
  <2> QED
    BY <2>9, <2>10 DEF StorageInv
<1> QED
  BY <1>1, <1>2

LEMMA DeleteKeeps ==
    ASSUME StorageInv, NEW g \in Caller, pending[g] # None, WriteDelete(g)
    PROVE  StorageInv'
<1>1. CASE ~IsKnown(g)
  BY <1>1, UnwrittenKeeps DEF WriteDelete
<1>2. CASE IsKnown(g)
  <2> DEFINE a == Addressed(g)
             s == Seen(g)
  <2>1. /\ info' = [info EXCEPT ![a] = None]
        /\ attempts' = attempts \ {<<s.attempt, a>>}
        /\ successes' = successes \ {<<s.success, a>>}
        /\ Noted(g) /\ Return(g) /\ connectedPeers' = connectedPeers
    BY <1>2 DEF WriteDelete
  <2>2. a \in Addr /\ s # None
    BY <1>2, PendingTyped DEF IsKnown
  <2>3. attempts' \subseteq Nat \X Addr /\ connectedPeers' \subseteq Addr
    BY <2>1 DEF StorageInv, StorageTyped
  <2>4. \A b : KeysOf(attempts', b)
                 = IF b = a THEN KeysOf(attempts, a) \ {<<s.attempt, a>>} ELSE KeysOf(attempts, b)
    BY <2>1 DEF KeysOf
  <2>5. \A b : KeysOf(successes', b)
                 = IF b = a THEN KeysOf(successes, a) \ {<<s.success, a>>} ELSE KeysOf(successes, b)
    BY <2>1 DEF KeysOf
  <2>6. ListsOf(a, s, attempts, successes) => ListsOf(a, None, attempts', successes')
    <3> HIDE DEF s, a
    <3> QED
      BY <2>1, <2>2, <2>4, <2>5 DEF ListsOf
  <2>7. StorageTyped'
    BY <2>1, <2>3, BatchTyped
  <2>8. IndicesMatchInfoUnlessRaced'
    BY <2>1, <2>4, <2>5, <2>6, BatchIndexed
  <2> QED
    BY <2>7, <2>8 DEF StorageInv
<1> QED
  BY <1>1, <1>2

\* What an operation changes besides: its caller's lookup; only a deletion
\* removes a record, and only a success adds to connectedPeers.
Keeping(g) == WriteStore(g) \/ WriteAttempt(g) \/ WriteSuccess(g) \/ Unwritten(g)

LEMMA WriteEffect ==
    ASSUME StorageInv, NEW g \in Caller, pending[g] # None, WriteAny(g)
    PROVE  /\ StorageInv'
           /\ \A f \in Caller : f # g => pending'[f] = pending[f]
           /\ Keeping(g) => \A a \in Addr : info[a] # None => info'[a] # None
           /\ WriteDelete(g) =>
                \A a \in Addr : info[a] # None /\ a # pending[g].addr => info'[a] # None
           /\ ~WriteSuccess(g) \/ ~IsKnown(g) => connectedPeers' = connectedPeers
           /\ WriteSuccess(g) /\ IsKnown(g) =>
                /\ connectedPeers' = connectedPeers \cup {pending[g].addr}
                /\ pending[g].addr \in Addr /\ info'[pending[g].addr] # None
<1>1. StorageInv'
  BY UnwrittenKeeps, StoreKeeps, AttemptKeeps, SuccessKeeps, DeleteKeeps DEF WriteAny
<1>2. \A f \in Caller : f # g => pending'[f] = pending[f]
  BY DEF WriteAny, WriteStore, WriteAttempt, WriteSuccess, WriteDelete, Unwritten, Return,
         StorageInv, StorageTyped
<1>3. ~WriteSuccess(g) \/ ~IsKnown(g) => connectedPeers' = connectedPeers
  BY DEF WriteAny, WriteStore, WriteAttempt, WriteSuccess, WriteDelete, Unwritten
<1>4. info \in [Addr -> Info \cup {None}] /\ None \notin Info
  BY Constants DEF StorageInv, StorageTyped
<1>5. \A i : info' = [info EXCEPT ![Addressed(g)] = i] =>
             \A a \in Addr : info'[a] = IF a = Addressed(g) THEN i ELSE info[a]
  BY <1>4
<1>6. IsKnown(g) =>
        [Seen(g) EXCEPT !.attempt = now] \in Info /\ [Seen(g) EXCEPT !.success = now] \in Info
  <2>1. IsKnown(g) => Seen(g) \in Info
    BY PendingTyped
  <2>2. now \in Nat
    BY DEF StorageInv, StorageTyped
  <2> QED
    BY <2>1, <2>2 DEF Info
<1>7. ASSUME NEW a \in Addr, info[a] # None, Keeping(g)
      PROVE  info'[a] # None
  <2>1. CASE Unwritten(g)
    BY <1>7, <2>1 DEF Unwritten
  <2>2. CASE WriteStore(g) /\ ~IsKnown(g)
    <3>1. PICK rank \in 1..MaxRank :
            info' = [info EXCEPT ![Addressed(g)] = [attempt |-> rank, success |-> 0]]
      BY <2>2 DEF WriteStore
    <3>2. [attempt |-> rank, success |-> 0] \in Info
      BY Constants DEF Info
    <3> QED
      BY <1>4, <1>5, <1>7, <3>1, <3>2
  <2>3. CASE (WriteAttempt(g) \/ WriteSuccess(g)) /\ IsKnown(g)
    BY <1>4, <1>5, <1>6, <1>7, <2>3 DEF WriteAttempt, WriteSuccess
  <2> QED
    BY <1>7, <2>1, <2>2, <2>3 DEF Keeping, WriteStore, WriteAttempt, WriteSuccess
<1>8. WriteDelete(g) =>
        \A a \in Addr : info[a] # None /\ a # pending[g].addr => info'[a] # None
  BY <1>5 DEF WriteDelete, Unwritten, Addressed
<1>9. WriteSuccess(g) /\ IsKnown(g) =>
        /\ connectedPeers' = connectedPeers \cup {pending[g].addr}
        /\ pending[g].addr \in Addr /\ info'[pending[g].addr] # None
  BY <1>4, <1>5, <1>6, PendingTyped DEF WriteSuccess, Addressed
<1> QED
  BY <1>1, <1>2, <1>3, <1>7, <1>8, <1>9

LEMMA ReadEffect ==
    ASSUME StorageInv, NEW g \in Caller, NEW a \in Addr, Read(g, a)
    PROVE  /\ pending' = [pending EXCEPT ![g] = [addr |-> a, seen |-> info[a]]]
           /\ pending'[g] # None /\ pending'[g].addr = a
           /\ UNCHANGED <<info, connectedPeers>>
<1>1. [addr |-> a, seen |-> info[a]] \in Lookup
  BY DEF StorageInv, StorageTyped, Lookup
<1> QED
  BY <1>1, Constants DEF StorageInv, StorageTyped, Read

\* A step in which no goroutine but g works on the storage.
StorageStep(g) ==
    \/ UNCHANGED storageVars
    \/ \E a \in Addr : Read(g, a)
    \/ pending[g] # None /\ WriteAny(g)
    \/ \E a \in Addr : OnDisconnect(a)
    \/ PassTime

LEMMA StorageStepKeeps ==
    ASSUME StorageInv, NEW g \in Caller, StorageStep(g)
    PROVE  StorageInv' /\ \A f \in Caller : f # g => pending'[f] = pending[f]
<1>1. CASE UNCHANGED storageVars
  BY <1>1 DEF StorageInv, StorageTyped, IndicesMatchInfoUnlessRaced, KeysOf, storageVars
<1>2. ASSUME NEW a \in Addr, Read(g, a)
      PROVE  StorageInv' /\ \A f \in Caller : f # g => pending'[f] = pending[f]
  BY <1>2, StorageReads, ReadEffect DEF StorageInv, StorageTyped
<1>3. CASE pending[g] # None /\ WriteAny(g)
  BY <1>3, WriteEffect
<1>4. ASSUME NEW a \in Addr, OnDisconnect(a)
      PROVE  StorageInv' /\ \A f \in Caller : f # g => pending'[f] = pending[f]
  BY <1>4, Disconnects DEF OnDisconnect
<1>5. CASE PassTime
  BY <1>5, TimePasses DEF PassTime
<1> QED
  BY <1>1, <1>2, <1>3, <1>4, <1>5 DEF StorageStep

----------------------------------------------------------------------------
(* The main loop's own invariant. *)

LEMMA AtFields ==
    ASSUME NEW pc \in Pc
    PROVE  /\ At(pc) \in MainState
           /\ At(pc).pc = pc /\ At(pc).ret = None /\ At(pc).addr = None
<1>1. Idle \in MainState /\ Idle.ret = None /\ Idle.addr = None
  <2>1. "select" \in Pc
    BY DEF Pc
  <2>2. <<>> \in Seq(Addr) /\ {} \in SUBSET Addr /\ 0 \in Nat
    OBVIOUS
  <2> QED
    BY <2>1, <2>2 DEF Idle, MainState
<1>2. At(pc) = [Idle EXCEPT !.pc = pc]
  BY DEF At
<1> HIDE DEF Idle
<1> QED
  BY <1>1, <1>2 DEF MainState

\* Where the loop is between two pieces of work.
Resting == {"start", "tick", "drop", "plan", "panic", "select", "closing", "stopped", "shut", "down"}

\* The places that a step of the main loop may go to.
LEMMA WhereItGoes ==
    ASSUME main \in MainState
    PROVE  /\ DropRandomPeer => main'.pc \in {"plan", "await"}
           /\ GetAddresses => main'.pc \in {"select", "next", "panic"}
           /\ NextAddress => main'.pc \in {"select", "get", "delete", "connect"}
<1>1. \A pc : At(pc).pc = pc
  BY DEF At, Idle
<1>2. ASSUME NEW pc, NEW s, NEW t, NEW a, NEW for
      PROVE  /\ [main EXCEPT !.pc = pc].pc = pc
             /\ [main EXCEPT !.pc = pc, !.todo = s].pc = pc
             /\ [[main EXCEPT !.todo = s, !.tried = t] EXCEPT !.pc = pc].pc = pc
             /\ [[main EXCEPT !.todo = s, !.tried = t] EXCEPT !.pc = pc, !.addr = a, !.for = for].pc = pc
  BY DEF MainState
<1>3. ASSUME DropRandomPeer PROVE main'.pc \in {"plan", "await"}
  <2>1. main' = At("plan") \/ \E i : main' = [At("await") EXCEPT !.id = i, !.ret = "plan"]
    BY <1>3 DEF DropRandomPeer, Go
  <2>2. \A i : [At("await") EXCEPT !.id = i, !.ret = "plan"].pc = "await"
    BY DEF At, Idle
  <2> QED
    BY <1>1, <2>1, <2>2
<1>4. ASSUME GetAddresses PROVE main'.pc \in {"select", "next", "panic"}
  <2>1. \/ main' = At("select") \/ main' = At("panic")
        \/ \E s : main' = [main EXCEPT !.pc = "next", !.todo = s]
    BY <1>4 DEF GetAddresses, Go
  <2>2. CASE main' = At("select") \/ main' = At("panic")
    BY <2>2, <1>1
  <2>3. ASSUME NEW s, main' = [main EXCEPT !.pc = "next", !.todo = s]
        PROVE  main'.pc = "next"
    BY <2>3, <1>2
  <2> QED
    BY <2>1, <2>2, <2>3
<1>5. ASSUME NextAddress PROVE main'.pc \in {"select", "get", "delete", "connect"}
  <2> DEFINE rest == [main EXCEPT !.todo = Tail(@), !.tried = @ \cup {Head(main.todo)}]
  <2>1. \/ main' = At("select") \/ main' = [main EXCEPT !.pc = "get"]
        \/ main' = [rest EXCEPT !.pc = "delete"]
        \/ main' = [rest EXCEPT !.pc = "connect", !.addr = Head(main.todo), !.for = "list"]
    BY <1>5 DEF NextAddress, Go
  <2>2. /\ [rest EXCEPT !.pc = "delete"].pc = "delete"
        /\ [rest EXCEPT !.pc = "connect", !.addr = Head(main.todo), !.for = "list"].pc = "connect"
    BY <1>2
  <2> HIDE DEF rest
  <2>3. At("select").pc = "select" /\ [main EXCEPT !.pc = "get"].pc = "get"
    BY <1>1, <1>2
  <2> QED
    BY <2>1, <2>2, <2>3
<1> QED
  BY <1>3, <1>4, <1>5

LEMMA MainRests ==
    ASSUME MainInv, NEW pc \in Resting, main' = At(pc), UNCHANGED <<explicit, banned>>,
           outPeers' \subseteq outPeers,
           addrChan' \in Seq(Addr), Len(addrChan') <= AddrCapacity
    PROVE  MainInv'
<1>1. main' \in MainState /\ main'.pc = pc
  BY AtFields DEF Resting, Pc
<1>2. IsFiniteSet(outPeers') /\ Cardinality(outPeers') <= Cardinality(outPeers)
  BY FS_Subset DEF MainInv, MainTyped
<1>3. Cardinality(outPeers') \in Nat /\ Cardinality(outPeers) \in Nat
  BY <1>2, FS_CardinalityType DEF MainInv, MainTyped
<1>4. MainTyped'
  BY <1>1, <1>2, <1>3, Constants DEF MainInv, MainTyped
<1>5. MainCalls'
  BY <1>1 DEF MainCalls, Resting, Calling
<1>6. MainPlans'
  BY <1>1 DEF MainInv, MainPlans, Resting, Dialling
<1> QED
  BY <1>4, <1>5, <1>6 DEF MainInv

\* The fields of the main loop's state.
LEMMA MainFields ==
    ASSUME MainInv
    PROVE  /\ main.pc \in Pc /\ main.todo \in Seq(Addr) /\ main.tried \subseteq Addr
           /\ main.want \in Nat /\ main.for \in {None, "list", "self", "explicit"}
           /\ main.ret \in {None, "plan", "drop", "shut"} /\ main.id \in PeerID \cup {None}
           /\ Cardinality(outPeers) \in Nat
BY FS_CardinalityType DEF MainInv, MainTyped, MainState

LEMMA BootKeepsMain ==
    ASSUME StorageInv, MainInv, Boot
    PROVE  MainInv'
<1>1. CASE main.pc = "boot" /\ Read(Main, explicit) /\ Go(At("booting")) /\ StorageOnly
  <2>1. explicit \in Addr
    BY <1>1 DEF MainInv, MainPlans, MainTyped
  <2>2. pending'[Main] # None
    BY <1>1, <2>1, ReadEffect, Constants
  <2>3. main' \in MainState /\ main'.pc = "booting"
    BY <1>1, AtFields DEF Pc, Go
  <2> QED
    BY <1>1, <2>2, <2>3 DEF MainInv, MainTyped, MainCalls, MainPlans, StorageOnly, Dialling, Calling
<1>2. CASE main.pc = "booting" /\ WriteStore(Main) /\ Go(At("start")) /\ StorageOnly
  BY <1>2, MainRests DEF Go, StorageOnly, Resting, MainInv, MainTyped
<1> QED
  BY <1>1, <1>2 DEF Boot

LEMMA ListenForPeersKeepsMain ==
    ASSUME StorageInv, MainInv, ListenForPeers
    PROVE  MainInv'
<1> DEFINE ret == AfterListening
<1>1. ret \in {"plan", "drop"}
  BY DEF AfterListening
<1>2. UNCHANGED <<explicit, banned, outPeers, addrChan>>
  BY DEF ListenForPeers
<1>3. CASE main' = At(ret)
  BY <1>1, <1>2, <1>3, MainRests DEF Resting, MainInv, MainTyped
<1>4. CASE Read(Main, Self) /\ main' = [At("storeSelf") EXCEPT !.ret = ret]
  <2>1. pending'[Main] # None
    BY <1>4, ReadEffect, Constants
  <2>2. main' \in MainState /\ main'.pc = "storeSelf" /\ main'.ret = ret
    <3> DEFINE m == At("storeSelf")
    <3>1. m \in MainState /\ m.pc = "storeSelf" /\ main' = [m EXCEPT !.ret = ret]
      BY <1>4, AtFields DEF Pc
    <3> HIDE DEF ret, m
    <3> QED
      BY <1>1, <3>1 DEF MainState
  <2> HIDE DEF ret
  <2> QED
    BY <1>1, <1>2, <2>1, <2>2 DEF MainInv, MainTyped, MainCalls, MainPlans, Dialling, Calling
<1> QED
  BY <1>3, <1>4 DEF ListenForPeers, Go

LEMMA StoreSelfKeepsMain ==
    ASSUME StorageInv, MainInv, StoreSelf
    PROVE  MainInv'
<1>1. main' = [main EXCEPT !.pc = "connect", !.addr = Self, !.for = "self"]
  BY DEF StoreSelf, Go
<1>2. /\ main' \in MainState /\ main'.pc = "connect" /\ main'.addr = Self /\ main'.for = "self"
      /\ main'.ret = main.ret
  BY <1>1, Constants DEF MainInv, MainTyped, MainState, Pc
<1>3. main.ret \in {"plan", "drop"}
  BY DEF StoreSelf, MainInv, MainPlans
<1> QED
  BY <1>2, <1>3, Constants
  DEF StoreSelf, MainInv, MainTyped, MainCalls, MainPlans, Dialling, Calling, StorageOnly

LEMMA DropRandomPeerKeepsMain ==
    ASSUME MainInv, DropRandomPeer
    PROVE  MainInv'
<1>1. UNCHANGED <<explicit, banned, outPeers, addrChan>>
  BY DEF DropRandomPeer
<1>2. CASE main' = At("plan")
  BY <1>1, <1>2, MainRests DEF Resting, MainInv, MainTyped
<1>3. ASSUME NEW id \in Outbound, main' = [At("await") EXCEPT !.id = id, !.ret = "plan"]
      PROVE  MainInv'
  <2>1. main' \in MainState /\ main'.pc = "await" /\ main'.ret = "plan"
    <3> DEFINE m == At("await")
    <3>1. m \in MainState /\ m.pc = "await" /\ main' = [m EXCEPT !.id = id, !.ret = "plan"]
      BY <1>3, AtFields DEF Pc
    <3> HIDE DEF m
    <3> QED
      BY <3>1, Constants DEF MainState
  <2> QED
    BY <1>1, <2>1 DEF MainInv, MainTyped, MainCalls, MainPlans, Dialling, Calling
<1> QED
  BY <1>2, <1>3 DEF DropRandomPeer, Go

LEMMA AwaitKeepsMain ==
    ASSUME MainInv, Await
    PROVE  MainInv'
<1>1. main.ret \in Resting /\ main' = At(main.ret) /\ LoopOnly
  BY DEF Await, Go, MainInv, MainPlans, Resting
<1> DEFINE ret == main.ret
<1>2. ret \in Resting /\ main' = At(ret)
  BY <1>1
<1> HIDE DEF ret
<1> QED
  BY <1>1, <1>2, MainRests DEF LoopOnly, MainInv, MainTyped

LEMMA ConnectToPeersKeepsMain ==
    ASSUME MainInv, ConnectToPeers
    PROVE  MainInv'
<1>1. UNCHANGED <<explicit, banned, outPeers, addrChan>>
  BY DEF ConnectToPeers, LoopOnly
<1>2. CASE main' = At("select")
  BY <1>1, <1>2, MainRests DEF Resting, MainInv, MainTyped
<1>3. CASE explicit # None /\ main' = [At("connect") EXCEPT !.addr = explicit, !.for = "explicit"]
  <2>1. /\ main' \in MainState /\ main'.pc = "connect" /\ main'.addr = explicit
        /\ main'.for = "explicit" /\ explicit \in Addr
    <3> DEFINE m == At("connect")
    <3>1. /\ m \in MainState /\ m.pc = "connect" /\ explicit \in Addr
          /\ main' = [m EXCEPT !.addr = explicit, !.for = "explicit"]
      BY <1>3, AtFields DEF Pc, MainInv, MainTyped
    <3> HIDE DEF m
    <3> QED
      BY <3>1 DEF MainState
  <2> QED
    BY <1>1, <1>3, <2>1 DEF MainInv, MainTyped, MainCalls, MainPlans, Dialling, Calling
<1>4. ASSUME NEW want \in {1, MAX_OUTBOUND_PEER_CONNECTIONS}, explicit = None,
             main' = [At("get") EXCEPT !.want = want]
      PROVE  MainInv'
  <2>1. main' \in MainState /\ main'.pc = "get"
    <3> DEFINE m == At("get")
    <3>1. m \in MainState /\ m.pc = "get" /\ main' = [m EXCEPT !.want = want] /\ want \in Nat
      BY <1>4, AtFields, Constants DEF Pc
    <3> HIDE DEF m
    <3> QED
      BY <3>1 DEF MainState
  <2> QED
    BY <1>1, <1>4, <2>1 DEF MainInv, MainTyped, MainCalls, MainPlans, Dialling, Calling
<1> QED
  BY <1>2, <1>3, <1>4 DEF ConnectToPeers, Go

\* The addresses that Get returns are addresses of the index.
LEMMA ResultsTyped ==
    ASSUME StorageInv, NEW count \in Int, NEW s \in Results(count)
    PROVE  s \in Seq(Addr)
<1>1. PICK t \in UNION {[1..n -> Candidates] : n \in 0..count} : s = [i \in DOMAIN t |-> t[i][2]]
  BY DEF Results
<1>2. PICK n \in 0..count : t \in [1..n -> Candidates]
  BY <1>1
<1>3. n \in Nat /\ DOMAIN t = 1..n
  BY <1>2
<1>4. \A i \in 1..n : t[i][2] \in Addr
  BY <1>2 DEF Candidates, StorageInv, StorageTyped
<1>5. s \in [1..n -> Addr]
  BY <1>1, <1>3, <1>4
<1> QED
  BY <1>3, <1>5

LEMMA GetAddressesKeepsMain ==
    ASSUME StorageInv, MainInv, GetAddresses
    PROVE  MainInv'
<1>1. UNCHANGED <<explicit, banned, outPeers, addrChan>>
  BY DEF GetAddresses, LoopOnly
<1>2. CASE main' = At("select") \/ main' = At("panic")
  BY <1>1, <1>2, MainRests DEF Resting, MainInv, MainTyped
<1>3. ASSUME NEW s \in Results(Need), main' = [main EXCEPT !.pc = "next", !.todo = s]
      PROVE  MainInv'
  <2>1. Need \in Int
    BY MainFields DEF Need
  <2>2. s \in Seq(Addr)
    BY <2>1, ResultsTyped
  <2>3. main' \in MainState /\ main'.pc = "next"
    BY <1>3, <2>2 DEF MainState, Pc, MainInv, MainTyped
  <2>4. explicit = None
    BY DEF GetAddresses, MainInv, MainPlans
  <2> QED
    BY <1>1, <2>3, <2>4 DEF MainInv, MainTyped, MainCalls, MainPlans, Dialling, Calling
<1> QED
  BY <1>2, <1>3 DEF GetAddresses, Go

LEMMA NextAddressKeepsMain ==
    ASSUME StorageInv, MainInv, NextAddress
    PROVE  MainInv'
<1>1. UNCHANGED <<explicit, banned, outPeers, addrChan>>
  BY DEF NextAddress, StorageOnly
<1>2. main \in MainState /\ explicit = None
  BY DEF NextAddress, MainInv, MainPlans, MainTyped
<1>3. CASE main' = At("select")
  BY <1>1, <1>3, MainRests DEF Resting, MainInv, MainTyped
<1>4. CASE main' = [main EXCEPT !.pc = "get"]
  <2>1. main' \in MainState /\ main'.pc = "get"
    BY <1>2, <1>4 DEF MainState, Pc
  <2> QED
    BY <1>1, <1>2, <2>1 DEF MainInv, MainTyped, MainCalls, MainPlans, Dialling, Calling
<1>5. CASE main.todo # <<>> /\ main' # At("select")
  <2> DEFINE a == Head(main.todo)
             rest == [main EXCEPT !.todo = Tail(@), !.tried = @ \cup {a}]
  <2>1. main.todo \in Seq(Addr) /\ main.tried \subseteq Addr
    BY MainFields
  <2>2. a \in Addr /\ Tail(main.todo) \in Seq(Addr)
    BY <1>5, <2>1
  <2>3. rest \in MainState
    <3> DEFINE rem == Tail(main.todo)
               known == main.tried \cup {a}
    <3>1. rest = [main EXCEPT !.todo = rem, !.tried = known]
      BY <1>2 DEF MainState
    <3>2. rem \in Seq(Addr) /\ known \subseteq Addr
      BY <2>1, <2>2
    <3> HIDE DEF rem, rest, known
    <3> QED
      BY <1>2, <3>1, <3>2 DEF MainState
  <2>4. \/ a \in banned /\ Read(Main, a) /\ main' = [rest EXCEPT !.pc = "delete"]
        \/ a \notin banned /\ main' = [rest EXCEPT !.pc = "connect", !.addr = a, !.for = "list"]
    BY <1>5 DEF NextAddress, Go
  <2> HIDE DEF a, rest
  <2>5. CASE a \in banned /\ Read(Main, a) /\ main' = [rest EXCEPT !.pc = "delete"]
    <3>1. main' \in MainState /\ main'.pc = "delete"
      BY <2>3, <2>5 DEF MainState, Pc
    <3>2. pending'[Main] # None /\ pending'[Main].addr = a
      BY <2>2, <2>5, ReadEffect, Constants
    <3> QED
      BY <1>1, <1>2, <2>5, <3>1, <3>2
      DEF MainInv, MainTyped, MainCalls, MainPlans, Dialling, Calling
  <2>6. CASE a \notin banned /\ main' = [rest EXCEPT !.pc = "connect", !.addr = a, !.for = "list"]
    <3>1. /\ main' \in MainState /\ main'.pc = "connect" /\ main'.addr = a /\ main'.for = "list"
      BY <2>2, <2>3, <2>6 DEF MainState, Pc
    <3> QED
      BY <1>1, <1>2, <2>2, <2>6, <3>1
      DEF MainInv, MainTyped, MainCalls, MainPlans, Dialling, Calling
  <2> QED
    BY <2>4, <2>5, <2>6
<1> QED
  BY <1>3, <1>4, <1>5 DEF NextAddress, Go

LEMMA DeleteBannedKeepsMain ==
    ASSUME MainInv, DeleteBanned
    PROVE  MainInv'
<1>1. main' \in MainState /\ main'.pc = "next"
  BY DEF DeleteBanned, Go, MainInv, MainTyped, MainState, Pc
<1>2. explicit = None
  BY DEF DeleteBanned, MainInv, MainPlans
<1> QED
  BY <1>1, <1>2
  DEF DeleteBanned, StorageOnly, MainInv, MainTyped, MainCalls, MainPlans, Dialling, Calling

\* connect returns to a place where its caller goes on.
LEMMA ReturnKeepsMain ==
    ASSUME MainInv, main.pc \in {"connect"} \cup Dialling, NEW failed, main' = Returned(failed),
           UNCHANGED <<explicit, banned, addrChan>>, outPeers' \subseteq outPeers
    PROVE  MainInv'
<1>1. /\ main.for \in {"list", "self", "explicit"}
      /\ main.for = "self" => main.ret \in {"plan", "drop"}
      /\ main.for = "list" => explicit = None
  BY DEF MainInv, MainPlans
<1>2. /\ main.for = "list" \/ (\E pc \in Resting : main' = At(pc))
      /\ main.for = "list" =>
           \/ main' = At("select")
           \/ main' = [main EXCEPT !.pc = "next", !.addr = None, !.for = None, !.outcome = None]
  BY <1>1 DEF Returned, Resting
<1>3. ASSUME NEW pc \in Resting, main' = At(pc) PROVE MainInv'
  BY <1>3, MainRests DEF MainInv, MainTyped
<1>4. CASE /\ main.for = "list"
           /\ main' = [main EXCEPT !.pc = "next", !.addr = None, !.for = None, !.outcome = None]
  <2>1. main' \in MainState /\ main'.pc = "next"
    BY <1>4 DEF MainInv, MainTyped, MainState, Pc
  <2>2. IsFiniteSet(outPeers') /\ Cardinality(outPeers') <= Cardinality(outPeers)
    BY FS_Subset DEF MainInv, MainTyped
  <2>3. Cardinality(outPeers') \in Nat /\ Cardinality(outPeers) \in Nat
    BY <2>2, FS_CardinalityType DEF MainInv, MainTyped
  <2>4. MainTyped'
    BY <2>1, <2>2, <2>3, Constants DEF MainInv, MainTyped
  <2> QED
    BY <1>1, <1>4, <2>1, <2>4 DEF MainInv, MainCalls, MainPlans, Dialling, Calling
<1>5. "select" \in Resting
  BY DEF Resting
<1> QED
  BY <1>2, <1>3, <1>4, <1>5

LEMMA ReserveKeepsMain ==
    ASSUME StorageInv, MainInv, Reserve
    PROVE  MainInv'
<1>1. UNCHANGED <<explicit, banned, addrChan>> /\ main.pc = "connect"
  BY DEF Reserve
<1>2. CASE main' = Returned(TRUE) /\ outPeers' = outPeers
  BY <1>1, <1>2, ReturnKeepsMain
<1>3. CASE /\ FitsOutbound(main.addr) /\ outPeers' = outPeers \cup {main.addr}
           /\ Read(Main, main.addr) /\ main' = [main EXCEPT !.pc = "attempt"]
  <2>1. /\ main.addr \in Addr
        /\ main.for \in {"list", "self", "explicit"}
        /\ main.for = "list" => explicit = None /\ main.addr \notin banned
        /\ main.for = "self" => main.addr = Self /\ main.ret \in {"plan", "drop"}
        /\ main.for = "explicit" => explicit # None
    BY <1>1 DEF MainInv, MainPlans
  <2>2. /\ main' \in MainState /\ main'.pc = "attempt" /\ main'.addr = main.addr
        /\ main'.for = main.for /\ main'.ret = main.ret
    BY <1>3 DEF MainInv, MainTyped, MainState, Pc
  <2>3. pending'[Main] # None /\ pending'[Main].addr = main.addr
    BY <1>3, <2>1, ReadEffect, Constants
  <2>4. IsFiniteSet(outPeers') /\ Cardinality(outPeers') <= MAX_OUTBOUND_PEER_CONNECTIONS
    <3>1. /\ IsFiniteSet(outPeers) /\ Cardinality(outPeers) <= MAX_OUTBOUND_PEER_CONNECTIONS
          /\ Cardinality(outPeers) # MAX_OUTBOUND_PEER_CONNECTIONS /\ main.addr \notin outPeers
      BY <1>3 DEF MainInv, MainTyped, FitsOutbound, IsFull
    <3>2. IsFiniteSet(outPeers') /\ Cardinality(outPeers') = Cardinality(outPeers) + 1
      BY <1>3, <3>1, FS_AddElement
    <3> QED
      BY <3>1, <3>2, MainFields, Constants
  <2>5. MainTyped'
    BY <1>1, <1>3, <2>1, <2>2, <2>4 DEF MainInv, MainTyped
  <2>6. MainCalls'
    BY <2>2, <2>3 DEF MainCalls, Calling
  <2>7. explicit' = None => outPeers' \cap banned' = {}
    <3>1. explicit = None => outPeers \cap banned = {} /\ Self \notin banned
      BY DEF MainInv, MainPlans, MainTyped
    <3> QED
      BY <1>1, <1>3, <2>1, <3>1
  <2>8. MainPlans'
    BY <1>1, <1>3, <2>1, <2>2, <2>7 DEF MainPlans, Dialling
  <2> QED
    BY <2>5, <2>6, <2>8 DEF MainInv
<1> QED
  BY <1>2, <1>3 DEF Reserve, Go

LEMMA OnConnectAttemptKeepsMain ==
    ASSUME MainInv, OnConnectAttempt
    PROVE  MainInv'
<1>1. UNCHANGED <<explicit, banned, addrChan>> /\ main.pc = "attempt"
  BY DEF OnConnectAttempt
<1>2. CASE main' = Returned(TRUE) /\ outPeers' = outPeers \ {main.addr}
  BY <1>1, <1>2, ReturnKeepsMain DEF Dialling
<1>3. CASE main' = [main EXCEPT !.pc = "dial"] /\ outPeers' = outPeers
  <2>1. /\ main' \in MainState /\ main'.pc = "dial" /\ main'.addr = main.addr
        /\ main'.for = main.for /\ main'.ret = main.ret
    BY <1>3 DEF MainInv, MainTyped, MainState, Pc
  <2> QED
    BY <1>1, <1>3, <2>1 DEF MainInv, MainTyped, MainCalls, MainPlans, Dialling, Calling
<1> QED
  BY <1>2, <1>3 DEF OnConnectAttempt, Go

LEMMA DialKeepsMain ==
    ASSUME StorageInv, MainInv, Dial
    PROVE  MainInv'
<1>1. UNCHANGED <<explicit, banned, outPeers, addrChan>> /\ main.pc = "dial"
  BY DEF Dial, StorageOnly
<1>2. PICK outcome \in Outcome : main' = [main EXCEPT !.pc = "dialled", !.outcome = outcome]
  BY DEF Dial, Go
<1>3. outcome \in {"failed", "connected", "busy", "loop"}
  BY DEF Outcome
<1>4. /\ main' \in MainState /\ main'.pc = "dialled" /\ main'.addr = main.addr
      /\ main'.for = main.for /\ main'.ret = main.ret
  BY <1>2, <1>3 DEF MainInv, MainTyped, MainState, Pc
<1>5. main.addr \in Addr
  BY <1>1 DEF MainInv, MainPlans, Dialling
<1>6. pending'[Main] # None /\ pending'[Main].addr = main.addr
  BY <1>5, ReadEffect, Constants DEF Dial
<1> QED
  BY <1>1, <1>4, <1>6 DEF MainInv, MainTyped, MainCalls, MainPlans, Dialling, Calling

LEMMA DialledKeepsMain ==
    ASSUME MainInv, Dialled
    PROVE  MainInv'
<1>1. UNCHANGED <<explicit, banned, outPeers, addrChan>> /\ main.pc = "dialled"
  BY DEF Dialled
<1>2. CASE main' = Returned(FALSE)
  BY <1>1, <1>2, ReturnKeepsMain DEF Dialling
<1>3. ASSUME NEW id \in Outbound, main.for = "self",
             main' = [At("await") EXCEPT !.id = id, !.ret = main.ret]
      PROVE  MainInv'
  <2>1. main.ret \in {"plan", "drop"}
    BY <1>1, <1>3 DEF MainInv, MainPlans, Dialling
  <2>2. main' \in MainState /\ main'.pc = "await" /\ main'.ret = main.ret
    <3> DEFINE m == At("await")
               ret == main.ret
    <3>1. m \in MainState /\ m.pc = "await" /\ main' = [m EXCEPT !.id = id, !.ret = ret]
      BY <1>3, AtFields DEF Pc
    <3> HIDE DEF m, ret
    <3>2. ret \in {"plan", "drop"}
      BY <2>1 DEF ret
    <3>3. main' \in MainState /\ main'.pc = "await" /\ main'.ret = ret
      BY <3>1, <3>2, Constants DEF MainState
    <3> QED
      BY <3>3 DEF ret
  <2> QED
    BY <1>1, <2>1, <2>2 DEF MainInv, MainTyped, MainCalls, MainPlans, Dialling, Calling
<1> QED
  BY <1>2, <1>3 DEF Dialled, Go

LEMMA NotDialledKeepsMain ==
    ASSUME MainInv, NotDialled
    PROVE  MainInv'
<1>1. /\ main' \in MainState /\ main'.pc = "failed" /\ main'.addr = main.addr
      /\ main'.for = main.for /\ main'.ret = main.ret
  BY DEF NotDialled, Go, MainInv, MainTyped, MainState, Pc
<1> QED
  BY <1>1
  DEF NotDialled, StorageOnly, MainInv, MainTyped, MainCalls, MainPlans, Dialling, Calling

LEMMA ReleaseKeepsMain ==
    ASSUME MainInv, Release
    PROVE  MainInv'
BY ReturnKeepsMain DEF Release, Go, Dialling

LEMMA TakeAddressKeepsMain ==
    ASSUME StorageInv, MainInv, TakeAddress
    PROVE  MainInv'
<1>1. /\ UNCHANGED <<explicit, banned, outPeers>> /\ addrChan # <<>> /\ addrChan' = Tail(addrChan)
      /\ main.pc = "select"
  BY DEF TakeAddress
<1>2. /\ addrChan' \in Seq(Addr) /\ Len(addrChan') <= AddrCapacity /\ Head(addrChan) \in Addr
  BY <1>1, Constants DEF MainInv, MainTyped
<1>3. CASE main' = main /\ UNCHANGED storageVars
  BY <1>1, <1>2, <1>3 DEF MainInv, MainTyped, MainCalls, MainPlans, Dialling, Calling
<1>4. CASE Read(Main, Head(addrChan)) /\ main' = At("store")
  <2>1. main' \in MainState /\ main'.pc = "store"
    BY <1>4, AtFields DEF Pc
  <2>2. pending'[Main] # None
    BY <1>2, <1>4, ReadEffect, Constants
  <2> QED
    BY <1>1, <1>2, <2>1, <2>2 DEF MainInv, MainTyped, MainCalls, MainPlans, Dialling, Calling
<1> QED
  BY <1>3, <1>4 DEF TakeAddress, Go

\* The steps that end at a resting place.
LEMMA OthersKeepMain ==
    ASSUME MainInv, StoreAddress \/ Tick \/ TakeShutdown \/ CloseServer \/ CopyPeers
    PROVE  MainInv'
<1>1. UNCHANGED <<explicit, banned, outPeers, addrChan>>
  BY DEF StoreAddress, Tick, TakeShutdown, CloseServer, CopyPeers, LoopOnly, StorageOnly
<1>2. \E pc \in Resting : main' = At(pc)
  BY DEF StoreAddress, Tick, TakeShutdown, CloseServer, CopyPeers, Go, Resting
<1> QED
  BY <1>1, <1>2, MainRests DEF MainInv, MainTyped

LEMMA ShutPeerKeepsMain ==
    ASSUME MainInv, toShut \subseteq PeerID, ShutPeer
    PROVE  MainInv'
<1>1. UNCHANGED <<explicit, banned, outPeers, addrChan>>
  BY DEF ShutPeer
<1>2. CASE main' = At("down")
  BY <1>1, <1>2, MainRests DEF Resting, MainInv, MainTyped
<1>3. ASSUME NEW id \in toShut, main' = [At("await") EXCEPT !.id = id, !.ret = "shut"]
      PROVE  MainInv'
  <2>1. main' \in MainState /\ main'.pc = "await" /\ main'.ret = "shut"
    <3> DEFINE m == At("await")
    <3>1. m \in MainState /\ m.pc = "await" /\ main' = [m EXCEPT !.id = id, !.ret = "shut"]
      BY <1>3, AtFields DEF Pc
    <3> HIDE DEF m
    <3> QED
      BY <3>1 DEF MainState
  <2> QED
    BY <1>1, <2>1 DEF MainInv, MainTyped, MainCalls, MainPlans, Dialling, Calling
<1> QED
  BY <1>2, <1>3 DEF ShutPeer, Go

----------------------------------------------------------------------------
(* Who works on the storage in a step. *)

MainStep ==
    Loop \/ TakeAddress \/ Tick \/ TakeShutdown \/ Shutdown \/ ShutdownStep
      \/ (PassTime /\ UNCHANGED managerVars)

HandlerStep(h) == Accept(h) \/ Handle(h)

PeerStep(id) ==
    GoOn(id) \/ Lose(id) \/ ReadAddresses(id) \/ (id \in Outbound /\ (Refresh(id) \/ Refreshed(id)))

LEMMA NextSteps ==
    ASSUME Next
    PROVE  \/ MainStep
           \/ \E h \in Handler : HandlerStep(h)
           \/ \E id \in PeerID : PeerStep(id)
           \/ \E a \in Addr \ {Self} : Seed(a)
<1>1. \A id \in Outbound : id \in PeerID
  BY Constants
<1> QED
  BY <1>1 DEF Next, MainStep, HandlerStep, PeerStep

LEMMA MainStorage ==
    ASSUME StorageInv, MainInv, MainStep
    PROVE  StorageStep(Main)
<1>1. main.pc \in Calling => pending[Main] # None
  BY DEF MainInv, MainCalls
<1>2. CASE Boot
  <2>1. main.pc = "boot" => explicit \in Addr
    BY DEF MainInv, MainPlans, MainTyped
  <2> QED
    BY <1>1, <1>2, <2>1 DEF Boot, StorageStep, WriteAny, Calling
<1>3. CASE ListenForPeers
  BY <1>3, Constants DEF ListenForPeers, StorageStep
<1>4. CASE StoreSelf \/ StoreAddress
  BY <1>1, <1>4 DEF StoreSelf, StoreAddress, StorageStep, WriteAny, Calling
<1>5. CASE DropRandomPeer \/ ShutdownStep \/ Shutdown
  BY <1>5 DEF DropRandomPeer, ShutdownStep, CopyPeers, ShutPeer, Shutdown, StorageStep
<1>6. CASE Await \/ ConnectToPeers \/ GetAddresses \/ CloseServer \/ Tick \/ TakeShutdown
  BY <1>6 DEF Await, ConnectToPeers, GetAddresses, CloseServer, Tick, TakeShutdown, LoopOnly,
              StorageStep
<1>7. CASE NextAddress
  <2>1. main.todo # <<>> => Head(main.todo) \in Addr
    BY MainFields
  <2> QED
    BY <1>7, <2>1 DEF NextAddress, StorageStep
<1>8. CASE DeleteBanned
  BY <1>1, <1>8 DEF DeleteBanned, StorageStep, WriteAny, Calling
<1>9. CASE Reserve \/ Dial
  <2>1. main.addr \in Addr
    BY <1>9 DEF MainInv, MainPlans, Reserve, Dial, Dialling
  <2> QED
    BY <1>9, <2>1 DEF Reserve, Dial, StorageStep
<1>10. CASE OnConnectAttempt \/ Dialled
  BY <1>1, <1>10 DEF OnConnectAttempt, Dialled, StorageStep, WriteAny, Calling
<1>11. CASE NotDialled
  BY <1>1, <1>11 DEF NotDialled, WriteFailure, StorageStep, WriteAny, Calling
<1>12. CASE Release
  <2>1. main.addr \in Addr
    BY <1>12 DEF MainInv, MainPlans, Release, Dialling
  <2> QED
    BY <1>12, <2>1 DEF Release, StorageStep
<1>13. CASE TakeAddress
  <2>1. addrChan # <<>> => Head(addrChan) \in Addr
    BY DEF MainInv, MainTyped
  <2> QED
    BY <1>13, <2>1 DEF TakeAddress, StorageStep
<1>14. CASE PassTime
  BY <1>14 DEF StorageStep
<1> QED
  BY <1>2, <1>3, <1>4, <1>5, <1>6, <1>7, <1>8, <1>9, <1>10, <1>11, <1>12, <1>13, <1>14
  DEF MainStep, Loop

LEMMA HandlerStorage ==
    ASSUME StorageInv, HandlersTyped, NEW h \in Handler, HandlerStep(h)
    PROVE  StorageStep(h)
<1>1. CASE Accept(h)
  <2>1. AnnouncedBy[h] \in Addr \cup {None}
    BY Constants
  <2> QED
    BY <1>1, <2>1 DEF Accept, StorageStep
<1>2. CASE Upgrade(h)
  BY <1>2 DEF Upgrade, StorageStep, WriteAny, HandlersTyped
<1>3. CASE AddInbound(h) \/ RunInbound(h)
  BY <1>3 DEF AddInbound, RunInbound, StorageStep
<1> QED
  BY <1>1, <1>2, <1>3 DEF HandlerStep, Handle

LEMMA PeerStorageSteps ==
    ASSUME StorageInv, OutboundInv, NEW id \in PeerID, PeerStep(id)
    PROVE  StorageStep(id)
<1>1. CASE SendAddress(id) \/ StopReading(id) \/ OnClose(id) \/ Lose(id) \/ ReadAddresses(id)
  BY <1>1 DEF SendAddress, StopReading, OnClose, Lose, ReadAddresses, StorageStep
<1>2. CASE StopWriting(id)
  BY <1>2, Constants DEF StopWriting, StorageStep
<1>3. CASE id \in Outbound /\ Refresh(id)
  BY <1>3, Constants DEF Refresh, StorageStep
<1>4. CASE id \in Outbound /\ Refreshed(id)
  BY <1>4 DEF Refreshed, StorageStep, WriteAny, OutboundInv, RefreshInv
<1> QED
  BY <1>1, <1>2, <1>3, <1>4 DEF PeerStep, GoOn

----------------------------------------------------------------------------
(* What a step does to the peers. *)

\* The goroutines of the peer are where they were.
SamePeer(id) ==
    /\ peer'[id] = None <=> peer[id] = None
    /\ peer[id] # None => peer'[id].reader = peer[id].reader /\ peer'[id].writer = peer[id].writer

LEMMA SameIsLive ==
    ASSUME NEW id, SamePeer(id)
    PROVE  IsLive(id)' <=> IsLive(id)
BY DEF SamePeer, IsLive

LEMMA ClosedKeeps ==
    ASSUME PeersTyped, NEW id \in PeerID, peer[id] # None, peer' = [peer EXCEPT ![id].conn = "closed"]
    PROVE  PeersTyped' /\ \A j \in PeerID : SamePeer(j)
<1> DEFINE p == [peer[id] EXCEPT !.conn = "closed"]
<1>1. peer[id] \in PeerState
  BY DEF PeersTyped
<1>2. p \in PeerState /\ p.reader = peer[id].reader /\ p.writer = peer[id].writer
  BY <1>1 DEF PeerState
<1>3. peer' = [peer EXCEPT ![id] = p]
  OBVIOUS
<1> HIDE DEF p
<1>4. \A j \in PeerID : peer'[j] = IF j = id THEN p ELSE peer[j]
  BY <1>3 DEF PeersTyped
<1> QED
  BY <1>2, <1>3, <1>4, Constants DEF PeersTyped, SamePeer

\* Steps of the main loop other than Dialled leave the goroutines alone.
LEMMA MainPeers ==
    ASSUME PeersTyped, toShut \subseteq PeerID, MainStep, ~Dialled
    PROVE  PeersTyped' /\ \A j \in PeerID : SamePeer(j)
<1>1. ASSUME peer' = peer PROVE PeersTyped' /\ \A j \in PeerID : SamePeer(j)
  BY <1>1 DEF PeersTyped, SamePeer
<1>2. CASE DropRandomPeer
  <2>1. ASSUME NEW id \in Outbound, IsLive(id), peer' = [peer EXCEPT ![id].conn = "closed"]
        PROVE  PeersTyped' /\ \A j \in PeerID : SamePeer(j)
    BY <2>1, ClosedKeeps, Constants DEF IsLive
  <2> QED
    BY <1>1, <1>2, <2>1 DEF DropRandomPeer
<1>3. CASE ShutPeer
  <2>1. ASSUME NEW id \in toShut, peer[id] # None, peer' = [peer EXCEPT ![id].conn = "closed"]
        PROVE  PeersTyped' /\ \A j \in PeerID : SamePeer(j)
    BY <2>1, ClosedKeeps
  <2> QED
    BY <1>1, <1>3, <2>1 DEF ShutPeer
<1>4. CASE Boot \/ ListenForPeers \/ StoreSelf \/ NextAddress \/ DeleteBanned \/ Dial \/ NotDialled
           \/ StoreAddress \/ Reserve \/ OnConnectAttempt \/ Release \/ TakeAddress
  BY <1>1, <1>4 DEF Boot, ListenForPeers, StoreSelf, NextAddress, DeleteBanned, Dial, NotDialled,
                    StoreAddress, Reserve, OnConnectAttempt, Release, TakeAddress, StorageOnly
<1>5. CASE Await \/ ConnectToPeers \/ GetAddresses \/ CloseServer \/ Tick \/ TakeShutdown
           \/ Shutdown \/ CopyPeers \/ (PassTime /\ UNCHANGED managerVars)
  BY <1>1, <1>5 DEF Await, ConnectToPeers, GetAddresses, CloseServer, Tick, TakeShutdown,
                    Shutdown, CopyPeers, LoopOnly, managerVars
<1> QED
  BY <1>2, <1>3, <1>4, <1>5 DEF MainStep, Loop, ShutdownStep

LEMMA DialledPeers ==
    ASSUME PeersTyped, Dialled
    PROVE  \E id \in Outbound :
             /\ id[1] = main.addr /\ peer[id] = None
             /\ PeersTyped' /\ IsLive(id)' /\ peer'[id] # None /\ peer'[id].writer = "run"
             /\ \A j \in PeerID : j # id => peer'[j] = peer[j]
<1> DEFINE conn == IF main.for = "self" THEN "closed" ELSE "open"
           p == [conn |-> conn, reader |-> "run", writer |-> "run"]
<1>1. PICK id \in Outbound :
        id[1] = main.addr /\ peer[id] = None /\ peer' = [peer EXCEPT ![id] = p]
  BY DEF Dialled
<1>2. p \in PeerState /\ p.reader = "run" /\ p.writer = "run"
  BY DEF PeerState
<1>3. id \in PeerID
  BY Constants
<1> HIDE DEF p
<1>4. PeersTyped' /\ peer'[id] = p /\ \A j \in PeerID : j # id => peer'[j] = peer[j]
  BY <1>1, <1>2, <1>3 DEF PeersTyped
<1> QED
  BY <1>1, <1>2, <1>4, Constants DEF IsLive

LEMMA BecomesEffect ==
    ASSUME PeersTyped, NEW id \in PeerID, NEW p \in PeerState, Becomes(id, p)
    PROVE  /\ PeersTyped'
           /\ \A j \in PeerID : j # id => peer'[j] = peer[j]
           /\ peer'[id] = p \/ (peer'[id] = None /\ p.reader = "gone" /\ p.writer = "gone")
BY DEF PeersTyped, Becomes

\* The goroutine of a peer changes the state of that peer alone.  A reader
\* ends with OnClose and is not started again.
PeerEffect(id) ==
    /\ PeersTyped'
    /\ \A j \in PeerID : j # id => peer'[j] = peer[j]
    /\ peer[id] # None /\ (IsLive(id) \/ peer[id].writer \in {"run", "refresh"})
    /\ OnClose(id) => /\ IsLive(id) /\ ~IsLive(id)'
                      /\ peer'[id] # None => peer'[id].writer = peer[id].writer
                      /\ peer'[id] = None => peer[id].writer = "gone"
    /\ ~OnClose(id) =>
         /\ UNCHANGED <<outPeers, inPeers, inPeerCountByHost>>
         /\ IsLive(id)' <=> IsLive(id)

LEMMA PeerSteps ==
    ASSUME PeersTyped, NEW id \in PeerID, PeerStep(id)
    PROVE  PeerEffect(id)
<1>1. peer[id] # None /\ peer[id] \in PeerState
  BY DEF PeerStep, GoOn, Lose, ReadAddresses, SendAddress, StopReading, OnClose, StopWriting,
         Refresh, Refreshed, IsLive, PeersTyped
<1>2. None \notin PeerState
  BY Constants
<1>3. ASSUME NEW r \in {"run", "send", "closing"}, IsLive(id), ~OnClose(id),
             UNCHANGED <<outPeers, inPeers, inPeerCountByHost>>,
             Becomes(id, [peer[id] EXCEPT !.reader = r])
      PROVE  PeerEffect(id)
  <2> DEFINE p == [peer[id] EXCEPT !.reader = r]
  <2>1. p \in PeerState /\ p.reader = r
    BY <1>1 DEF PeerState
  <2> HIDE DEF p
  <2>2. PeersTyped' /\ (\A j \in PeerID : j # id => peer'[j] = peer[j]) /\ peer'[id] = p
    BY <1>3, <2>1, BecomesEffect DEF p
  <2> QED
    BY <1>2, <1>3, <2>1, <2>2 DEF PeerEffect, IsLive
<1>4. ASSUME NEW w \in {"run", "refresh", "gone"}, peer[id].writer \in {"run", "refresh"},
             ~OnClose(id), UNCHANGED <<outPeers, inPeers, inPeerCountByHost>>,
             Becomes(id, [peer[id] EXCEPT !.writer = w])
      PROVE  PeerEffect(id)
  <2> DEFINE p == [peer[id] EXCEPT !.writer = w]
  <2>1. p \in PeerState /\ p.writer = w /\ p.reader = peer[id].reader
    BY <1>1 DEF PeerState
  <2> HIDE DEF p
  <2>2. /\ PeersTyped' /\ \A j \in PeerID : j # id => peer'[j] = peer[j]
        /\ peer'[id] = p \/ (peer'[id] = None /\ p.reader = "gone")
    BY <1>4, <2>1, BecomesEffect DEF p
  <2> QED
    BY <1>1, <1>2, <1>4, <2>1, <2>2 DEF PeerEffect, IsLive
<1>5. CASE Lose(id)
  <2> DEFINE p == [peer[id] EXCEPT !.conn = "closed"]
  <2>1. p \in PeerState /\ p.reader = peer[id].reader
    BY <1>1 DEF PeerState
  <2>2. IsLive(id) /\ UNCHANGED <<outPeers, inPeers, inPeerCountByHost>> /\ Becomes(id, p)
    BY <1>5 DEF Lose
  <2> HIDE DEF p
  <2>3. /\ PeersTyped' /\ \A j \in PeerID : j # id => peer'[j] = peer[j]
        /\ peer'[id] = p
    BY <2>1, <2>2, BecomesEffect DEF IsLive
  <2>4. IsLive(id)'
    BY <1>2, <2>1, <2>2, <2>3 DEF IsLive
  <2>5. ~OnClose(id)
    <3>1. ASSUME OnClose(id) PROVE FALSE
      <4> DEFINE q == [peer[id] EXCEPT !.reader = "gone"]
      <4>1. q \in PeerState /\ q.reader = "gone" /\ Becomes(id, q)
        BY <1>1, <3>1 DEF OnClose, PeerState
      <4> HIDE DEF q
      <4>2. peer'[id] = q \/ peer'[id] = None
        BY <4>1, BecomesEffect
      <4> QED
        BY <2>4, <4>1, <4>2 DEF IsLive
    <3> QED
      BY <3>1
  <2> QED
    BY <1>1, <2>2, <2>3, <2>4, <2>5 DEF PeerEffect
<1>6. CASE OnClose(id)
  <2> DEFINE p == [peer[id] EXCEPT !.reader = "gone"]
  <2>1. p \in PeerState /\ p.reader = "gone" /\ p.writer = peer[id].writer
    BY <1>1 DEF PeerState
  <2>2. IsLive(id) /\ Becomes(id, p)
    BY <1>6 DEF OnClose
  <2> HIDE DEF p
  <2>3. /\ PeersTyped' /\ \A j \in PeerID : j # id => peer'[j] = peer[j]
        /\ peer'[id] = p \/ (peer'[id] = None /\ p.writer = "gone")
    BY <2>1, <2>2, BecomesEffect
  <2> QED
    BY <1>1, <1>2, <1>6, <2>1, <2>2, <2>3 DEF PeerEffect, IsLive
<1>7. CASE ~OnClose(id) /\ (ReadAddresses(id) \/ SendAddress(id) \/ StopReading(id))
  BY <1>3, <1>7 DEF ReadAddresses, SendAddress, StopReading
<1>8. CASE ~OnClose(id) /\ (StopWriting(id) \/ Refresh(id) \/ Refreshed(id))
  BY <1>4, <1>8 DEF StopWriting, Refresh, Refreshed
<1> QED
  BY <1>5, <1>6, <1>7, <1>8 DEF PeerStep, GoOn

----------------------------------------------------------------------------
(* The handlers. *)

LEMMA HandlerSteps ==
    ASSUME PeersTyped, HandlersTyped, NEW h \in Handler, HandlerStep(h)
    PROVE  /\ PeersTyped' /\ \A j \in PeerID : j # h => peer'[j] = peer[j]
           /\ UNCHANGED <<main, explicit, banned, outPeers, addrChan, toShut, latecomers>>
           /\ handler' \in [Handler -> {"idle", "store", "add", "run"}]
           /\ \A j \in Handler : j # h => handler'[j] = handler[j]
           /\ \/ /\ Accept(h) /\ handler[h] = "idle" /\ handler'[h] = "store"
                 /\ peer[h] = None /\ peer' = peer
              \/ /\ Upgrade(h) /\ handler[h] = "store" /\ handler'[h] = "add"
                 /\ peer'[h] = NewPeer
              \/ /\ AddInbound(h) /\ handler[h] = "add" /\ handler'[h] = "idle"
                 /\ peer'[h] = None /\ UNCHANGED <<inPeers, inPeerCountByHost, crowded>>
              \/ /\ AddInbound(h) /\ handler[h] = "add" /\ handler'[h] = "run"
                 /\ peer' = peer /\ AddToInboundSet(h) /\ UNCHANGED crowded
                 /\ Cardinality(inPeers) # InboundLimit
              \/ /\ RunInbound(h) /\ handler[h] = "run" /\ handler'[h] = "idle"
                 /\ peer'[h] # None /\ IsLive(h)'
           /\ ~Accept(h) /\ ~AddInbound(h) => UNCHANGED <<inPeers, inPeerCountByHost, crowded>>
<1>1. h \in PeerID /\ NewPeer \in PeerState
  BY Constants DEF NewPeer, PeerState
<1>2. UNCHANGED <<main, explicit, banned, outPeers, addrChan, toShut, latecomers>>
  BY DEF HandlerStep, Handle, Accept, Upgrade, AddInbound, RunInbound, HandlerOnly
<1>3. ~Accept(h) /\ ~AddInbound(h) => UNCHANGED <<inPeers, inPeerCountByHost, crowded>>
  BY DEF HandlerStep, Handle, Upgrade, RunInbound
<1>4. CASE Accept(h)
  BY <1>1, <1>2, <1>3, <1>4 DEF Accept, HandlersTyped, PeersTyped
<1>5. CASE Upgrade(h)
  BY <1>1, <1>2, <1>3, <1>5 DEF Upgrade, HandlersTyped, PeersTyped
<1>6. CASE AddInbound(h)
  BY <1>1, <1>2, <1>3, <1>6 DEF AddInbound, HandlersTyped, PeersTyped
<1>7. CASE RunInbound(h)
  <2> DEFINE p == [peer[h] EXCEPT !.reader = "run", !.writer = "gone"]
  <2>1. peer[h] \in PeerState
    BY <1>1, <1>7 DEF RunInbound, HandlersTyped, PeersTyped
  <2>2. peer' = [peer EXCEPT ![h] = p]
    BY <1>7 DEF RunInbound
  <2>3. p \in PeerState /\ p.reader = "run"
    BY <2>1 DEF PeerState
  <2> HIDE DEF p
  <2>4. PeersTyped' /\ peer'[h] = p /\ \A j \in PeerID : j # h => peer'[j] = peer[j]
    BY <1>1, <2>2, <2>3 DEF PeersTyped
  <2>5. peer'[h] # None /\ IsLive(h)'
    BY <2>3, <2>4, Constants DEF IsLive
  <2> QED
    BY <1>2, <1>3, <1>7, <2>4, <2>5 DEF RunInbound, HandlersTyped
<1> QED
  BY <1>4, <1>5, <1>6, <1>7 DEF HandlerStep, Handle

\* No handler has the peer of a running goroutine before its hands are off it.
LEMMA SameHandlers ==
    ASSUME HandlersTyped, UNCHANGED handler, \A h \in Handler : SamePeer(h),
           \A h \in Handler : pending'[h] = pending[h]
    PROVE  HandlersTyped'
BY DEF HandlersTyped, SamePeer

LEMMA MainKeepsHandler ==
    ASSUME MainStep
    PROVE  UNCHANGED <<handler, inPeers, inPeerCountByHost, crowded>>
<1>1. CASE Boot \/ ListenForPeers \/ StoreSelf \/ NextAddress \/ DeleteBanned \/ Dial \/ NotDialled
           \/ StoreAddress \/ Reserve \/ OnConnectAttempt \/ Release \/ TakeAddress
  BY <1>1 DEF Boot, ListenForPeers, StoreSelf, NextAddress, DeleteBanned, Dial, NotDialled,
              StoreAddress, Reserve, OnConnectAttempt, Release, TakeAddress, StorageOnly
<1>2. CASE Await \/ ConnectToPeers \/ GetAddresses \/ CloseServer \/ Tick \/ TakeShutdown
           \/ Shutdown \/ CopyPeers \/ ShutPeer \/ (PassTime /\ UNCHANGED managerVars)
  BY <1>2 DEF Await, ConnectToPeers, GetAddresses, CloseServer, Tick, TakeShutdown,
              Shutdown, CopyPeers, ShutPeer, LoopOnly, managerVars
<1>3. CASE DropRandomPeer \/ Dialled
  BY <1>3 DEF DropRandomPeer, Dialled
<1> QED
  BY <1>1, <1>2, <1>3 DEF MainStep, Loop, ShutdownStep

LEMMA MainSameInbound ==
    ASSUME PeersTyped, toShut \subseteq PeerID, MainStep
    PROVE  PeersTyped' /\ \A h \in Handler : SamePeer(h)
<1>1. CASE ~Dialled
  BY <1>1, MainPeers, Constants
<1>2. CASE Dialled
  BY <1>2, DialledPeers, Constants DEF SamePeer
<1> QED
  BY <1>1, <1>2

\* A running peer is not in a handler's hands.
LEMMA PeerStepHandlers ==
    ASSUME PeersTyped, HandlersTyped, NEW id \in PeerID, PeerStep(id)
    PROVE  id \in Handler => handler[id] = "idle"
<1>1. PeerEffect(id)
  BY PeerSteps
<1> QED
  BY <1>1 DEF PeerEffect, HandlersTyped, IsLive

LEMMA PeerStepOnly ==
    ASSUME NEW id, PeerStep(id)
    PROVE  UNCHANGED <<main, explicit, banned, handler, stopping, toShut, latecomers, crowded>>
BY DEF PeerStep, GoOn, Lose, ReadAddresses, SendAddress, StopReading, OnClose, StopWriting,
       Refresh, Refreshed, PeerOnly

LEMMA HandlersTypedKept ==
    ASSUME Inv, Next
    PROVE  HandlersTyped'
<1>1. PeersTyped /\ toShut \subseteq PeerID /\ HandlersTyped /\ StorageInv /\ MainInv /\ OutboundInv
  BY DEF Inv, OutboundInv, PeersTyped, ShutdownInv
<1>2. CASE MainStep
  BY <1>1, <1>2, MainStorage, StorageStepKeeps, MainKeepsHandler, MainSameInbound, SameHandlers,
     Constants
<1>3. ASSUME NEW h \in Handler, HandlerStep(h) PROVE HandlersTyped'
  <2>1. \A j \in Handler : j # h => pending'[j] = pending[j]
    BY <1>1, <1>3, HandlerStorage, StorageStepKeeps, Constants
  <2>2. /\ handler' \in [Handler -> {"idle", "store", "add", "run"}]
        /\ \A j \in Handler : j # h => handler'[j] = handler[j] /\ peer'[j] = peer[j]
    BY <1>1, <1>3, HandlerSteps, Constants
  <2>3. /\ handler'[h] = "store" =>
             peer'[h] = None /\ (AnnouncedBy[h] # None => pending'[h] # None)
        /\ handler'[h] \in {"add", "run"} =>
             peer'[h] # None /\ peer'[h].reader = "new" /\ peer'[h].writer = "new"
    <3>1. NewPeer # None /\ NewPeer.reader = "new" /\ NewPeer.writer = "new"
      BY Constants DEF NewPeer, PeerState
    <3>2. ASSUME Accept(h), AnnouncedBy[h] # None PROVE pending'[h] # None
      <4>1. AnnouncedBy[h] \in Addr /\ Read(h, AnnouncedBy[h])
        BY <3>2, Constants DEF Accept
      <4> QED
        BY <1>1, <4>1, ReadEffect, Constants
    <3> QED
      BY <1>1, <1>3, <3>1, <3>2, HandlerSteps DEF HandlersTyped
  <2> QED
    BY <1>1, <2>1, <2>2, <2>3 DEF HandlersTyped
<1>4. ASSUME NEW id \in PeerID, PeerStep(id) PROVE HandlersTyped'
  <2>1. id \in Caller
    BY Constants DEF PeerID
  <2>2. \A f \in Handler : f # id => pending'[f] = pending[f]
    BY <1>1, <1>4, <2>1, PeerStorageSteps, StorageStepKeeps, Constants
  <2>3. handler' = handler /\ \A j \in Handler : j # id => peer'[j] = peer[j]
    BY <1>1, <1>4, PeerSteps, PeerStepOnly, Constants DEF PeerEffect
  <2>4. id \in Handler => handler[id] = "idle"
    BY <1>1, <1>4, PeerStepHandlers
  <2> QED
    BY <1>1, <2>2, <2>3, <2>4 DEF HandlersTyped
<1>5. ASSUME NEW a \in Addr, Seed(a) PROVE HandlersTyped'
  BY <1>1, <1>5 DEF Seed, PeerOnly, HandlersTyped, storageVars
<1> QED
  BY <1>2, <1>3, <1>4, <1>5, NextSteps

----------------------------------------------------------------------------
(* The inbound connections. *)

IsMember(h) == handler[h] = "run" \/ IsLive(h)

LEMMA SameInbound ==
    ASSUME InboundInv, UNCHANGED <<inPeers, inPeerCountByHost>>,
           \A h \in Handler : IsMember(h)' <=> IsMember(h)
    PROVE  InboundInv'
BY DEF InboundInv, IsMember, HandlersOf

\* One connection enters or leaves the set, and the count of its host with it.
LEMMA InboundAdded ==
    ASSUME InboundInv, NEW h \in Handler, ~IsMember(h), AddToInboundSet(h),
           Cardinality(inPeers) # InboundLimit
    PROVE  /\ inPeers' = inPeers \cup {h} /\ IsFiniteSet(inPeers')
           /\ Cardinality(inPeers') <= InboundLimit
           /\ inPeerCountByHost' \in [Host -> Nat]
           /\ \A x \in Host :
                /\ inPeerCountByHost'[x] = Cardinality(inPeers' \cap HandlersOf(x))
                /\ inPeerCountByHost'[x] = inPeerCountByHost[x] + IF x = HostOf[h] THEN 1 ELSE 0
<1>1. inPeers' = inPeers \cup {h} /\ h \notin inPeers
  BY DEF AddToInboundSet, InboundInv, IsMember
<1>2. IsFiniteSet(inPeers') /\ Cardinality(inPeers') = Cardinality(inPeers) + 1
  BY <1>1, FS_AddElement DEF InboundInv
<1>3. Cardinality(inPeers) \in Nat
  BY FS_CardinalityType DEF InboundInv
<1>4. /\ HostOf[h] \in Host /\ inPeerCountByHost \in [Host -> Nat]
      /\ inPeerCountByHost' = [inPeerCountByHost EXCEPT ![HostOf[h]] = @ + 1]
  BY Constants DEF AddToInboundSet, InboundInv
<1>5. ASSUME NEW x \in Host
      PROVE  /\ inPeerCountByHost'[x] = Cardinality(inPeers' \cap HandlersOf(x))
             /\ inPeerCountByHost'[x] = inPeerCountByHost[x] + IF x = HostOf[h] THEN 1 ELSE 0
  <2>1. inPeerCountByHost[x] = Cardinality(inPeers \cap HandlersOf(x)) /\ inPeerCountByHost[x] \in Nat
    BY DEF InboundInv
  <2>2. IsFiniteSet(inPeers \cap HandlersOf(x))
    BY FS_Subset DEF InboundInv
  <2>3. CASE x = HostOf[h]
    <3>1. /\ inPeers' \cap HandlersOf(x) = (inPeers \cap HandlersOf(x)) \cup {h}
          /\ h \notin inPeers \cap HandlersOf(x)
      BY <1>1, <2>3 DEF HandlersOf
    <3>2. Cardinality(inPeers' \cap HandlersOf(x)) = Cardinality(inPeers \cap HandlersOf(x)) + 1
      BY <2>2, <3>1, FS_AddElement
    <3> QED
      BY <1>4, <2>1, <2>3, <3>2
  <2>4. CASE x # HostOf[h]
    <3>1. inPeers' \cap HandlersOf(x) = inPeers \cap HandlersOf(x)
      BY <1>1, <2>4 DEF HandlersOf
    <3> QED
      BY <1>4, <2>1, <2>4, <3>1
  <2> QED
    BY <2>3, <2>4
<1> QED
  BY <1>1, <1>2, <1>3, <1>4, <1>5, Constants DEF InboundInv

LEMMA InboundRemoved ==
    ASSUME InboundInv, NEW h \in Handler, IsMember(h), RemoveFromInboundSet(h)
    PROVE  /\ inPeers' = inPeers \ {h} /\ IsFiniteSet(inPeers')
           /\ Cardinality(inPeers') <= InboundLimit
           /\ inPeerCountByHost' \in [Host -> Nat]
           /\ \A x \in Host :
                /\ inPeerCountByHost'[x] = Cardinality(inPeers' \cap HandlersOf(x))
                /\ inPeerCountByHost'[x] <= inPeerCountByHost[x]
<1>1. inPeers' = inPeers \ {h} /\ h \in inPeers
  BY DEF RemoveFromInboundSet, InboundInv, IsMember
<1>2. IsFiniteSet(inPeers') /\ Cardinality(inPeers') = Cardinality(inPeers) - 1
  BY <1>1, FS_RemoveElement DEF InboundInv
<1>3. Cardinality(inPeers) \in Nat
  BY FS_CardinalityType DEF InboundInv
<1>4. /\ HostOf[h] \in Host /\ inPeerCountByHost \in [Host -> Nat]
      /\ inPeerCountByHost'
           = [inPeerCountByHost EXCEPT ![HostOf[h]] = IF @ > 0 THEN @ - 1 ELSE 0]
  BY Constants DEF RemoveFromInboundSet, InboundInv
<1>5. ASSUME NEW x \in Host
      PROVE  /\ inPeerCountByHost'[x] = Cardinality(inPeers' \cap HandlersOf(x))
             /\ inPeerCountByHost'[x] <= inPeerCountByHost[x]
  <2>1. inPeerCountByHost[x] = Cardinality(inPeers \cap HandlersOf(x)) /\ inPeerCountByHost[x] \in Nat
    BY DEF InboundInv
  <2>2. IsFiniteSet(inPeers \cap HandlersOf(x))
    BY FS_Subset DEF InboundInv
  <2>3. CASE x = HostOf[h]
    <3>1. /\ inPeers' \cap HandlersOf(x) = (inPeers \cap HandlersOf(x)) \ {h}
          /\ h \in inPeers \cap HandlersOf(x)
      BY <1>1, <2>3 DEF HandlersOf
    <3>2. /\ Cardinality(inPeers' \cap HandlersOf(x)) = Cardinality(inPeers \cap HandlersOf(x)) - 1
          /\ Cardinality(inPeers' \cap HandlersOf(x)) \in Nat
      <4> DEFINE here == inPeers \cap HandlersOf(x)
      <4>1. IsFiniteSet(here) /\ h \in here /\ inPeers' \cap HandlersOf(x) = here \ {h}
        BY <2>2, <3>1
      <4> HIDE DEF here
      <4>2. IsFiniteSet(here \ {h}) /\ Cardinality(here \ {h}) = Cardinality(here) - 1
        BY <4>1, FS_RemoveElement
      <4>3. Cardinality(here \ {h}) \in Nat
        BY <4>2, FS_CardinalityType
      <4> QED
        BY <4>1, <4>2, <4>3 DEF here
    <3> QED
      BY <1>4, <2>1, <2>3, <3>2
  <2>4. CASE x # HostOf[h]
    <3>1. inPeers' \cap HandlersOf(x) = inPeers \cap HandlersOf(x)
      BY <1>1, <2>4 DEF HandlersOf
    <3> QED
      BY <1>4, <2>1, <2>4, <3>1
  <2> QED
    BY <2>3, <2>4
<1>6. inPeerCountByHost' \in [Host -> Nat]
  <2> DEFINE count == inPeerCountByHost[HostOf[h]]
             less == IF count > 0 THEN count - 1 ELSE 0
  <2>1. less \in Nat
    BY <1>4
  <2>2. inPeerCountByHost' = [inPeerCountByHost EXCEPT ![HostOf[h]] = less]
    BY <1>4
  <2> HIDE DEF less
  <2> QED
    BY <1>4, <2>1, <2>2
<1>7. Cardinality(inPeers') <= InboundLimit
  BY <1>2, <1>3, Constants DEF InboundInv
<1> QED
  BY <1>1, <1>2, <1>5, <1>6, <1>7

\* Which of the handlers' and the peers' steps touch the set.
LEMMA InboundSteps ==
    ASSUME Inv, Next
    PROVE  \/ /\ UNCHANGED <<inPeers, inPeerCountByHost>>
              /\ \A h \in Handler : IsMember(h)' <=> IsMember(h)
           \/ \E h \in Handler :
                /\ AddInbound(h) /\ ~IsMember(h) /\ AddToInboundSet(h)
                /\ Cardinality(inPeers) # InboundLimit
                /\ handler[h] = "add" /\ handler'[h] = "run" /\ UNCHANGED crowded
                /\ \A j \in Handler : j # h => /\ handler'[j] = handler[j]
                                               /\ IsMember(j)' <=> IsMember(j)
           \/ \E h \in Handler :
                /\ OnClose(h) /\ IsMember(h) /\ ~IsMember(h)' /\ RemoveFromInboundSet(h)
                /\ UNCHANGED <<handler, crowded>>
                /\ \A j \in Handler : j # h => (IsMember(j)' <=> IsMember(j))
<1>1. PeersTyped /\ toShut \subseteq PeerID /\ HandlersTyped /\ None \notin PeerState
  BY Constants DEF Inv, OutboundInv, PeersTyped, ShutdownInv
<1>2. CASE MainStep
  <2>1. UNCHANGED <<handler, inPeers, inPeerCountByHost>>
    BY <1>2, MainKeepsHandler
  <2>2. \A h \in Handler : SamePeer(h)
    BY <1>1, <1>2, MainSameInbound
  <2> QED
    BY <2>1, <2>2, SameIsLive DEF IsMember
<1>3. ASSUME NEW h \in Handler, HandlerStep(h)
      PROVE  \/ /\ UNCHANGED <<inPeers, inPeerCountByHost>>
                /\ \A j \in Handler : IsMember(j)' <=> IsMember(j)
             \/ /\ AddInbound(h) /\ ~IsMember(h) /\ AddToInboundSet(h)
                /\ Cardinality(inPeers) # InboundLimit
                /\ handler[h] = "add" /\ handler'[h] = "run" /\ UNCHANGED crowded
                /\ \A j \in Handler : j # h => /\ handler'[j] = handler[j]
                                               /\ IsMember(j)' <=> IsMember(j)
  <2>1. \A j \in Handler : j # h => handler'[j] = handler[j] /\ (IsMember(j)' <=> IsMember(j))
    BY <1>1, <1>3, HandlerSteps, Constants DEF IsMember, IsLive
  <2>2. handler[h] \in {"store", "add"} => ~IsMember(h)
    BY <1>1 DEF IsMember, IsLive, HandlersTyped
  <2>3. CASE Accept(h)
    <3>1. UNCHANGED <<inPeers, inPeerCountByHost>> /\ peer' = peer /\ handler[h] = "idle" /\ handler'[h] = "store"
      BY <1>1, <2>3 DEF Accept, HandlersTyped
    <3> QED
      BY <2>1, <3>1 DEF IsMember, IsLive
  <2>4. CASE Upgrade(h)
    <3>1. /\ UNCHANGED <<inPeers, inPeerCountByHost>> /\ handler[h] = "store"
          /\ handler'[h] = "add" /\ peer'[h] = NewPeer
      BY <1>1, <2>4, Constants DEF Upgrade, HandlersTyped, PeersTyped
    <3> QED
      BY <2>1, <2>2, <3>1 DEF IsMember, IsLive, NewPeer
  <2>5. CASE AddInbound(h) /\ Cardinality(inPeers) = InboundLimit
    <3>1. /\ UNCHANGED <<inPeers, inPeerCountByHost>> /\ handler[h] = "add"
          /\ handler'[h] = "idle" /\ peer'[h] = None
      BY <1>1, <2>5, Constants DEF AddInbound, HandlersTyped, PeersTyped
    <3> QED
      BY <2>1, <2>2, <3>1 DEF IsMember, IsLive
  <2>6. CASE AddInbound(h) /\ Cardinality(inPeers) # InboundLimit
    <3>1. /\ AddToInboundSet(h) /\ handler[h] = "add" /\ handler'[h] = "run" /\ UNCHANGED crowded
      BY <1>1, <2>6 DEF AddInbound, HandlersTyped
    <3> QED
      BY <2>1, <2>2, <2>6, <3>1
  <2>7. CASE RunInbound(h)
    <3>1. UNCHANGED <<inPeers, inPeerCountByHost>> /\ handler[h] = "run"
      BY <2>7 DEF RunInbound
    <3>2. IsLive(h)'
      <4>1. h \in PeerID /\ peer[h] \in PeerState
        BY <1>1, <3>1, Constants DEF HandlersTyped, PeersTyped
      <4> DEFINE p == [peer[h] EXCEPT !.reader = "run", !.writer = "gone"]
      <4>2. peer'[h] = p
        BY <1>1, <2>7, <4>1 DEF RunInbound, PeersTyped
      <4>3. p \in PeerState /\ p.reader = "run"
        BY <4>1 DEF PeerState
      <4> HIDE DEF p
      <4> QED
        BY <1>1, <4>2, <4>3 DEF IsLive
    <3> QED
      BY <2>1, <3>1, <3>2 DEF IsMember
  <2> QED
    BY <1>3, <2>3, <2>4, <2>5, <2>6, <2>7 DEF HandlerStep, Handle
<1>4. ASSUME NEW id \in PeerID, PeerStep(id)
      PROVE  \/ /\ UNCHANGED <<inPeers, inPeerCountByHost>>
                /\ \A j \in Handler : IsMember(j)' <=> IsMember(j)
             \/ /\ id \in Handler
                /\ OnClose(id) /\ IsMember(id) /\ ~IsMember(id)' /\ RemoveFromInboundSet(id)
                /\ UNCHANGED <<handler, crowded>>
                /\ \A j \in Handler : j # id => (IsMember(j)' <=> IsMember(j))
  <2>1. PeerEffect(id) /\ UNCHANGED <<handler, crowded>> /\ (id \in Handler => handler[id] = "idle")
    BY <1>1, <1>4, PeerSteps, PeerStepOnly, PeerStepHandlers
  <2>2. \A j \in Handler : j # id => (IsMember(j)' <=> IsMember(j))
    BY <2>1, Constants DEF PeerEffect, IsMember, IsLive
  <2>3. CASE ~OnClose(id)
    BY <2>1, <2>2, <2>3 DEF PeerEffect, IsMember
  <2>4. CASE OnClose(id) /\ id \in Outbound
    BY <2>2, <2>4, Constants DEF OnClose
  <2>5. CASE OnClose(id) /\ id \notin Outbound
    <3>1. id \in Handler /\ RemoveFromInboundSet(id)
      BY <2>5 DEF OnClose, PeerID
    <3> QED
      BY <2>1, <2>2, <2>5, <3>1 DEF PeerEffect, IsMember
  <2> QED
    BY <2>3, <2>4, <2>5
<1>5. ASSUME NEW a \in Addr, Seed(a)
      PROVE  /\ UNCHANGED <<inPeers, inPeerCountByHost>>
             /\ \A h \in Handler : IsMember(h)' <=> IsMember(h)
  BY <1>5 DEF Seed, PeerOnly, IsMember, IsLive
<1> QED
  BY <1>2, <1>3, <1>4, <1>5, NextSteps

LEMMA InboundKept ==
    ASSUME Inv, Next
    PROVE  InboundInv'
<1>1. InboundInv
  BY DEF Inv
<1>2. CASE /\ UNCHANGED <<inPeers, inPeerCountByHost>>
           /\ \A h \in Handler : IsMember(h)' <=> IsMember(h)
  BY <1>1, <1>2, SameInbound
<1>3. ASSUME NEW h \in Handler, ~IsMember(h), AddToInboundSet(h),
             Cardinality(inPeers) # InboundLimit, handler'[h] = "run",
             \A j \in Handler : j # h => (IsMember(j)' <=> IsMember(j))
      PROVE  InboundInv'
  <2>1. IsMember(h)'
    BY <1>3 DEF IsMember
  <2>2. inPeers' = inPeers \cup {h} /\ inPeers = {j \in Handler : IsMember(j)}
    BY <1>1, <1>3 DEF AddToInboundSet, InboundInv, IsMember
  <2>3. inPeers' = {j \in Handler : IsMember(j)'}
    BY <1>3, <2>1, <2>2
  <2> QED
    BY <1>1, <1>3, <2>3, InboundAdded DEF InboundInv, IsMember, HandlersOf
<1>4. ASSUME NEW h \in Handler, IsMember(h), ~IsMember(h)', RemoveFromInboundSet(h),
             \A j \in Handler : j # h => (IsMember(j)' <=> IsMember(j))
      PROVE  InboundInv'
  <2>1. inPeers' = inPeers \ {h} /\ inPeers = {j \in Handler : IsMember(j)}
    BY <1>1, <1>4 DEF RemoveFromInboundSet, InboundInv, IsMember
  <2>2. inPeers' = {j \in Handler : IsMember(j)'}
    BY <1>4, <2>1
  <2> QED
    BY <1>1, <1>4, <2>2, InboundRemoved DEF InboundInv, IsMember, HandlersOf
<1> QED
  BY <1>2, <1>3, <1>4, InboundSteps

LEMMA SameLimit ==
    ASSUME LimitInv, inPeerCountByHost \in [Host -> Nat], inPeerCountByHost' \in [Host -> Nat],
           UNCHANGED crowded, \A x \in Host : inPeerCountByHost'[x] <= inPeerCountByHost[x],
           \A h \in Handler : IsUncounted(h)' => IsUncounted(h)
    PROVE  LimitInv'
<1> DEFINE max == MAX_INBOUND_PEER_CONNECTIONS_FROM_SAME_HOST
<1>1. ASSUME NEW x \in Host, x \notin Local \cup crowded'
      PROVE  /\ inPeerCountByHost'[x] <= max
             /\ \A h, i \in HandlersOf(x) :
                  IsUncounted(h)' /\ IsUncounted(i)' => h = i /\ inPeerCountByHost'[x] < max
  <2>1. /\ inPeerCountByHost[x] <= max
        /\ \A h, i \in HandlersOf(x) :
             IsUncounted(h) /\ IsUncounted(i) => h = i /\ inPeerCountByHost[x] < max
    BY <1>1 DEF LimitInv
  <2>2. /\ inPeerCountByHost'[x] \in Nat /\ inPeerCountByHost[x] \in Nat /\ max \in Nat
        /\ inPeerCountByHost'[x] <= inPeerCountByHost[x]
    BY Constants
  <2>3. \A h \in HandlersOf(x) : h \in Handler
    BY DEF HandlersOf
  <2> QED
    BY <2>1, <2>2, <2>3
<1> QED
  BY <1>1 DEF LimitInv, HandlersOf, IsUncounted

LEMMA LimitKept ==
    ASSUME Inv, Next
    PROVE  LimitInv'
<1>1. /\ PeersTyped /\ toShut \subseteq PeerID /\ HandlersTyped /\ InboundInv /\ LimitInv
      /\ inPeerCountByHost \in [Host -> Nat] /\ StorageInv /\ OutboundInv
  BY DEF Inv, OutboundInv, PeersTyped, ShutdownInv, InboundInv
<1>2. ASSUME UNCHANGED inPeerCountByHost, UNCHANGED crowded,
             \A h \in Handler : IsUncounted(h)' => IsUncounted(h)
      PROVE  LimitInv'
  BY <1>1, <1>2, SameLimit
<1>3. CASE MainStep
  BY <1>2, <1>3, MainKeepsHandler DEF IsUncounted
<1>4. ASSUME NEW id \in PeerID, PeerStep(id) PROVE LimitInv'
  <2>1. PeerEffect(id) /\ UNCHANGED <<handler, crowded>> /\ (id \in Handler => handler[id] = "idle")
    BY <1>1, <1>4, PeerSteps, PeerStepOnly, PeerStepHandlers
  <2>2. CASE OnClose(id) /\ id \in Handler
    <3>1. IsMember(id) /\ RemoveFromInboundSet(id)
      BY <2>1, <2>2, Constants DEF PeerEffect, IsMember, OnClose
    <3> QED
      BY <1>1, <2>1, <2>2, <3>1, InboundRemoved, SameLimit DEF IsUncounted
  <2>3. CASE OnClose(id) /\ id \in Outbound
    BY <1>2, <2>1, <2>3 DEF OnClose, IsUncounted
  <2>4. CASE ~OnClose(id)
    BY <1>2, <2>1, <2>4 DEF PeerEffect, IsUncounted
  <2> QED
    BY <2>2, <2>3, <2>4 DEF PeerID
<1>5. ASSUME NEW a \in Addr, Seed(a) PROVE LimitInv'
  BY <1>2, <1>5 DEF Seed, PeerOnly, IsUncounted
<1>6. ASSUME NEW h \in Handler, HandlerStep(h) PROVE LimitInv'
  <2>1. \A j \in Handler : j # h => handler'[j] = handler[j]
    BY <1>1, <1>6, HandlerSteps
  <2>2. CASE Accept(h)
    <3> DEFINE max == MAX_INBOUND_PEER_CONNECTIONS_FROM_SAME_HOST
    <3>1. /\ inPeerCountByHost' = inPeerCountByHost /\ CheckHostConnectionLimit(HostOf[h])
          /\ crowded' = IF \E other \in HandlersOf(HostOf[h]) : IsUncounted(other)
                        THEN crowded \cup {HostOf[h]} ELSE crowded
      BY <2>2 DEF Accept
    <3>2. ASSUME NEW x \in Host, x \notin Local \cup crowded'
          PROVE  /\ inPeerCountByHost'[x] <= max
                 /\ \A i, j \in HandlersOf(x) :
                      IsUncounted(i)' /\ IsUncounted(j)' => i = j /\ inPeerCountByHost'[x] < max
      <4>1. x \notin Local \cup crowded
        BY <3>1, <3>2
      <4>2. /\ inPeerCountByHost[x] <= max
            /\ \A i, j \in HandlersOf(x) :
                 IsUncounted(i) /\ IsUncounted(j) => i = j /\ inPeerCountByHost[x] < max
        BY <1>1, <4>1 DEF LimitInv
      <4>3. CASE x = HostOf[h]
        <5>1. \A i \in HandlersOf(x) : ~IsUncounted(i)
          BY <3>1, <3>2, <4>3
        <5>2. \A i \in HandlersOf(x) : IsUncounted(i)' => i = h
          BY <2>1, <5>1 DEF IsUncounted, HandlersOf
        <5>3. inPeerCountByHost[x] < max
          BY <3>1, <4>1, <4>3 DEF CheckHostConnectionLimit
        <5> QED
          BY <3>1, <4>2, <5>2, <5>3
      <4>4. CASE x # HostOf[h]
        <5>1. \A i \in HandlersOf(x) : IsUncounted(i)' <=> IsUncounted(i)
          BY <2>1, <4>4 DEF IsUncounted, HandlersOf
        <5> QED
          BY <3>1, <4>2, <5>1
      <4> QED
        BY <4>3, <4>4
    <3> QED
      BY <3>2 DEF LimitInv, HandlersOf, IsUncounted
  <2>3. CASE ~Accept(h) /\ UNCHANGED <<inPeers, inPeerCountByHost, crowded>>
    <3>1. IsUncounted(h)' => IsUncounted(h)
      BY <1>1, <1>6, <2>3, HandlerSteps DEF IsUncounted
    <3> QED
      BY <1>2, <2>1, <2>3, <3>1 DEF IsUncounted
  <2>4. CASE /\ AddInbound(h) /\ AddToInboundSet(h) /\ Cardinality(inPeers) # InboundLimit
             /\ handler[h] = "add" /\ handler'[h] = "run" /\ UNCHANGED crowded
    <3> DEFINE max == MAX_INBOUND_PEER_CONNECTIONS_FROM_SAME_HOST
    <3>1. ~IsMember(h)
      BY <1>1, <2>4 DEF IsMember, IsLive, HandlersTyped
    <3>2. \A x \in Host : inPeerCountByHost'[x] = inPeerCountByHost[x] + IF x = HostOf[h] THEN 1 ELSE 0
      BY <1>1, <2>4, <3>1, InboundAdded
    <3>3. ASSUME NEW x \in Host, x \notin Local \cup crowded'
          PROVE  /\ inPeerCountByHost'[x] <= max
                 /\ \A i, j \in HandlersOf(x) :
                      IsUncounted(i)' /\ IsUncounted(j)' => i = j /\ inPeerCountByHost'[x] < max
      <4>1. /\ inPeerCountByHost[x] <= max /\ inPeerCountByHost[x] \in Nat /\ max \in Nat
            /\ \A i, j \in HandlersOf(x) :
                 IsUncounted(i) /\ IsUncounted(j) => i = j /\ inPeerCountByHost[x] < max
        BY <1>1, <2>4, <3>3, Constants DEF LimitInv
      <4>2. CASE x = HostOf[h]
        <5>1. h \in HandlersOf(x) /\ IsUncounted(h)
          BY <2>4, <4>2 DEF HandlersOf, IsUncounted
        <5>2. inPeerCountByHost[x] < max /\ \A i \in HandlersOf(x) : IsUncounted(i) => i = h
          BY <4>1, <5>1
        <5>3. \A i \in HandlersOf(x) : ~IsUncounted(i)'
          BY <2>1, <2>4, <5>2 DEF IsUncounted, HandlersOf
        <5> QED
          BY <3>2, <4>1, <4>2, <5>2, <5>3
      <4>3. CASE x # HostOf[h]
        <5>1. \A i \in HandlersOf(x) : IsUncounted(i)' <=> IsUncounted(i)
          BY <2>1, <4>3 DEF IsUncounted, HandlersOf
        <5> QED
          BY <3>2, <4>1, <4>3, <5>1
      <4> QED
        BY <4>2, <4>3
    <3> QED
      BY <3>3 DEF LimitInv, HandlersOf, IsUncounted
  <2>5. \/ Accept(h)
        \/ ~Accept(h) /\ UNCHANGED <<inPeers, inPeerCountByHost, crowded>>
        \/ /\ AddInbound(h) /\ AddToInboundSet(h) /\ Cardinality(inPeers) # InboundLimit
           /\ handler[h] = "add" /\ handler'[h] = "run" /\ UNCHANGED crowded
    <3>1. CASE AddInbound(h)
      BY <1>1, <1>6, <3>1 DEF AddInbound, HandlersTyped
    <3>2. CASE ~Accept(h) /\ ~AddInbound(h)
      BY <1>6, <3>2 DEF HandlerStep, Handle, Upgrade, RunInbound
    <3> QED
      BY <3>1, <3>2
  <2> QED
    BY <2>2, <2>3, <2>4, <2>5
<1> QED
  BY <1>3, <1>4, <1>5, <1>6, NextSteps

LEMMA InboundHolds ==
    ASSUME InboundInv, LimitInv
    PROVE  InboundIsCounted
<1> DEFINE max == MAX_INBOUND_PEER_CONNECTIONS_FROM_SAME_HOST
<1>1. ASSUME NEW x \in Host, x \notin Local \cup crowded
      PROVE  inPeerCountByHost[x] + Cardinality({h \in HandlersOf(x) : IsUncounted(h)}) <= max
  <2> DEFINE uncounted == {h \in HandlersOf(x) : IsUncounted(h)}
  <2>1. /\ inPeerCountByHost[x] \in Nat /\ max \in Nat /\ inPeerCountByHost[x] <= max
        /\ \A h, i \in HandlersOf(x) :
             IsUncounted(h) /\ IsUncounted(i) => h = i /\ inPeerCountByHost[x] < max
    BY <1>1, Constants DEF InboundInv, LimitInv
  <2>2. CASE uncounted = {}
    <3>1. Cardinality(uncounted) = 0
      BY <2>2, FS_EmptySet
    <3> QED
      BY <2>1, <3>1
  <2>3. CASE uncounted # {}
    <3>1. PICK h \in uncounted : TRUE
      BY <2>3
    <3>2. uncounted = {h} /\ inPeerCountByHost[x] < max
      BY <2>1, <3>1
    <3>3. Cardinality(uncounted) = 1
      BY <3>2, FS_Singleton
    <3> QED
      BY <2>1, <3>2, <3>3
  <2> QED
    BY <2>2, <2>3
<1> QED
  BY <1>1 DEF InboundIsCounted, InboundInv

----------------------------------------------------------------------------
(* The outbound connections. *)

\* What a step of the main loop may take from the addresses and their records.
MainEffect ==
    /\ \A a \in outPeers : a \in outPeers' \/ (main.pc \in Dialling /\ a = main.addr)
    /\ \A a \in Addr : info[a] # None =>
         \/ info'[a] # None
         \/ main.pc \in Dialling /\ a = main.addr
         \/ explicit = None /\ a \in banned
    /\ main'.pc \in Dialling =>
         (main.pc \in Dialling /\ main'.addr = main.addr) \/ main'.addr \notin outPeers
    /\ \A a \in connectedPeers' : (a \in connectedPeers /\ ~Releasing(a)) \/ Releasing(a)'

LEMMA MainEffects ==
    ASSUME StorageInv, MainInv, MainStep, ~Dialled
    PROVE  MainEffect
<1>1. main \in MainState /\ Main \in Caller
  BY Constants DEF MainInv, MainTyped
<1>2. main.pc \in Calling => pending[Main] # None
  BY DEF MainInv, MainCalls
<1>3. \A pc \in Pc : At(pc).pc = pc
  BY AtFields
<1>4. ASSUME UNCHANGED <<main, outPeers, info, connectedPeers>> PROVE MainEffect
  BY <1>4 DEF MainEffect, Releasing
\* Steps outside connect that delete nothing.
<1>5. ASSUME UNCHANGED <<outPeers, connectedPeers>>, main.pc # "failed", main'.pc \notin Dialling,
             \A a \in Addr : info[a] # None => info'[a] # None
      PROVE  MainEffect
  BY <1>5 DEF MainEffect, Releasing
<1>6. ASSUME WriteStore(Main), pending[Main] # None
      PROVE  connectedPeers' = connectedPeers /\ \A a \in Addr : info[a] # None => info'[a] # None
  BY <1>1, <1>6, WriteEffect DEF WriteAny, Keeping, WriteStore, Unwritten
<1>7. \A a : Read(Main, a) => UNCHANGED <<info, connectedPeers>>
  BY DEF Read
<1>8. CASE Boot \/ StoreAddress
  BY <1>2, <1>3, <1>5, <1>6, <1>7, <1>8
  DEF Boot, StoreAddress, StorageOnly, Go, Dialling, Calling, Pc
<1>9. CASE ListenForPeers
  <2>1. main'.pc \notin Dialling
    <3>1. CASE main' = At(AfterListening)
      BY <1>3, <3>1 DEF AfterListening, Dialling, Pc
    <3>2. CASE main' = [At("storeSelf") EXCEPT !.ret = AfterListening]
      <4>1. main'.pc = "storeSelf"
        BY <3>2 DEF At, Idle
      <4> QED
        BY <4>1 DEF Dialling
    <3> QED
      BY <1>9, <3>1, <3>2 DEF ListenForPeers, Go
  <2> QED
    BY <1>5, <1>7, <1>9, <2>1 DEF ListenForPeers, storageVars
<1>10. CASE StoreSelf
  <2>1. main'.pc = "connect"
    BY <1>1, <1>10 DEF StoreSelf, Go, MainState
  <2> QED
    BY <1>2, <1>5, <1>6, <1>10, <2>1 DEF StoreSelf, StorageOnly, Dialling, Calling
<1>11. CASE DropRandomPeer
  <2>1. main'.pc \in {"plan", "await"}
    BY <1>1, <1>11, WhereItGoes
  <2> QED
    BY <1>5, <1>11, <2>1 DEF DropRandomPeer, storageVars, Dialling
<1>12. CASE Await \/ CloseServer \/ Tick \/ TakeShutdown
  <2>1. main'.pc \notin Dialling
    BY <1>3, <1>12 DEF Await, CloseServer, Tick, TakeShutdown, Go, Dialling, Pc, MainInv, MainPlans
  <2> QED
    BY <1>5, <1>12, <2>1
    DEF Await, CloseServer, Tick, TakeShutdown, LoopOnly, storageVars, Dialling
<1>13. CASE ConnectToPeers
  <2>1. main'.pc \in {"select", "connect", "get"}
    BY <1>13 DEF ConnectToPeers, Go, At, Idle
  <2> QED
    BY <1>5, <1>13, <2>1 DEF ConnectToPeers, LoopOnly, storageVars, Dialling
<1>14. CASE GetAddresses
  <2>1. main'.pc \in {"select", "next", "panic"}
    BY <1>1, <1>14, WhereItGoes
  <2> QED
    BY <1>5, <1>14, <2>1 DEF GetAddresses, LoopOnly, storageVars, Dialling
<1>15. CASE NextAddress
  <2>1. main'.pc \in {"select", "get", "delete", "connect"}
    BY <1>1, <1>15, WhereItGoes
  <2> QED
    BY <1>5, <1>7, <1>15, <2>1 DEF NextAddress, StorageOnly, storageVars, Dialling
<1>16. CASE DeleteBanned
  <2>1. main'.pc = "next" /\ explicit = None /\ pending[Main].addr \in banned /\ pending[Main] # None
    BY <1>1, <1>2, <1>16 DEF DeleteBanned, Go, MainState, MainInv, MainPlans, MainCalls, Calling
  <2>2. /\ connectedPeers' = connectedPeers
        /\ \A a \in Addr : info[a] # None /\ a # pending[Main].addr => info'[a] # None
    BY <1>1, <1>16, <2>1, WriteEffect DEF DeleteBanned, WriteAny, WriteDelete, Unwritten
  <2> QED
    BY <1>16, <2>1, <2>2 DEF DeleteBanned, StorageOnly, MainEffect, Dialling, Releasing
<1>17. CASE Reserve
  <2>1. CASE /\ FitsOutbound(main.addr) /\ outPeers' = outPeers \cup {main.addr}
             /\ Read(Main, main.addr) /\ main' = [main EXCEPT !.pc = "attempt"]
    <3>1. main'.pc = "attempt" /\ main'.addr = main.addr /\ main.addr \notin outPeers
      BY <1>1, <2>1 DEF MainState, FitsOutbound
    <3> QED
      BY <1>7, <1>17, <2>1, <3>1 DEF Reserve, MainEffect, Dialling, Releasing
  <2>2. CASE main' = Returned(TRUE) /\ UNCHANGED <<outPeers, storageVars>>
    <3>1. main'.pc \in {"select", "plan", "drop", "next"}
      BY <1>1, <1>3, <1>17, <2>2 DEF Reserve, Returned, MainInv, MainPlans, MainState, Pc
    <3> QED
      BY <1>5, <1>17, <2>2, <3>1 DEF Reserve, storageVars, Dialling
  <2> QED
    BY <1>17, <2>1, <2>2 DEF Reserve, Go
<1>18. CASE OnConnectAttempt
  <2>1. pending[Main] # None /\ main.pc = "attempt"
    BY <1>2, <1>18 DEF OnConnectAttempt, Calling
  <2>2. /\ connectedPeers' = connectedPeers
        /\ \A a \in Addr : info[a] # None => info'[a] # None
    BY <1>1, <1>18, <2>1, WriteEffect DEF OnConnectAttempt, WriteAny, Keeping, WriteAttempt, Unwritten
  <2>3. CASE main' = [main EXCEPT !.pc = "dial"] /\ outPeers' = outPeers
    <3>1. main'.pc = "dial" /\ main'.addr = main.addr
      BY <1>1, <2>3 DEF MainState
    <3> QED
      BY <2>1, <2>2, <2>3, <3>1 DEF MainEffect, Dialling, Releasing
  <2>4. CASE main' = Returned(TRUE) /\ outPeers' = outPeers \ {main.addr}
    <3>1. main'.pc \in {"select", "plan", "drop", "next"}
      BY <1>1, <1>3, <2>1, <2>4 DEF Returned, MainInv, MainPlans, MainState, Pc, Dialling
    <3> QED
      BY <2>1, <2>2, <2>4, <3>1 DEF MainEffect, Dialling, Releasing
  <2> QED
    BY <1>18, <2>3, <2>4 DEF OnConnectAttempt, Go
<1>19. CASE Dial
  <2>1. PICK outcome \in Outcome : main' = [main EXCEPT !.pc = "dialled", !.outcome = outcome]
    BY <1>19 DEF Dial, Go
  <2>2. main'.pc = "dialled" /\ main'.addr = main.addr
    BY <1>1, <2>1 DEF MainState
  <2> QED
    BY <1>7, <1>19, <2>2 DEF Dial, StorageOnly, MainEffect, Dialling, Releasing
<1>20. CASE NotDialled
  <2>1. /\ main.pc = "dialled" /\ pending[Main] # None /\ pending[Main].addr = main.addr
        /\ outPeers' = outPeers
    BY <1>2, <1>20 DEF NotDialled, StorageOnly, MainInv, MainCalls, Calling
  <2>2. main'.pc = "failed" /\ main'.addr = main.addr /\ main'.outcome = main.outcome
    BY <1>1, <1>20 DEF NotDialled, Go, MainState
  <2>3. CASE main.outcome \in {"connected", "busy"} /\ WriteSuccess(Main)
    <3>1. WriteAny(Main) /\ Keeping(Main)
      BY <2>3 DEF WriteAny, Keeping
    <3>2. \A a \in Addr : info[a] # None => info'[a] # None
      BY <1>1, <2>1, <3>1, WriteEffect
    <3>3. \/ connectedPeers' = connectedPeers
          \/ main.outcome = "busy" /\ connectedPeers' = connectedPeers \cup {main.addr}
      <4>1. main.outcome # "connected" \/ ~IsKnown(Main)
        BY <1>20 DEF NotDialled
      <4> QED
        BY <1>1, <2>1, <2>3, <3>1, <4>1, WriteEffect
    <3> QED
      BY <2>1, <2>2, <3>2, <3>3 DEF MainEffect, Dialling, Releasing
  <2>4. CASE WriteFailure(Main)
    <3>1. WriteDelete(Main) \/ Unwritten(Main)
      BY <2>4 DEF WriteFailure
    <3>2. /\ connectedPeers' = connectedPeers
          /\ \A a \in Addr : info[a] # None /\ a # main.addr => info'[a] # None
      BY <1>1, <2>1, <3>1, WriteEffect DEF WriteDelete, Unwritten, WriteAny, Keeping
    <3> QED
      BY <2>1, <2>2, <3>2 DEF MainEffect, Dialling, Releasing
  <2> QED
    BY <1>20, <2>3, <2>4 DEF NotDialled
<1>21. CASE Release
  <2>1. main.pc = "failed" /\ main' = Returned(TRUE) /\ outPeers' = outPeers \ {main.addr}
    BY <1>21 DEF Release, Go
  <2>2. main'.pc \in {"select", "plan", "drop", "next"}
    BY <1>1, <1>3, <2>1 DEF Returned, MainInv, MainPlans, MainState, Pc, Dialling
  <2>3. /\ info' = info
        /\ connectedPeers' = IF main.outcome = "busy" THEN connectedPeers \ {main.addr} ELSE connectedPeers
    BY <1>21 DEF Release, OnDisconnect, storageVars
  <2> QED
    BY <2>1, <2>2, <2>3 DEF MainEffect, Dialling, Releasing
<1>22. CASE TakeAddress
  <2>1. main' = main \/ main'.pc = "store"
    BY <1>3, <1>22 DEF TakeAddress, Go, Pc
  <2>2. UNCHANGED <<outPeers, info, connectedPeers>> /\ main.pc = "select"
    BY <1>7, <1>22 DEF TakeAddress, storageVars
  <2> QED
    BY <1>4, <1>5, <2>1, <2>2 DEF Dialling
<1>23. CASE Shutdown \/ (PassTime /\ UNCHANGED managerVars)
  BY <1>23 , <1>4 DEF Shutdown, PassTime, storageVars, managerVars
<1>24. CASE ShutdownStep
  <2>1. main'.pc \in {"shut", "down", "await"} /\ main.pc \in {"stopped", "shut"}
    BY <1>24 DEF ShutdownStep, CopyPeers, ShutPeer, Go, At, Idle
  <2>2. UNCHANGED <<outPeers, info, connectedPeers>>
    BY <1>24 DEF ShutdownStep, CopyPeers, ShutPeer, storageVars
  <2> QED
    BY <1>5, <2>1, <2>2 DEF Dialling
<1> QED
  BY <1>8, <1>9, <1>10, <1>11, <1>12, <1>13, <1>14, <1>15, <1>16, <1>17, <1>18, <1>19, <1>20,
     <1>21, <1>22, <1>23, <1>24 DEF MainStep, Loop

\* A writer goes on until StopWriting, and refreshes with what it has read.
LEMMA PeerWriters ==
    ASSUME StorageInv, PeersTyped, RefreshInv, NEW id \in Outbound, PeerStep(id)
    PROVE  /\ IsWriting(id) => IsWriting(id)' \/ StopWriting(id)
           /\ peer'[id] # None /\ peer'[id].writer = "refresh" =>
                \/ pending'[id] # None /\ pending'[id].addr = id[1]
                \/ pending' = pending /\ peer[id] # None /\ peer[id].writer = "refresh"
           /\ \A a \in connectedPeers' : a \in connectedPeers \/ (a = id[1] /\ IsWriting(id)')
           /\ StopWriting(id) => id[1] \notin connectedPeers'
           /\ \A a \in Addr : info[a] # None => info'[a] # None
<1>1. id \in PeerID /\ id \in Caller /\ id[1] \in Addr /\ None \notin PeerState
  BY Constants
<1>2. peer[id] # None /\ peer[id] \in PeerState
  BY <1>1 DEF PeerStep, GoOn, Lose, ReadAddresses, SendAddress, StopReading, OnClose, StopWriting,
              Refresh, Refreshed, IsLive, PeersTyped
<1>3. CASE Lose(id) \/ ReadAddresses(id) \/ SendAddress(id) \/ StopReading(id) \/ OnClose(id)
  <2>1. UNCHANGED <<pending, info, connectedPeers>>
    BY <1>3 DEF Lose, ReadAddresses, SendAddress, StopReading, OnClose, storageVars
  <2>2. \E p \in PeerState : p.writer = peer[id].writer /\ Becomes(id, p)
    <3>1. \A c \in {"open", "closed"} :
            [peer[id] EXCEPT !.conn = c] \in PeerState
              /\ [peer[id] EXCEPT !.conn = c].writer = peer[id].writer
      BY <1>2 DEF PeerState
    <3>2. \A r \in {"new", "run", "send", "closing", "gone"} :
            [peer[id] EXCEPT !.reader = r] \in PeerState
              /\ [peer[id] EXCEPT !.reader = r].writer = peer[id].writer
      BY <1>2 DEF PeerState
    <3> QED
      BY <1>3, <3>1, <3>2 DEF Lose, ReadAddresses, SendAddress, StopReading, OnClose
  <2>3. PICK p \in PeerState : p.writer = peer[id].writer /\ Becomes(id, p)
    BY <2>2
  <2>4. peer'[id] = p \/ (peer'[id] = None /\ p.writer = "gone")
    BY <1>1, <2>3, BecomesEffect
  <2>5. IsWriting(id) => IsWriting(id)'
    BY <1>1, <2>3, <2>4 DEF IsWriting
  <2>6. ~StopWriting(id) \/ ~IsWriting(id)
    <3>1. ASSUME StopWriting(id) PROVE FALSE
      <4> DEFINE q == [peer[id] EXCEPT !.writer = "gone"]
      <4>1. q \in PeerState /\ q.writer = "gone" /\ Becomes(id, q) /\ peer[id].writer = "run"
        BY <1>2, <3>1 DEF StopWriting, PeerState
      <4> HIDE DEF q
      <4>2. peer'[id] = q \/ peer'[id] = None
        BY <1>1, <4>1, BecomesEffect
      <4> QED
        BY <1>1, <1>2, <2>3, <2>4, <4>1, <4>2
    <3> QED
      BY <3>1
  <2>7. StopWriting(id) => IsWriting(id)
    BY DEF StopWriting, IsWriting
  <2> QED
    BY <1>2, <2>1, <2>3, <2>4, <2>5, <2>6, <2>7
<1>4. CASE StopWriting(id)
  <2> DEFINE p == [peer[id] EXCEPT !.writer = "gone"]
  <2>1. p \in PeerState /\ p.writer = "gone"
    BY <1>2 DEF PeerState
  <2>2. Becomes(id, p) /\ OnDisconnect(id[1])
    BY <1>4 DEF StopWriting
  <2> HIDE DEF p
  <2>3. peer'[id] = p \/ peer'[id] = None
    BY <1>1, <2>1, <2>2, BecomesEffect
  <2> QED
    BY <1>1, <1>4, <2>1, <2>2, <2>3 DEF OnDisconnect
<1>5. CASE Refresh(id)
  <2> DEFINE p == [peer[id] EXCEPT !.writer = "refresh"]
  <2>1. p \in PeerState /\ p.writer = "refresh"
    BY <1>2 DEF PeerState
  <2>2. Becomes(id, p) /\ Read(id, id[1])
    BY <1>5 DEF Refresh
  <2> HIDE DEF p
  <2>3. peer'[id] = p
    BY <1>1, <2>1, <2>2, BecomesEffect
  <2>4. pending'[id] # None /\ pending'[id].addr = id[1] /\ UNCHANGED <<info, connectedPeers>>
    BY <1>1, <2>2, ReadEffect
  <2>5. ~StopWriting(id)
    <3>1. ASSUME StopWriting(id) PROVE FALSE
      <4> DEFINE q == [peer[id] EXCEPT !.writer = "gone"]
      <4>1. q \in PeerState /\ q.writer = "gone" /\ Becomes(id, q)
        BY <1>2, <3>1 DEF StopWriting, PeerState
      <4> HIDE DEF q
      <4>2. peer'[id] = q \/ peer'[id] = None
        BY <1>1, <4>1, BecomesEffect
      <4> QED
        BY <1>1, <2>1, <2>3, <4>1, <4>2
    <3> QED
      BY <3>1
  <2> QED
    BY <1>1, <2>1, <2>3, <2>4, <2>5 DEF IsWriting
<1>6. CASE Refreshed(id)
  <2> DEFINE p == [peer[id] EXCEPT !.writer = "run"]
  <2>1. p \in PeerState /\ p.writer = "run"
    BY <1>2 DEF PeerState
  <2>2. Becomes(id, p) /\ WriteSuccess(id) /\ peer[id].writer = "refresh"
    BY <1>6 DEF Refreshed
  <2> HIDE DEF p
  <2>3. peer'[id] = p
    BY <1>1, <2>1, <2>2, BecomesEffect
  <2>4. pending[id] # None /\ pending[id].addr = id[1]
    BY <1>2, <2>2 DEF RefreshInv
  <2>5. /\ \A a \in Addr : info[a] # None => info'[a] # None
        /\ connectedPeers' \subseteq connectedPeers \cup {id[1]}
    BY <1>1, <2>2, <2>4, WriteEffect DEF WriteAny, Keeping
  <2>6. ~StopWriting(id)
    BY <2>2 DEF StopWriting
  <2> QED
    BY <1>1, <2>1, <2>3, <2>5, <2>6 DEF IsWriting
<1> QED
  BY <1>3, <1>4, <1>5, <1>6 DEF PeerStep, GoOn

LEMMA OutboundKept ==
    ASSUME Inv, Next
    PROVE  OutboundInv'
<1>1. /\ StorageInv /\ MainInv /\ HandlersTyped /\ PeersTyped /\ LiveInv /\ RefreshInv /\ MarkedInv
      /\ OutboundInv /\ toShut \subseteq PeerID
  BY DEF Inv, OutboundInv, ShutdownInv
<1>2. CASE MainStep /\ ~Dialled
  <2>1. PeersTyped' /\ \A id \in Outbound : SamePeer(id)
    BY <1>1, <1>2, MainPeers, Constants
  <2>2. \A id \in Outbound : (IsLive(id)' <=> IsLive(id)) /\ (IsWriting(id)' <=> IsWriting(id))
    BY <2>1, SameIsLive DEF SamePeer, IsWriting
  <2>3. MainEffect
    BY <1>1, <1>2, MainEffects
  <2>4. \A id \in Outbound : pending'[id] = pending[id]
    BY <1>1, <1>2, MainStorage, StorageStepKeeps, Constants
  <2>5. ASSUME NEW id \in Outbound, IsLive(id)
        PROVE  id[1] \in outPeers' /\ info'[id[1]] # None
    <3>1. id[1] \in outPeers /\ info[id[1]] # None /\ ~(main.pc \in Dialling /\ id[1] = main.addr)
      BY <1>1, <2>5 DEF LiveInv
    <3>2. ~(explicit = None /\ id[1] \in banned)
      BY <1>1, <3>1 DEF MainInv, MainPlans
    <3> QED
      BY <2>3, <3>1, <3>2, Constants DEF MainEffect
  <2>6. ASSUME main'.pc \in Dialling, NEW id \in Outbound, id[1] = main'.addr
        PROVE  ~IsLive(id)
    BY <1>1, <2>3, <2>6 DEF MainEffect, LiveInv
  <2>7. LiveInv'
    BY <1>1, <2>2, <2>5, <2>6 DEF LiveInv
  <2>8. RefreshInv'
    BY <1>1, <2>1, <2>4 DEF RefreshInv, SamePeer
  <2>9. MarkedInv'
    BY <1>1, <2>2, <2>3 DEF MarkedInv, MainEffect
  <2> QED
    BY <2>1, <2>7, <2>8, <2>9 DEF OutboundInv
<1>3. CASE Dialled
  <2>1. PICK id \in Outbound :
          /\ id[1] = main.addr /\ peer[id] = None
          /\ PeersTyped' /\ IsLive(id)' /\ peer'[id] # None /\ peer'[id].writer = "run"
          /\ \A j \in PeerID : j # id => peer'[j] = peer[j]
    BY <1>1, <1>3, DialledPeers
  <2>2. /\ main.pc = "dialled" /\ pending[Main] # None /\ pending[Main].addr = main.addr
        /\ main.addr \in outPeers /\ WriteSuccess(Main) /\ IsKnown(Main)
    BY <1>1, <1>3 DEF Dialled, MainInv, MainCalls, MainPlans, Calling, Dialling
  <2>3. /\ \A f \in Outbound : pending'[f] = pending[f]
        /\ \A a \in Addr : info[a] # None => info'[a] # None
        /\ connectedPeers' = connectedPeers \cup {main.addr} /\ info'[main.addr] # None
    BY <1>1, <2>2, WriteEffect, Constants DEF WriteAny, Keeping
  <2>4. outPeers' = outPeers
    BY <1>3 DEF Dialled
  <2>5. main'.pc \notin Dialling
    <3>1. main \in MainState /\ \A pc \in Pc : At(pc).pc = pc
      BY <1>1, AtFields DEF MainInv, MainTyped
    <3>2. main' = Returned(FALSE) => main'.pc \in {"select", "plan", "drop", "next"}
      BY <1>1, <2>2, <3>1 DEF Returned, MainInv, MainPlans, MainState, Pc, Dialling
    <3>3. ASSUME NEW i, main' = [At("await") EXCEPT !.id = i, !.ret = main.ret]
          PROVE  main'.pc = "await"
      BY <3>3 DEF At, Idle
    <3>4. main' = Returned(FALSE)
            \/ \E i : main' = [At("await") EXCEPT !.id = i, !.ret = main.ret]
      BY <1>3 DEF Dialled, Go
    <3> QED
      BY <3>2, <3>3, <3>4 DEF Dialling
  <2>6. \A j \in Outbound : j # id => (IsLive(j)' <=> IsLive(j)) /\ (IsWriting(j)' <=> IsWriting(j))
    BY <2>1, Constants DEF IsLive, IsWriting
  <2>7. \A j \in Outbound : IsLive(j) => j[1] # main.addr
    BY <1>1, <2>2 DEF LiveInv, Dialling
  <2>8. LiveInv'
    <3>1. \A j \in Outbound : IsLive(j)' => j[1] \in outPeers' /\ info'[j[1]] # None
      BY <1>1, <2>1, <2>2, <2>3, <2>4, <2>6, Constants DEF LiveInv
    <3>2. \A i, j \in Outbound : IsLive(i)' /\ IsLive(j)' /\ i[1] = j[1] => i = j
      BY <1>1, <2>1, <2>6, <2>7 DEF LiveInv
    <3> QED
      BY <2>5, <3>1, <3>2 DEF LiveInv
  <2>9. RefreshInv'
    BY <1>1, <2>1, <2>3, Constants DEF RefreshInv
  <2>10. MarkedInv'
    <3>1. \A a : ~Releasing(a)
      BY <2>2 DEF Releasing
    <3>2. IsWriting(id)'
      BY <2>1 DEF IsWriting
    <3>3. \A j \in Outbound : IsWriting(j) => IsWriting(j)'
      BY <2>1, <2>6 DEF IsWriting
    <3> QED
      BY <1>1, <2>1, <2>3, <3>1, <3>2, <3>3 DEF MarkedInv
  <2> QED
    BY <2>1, <2>8, <2>9, <2>10 DEF OutboundInv
<1>4. ASSUME NEW h \in Handler, HandlerStep(h) PROVE OutboundInv'
  <2>1. /\ PeersTyped' /\ UNCHANGED <<main, outPeers>>
        /\ \A id \in Outbound : peer'[id] = peer[id]
    BY <1>1, <1>4, HandlerSteps, Constants
  <2>2. \A id \in Outbound : pending'[id] = pending[id]
    BY <1>1, <1>4, HandlerStorage, StorageStepKeeps, Constants
  <2>3. connectedPeers' = connectedPeers /\ \A a \in Addr : info[a] # None => info'[a] # None
    <3>1. CASE WriteStore(h) /\ pending[h] # None
      BY <1>1, <3>1, WriteEffect, Constants DEF WriteAny, Keeping, WriteStore, Unwritten
    <3>2. CASE UNCHANGED storageVars \/ \E a : Read(h, a)
      BY <3>2 DEF storageVars, Read
    <3> QED
      BY <1>1, <1>4, <3>1, <3>2
      DEF HandlerStep, Handle, Accept, Upgrade, AddInbound, RunInbound, HandlersTyped
  <2>4. \A id \in Outbound : (IsLive(id)' <=> IsLive(id)) /\ (IsWriting(id)' <=> IsWriting(id))
    BY <2>1 DEF IsLive, IsWriting
  <2>5. LiveInv'
    BY <1>1, <2>1, <2>3, <2>4, Constants DEF LiveInv
  <2>6. RefreshInv'
    BY <1>1, <2>1, <2>2 DEF RefreshInv
  <2>7. MarkedInv'
    BY <1>1, <2>1, <2>3, <2>4 DEF MarkedInv, Releasing
  <2> QED
    BY <2>1, <2>5, <2>6, <2>7 DEF OutboundInv
<1>5. ASSUME NEW id \in PeerID, PeerStep(id) PROVE OutboundInv'
  <2>1. PeerEffect(id) /\ UNCHANGED main
    BY <1>1, <1>5, PeerSteps, PeerStepOnly
  <2>2. id \in Caller
    BY Constants DEF PeerID
  <2>3. \A f \in Outbound : f # id => pending'[f] = pending[f]
    BY <1>1, <1>5, <2>2, PeerStorageSteps, StorageStepKeeps, Constants
  <2>4. \A j \in Outbound : j # id => /\ peer'[j] = peer[j]
                                      /\ IsLive(j)' <=> IsLive(j)
                                      /\ IsWriting(j)' <=> IsWriting(j)
    BY <2>1, Constants DEF PeerEffect, IsLive, IsWriting
  <2>5. CASE id \in Handler
    <3>1. UNCHANGED <<info, connectedPeers, outPeers, pending>>
      <4>1. id \notin Outbound
        BY <2>5, Constants
      <4> QED
        BY <1>5, <4>1 DEF PeerStep, GoOn, SendAddress, StopReading, OnClose, Lose, ReadAddresses,
                          StopWriting, storageVars
    <3>2. \A j \in Outbound : j # id
      BY <2>5, Constants
    <3>3. LiveInv'
      BY <1>1, <2>1, <2>4, <3>1, <3>2 DEF LiveInv
    <3>4. RefreshInv'
      BY <1>1, <2>4, <3>1, <3>2 DEF RefreshInv
    <3>5. MarkedInv'
      BY <1>1, <2>1, <2>4, <3>1, <3>2 DEF MarkedInv, Releasing
    <3> QED
      BY <2>1, <3>3, <3>4, <3>5 DEF PeerEffect, OutboundInv
  <2>6. CASE id \in Outbound
    <3>1. /\ IsWriting(id) => IsWriting(id)' \/ StopWriting(id)
          /\ peer'[id] # None /\ peer'[id].writer = "refresh" =>
               \/ pending'[id] # None /\ pending'[id].addr = id[1]
               \/ pending' = pending /\ peer[id] # None /\ peer[id].writer = "refresh"
          /\ \A a \in connectedPeers' : a \in connectedPeers \/ (a = id[1] /\ IsWriting(id)')
          /\ StopWriting(id) => id[1] \notin connectedPeers'
          /\ \A a \in Addr : info[a] # None => info'[a] # None
      BY <1>1, <1>5, <2>6, PeerWriters
    <3>2. ASSUME NEW j \in Outbound, IsLive(j)'
          PROVE  IsLive(j) /\ j[1] \in outPeers' /\ info'[j[1]] # None
      <4>1. IsLive(j)
        BY <2>1, <2>4, <3>2 DEF PeerEffect
      <4>2. j[1] \in outPeers /\ info[j[1]] # None /\ j[1] \in Addr
        BY <1>1, <4>1, Constants DEF LiveInv
      <4>3. j[1] \in outPeers'
        <5>1. CASE OnClose(id)
          <6>1. IsLive(id) /\ ~IsLive(id)' /\ outPeers' = outPeers \ {id[1]}
            BY <2>1, <2>6, <5>1 DEF PeerEffect, OnClose
          <6>2. j # id /\ j[1] # id[1]
            BY <1>1, <2>6, <3>2, <4>1, <6>1 DEF LiveInv
          <6> QED
            BY <4>2, <6>1, <6>2
        <5>2. CASE ~OnClose(id)
          BY <2>1, <4>2, <5>2 DEF PeerEffect
        <5> QED
          BY <5>1, <5>2
      <4> QED
        BY <3>1, <4>1, <4>2, <4>3
    <3>3. LiveInv'
      BY <1>1, <2>1, <3>2 DEF LiveInv
    <3>4. RefreshInv'
      BY <1>1, <2>3, <2>4, <3>1 DEF RefreshInv
    <3>5. MarkedInv'
      <4> SUFFICES ASSUME NEW a \in connectedPeers', ~Releasing(a)'
                   PROVE  \E j \in Outbound : j[1] = a /\ IsWriting(j)'
        BY DEF MarkedInv
      <4>1. ~Releasing(a)
        BY <2>1 DEF Releasing
      <4>2. CASE a \in connectedPeers
        <5>1. PICK j \in Outbound : j[1] = a /\ IsWriting(j)
          BY <1>1, <4>1, <4>2 DEF MarkedInv
        <5> QED
          BY <2>4, <3>1, <5>1
      <4> QED
        BY <2>6, <3>1, <4>2
    <3> QED
      BY <2>1, <3>3, <3>4, <3>5 DEF PeerEffect, OutboundInv
  <2> QED
    BY <2>5, <2>6 DEF PeerID
<1>6. ASSUME NEW a \in Addr, Seed(a) PROVE OutboundInv'
  <2>1. UNCHANGED <<main, info, connectedPeers, pending, outPeers, peer>>
    BY <1>6 DEF Seed, PeerOnly, storageVars
  <2> QED
    BY <1>1, <2>1 DEF OutboundInv, PeersTyped, LiveInv, RefreshInv, MarkedInv, IsLive, IsWriting,
                      Releasing
<1> QED
  BY <1>2, <1>3, <1>4, <1>5, <1>6, NextSteps

----------------------------------------------------------------------------
(* The main loop keeps its invariant whatever the others do. *)

LEMMA MainUntouched ==
    ASSUME MainInv, UNCHANGED <<main, explicit, banned>>, pending'[Main] = pending[Main],
           outPeers' \subseteq outPeers, main.pc \in Dialling => main.addr \in outPeers',
           addrChan' \in Seq(Addr), Len(addrChan') <= AddrCapacity
    PROVE  MainInv'
<1>1. IsFiniteSet(outPeers') /\ Cardinality(outPeers') <= Cardinality(outPeers)
  BY FS_Subset DEF MainInv, MainTyped
<1>2. Cardinality(outPeers') \in Nat /\ Cardinality(outPeers) \in Nat
  BY <1>1, FS_CardinalityType DEF MainInv, MainTyped
<1>3. MainTyped'
  BY <1>1, <1>2, Constants DEF MainInv, MainTyped
<1>4. MainCalls'
  BY DEF MainInv, MainCalls
<1>5. MainPlans'
  BY DEF MainInv, MainPlans
<1> QED
  BY <1>3, <1>4, <1>5 DEF MainInv

LEMMA Appended ==
    ASSUME MainInv, NEW a \in Addr, Len(addrChan) < AddrCapacity, addrChan' = Append(addrChan, a)
    PROVE  addrChan' \in Seq(Addr) /\ Len(addrChan') <= AddrCapacity
BY Constants DEF MainInv, MainTyped

LEMMA MainKept ==
    ASSUME Inv, Next
    PROVE  MainInv'
<1>1. /\ StorageInv /\ MainInv /\ HandlersTyped /\ OutboundInv /\ PeersTyped /\ LiveInv
      /\ toShut \subseteq PeerID /\ addrChan \in Seq(Addr) /\ Len(addrChan) <= AddrCapacity
  BY DEF Inv, OutboundInv, ShutdownInv, MainInv, MainTyped
<1>2. main.pc \in Dialling => main.addr \in outPeers
  BY <1>1 DEF MainInv, MainPlans
<1>3. CASE Loop \/ TakeAddress \/ Tick \/ TakeShutdown \/ ShutdownStep
  BY <1>1, <1>3, BootKeepsMain, ListenForPeersKeepsMain, StoreSelfKeepsMain,
     DropRandomPeerKeepsMain, AwaitKeepsMain, ConnectToPeersKeepsMain, GetAddressesKeepsMain,
     NextAddressKeepsMain, DeleteBannedKeepsMain, ReserveKeepsMain, OnConnectAttemptKeepsMain,
     DialKeepsMain, DialledKeepsMain, NotDialledKeepsMain, ReleaseKeepsMain,
     TakeAddressKeepsMain, OthersKeepMain, ShutPeerKeepsMain
  DEF Loop, ShutdownStep
<1>4. CASE Shutdown \/ (PassTime /\ UNCHANGED managerVars)
  BY <1>1, <1>2, <1>4, MainUntouched DEF Shutdown, PassTime, managerVars, storageVars
<1>5. ASSUME NEW h \in Handler, HandlerStep(h) PROVE MainInv'
  <2>1. UNCHANGED <<main, explicit, banned, outPeers, addrChan>>
    BY <1>1, <1>5, HandlerSteps
  <2>2. pending'[Main] = pending[Main]
    BY <1>1, <1>5, HandlerStorage, StorageStepKeeps, Constants
  <2> QED
    BY <1>1, <1>2, <2>1, <2>2, MainUntouched
<1>6. ASSUME NEW id \in PeerID, PeerStep(id) PROVE MainInv'
  <2>1. UNCHANGED <<main, explicit, banned>> /\ PeerEffect(id)
    BY <1>1, <1>6, PeerStepOnly, PeerSteps
  <2>2. id \in Caller /\ id # Main
    BY Constants DEF PeerID
  <2>3. pending'[Main] = pending[Main]
    BY <1>1, <1>6, <2>2, PeerStorageSteps, StorageStepKeeps, Constants
  <2>4. addrChan' \in Seq(Addr) /\ Len(addrChan') <= AddrCapacity
    <3>1. CASE SendAddress(id)
      BY <1>1, <3>1, Appended DEF SendAddress
    <3>2. CASE ~SendAddress(id)
      BY <1>1, <1>6, <3>2 DEF PeerStep, GoOn, StopReading, OnClose, StopWriting, Lose,
                              ReadAddresses, Refresh, Refreshed
    <3> QED
      BY <3>1, <3>2
  <2>5. outPeers' \subseteq outPeers /\ (main.pc \in Dialling => main.addr \in outPeers')
    <3>1. CASE OnClose(id) /\ id \in Outbound
      <4>1. outPeers' = outPeers \ {id[1]} /\ IsLive(id)
        BY <3>1 DEF OnClose
      <4>2. main.pc \in Dialling => main.addr # id[1]
        BY <1>1, <3>1, <4>1 DEF LiveInv
      <4> QED
        BY <1>2, <4>1, <4>2
    <3>2. CASE OnClose(id) /\ id \notin Outbound
      BY <1>2, <3>2 DEF OnClose
    <3>3. CASE ~OnClose(id)
      BY <1>2, <2>1, <3>3 DEF PeerEffect
    <3> QED
      BY <3>1, <3>2, <3>3
  <2> QED
    BY <1>1, <2>1, <2>3, <2>4, <2>5, MainUntouched
<1>7. ASSUME NEW a \in Addr, Seed(a) PROVE MainInv'
  <2>1. UNCHANGED <<main, explicit, banned, outPeers, pending>>
    BY <1>7 DEF Seed, PeerOnly, storageVars
  <2>2. addrChan' \in Seq(Addr) /\ Len(addrChan') <= AddrCapacity
    BY <1>1, <1>7, Appended DEF Seed
  <2> QED
    BY <1>1, <1>2, <2>1, <2>2, MainUntouched
<1> QED
  BY <1>3, <1>4, <1>5, <1>6, <1>7, NextSteps DEF MainStep

LEMMA StorageKept ==
    ASSUME Inv, Next
    PROVE  StorageInv'
<1>1. StorageInv /\ MainInv /\ HandlersTyped /\ OutboundInv
  BY DEF Inv
<1>2. CASE MainStep
  BY <1>1, <1>2, MainStorage, StorageStepKeeps, Constants
<1>3. ASSUME NEW h \in Handler, HandlerStep(h) PROVE StorageInv'
  BY <1>1, <1>3, HandlerStorage, StorageStepKeeps, Constants
<1>4. ASSUME NEW id \in PeerID, PeerStep(id) PROVE StorageInv'
  <2>1. id \in Caller
    BY Constants DEF PeerID
  <2> QED
    BY <1>1, <1>4, <2>1, PeerStorageSteps, StorageStepKeeps
<1>5. ASSUME NEW a \in Addr, Seed(a) PROVE StorageInv'
  BY <1>1, <1>5, StorageStepKeeps, Constants DEF Seed, StorageStep
<1> QED
  BY <1>2, <1>3, <1>4, <1>5, NextSteps

----------------------------------------------------------------------------
(* Shutdown. *)

IsEnding == main.pc = "stopped" \/ IsCopied

\* Where the main loop is decides when a step may bring a new connection.
LEMMA MainEnds ==
    ASSUME MainInv, HandlersTyped, MainStep
    PROVE  /\ IsEnding' => IsEnding \/ (CloseServer /\ \A h \in Handler : handler[h] # "store")
           /\ IsCopied' => IsCopied \/ CopyPeers
           /\ Dialled => ~IsCopied'
           /\ UNCHANGED latecomers \/ CopyPeers
           /\ UNCHANGED toShut \/ CopyPeers \/ ShutPeer
<1>1. main \in MainState /\ \A pc \in Pc : At(pc).pc = pc
  BY AtFields DEF MainInv, MainTyped
<1>2. ASSUME NEW i, NEW r, main' = [At("await") EXCEPT !.id = i, !.ret = r]
      PROVE  main'.pc = "await" /\ main'.ret = r
  BY <1>2 DEF At, Idle
<1>3. ASSUME main.pc \in {"connect"} \cup Dialling, NEW failed, main' = Returned(failed)
      PROVE  ~IsEnding'
  <2>1. main'.pc \in {"select", "plan", "drop", "next"}
    BY <1>1, <1>3 DEF Returned, MainInv, MainPlans, MainState, Pc
  <2> QED
    BY <2>1 DEF IsEnding, IsCopied
<1>4. CASE Boot \/ ListenForPeers \/ StoreAddress \/ Tick \/ TakeShutdown
  <2>1. ~IsEnding'
    <3>1. CASE main' = At("booting") \/ main' = At("start") \/ main' = At(AfterListening)
                 \/ main' = At("select") \/ main' = At("plan") \/ main' = At("tick")
                 \/ main' = At("closing")
      BY <1>1, <3>1 DEF IsEnding, IsCopied, Pc, AfterListening
    <3>2. CASE main' = [At("storeSelf") EXCEPT !.ret = AfterListening]
      <4>1. main'.pc = "storeSelf"
        BY <3>2 DEF At, Idle
      <4> QED
        BY <4>1 DEF IsEnding, IsCopied
    <3> QED
      BY <1>4, <3>1, <3>2 DEF Boot, ListenForPeers, StoreAddress, Tick, TakeShutdown, Go
  <2>2. UNCHANGED <<latecomers, toShut>>
    BY <1>4 DEF Boot, ListenForPeers, StoreAddress, Tick, TakeShutdown, StorageOnly, LoopOnly
  <2> QED
    BY <2>1, <2>2 DEF IsEnding
<1>5. CASE StoreSelf \/ DeleteBanned \/ NotDialled \/ Dial
  <2>1. main'.pc \in {"connect", "next", "failed", "dialled"}
    <3>1. CASE StoreSelf \/ DeleteBanned \/ NotDialled
      BY <1>1, <3>1 DEF StoreSelf, DeleteBanned, NotDialled, Go, MainState
    <3>2. CASE Dial
      <4>1. PICK outcome \in Outcome : main' = [main EXCEPT !.pc = "dialled", !.outcome = outcome]
        BY <3>2 DEF Dial, Go
      <4> QED
        BY <1>1, <4>1 DEF MainState
    <3> QED
      BY <1>5, <3>1, <3>2
  <2>2. UNCHANGED <<latecomers, toShut>>
    BY <1>5 DEF StoreSelf, DeleteBanned, NotDialled, Dial, StorageOnly
  <2> QED
    BY <2>1, <2>2 DEF IsEnding, IsCopied
<1>6. CASE DropRandomPeer
  <2>1. main' = At("plan") \/ \E i : main' = [At("await") EXCEPT !.id = i, !.ret = "plan"]
    BY <1>6 DEF DropRandomPeer, Go
  <2>2. main'.pc = "plan" \/ (main'.pc = "await" /\ main'.ret = "plan")
    <3>1. CASE main' = At("plan")
      BY <1>1, <3>1 DEF Pc
    <3>2. ASSUME NEW i, main' = [At("await") EXCEPT !.id = i, !.ret = "plan"]
          PROVE  main'.pc = "await" /\ main'.ret = "plan"
      BY <3>2 DEF At, Idle
    <3> QED
      BY <2>1, <3>1, <3>2
  <2>3. UNCHANGED <<latecomers, toShut>>
    BY <1>6 DEF DropRandomPeer
  <2> QED
    BY <2>2, <2>3 DEF IsEnding, IsCopied
<1>7. CASE Await
  <2>1. main.pc = "await" /\ main.ret \in {"plan", "drop", "shut"} /\ main' = At(main.ret)
    BY <1>7 DEF Await, Go, MainInv, MainPlans
  <2>2. main'.pc = main.ret
    BY <1>1, <2>1 DEF Pc
  <2>3. UNCHANGED <<latecomers, toShut>>
    BY <1>7 DEF Await, LoopOnly
  <2>4. ~Dialled
    BY <2>1 DEF Dialled
  <2> QED
    BY <2>1, <2>2, <2>3, <2>4 DEF IsEnding, IsCopied
<1>8. CASE ConnectToPeers \/ GetAddresses
  <2>1. main'.pc \in {"select", "connect", "get", "next", "panic"}
    <3>1. CASE ConnectToPeers
      BY <3>1 DEF ConnectToPeers, Go, At, Idle
    <3>2. CASE GetAddresses
      BY <1>1, <3>2, WhereItGoes
    <3> QED
      BY <1>8, <3>1, <3>2
  <2>2. UNCHANGED <<latecomers, toShut>>
    BY <1>8 DEF ConnectToPeers, GetAddresses, LoopOnly
  <2> QED
    BY <2>1, <2>2 DEF IsEnding, IsCopied
<1>9. CASE NextAddress
  <2>1. main'.pc \in {"select", "get", "delete", "connect"}
    BY <1>1, <1>9, WhereItGoes
  <2>2. UNCHANGED <<latecomers, toShut>>
    BY <1>9 DEF NextAddress, StorageOnly
  <2> QED
    BY <2>1, <2>2 DEF IsEnding, IsCopied
<1>10. CASE Reserve \/ OnConnectAttempt \/ Release
  <2>1. main.pc \in {"connect"} \cup Dialling
    BY <1>10 DEF Reserve, OnConnectAttempt, Release, Dialling
  <2>2. main' = Returned(TRUE) \/ main'.pc \in {"attempt", "dial"}
    BY <1>1, <1>10 DEF Reserve, OnConnectAttempt, Release, Go, MainState
  <2>3. ~IsEnding'
    <3>1. main'.pc \in {"attempt", "dial"} => ~IsEnding'
      BY DEF IsEnding, IsCopied
    <3> QED
      BY <1>3, <2>1, <2>2, <3>1
  <2>4. UNCHANGED <<latecomers, toShut>>
    BY <1>10 DEF Reserve, OnConnectAttempt, Release
  <2> QED
    BY <2>3, <2>4 DEF IsEnding
<1>11. CASE Dialled
  <2>1. main.pc \in {"connect"} \cup Dialling
    BY <1>11 DEF Dialled, Dialling
  <2>2. \/ main' = Returned(FALSE)
        \/ main.for = "self" /\ \E i : main' = [At("await") EXCEPT !.id = i, !.ret = main.ret]
    BY <1>11 DEF Dialled, Go
  <2>3. ~IsEnding'
    <3>1. ASSUME main.for = "self", NEW i, main' = [At("await") EXCEPT !.id = i, !.ret = main.ret]
          PROVE  ~IsEnding'
      <4>1. main.ret \in {"plan", "drop"}
        BY <2>1, <3>1 DEF MainInv, MainPlans
      <4>2. main'.pc = "await" /\ main'.ret = main.ret
        BY <1>2, <3>1
      <4> QED
        BY <4>1, <4>2 DEF IsEnding, IsCopied
    <3> QED
      BY <1>3, <2>1, <2>2, <3>1
  <2>4. UNCHANGED <<latecomers, toShut>>
    BY <1>11 DEF Dialled
  <2> QED
    BY <2>3, <2>4 DEF IsEnding
<1>12. CASE CloseServer
  <2>1. main'.pc = "stopped" /\ UNCHANGED <<latecomers, toShut>>
    BY <1>1, <1>12 DEF CloseServer, Go, LoopOnly, Pc
  <2> QED
    BY <1>12, <2>1 DEF IsEnding, IsCopied, CloseServer
<1>13. CASE TakeAddress
  <2>1. main.pc = "select" /\ (main' = main \/ main'.pc = "store") /\ UNCHANGED <<latecomers, toShut>>
    BY <1>1, <1>13 DEF TakeAddress, Go, Pc
  <2> QED
    BY <2>1 DEF IsEnding, IsCopied
<1>14. CASE Shutdown \/ (PassTime /\ UNCHANGED managerVars)
  <2>1. UNCHANGED <<main, latecomers, toShut, peer, accepting>>
    BY <1>14 DEF Shutdown, managerVars
  <2>2. Dialled => ~IsCopied'
    <3>1. Dialled => main.pc = "dialled"
      BY DEF Dialled
    <3> QED
      BY <2>1, <3>1 DEF IsCopied
  <2> QED
    BY <2>1, <2>2 DEF IsEnding, IsCopied
<1>15. CASE ShutdownStep
  <2>1. main.pc \in {"stopped", "shut"} /\ (main.pc = "stopped" <=> CopyPeers)
    BY <1>15 DEF ShutdownStep, CopyPeers, ShutPeer
  <2>2. latecomers' = latecomers \/ CopyPeers
    BY <1>15 DEF ShutdownStep, ShutPeer
  <2>3. ~Dialled
    BY <2>1 DEF Dialled
  <2> QED
    BY <1>15, <2>1, <2>2, <2>3 DEF IsEnding, IsCopied, ShutdownStep
<1> QED
  BY <1>4, <1>5, <1>6, <1>7, <1>8, <1>9, <1>10, <1>11, <1>12, <1>13, <1>14, <1>15
  DEF MainStep, Loop

LEMMA ShutdownKept ==
    ASSUME Inv, Next
    PROVE  ShutdownInv'
<1>1. /\ StorageInv /\ MainInv /\ HandlersTyped /\ OutboundInv /\ PeersTyped /\ LiveInv
      /\ InboundInv /\ ShutdownInv /\ toShut \subseteq PeerID
  BY DEF Inv, OutboundInv, ShutdownInv
\* Steps of the other goroutines: no handler begins while the node ends, and
\* a peer that comes alive was on its way when the sets were copied.
<1>2. ASSUME UNCHANGED <<main, toShut, latecomers>>,
             \A h \in Handler : handler'[h] = "store" => handler[h] = "store" \/ ~IsEnding,
             \A h \in Handler : handler'[h] \in {"add", "run"} =>
               handler[h] \in {"store", "add", "run"},
             \A id \in PeerID : IsLive(id)' =>
               IsLive(id) \/ (id \in Handler /\ handler[id] = "run")
      PROVE  ShutdownInv'
  <2>1. (IsEnding' <=> IsEnding) /\ (IsCopied' <=> IsCopied)
    BY <1>2 DEF IsEnding, IsCopied
  <2>2. IsEnding' => \A h \in Handler : handler'[h] # "store"
    BY <1>1, <1>2, <2>1 DEF ShutdownInv, IsEnding
  <2>3. IsCopied' => \A h \in Handler : handler'[h] \in {"add", "run"} => h \in latecomers'
    BY <1>1, <1>2, <2>1 DEF ShutdownInv
  <2>4. IsCopied' => \A id \in PeerID :
          IsLive(id)' => \/ id \in latecomers' \/ (id \in toShut' /\ main'.pc # "down")
                         \/ main'.pc = "await" /\ main'.id = id
    BY <1>1, <1>2, <2>1 DEF ShutdownInv
  <2> QED
    BY <1>1, <1>2, <2>2, <2>3, <2>4 DEF ShutdownInv, IsEnding, IsCopied
<1>3. CASE MainStep
  <2>1. UNCHANGED handler
    BY <1>3, MainKeepsHandler
  <2>2. /\ IsEnding' => IsEnding \/ (CloseServer /\ \A h \in Handler : handler[h] # "store")
        /\ IsCopied' => IsCopied \/ CopyPeers
        /\ Dialled => ~IsCopied'
        /\ UNCHANGED latecomers \/ CopyPeers
        /\ UNCHANGED toShut \/ CopyPeers \/ ShutPeer
    BY <1>1, <1>3, MainEnds
  <2>3. IsEnding' => \A h \in Handler : handler'[h] # "store"
    BY <1>1, <2>1, <2>2 DEF ShutdownInv, IsEnding
  <2>4. IsCopied' => \A id \in PeerID : IsLive(id)' <=> IsLive(id)
    <3>1. ~Dialled => \A id \in PeerID : SamePeer(id)
      BY <1>1, <1>3, MainPeers
    <3> QED
      BY <2>2, <3>1, SameIsLive
  <2>5. CASE CopyPeers
    <3>1. /\ toShut' = {id \in Outbound : id[1] \in outPeers /\ IsLive(id)} \cup inPeers
          /\ latecomers' = {h \in Handler : handler[h] \in {"add", "run"}}
      BY <2>5 DEF CopyPeers
    <3>2. main'.pc = "shut"
      BY <2>5, AtFields DEF CopyPeers, Go, Pc
    <3>3. \A id \in PeerID : IsLive(id) => id \in toShut'
      BY <1>1, <3>1 DEF PeerID, LiveInv, InboundInv
    <3>4. toShut' \subseteq PeerID
      BY <1>1, <3>1 DEF PeerID, InboundInv
    <3>5. IsCopied'
      BY <3>2 DEF IsCopied
    <3>6. \A h \in Handler : handler'[h] \in {"add", "run"} => h \in latecomers'
      BY <2>1, <3>1
    <3>7. \A id \in PeerID : IsLive(id)' => id \in toShut'
      BY <2>4, <3>3, <3>5
    <3>8. (main'.pc = "stopped" \/ IsCopied') => \A h \in Handler : handler'[h] # "store"
      BY <2>3 DEF IsEnding
    <3> QED
      BY <3>2, <3>4, <3>6, <3>7, <3>8 DEF ShutdownInv
  <2>6. CASE ShutPeer /\ ~CopyPeers
    <3>1. main.pc = "shut" /\ UNCHANGED latecomers /\ IsCopied
      BY <2>2, <2>6 DEF ShutPeer, IsCopied
    <3>2. \A id \in PeerID : IsLive(id) => id \in latecomers \/ id \in toShut
      BY <1>1, <3>1 DEF ShutdownInv
    <3>3. CASE toShut = {} /\ main' = At("down") /\ UNCHANGED toShut
      <4>1. main'.pc = "down"
        BY <3>3, AtFields DEF Pc
      <4>2. IsCopied'
        BY <4>1 DEF IsCopied
      <4>3. \A id \in PeerID : IsLive(id)' => id \in latecomers'
        BY <2>4, <3>1, <3>2, <3>3, <4>2
      <4>4. \A h \in Handler : handler'[h] \in {"add", "run"} => h \in latecomers'
        BY <1>1, <2>1, <3>1 DEF ShutdownInv
      <4>5. (main'.pc = "stopped" \/ IsCopied') => \A h \in Handler : handler'[h] # "store"
        BY <2>3 DEF IsEnding
      <4> QED
        BY <1>1, <3>3, <4>3, <4>4, <4>5 DEF ShutdownInv
    <3>4. ASSUME NEW id \in toShut, toShut' = toShut \ {id},
                 main' = [At("await") EXCEPT !.id = id, !.ret = "shut"]
          PROVE  ShutdownInv'
      <4>1. main'.pc = "await" /\ main'.ret = "shut" /\ main'.id = id
        BY <3>4 DEF At, Idle
      <4>2. IsCopied'
        BY <4>1 DEF IsCopied
      <4>3. \A j \in PeerID : IsLive(j)' => \/ j \in latecomers' \/ (j \in toShut' /\ main'.pc # "down")
                                            \/ main'.pc = "await" /\ main'.id = j
        BY <2>4, <3>1, <3>2, <3>4, <4>1, <4>2
      <4>4. \A h \in Handler : handler'[h] \in {"add", "run"} => h \in latecomers'
        BY <1>1, <2>1, <3>1 DEF ShutdownInv
      <4>5. (main'.pc = "stopped" \/ IsCopied') => \A h \in Handler : handler'[h] # "store"
        BY <2>3 DEF IsEnding
      <4> QED
        BY <1>1, <3>4, <4>3, <4>4, <4>5 DEF ShutdownInv
    <3> QED
      BY <2>6, <3>3, <3>4 DEF ShutPeer, Go
  <2>7. CASE ~CopyPeers /\ ~ShutPeer
    <3>1. UNCHANGED <<latecomers, toShut>> /\ (IsCopied' => IsCopied)
      BY <2>2, <2>7
    <3>2. ASSUME IsCopied', NEW id \in PeerID, IsLive(id)'
          PROVE  \/ id \in latecomers' \/ (id \in toShut' /\ main'.pc # "down")
                 \/ main'.pc = "await" /\ main'.id = id
      <4>1. IsCopied /\ IsLive(id)
        BY <2>4, <3>1, <3>2
      <4>2. \/ id \in latecomers \/ (id \in toShut /\ main.pc # "down")
            \/ main.pc = "await" /\ main.id = id
        BY <1>1, <4>1 DEF ShutdownInv
      <4>3. CASE Await
        <5>1. main.pc = "await" /\ main.ret = "shut" /\ main' = At("shut") /\ HasEnded(main.id)
          BY <4>1, <4>3 DEF Await, IsCopied, Go
        <5>2. main'.pc = "shut"
          BY <5>1, AtFields DEF Pc
        <5>3. main.id # id
          BY <4>1, <5>1 DEF HasEnded, IsLive
        <5> QED
          BY <3>1, <4>2, <5>1, <5>2, <5>3
      <4>4. CASE main' = main
        BY <3>1, <4>2, <4>4
      <4>5. Await \/ main' = main
        <5>1. main.pc \in {"shut", "down", "await"}
          BY <4>1 DEF IsCopied
        <5>2. CASE Loop
          BY <5>1, <5>2 DEF Loop, Boot, ListenForPeers, StoreSelf, DropRandomPeer, ConnectToPeers,
             GetAddresses, NextAddress, DeleteBanned, Reserve, OnConnectAttempt, Dial, Dialled,
             NotDialled, Release, StoreAddress, CloseServer, Dialling
        <5>3. CASE TakeAddress \/ Tick \/ TakeShutdown
          BY <5>1, <5>3 DEF TakeAddress, Tick, TakeShutdown
        <5>4. CASE Shutdown \/ (PassTime /\ UNCHANGED managerVars)
          BY <5>4 DEF Shutdown, managerVars
        <5> QED
          BY <1>3, <2>7, <5>2, <5>3, <5>4 DEF MainStep, ShutdownStep
      <4> QED
        BY <4>3, <4>4, <4>5
    <3>3. IsCopied' => \A h \in Handler : handler'[h] \in {"add", "run"} => h \in latecomers'
      BY <1>1, <2>1, <3>1 DEF ShutdownInv
    <3>4. (main'.pc = "stopped" \/ IsCopied') => \A h \in Handler : handler'[h] # "store"
      BY <2>3 DEF IsEnding
    <3> QED
      BY <1>1, <3>1, <3>2, <3>3, <3>4 DEF ShutdownInv
  <2> QED
    BY <2>5, <2>6, <2>7
<1>4. ASSUME NEW h \in Handler, HandlerStep(h) PROVE ShutdownInv'
  <2>1. /\ UNCHANGED <<main, toShut, latecomers>>
        /\ \A j \in PeerID : j # h => peer'[j] = peer[j]
        /\ \A j \in Handler : j # h => handler'[j] = handler[j]
    BY <1>1, <1>4, HandlerSteps
  <2>2. \A j \in PeerID : j # h => (IsLive(j)' <=> IsLive(j))
    BY <2>1 DEF IsLive
  <2>3. handler'[h] = "store" => handler[h] = "store" \/ ~IsEnding
    <3>1. Accept(h) => ~IsEnding
      BY DEF Accept, IsServing, IsEnding, IsCopied
    <3>2. CASE ~Accept(h)
      BY <1>1, <1>4, <3>2 DEF HandlerStep, Handle, Upgrade, AddInbound, RunInbound, HandlersTyped
    <3> QED
      BY <3>1, <3>2
  <2>4. handler'[h] \in {"add", "run"} => handler[h] \in {"store", "add", "run"}
    BY <1>1, <1>4 DEF HandlerStep, Handle, Accept, Upgrade, AddInbound, RunInbound, HandlersTyped
  <2>5. IsLive(h)' => IsLive(h) \/ handler[h] = "run"
    <3>1. CASE Accept(h)
      BY <3>1 DEF Accept, IsLive
    <3>2. CASE Upgrade(h)
      BY <1>1, <3>2, Constants DEF Upgrade, IsLive, NewPeer, PeersTyped
    <3>3. CASE AddInbound(h)
      BY <1>1, <3>3, Constants DEF AddInbound, IsLive, PeersTyped
    <3>4. CASE RunInbound(h)
      BY <3>4 DEF RunInbound
    <3> QED
      BY <1>4, <3>1, <3>2, <3>3, <3>4 DEF HandlerStep, Handle
  <2> QED
    BY <1>2, <2>1, <2>2, <2>3, <2>4, <2>5
<1>5. ASSUME NEW id \in PeerID, PeerStep(id) PROVE ShutdownInv'
  <2>1. UNCHANGED <<main, handler, toShut, latecomers>> /\ PeerEffect(id)
    BY <1>1, <1>5, PeerSteps, PeerStepOnly
  <2>2. \A j \in PeerID : IsLive(j)' => IsLive(j)
    BY <2>1 DEF PeerEffect, IsLive
  <2> QED
    BY <1>2, <2>1, <2>2
<1>6. ASSUME NEW a \in Addr, Seed(a) PROVE ShutdownInv'
  <2>1. UNCHANGED <<main, handler, toShut, latecomers, peer>>
    BY <1>6 DEF Seed, PeerOnly
  <2> QED
    BY <1>2, <2>1 DEF IsLive
<1> QED
  BY <1>3, <1>4, <1>5, <1>6, NextSteps

----------------------------------------------------------------------------
(* The theorems *)

LEMMA InitInv ==
    ASSUME Init
    PROVE  Inv
<1>1. PICK c \in Configuration : explicit = c.explicit /\ banned = c.banned /\ inbound = c.inbound
  BY DEF Init
<1>2. explicit \in (Addr \ {Self}) \cup {None} /\ banned \subseteq Addr \ {Self}
  BY <1>1, PeerManagerAssumption
<1>3. IsFiniteSet({}) /\ Cardinality({}) = 0
  BY FS_EmptySet
<1>4. StorageInv
  <2>1. info \in [Addr -> Info \cup {None}] /\ pending \in [Caller -> Lookup \cup {None}]
    BY DEF Init, StorageInit
  <2>2. \A a \in Addr : info[a] = None
    BY DEF Init, StorageInit
  <2>3. \A g \in Caller : pending[g] = None
    BY DEF Init, StorageInit
  <2>4. now \in Nat /\ now > MaxRank
    BY Constants DEF Init, StorageInit
  <2>5. attempts = {} /\ successes = {} /\ connectedPeers = {}
    BY DEF Init, StorageInit
  <2> QED
    BY <2>1, <2>2, <2>3, <2>4, <2>5
    DEF StorageInv, StorageTyped, IndicesMatchInfoUnlessRaced, KeysOf
<1>5. main \in MainState /\ main.pc \in {"start", "boot"} /\ (main.pc = "boot" => explicit # None)
  BY AtFields DEF Init, Pc
<1>6. MainInv
  <2>1. outPeers = {} /\ addrChan = <<>>
    BY DEF Init
  <2>2. addrChan \in Seq(Addr) /\ Len(addrChan) = 0
    BY <2>1
  <2> QED
    BY <1>2, <1>3, <1>5, <2>1, <2>2, Constants
    DEF MainInv, MainTyped, MainCalls, MainPlans, Dialling, Calling
<1>7. peer \in [PeerID -> PeerState \cup {None}] /\ \A id \in PeerID : peer[id] = None
  BY DEF Init
<1>8. \A id \in PeerID : ~IsLive(id)
  BY <1>7 DEF IsLive
<1>9. OutboundInv
  BY <1>5, <1>7, <1>8, Constants
  DEF OutboundInv, PeersTyped, LiveInv, RefreshInv, MarkedInv, Dialling, Init, StorageInit
<1>10. handler = [h \in Handler |-> "idle"] /\ HandlersTyped
  BY DEF Init, HandlersTyped
<1>11. InboundInv
  <2>1. inPeers = {} /\ inPeerCountByHost = [x \in Host |-> 0]
    BY DEF Init
  <2>2. inPeers = {h \in Handler : handler[h] = "run" \/ IsLive(h)}
    BY <1>8, <1>10, <2>1, Constants
  <2>3. \A x \in Host : inPeers \cap HandlersOf(x) = {}
    BY <2>1
  <2> QED
    BY <1>3, <2>1, <2>2, <2>3, Constants DEF InboundInv
<1>12. LimitInv
  BY <1>10, Constants DEF Init, LimitInv, IsUncounted, HandlersOf
<1>13. ShutdownInv
  BY <1>5 DEF Init, ShutdownInv, IsCopied
<1> QED
  BY <1>4, <1>6, <1>9, <1>10, <1>11, <1>12, <1>13 DEF Inv

LEMMA InvKept ==
    ASSUME Inv, [Next]_vars
    PROVE  Inv'
<1>1. CASE Next
  BY <1>1, StorageKept, MainKept, OutboundKept, HandlersTypedKept, InboundKept, LimitKept,
     ShutdownKept DEF Inv
<1>2. CASE UNCHANGED vars
  <2>1. UNCHANGED storageVars /\ UNCHANGED managerVars
    BY <1>2 DEF vars
  <2>2. StorageInv'
    BY <2>1 DEF Inv, StorageInv, StorageTyped, IndicesMatchInfoUnlessRaced, KeysOf, storageVars
  <2>3. MainInv'
    BY <2>1 DEF Inv, MainInv, MainTyped, MainCalls, MainPlans, storageVars, managerVars
  <2>4. OutboundInv'
    BY <2>1 DEF Inv, OutboundInv, PeersTyped, LiveInv, RefreshInv, MarkedInv, IsLive, IsWriting,
                Releasing, storageVars, managerVars
  <2>5. HandlersTyped'
    BY <2>1 DEF Inv, HandlersTyped, storageVars, managerVars
  <2>6. InboundInv' /\ LimitInv'
    BY <2>1 DEF Inv, InboundInv, LimitInv, IsUncounted, HandlersOf, IsLive, managerVars
  <2>7. ShutdownInv'
    BY <2>1 DEF Inv, ShutdownInv, IsCopied, IsLive, managerVars
  <2> QED
    BY <2>2, <2>3, <2>4, <2>5, <2>6, <2>7 DEF Inv
<1> QED
  BY <1>1, <1>2

LEMMA InvHolds == Spec => []Inv
<1>1. Init => Inv
  BY InitInv
<1>2. Inv /\ [Next]_vars => Inv'
  BY InvKept
<1> QED
  BY <1>1, <1>2, PTL DEF Spec

(* An operation of the storage writes what fits the record it read, so the *)
(* indices of an address are wrong only after two operations overlapped on *)
(* it, whichever goroutines of the peer manager called them.               *)
THEOREM IndicesMatch == Spec => []IndicesMatchInfoUnlessRaced
<1>1. Inv => IndicesMatchInfoUnlessRaced
  BY DEF Inv, StorageInv
<1> QED
  BY <1>1, InvHolds, PTL

(* The counts by host are the inbound peers of that host, and stay within  *)
(* the limit unless a host's connections passed the check together.        *)
THEOREM InboundCounted == Spec => []InboundIsCounted
<1>1. Inv => InboundIsCounted
  BY InboundHolds DEF Inv
<1> QED
  BY <1>1, InvHolds, PTL

(* An address has at most one live outbound peer, which is in outPeers and *)
(* known to the storage.                                                   *)
THEOREM OutboundUnique == Spec => []OutboundIsUnique
<1>1. ASSUME Inv PROVE OutboundIsUnique
  <2> SUFFICES ASSUME NEW a \in Addr
               PROVE  LET live == {id \in Outbound : id[1] = a /\ IsLive(id)}
                      IN  /\ Cardinality(live) <= 1
                          /\ live # {} => a \in outPeers /\ info[a] # None
    BY DEF OutboundIsUnique
  <2> DEFINE live == {id \in Outbound : id[1] = a /\ IsLive(id)}
  <2>1. LiveInv
    BY <1>1 DEF Inv, OutboundInv
  <2>2. CASE live = {}
    <3>1. Cardinality(live) = 0
      BY <2>2, FS_EmptySet
    <3> QED
      BY <2>2, <3>1
  <2>3. CASE live # {}
    <3>1. PICK id \in live : TRUE
      BY <2>3
    <3>2. live = {id} /\ a \in outPeers /\ info[a] # None
      BY <2>1, <3>1 DEF LiveInv
    <3>3. Cardinality(live) = 1
      BY <3>2, FS_Singleton
    <3> QED
      BY <3>2, <3>3
  <2> QED
    BY <2>2, <2>3
<1> QED
  BY <1>1, InvHolds, PTL

(* For every address that Get leaves out because it is connected there is  *)
(* a goroutine left that takes it off connectedPeers.                      *)
THEOREM MarkedConnected == Spec => []MarkedAreConnected
<1>1. Inv => MarkedAreConnected
  BY DEF Inv, OutboundInv, MarkedInv, MarkedAreConnected, IsWriting, Releasing
<1> QED
  BY <1>1, InvHolds, PTL

(* When Shutdown returns, the peers that still read were inbound ones on   *)
(* their way from the upgrade to Run when it copied the sets.              *)
THEOREM ShutdownLeaves == Spec => []ShutdownLeavesLatecomers
<1>1. ASSUME Inv PROVE ShutdownLeavesLatecomers
  <2>1. main.pc = "down" => IsCopied
    BY DEF IsCopied
  <2> QED
    BY <1>1, <2>1 DEF Inv, ShutdownInv, ShutdownLeavesLatecomers
<1> QED
  BY <1>1, InvHolds, PTL

(* The variables have their types, the sets and the channel their bounds.  *)
THEOREM ManagerTypeCorrect == Spec => []TypeOK
<1>1. ASSUME Inv PROVE TypeOK
  <2>1. MainTyped /\ PeersTyped /\ HandlersTyped /\ StorageTyped /\ inPeers \subseteq Handler
        /\ toShut \subseteq PeerID
    BY <1>1 DEF Inv, MainInv, OutboundInv, StorageInv, InboundInv, ShutdownInv
  <2>2. main.pc \in Pc /\ main.todo \in Seq(Addr) /\ main.tried \subseteq Addr
    BY <1>1, MainFields DEF Inv
  <2> QED
    BY <2>1, <2>2 DEF TypeOK, Pc, MainTyped, PeersTyped, HandlersTyped, StorageTyped
<1> QED
  BY <1>1, InvHolds, PTL
=============================================================================
