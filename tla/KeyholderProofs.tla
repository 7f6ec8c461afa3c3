-------------------------- MODULE KeyholderProofs --------------------------
(***************************************************************************)
(* Proofs about a keyholder, for any sets of keys and passphrases,         *)
(* commands and bounds: what it can read and asks the peer to look for,    *)
(* and whose answer a command takes.                                       *)
(*                                                                         *)
(* The keys are an invariant of the database alone (KeyInv).  Of the       *)
(* answers the argument is that only the newest connection is up, and that *)
(* a request of its own, or the answer to it, is in one place only: with   *)
(* one writer, on the wire to the peer, on the wire back, with the reader, *)
(* or in the channel.  A message left from before is with a writer that    *)
(* holds a lost connection, and can only become an error of that one.      *)
(***************************************************************************)
EXTENDS Keyholder, TLAPS

(* The newest key tells which passphrase is the right one; until there is  *)
(* one, every key was imported without a check.                            *)
NewestGuards ==
    /\ newest \in Key \cup {None}
    /\ IF newest = None THEN Stored \subseteq unguarded ELSE encrypted[newest] = passphrase

KeyInv ==
    /\ encrypted \in [Key -> Passphrase \cup {None}]
    /\ passphrase \in Passphrase
    /\ filter \subseteq Key
    /\ NewestGuards
    /\ KeysAreReadable
    /\ FilterHasKeys

LEMMA KeyInvInit == ASSUME Init PROVE KeyInv
<1>1. None \notin Passphrase /\ None \notin Key
  BY KeyStoreAssumption
<1>2. Stored = {}
  BY DEF Init, KeyStoreInit, Stored
<1> QED
  BY <1>1, <1>2 DEF Init, KeyStoreInit, KeyInv, NewestGuards, KeysAreReadable, FilterHasKeys, Expected

(* The operations on the keys. *)
LEMMA OpenKeepsKeyInv == ASSUME KeyInv, NEW p \in Passphrase, Open(p) PROVE KeyInv'
<1>1. newest # None => encrypted[newest] = p
  BY DEF Open, Accepts
<1>2. UNCHANGED <<encrypted, newest, unguarded>> /\ passphrase' = p /\ filter' = Stored /\ imported' = {}
  BY DEF Open
<1>3. Stored' = Stored
  BY <1>2 DEF Stored
<1>4. NewestGuards'
  BY <1>1, <1>2, <1>3 DEF KeyInv, NewestGuards
<1>5. KeysAreReadable'
  <2>1. CASE newest = None
    BY <2>1, <1>2, <1>3 DEF KeyInv, NewestGuards, KeysAreReadable
  <2>2. CASE newest # None
    BY <2>2, <1>1, <1>2, <1>3 DEF KeyInv, NewestGuards, KeysAreReadable
  <2> QED BY <2>1, <2>2
<1>6. FilterHasKeys' /\ filter' \subseteq Key
  BY <1>2, <1>3 DEF FilterHasKeys, Expected, Stored
<1> QED
  BY <1>2, <1>4, <1>5, <1>6 DEF KeyInv

LEMMA NewKeysKeepsKeyInv ==
  ASSUME KeyInv, NEW new \in SUBSET Generated, NewKeys(new) PROVE KeyInv'
<1>1. new \subseteq Key
  BY DEF Key
<1>2. encrypted' \in [Key -> Passphrase \cup {None}] /\ UNCHANGED <<passphrase, imported, unguarded>>
  BY <1>1 DEF NewKeys, KeyInv
<1>3. \A k \in Key : encrypted'[k] = IF k \in new THEN passphrase ELSE encrypted[k]
  BY DEF NewKeys
<1>4. None \notin Passphrase /\ None \notin Key
  BY KeyStoreAssumption
<1>5. Stored' = Stored \cup new
  BY <1>1, <1>3, <1>4 DEF Stored, KeyInv
<1>6. newest' \in new /\ filter' = filter \cup new /\ displaced' = displaced \ new
  BY DEF NewKeys
<1>7. NewestGuards'
  BY <1>1, <1>2, <1>3, <1>4, <1>6 DEF NewestGuards
<1>8. KeysAreReadable'
  BY <1>1, <1>2, <1>3, <1>5 DEF KeysAreReadable, KeyInv, Stored
<1>9. FilterHasKeys' /\ filter' \subseteq Key
  BY <1>1, <1>2, <1>5, <1>6 DEF FilterHasKeys, Expected, KeyInv
<1> QED
  BY <1>2, <1>7, <1>8, <1>9 DEF KeyInv

LEMMA NewKeysRefusedKeepsKeyInv ==
  ASSUME KeyInv, NEW new \in SUBSET Generated, NewKeysRefused(new) PROVE KeyInv' /\ Expected' \subseteq Expected
<1>1. UNCHANGED <<encrypted, newest, passphrase, imported, unguarded>>
  BY DEF NewKeysRefused
<1>2. new \subseteq Key /\ UNCHANGED Stored
  BY <1>1 DEF Key, Stored
<1>3. PICK lost : filter' = (filter \cup new) \ lost /\ displaced' = displaced \cup lost
  BY DEF NewKeysRefused
<1>4. filter' \subseteq Key /\ FilterHasKeys' /\ Expected' \subseteq Expected
  BY <1>1, <1>2, <1>3 DEF KeyInv, FilterHasKeys, Expected
<1>5. NewestGuards' /\ KeysAreReadable'
  BY <1>1, <1>2 DEF KeyInv, NewestGuards, KeysAreReadable
<1> QED
  BY <1>1, <1>4, <1>5 DEF KeyInv

LEMMA AddKeyKeepsKeyInv == ASSUME KeyInv, NEW k \in Imported, AddKey(k) PROVE KeyInv'
<1>1. k \in Key
  BY DEF Key
<1>2. /\ encrypted' = [encrypted EXCEPT ![k] = passphrase]
      /\ imported' = imported \cup {k}
      /\ UNCHANGED <<newest, passphrase, filter, displaced>>
  BY DEF AddKey
<1>3. encrypted' \in [Key -> Passphrase \cup {None}]
  BY <1>2 DEF KeyInv
<1>4. \A j \in Key : encrypted'[j] = IF j = k THEN passphrase ELSE encrypted[j]
  BY <1>2 DEF KeyInv
<1>5. None \notin Passphrase /\ None \notin Key
  BY KeyStoreAssumption
<1>6. Stored' = Stored \cup {k}
  BY <1>1, <1>4, <1>5 DEF Stored, KeyInv
<1>7. unguarded' = IF newest = None THEN unguarded \cup {k} ELSE unguarded \ {k}
  BY DEF AddKey
<1>8. NewestGuards'
  BY <1>2, <1>4, <1>6, <1>7 DEF NewestGuards, KeyInv
<1>9. KeysAreReadable'
  BY <1>1, <1>2, <1>4, <1>6, <1>7 DEF KeysAreReadable, KeyInv
<1>10. FilterHasKeys'
  BY <1>2, <1>6 DEF FilterHasKeys, Expected, KeyInv
<1> QED
  BY <1>2, <1>3, <1>8, <1>9, <1>10 DEF KeyInv

LEMMA StutterKeepsKeyInv == ASSUME KeyInv, UNCHANGED storeVars PROVE KeyInv'
  BY DEF KeyInv, storeVars, NewestGuards, KeysAreReadable, FilterHasKeys, Expected, Stored

LEMMA KeyInvNext == ASSUME KeyInv, [Next]_vars PROVE KeyInv'
<1>1. ASSUME NEW p \in Passphrase, Restart(p) PROVE KeyInv'
  BY <1>1, OpenKeepsKeyInv DEF Restart
<1>2. ASSUME NEW new \in SUBSET Generated, GenerateKeys(new) PROVE KeyInv'
  BY <1>2, NewKeysKeepsKeyInv, NewKeysRefusedKeepsKeyInv DEF GenerateKeys
<1>3. ASSUME NEW k \in Imported, ImportKey(k) PROVE KeyInv'
  BY <1>3, AddKeyKeepsKeyInv DEF ImportKey
<1>4. ASSUME NEW todo \in Command, Start(todo) PROVE UNCHANGED storeVars
  BY <1>4 DEF Start, Connect
<1>5. ASSUME Quit \/ CommandStep PROVE UNCHANGED storeVars
  BY <1>5 DEF Quit, CommandStep, Send, SendPanics, TakeResult, Ended
<1>6. ASSUME NEW g \in Conn, WriterStep(g) PROVE UNCHANGED storeVars
  BY <1>6 DEF WriterStep, Write, Written, PutError, WriterEnds, WriterOnly
<1>7. ASSUME NEW g \in Conn, ReaderStep(g) PROVE UNCHANGED storeVars
  BY <1>7 DEF ReaderStep, Read, ReadFails, PutResult, CloseChannel, ClearConn, ReaderOnly
<1>8. ASSUME NEW g \in Conn, Handle(g) \/ Lose(g) \/ (\E k \in Key : Relay(g, k))
      PROVE UNCHANGED storeVars
  BY <1>8 DEF Handle, Lose, Relay, PeerOnly
<1>9. ASSUME UNCHANGED vars PROVE UNCHANGED storeVars
  BY <1>9 DEF vars
<1> QED
  BY <1>1, <1>2, <1>3, <1>4, <1>5, <1>6, <1>7, <1>8, <1>9, StutterKeepsKeyInv DEF Next

(* The passphrase a keyholder accepts decrypts every key that was not      *)
(* imported before the first one was generated, whatever was generated,    *)
(* imported and restarted in between.                                      *)
THEOREM KeysStayReadable == Spec => []KeysAreReadable
<1>1. KeyInv => KeysAreReadable
  BY DEF KeyInv
<1> QED
  BY <1>1, KeyInvInit, KeyInvNext, PTL DEF Spec

(* The filter has every key, but for those imported since the start and    *)
(* those that a refused insertion displaced, also when keys are generated  *)
(* after one.                                                              *)
THEOREM FilterKeepsKeys == Spec => []FilterHasKeys
<1>1. KeyInv => FilterHasKeys
  BY DEF KeyInv
<1> QED
  BY <1>1, KeyInvInit, KeyInvNext, PTL DEF Spec

----------------------------------------------------------------------------
(* The call that is on its way *)

Messages == [request : Request, call : Nat \ {0}, keys : SUBSET Key]
Calls == [pc : {"idle", "send", "await", "quit", "ended", "panic"}, todo : Seq(Request)]
Replies == {r \in [type : {AnswerType[q] : q \in Request} \cup {"push_representation"},
                    call : Nat, err : BOOLEAN] : r.err => r.call # 0}
Results == [err : BOOLEAN, call : Nat]

CallsTyped ==
    /\ current \in 0..MaxConn /\ conn \in {0, current} /\ calls \in 0..MaxCall
    /\ up \subseteq Conn /\ closed \subseteq Conn
    /\ call \in Calls
    /\ call.pc \in {"send", "await"} => call.todo # <<>> /\ current # 0
    /\ late \in BOOLEAN

WritersTyped ==
    /\ writer \in [Conn -> [pc : {"none", "select", "write", "writing", "put", "gone"},
                            chan : 0..MaxConn, msg : Messages \cup {None}]]
    /\ \A g \in Conn : /\ IsBusy(g) => writer[g].msg \in Messages
                       /\ writer[g].chan <= current
                       /\ writer[g].pc \in {"writing", "put"} => writer[g].chan # 0

ReadersTyped ==
    /\ reader \in [Conn -> [pc : {"none", "read", "put", "close", "clear", "gone"},
                            result : Results \cup {None}, on : {"read", "close", None}]]
    /\ \A g \in Conn : reader[g].pc = "put" =>
         reader[g].result \in Results /\ reader[g].on = IF reader[g].result = Error THEN "close" ELSE "read"

WiresTyped ==
    /\ results \in [Conn -> Seq(Results)] /\ \A c \in Conn : Len(results[c]) <= 1
    /\ toPeer \in [Conn -> Seq(Messages)]
    /\ toKeyholder \in [Conn -> Seq(Replies)]
    /\ peerFilter \in [Conn -> (SUBSET Key) \cup {None}]

Typed == CallsTyped /\ WritersTyped /\ ReadersTyped /\ WiresTyped

\* A connection that is up has a reader that reads, and only the newest one has a reader.
ConnInv ==
    /\ \A c \in Conn :
         /\ c # current => reader[c].pc \in {"none", "gone"}
         /\ c \in up => /\ c \notin closed
                        /\ \/ reader[c].pc = "read"
                           \/ reader[c].pc = "put" /\ reader[c].result # Error
         /\ c \notin up => toPeer[c] = <<>> /\ toKeyholder[c] = <<>>
         /\ c > current => /\ results[c] = <<>> /\ peerFilter[c] = None /\ c \notin closed
                           /\ reader[c] = NoReader /\ writer[c] = NoWriter
    /\ conn = 0 /\ current # 0 => reader[current].pc = "gone"

\* Where the call may be on its way.
Reply(c, i) == toKeyholder[c][i].type # "push_representation"
Back == \E i \in 1..Len(toKeyholder[current]) : Reply(current, i)
Held == reader[current].pc = "put" /\ reader[current].result # Error
Ready == results[current] # <<>> /\ Head(results[current]) # Error
Asked(m) == /\ m.call = calls /\ m.request = Head(call.todo) /\ m.keys = filter

WriterInv ==
    \A g \in Conn :
      /\ writer[g].pc = "writing" => writer[g].chan = current
      /\ IsBusy(g) /\ current \in up =>
           /\ call.pc = "await" /\ Asked(writer[g].msg)
           /\ \A h \in Conn : IsBusy(h) => h = g
      /\ IsBusy(g) => /\ toPeer[current] = <<>>
                      /\ ~Back /\ ~Held /\ ~Ready
      /\ writer[g].pc = "put" /\ writer[g].chan = current =>
           current \notin up /\ ~Held /\ ~Ready

PeerInv ==
    /\ Len(toPeer[current]) <= 1
    /\ toPeer[current] # <<>> =>
         /\ call.pc = "await" /\ Asked(toPeer[current][1])
         /\ ~Back /\ ~Held /\ ~Ready

ReplyInv ==
    /\ \A i \in 1..Len(toKeyholder[current]) :
         Reply(current, i) =>
           /\ call.pc = "await" /\ toKeyholder[current][i].call = calls
           /\ \A j \in 1..Len(toKeyholder[current]) : Reply(current, j) => i = j
           /\ ~Held /\ ~Ready
    /\ Held => call.pc = "await" /\ reader[current].result.call = calls /\ ~Ready

ResultInv ==
    /\ Ready => call.pc = "await" /\ Head(results[current]).call = calls
    /\ results[current] # <<>> /\ Head(results[current]) = Error => current \notin up /\ ~Held

FilterInv ==
    current \in up =>
      \/ current \in refused
      \/ peerFilter[current] # None /\ Expected \subseteq peerFilter[current]
      \/ /\ call.pc \in {"send", "await"} /\ Head(call.todo) = "filter_load"
         /\ ~Back /\ ~Held /\ ~Ready

\* One call is on its way, in one place, unless a writer was left behind.
Ordered ==
    ~late /\ current # 0 => WriterInv /\ PeerInv /\ ReplyInv /\ ResultInv /\ FilterInv

CallInv == Typed /\ ConnInv /\ Ordered

----------------------------------------------------------------------------
(* Types *)

LEMMA Taking ==
    ASSUME NEW S, NEW s \in Seq(S), s # <<>>
    PROVE  Head(s) \in S /\ Tail(s) \in Seq(S) /\ Len(Tail(s)) = Len(s) - 1 /\ Head(s) = s[1]
OBVIOUS

LEMMA IdleTyped ==
    /\ Idle \in Calls /\ Idle.pc = "idle"
    /\ \A x \in {"quit", "ended", "panic"} :
         [Idle EXCEPT !.pc = x] \in Calls /\ [Idle EXCEPT !.pc = x].pc = x
<1>1. <<>> \in Seq(Request)
  OBVIOUS
<1> QED
  BY <1>1 DEF Idle, Calls

LEMMA TypedInit == ASSUME Init PROVE Typed
<1>1. CallsTyped
  <2>1. 0 \in 0..MaxConn /\ 0 \in 0..MaxCall
    BY KeyholderAssumption
  <2>2. call \in Calls /\ call.pc = "idle"
    BY IdleTyped DEF Init
  <2>3. conn = 0 /\ current = 0 /\ calls = 0 /\ up = {} /\ closed = {} /\ late \in BOOLEAN
    BY DEF Init
  <2> QED
    BY <2>1, <2>2, <2>3 DEF CallsTyped
<1>2. WritersTyped
  BY KeyholderAssumption DEF Init, WritersTyped, NoWriter, IsBusy
<1>3. ReadersTyped
  BY DEF Init, ReadersTyped, NoReader
<1>4. WiresTyped
  BY DEF Init, WiresTyped
<1> QED
  BY <1>1, <1>2, <1>3, <1>4 DEF Typed

LEMMA MakeTyped ==
    ASSUME NEW todo \in Seq(Request)
    PROVE  /\ Make(todo) \in Calls
           /\ Make(todo).pc \in {"idle", "send"}
           /\ Make(todo).pc = "send" => todo # <<>> /\ Make(todo).todo = todo
BY DEF Make, Idle, Calls

\* A connection, if there is one, replaces nothing that was used before.
LEMMA ConnectTyped ==
    ASSUME Typed, Connect
    PROVE  /\ current' = current + 1 /\ current' \in Conn /\ conn' = current'
           /\ up' = up \cup {current'} /\ UNCHANGED <<closed, calls>> /\ late' \in BOOLEAN
           /\ WritersTyped' /\ ReadersTyped' /\ WiresTyped'
<1>1. current \in Nat /\ current < MaxConn /\ MaxConn \in Nat
  BY KeyholderAssumption DEF Connect, Typed, CallsTyped
<1>2. /\ current' = current + 1 /\ current' \in Conn /\ conn' = current'
      /\ up' = up \cup {current'} /\ UNCHANGED <<closed, calls>> /\ late' \in BOOLEAN
  BY <1>1 DEF Connect, Conn, Typed, CallsTyped
<1>3. WritersTyped'
  <2> DEFINE w == [NoWriter EXCEPT !.pc = "select", !.chan = current']
  <2>1. writer' = [writer EXCEPT ![current'] = w]
    BY <1>2 DEF Connect
  <2>2. current' \in 0..MaxConn
    BY <1>2 DEF Conn
  <2>3. /\ w \in [pc : {"none", "select", "write", "writing", "put", "gone"},
                  chan : 0..MaxConn, msg : Messages \cup {None}]
        /\ w.pc = "select" /\ w.chan = current'
    BY <2>2 DEF NoWriter
  <2> HIDE DEF w
  <2>4. writer' \in [Conn -> [pc : {"none", "select", "write", "writing", "put", "gone"},
                             chan : 0..MaxConn, msg : Messages \cup {None}]]
    BY <2>1, <2>3 DEF Typed, WritersTyped
  <2>5. ASSUME NEW g \in Conn
        PROVE  writer'[g] = IF g = current' THEN w ELSE writer[g]
    BY <1>2, <2>1 DEF Typed, WritersTyped
  <2>6. ASSUME NEW g \in Conn
        PROVE  /\ writer[g].pc \in {"write", "writing"} => writer[g].msg \in Messages
               /\ writer[g].chan \in Nat /\ writer[g].chan <= current
               /\ writer[g].pc \in {"writing", "put"} => writer[g].chan # 0
    BY <1>1 DEF Typed, WritersTyped, IsBusy
  <2> QED
    BY <1>1, <1>2, <2>3, <2>4, <2>5, <2>6 DEF WritersTyped, IsBusy
<1>4. ReadersTyped'
  <2>1. reader' = [reader EXCEPT ![current'].pc = "read"]
    BY <1>2 DEF Connect
  <2> QED
    BY <1>2, <2>1 DEF Typed, ReadersTyped
<1>5. WiresTyped'
  BY DEF Connect, Typed, WiresTyped
<1> QED
  BY <1>2, <1>3, <1>4, <1>5

LEMMA CommandTyped ==
    ASSUME Typed, KeyInv,
           \/ \E todo \in Command : Start(todo)
           \/ \E new \in SUBSET Generated : GenerateKeys(new)
           \/ \E k \in Imported : ImportKey(k)
           \/ Quit \/ SendPanics \/ TakeResult \/ Ended
    PROVE  Typed'
<1> USE DEF CommandOnly
<1>1. ASSUME NEW todo \in Command, Start(todo) PROVE Typed'
  <2>1. todo \in Seq(Request) /\ <<"filter_load">> \o todo \in Seq(Request)
    <3>1. "filter_load" \in Request
      BY DEF Request, AnswerType
    <3> QED
      BY <3>1, KeyholderAssumption
  <2>2. CASE conn # 0
    <3>1. call' = Make(todo) /\ UNCHANGED <<conn, current, up, closed, calls, late, writer, reader, results, toPeer, toKeyholder, peerFilter, refused>>
      BY <1>1, <2>2 DEF Start
    <3> QED
      BY <2>1, <2>2, <3>1, MakeTyped DEF Typed, CallsTyped, WritersTyped, ReadersTyped, WiresTyped, IsBusy
  <2>3. CASE conn = 0
    <3>1. Connect /\ call' = Make(<<"filter_load">> \o todo)
      BY <1>1, <2>3 DEF Start
    <3>2. CallsTyped'
      <4>1. /\ current' \in 0..MaxConn /\ conn' = current' /\ calls' \in 0..MaxCall
            /\ up' \subseteq Conn /\ closed' \subseteq Conn /\ late' \in BOOLEAN
        <5>1. /\ current' \in Conn /\ conn' = current' /\ up' = up \cup {current'} /\ late' \in BOOLEAN
              /\ UNCHANGED <<closed, calls>>
          BY <3>1, ConnectTyped
        <5> QED
          BY <5>1, KeyholderAssumption DEF Typed, CallsTyped, Conn
      <4>2. call' \in Calls /\ (call.pc)' \in {"idle", "send"} /\ ((call.pc)' = "send" => (call.todo)' # <<>>)
        BY <2>1, <3>1, MakeTyped
      <4>3. current' # 0
        BY <3>1, ConnectTyped DEF Conn
      <4> QED
        BY <4>1, <4>2, <4>3 DEF CallsTyped
    <3> QED
      BY <3>1, <3>2, ConnectTyped DEF Typed
  <2> QED
    BY <2>2, <2>3
<1>2. ASSUME NEW new \in SUBSET Generated, GenerateKeys(new) PROVE Typed'
  <2>1. <<"filter_load">> \in Seq(Request)
    BY DEF Request, AnswerType
  <2>2. /\ (conn # 0 /\ call' = Make(<<"filter_load">>)) \/ call' = Idle
        /\ UNCHANGED <<conn, current, up, closed, calls, late, writer, reader, results, toPeer, toKeyholder, peerFilter, refused>>
    BY <1>2 DEF GenerateKeys, NewKeysRefused
  <2>3. Idle = Make(<<>>) /\ <<>> \in Seq(Request)
    BY DEF Make
  <2>4. /\ call' \in Calls
        /\ (call.pc)' \in {"send", "await"} => (call.todo)' # <<>> /\ conn # 0
    <3>1. \A todo \in Seq(Request) :
            /\ Make(todo) \in Calls /\ Make(todo).pc \in {"idle", "send"}
            /\ Make(todo).pc = "send" => todo # <<>> /\ Make(todo).todo = todo
      BY MakeTyped
    <3>2. CASE conn # 0 /\ call' = Make(<<"filter_load">>)
      BY <2>1, <3>1, <3>2
    <3>3. CASE call' = Idle
      BY <2>3, <3>1, <3>3
    <3> QED
      BY <2>2, <3>2, <3>3
  <2>5. CallsTyped'
    BY <2>2, <2>4 DEF Typed, CallsTyped
  <2> QED
    BY <2>2, <2>5 DEF Typed, WritersTyped, ReadersTyped, WiresTyped, IsBusy
<1>3. ASSUME NEW k \in Imported, ImportKey(k) PROVE Typed'
  <2>1. UNCHANGED <<conn, current, up, closed, calls, late, writer, reader, results, toPeer, toKeyholder, peerFilter, refused, call>>
    BY <1>3 DEF ImportKey
  <2> QED
    BY <2>1 DEF Typed, CallsTyped, WritersTyped, ReadersTyped, WiresTyped, IsBusy
<1>4. ASSUME Quit PROVE Typed'
  <2>1. CallsTyped'
    BY <1>4, IdleTyped DEF Quit, Cut, Typed, CallsTyped
  <2>2. WiresTyped'
    <3>1. toPeer' \in [Conn -> Seq(Messages)] /\ toKeyholder' \in [Conn -> Seq(Replies)]
      <4>1. <<>> \in Seq(Messages) /\ <<>> \in Seq(Replies)
        OBVIOUS
      <4> QED
        BY <1>4, <4>1 DEF Quit, Cut, Typed, WiresTyped
    <3> QED
      BY <1>4, <3>1 DEF Quit, Typed, WiresTyped
  <2>3. WritersTyped' /\ ReadersTyped'
    BY <1>4 DEF Quit, Typed, WritersTyped, ReadersTyped, IsBusy
  <2> QED
    BY <2>1, <2>2, <2>3 DEF Typed
<1>5. ASSUME SendPanics \/ Ended PROVE Typed'
  <2>1. /\ call' = [Idle EXCEPT !.pc = "panic"] \/ call' = [Idle EXCEPT !.pc = "ended"]
        /\ UNCHANGED <<conn, current, up, closed, calls, late, writer, reader, results, toPeer, toKeyholder, peerFilter, refused>>
    BY <1>5 DEF SendPanics, Ended
  <2> QED
    BY <2>1, IdleTyped DEF Typed, CallsTyped, WritersTyped, ReadersTyped, WiresTyped, IsBusy
<1>6. ASSUME TakeResult PROVE Typed'
  <2>1. call.todo \in Seq(Request) /\ call.todo # <<>>
    BY <1>6 DEF TakeResult, Typed, CallsTyped, Calls
  <2>2. Tail(call.todo) \in Seq(Request) /\ <<>> \in Seq(Request) /\ Idle = Make(<<>>)
    BY <2>1 DEF Make
  <2>3. call' = Idle \/ call' = Make(Tail(call.todo))
    BY <1>6 DEF TakeResult
  <2>4. CallsTyped'
    BY <1>6, <2>2, <2>3, MakeTyped DEF TakeResult, Typed, CallsTyped
  <2>5. current \in Conn => Tail(results[current]) \in Seq(Results) /\ Len(Tail(results[current])) <= 1
    BY <1>6, Taking DEF TakeResult, Typed, WiresTyped
  <2>6. WiresTyped'
    BY <1>6, <2>5 DEF TakeResult, Typed, WiresTyped
  <2>7. WritersTyped' /\ ReadersTyped'
    BY <1>6 DEF TakeResult, Typed, WritersTyped, ReadersTyped, IsBusy
  <2> QED
    BY <2>4, <2>6, <2>7 DEF Typed
<1> QED
  BY <1>1, <1>2, <1>3, <1>4, <1>5, <1>6

(* What the goroutines do to their own state. *)

WriterType ==
    [pc : {"none", "select", "write", "writing", "put", "gone"},
     chan : 0..MaxConn, msg : Messages \cup {None}]

ReaderType ==
    [pc : {"none", "read", "put", "close", "clear", "gone"},
     result : Results \cup {None}, on : {"read", "close", None}]

LEMMA OneWriter ==
    ASSUME Typed, NEW g \in Conn, NEW w \in WriterType,
           writer' = [writer EXCEPT ![g] = w],
           w.chan <= current, w.pc \in {"writing", "put"} => w.chan # 0,
           w.pc \in {"write", "writing"} => w.msg \in Messages,
           UNCHANGED current
    PROVE  /\ WritersTyped' /\ writer'[g] = w
           /\ \A h \in Conn : h # g => writer'[h] = writer[h]
<1>1. writer' \in [Conn -> WriterType] /\ writer'[g] = w /\ \A h \in Conn : h # g => writer'[h] = writer[h]
  BY DEF Typed, WritersTyped, WriterType
<1>2. \A h \in Conn : /\ writer[h].pc \in {"write", "writing"} => writer[h].msg \in Messages
                      /\ writer[h].chan <= current
                      /\ writer[h].pc \in {"writing", "put"} => writer[h].chan # 0
  BY DEF Typed, WritersTyped, IsBusy
<1> QED
  BY <1>1, <1>2 DEF WritersTyped, WriterType, IsBusy

LEMMA OneReader ==
    ASSUME Typed, NEW g \in Conn, NEW r \in ReaderType,
           reader' = [reader EXCEPT ![g] = r],
           r.pc = "put" => r.result \in Results /\ r.on = IF r.result = Error THEN "close" ELSE "read"
    PROVE  /\ ReadersTyped' /\ reader'[g] = r
           /\ \A h \in Conn : h # g => reader'[h] = reader[h]
<1>1. reader' \in [Conn -> ReaderType] /\ reader'[g] = r /\ \A h \in Conn : h # g => reader'[h] = reader[h]
  BY DEF Typed, ReadersTyped, ReaderType
<1>2. \A h \in Conn : reader[h].pc = "put" =>
         reader[h].result \in Results /\ reader[h].on = IF reader[h].result = Error THEN "close" ELSE "read"
  BY DEF Typed, ReadersTyped
<1> QED
  BY <1>1, <1>2 DEF ReadersTyped, ReaderType

LEMMA SendEffect ==
    ASSUME Typed, KeyInv, NEW g \in Conn, Send(g)
    PROVE  /\ Typed'
           /\ writer'[g].pc = "write" /\ writer'[g].msg = Message
           /\ \A h \in Conn : h # g => writer'[h] = writer[h]
           /\ call' = [call EXCEPT !.pc = "await"] /\ (call.pc)' = "await" /\ (call.todo)' = call.todo
           /\ calls' = calls + 1
           /\ UNCHANGED <<current, up, results, reader, toPeer, toKeyholder, peerFilter, refused, late>>
<1> DEFINE w == [writer[g] EXCEPT !.pc = "write", !.msg = Message]
<1>1. Message \in Messages
  <2>1. call.todo[1] \in Request
    BY DEF Send, Typed, CallsTyped, Calls
  <2>2. calls + 1 \in Nat \ {0}
    BY KeyholderAssumption DEF Typed, CallsTyped
  <2> QED
    BY <2>1, <2>2 DEF Message, Messages, KeyInv
<1>2. writer[g] \in WriterType /\ writer[g].chan <= current
  BY DEF Typed, WritersTyped, WriterType
<1>3. w \in WriterType /\ w.pc = "write" /\ w.chan = writer[g].chan /\ w.msg = Message
  BY <1>1, <1>2 DEF WriterType
<1>4. writer' = [writer EXCEPT ![g] = w] /\ UNCHANGED current
  BY DEF Send
<1> HIDE DEF w
<1>5. WritersTyped' /\ writer'[g] = w /\ \A h \in Conn : h # g => writer'[h] = writer[h]
  BY <1>1, <1>2, <1>3, <1>4, OneWriter
<1>6. call' = [call EXCEPT !.pc = "await"] /\ call \in Calls
  BY DEF Send, Typed, CallsTyped
<1>7. call' \in Calls /\ (call.pc)' = "await" /\ (call.todo)' = call.todo
  BY <1>6 DEF Calls
<1>8. CallsTyped'
  <2>1. calls' \in 0..MaxCall
    BY KeyholderAssumption DEF Send, Typed, CallsTyped
  <2>2. UNCHANGED <<conn, current, up, closed, late>> /\ call.todo # <<>> /\ current # 0
    BY DEF Send, Typed, CallsTyped
  <2> QED
    BY <1>7, <2>1, <2>2 DEF Typed, CallsTyped
<1>9. ReadersTyped' /\ WiresTyped'
  BY DEF Send, Typed, ReadersTyped, WiresTyped
<1> QED
  BY <1>3, <1>5, <1>6, <1>7, <1>8, <1>9 DEF Typed, Send

LEMMA WriterEffect ==
    ASSUME Typed, KeyInv, NEW g \in Conn, WriterStep(g)
    PROVE  /\ Typed'
           /\ \A h \in Conn : h # g => writer'[h] = writer[h]
           /\ UNCHANGED <<storeVars, conn, current, up, closed, reader, calls, toKeyholder, peerFilter, refused, late>>
<1> USE DEF WriterOnly
<1>1. UNCHANGED <<storeVars, conn, current, up, closed, reader, calls, toKeyholder, peerFilter, refused, late>>
  BY DEF WriterStep, Write, Written, PutError, WriterEnds
<1>2. ReadersTyped'
  BY <1>1 DEF Typed, ReadersTyped
<1>3. writer[g] \in WriterType /\ writer[g].chan <= current /\ current \in 0..MaxConn /\ current <= current
  BY KeyholderAssumption DEF Typed, CallsTyped, WritersTyped, WriterType
<1>4. Selecting \in WriterType /\ Selecting.pc = "select" /\ Selecting.chan = current /\ Selecting.chan <= current
  <2>1. Selecting \in WriterType /\ Selecting.pc = "select" /\ Selecting.chan = current
    BY <1>3 DEF Selecting, NoWriter, WriterType
  <2> QED
    BY <1>3, <2>1, Zenon
<1>5. ASSUME Write(g)
      PROVE  Typed' /\ \A h \in Conn : h # g => writer'[h] = writer[h]
  <2>1. CASE conn = 0
    <3>1. call' = [Idle EXCEPT !.pc = "panic"] /\ UNCHANGED <<writer, results, toPeer>>
      BY <1>5, <2>1 DEF Write
    <3> QED
      BY <1>1, <1>2, <3>1, IdleTyped DEF Typed, CallsTyped, WritersTyped, WiresTyped, IsBusy
  <2>2. CASE conn # 0
    <3> DEFINE w == [writer[g] EXCEPT !.pc = "writing", !.chan = conn]
    <3>1. writer' = [writer EXCEPT ![g] = w] /\ UNCHANGED <<call, results, toPeer>>
      BY <1>5, <2>2 DEF Write
    <3>2. writer[g].msg \in Messages /\ conn = current
      BY <1>5, <2>2 DEF Write, Typed, CallsTyped, WritersTyped, IsBusy
    <3>3. w \in WriterType /\ w.pc = "writing" /\ w.chan = current /\ w.chan # 0 /\ w.msg \in Messages
      BY <1>3, <2>2, <3>2 DEF WriterType
    <3>4. w.chan <= current
      BY <1>3, <3>3, Zenon
    <3> HIDE DEF w
    <3>5. WritersTyped' /\ \A h \in Conn : h # g => writer'[h] = writer[h]
      BY <1>1, <3>1, <3>3, <3>4, OneWriter
    <3> QED
      BY <1>1, <1>2, <3>1, <3>5 DEF Typed, CallsTyped, WiresTyped
  <2> QED
    BY <2>1, <2>2
<1>6. ASSUME Written(g)
      PROVE  Typed' /\ \A h \in Conn : h # g => writer'[h] = writer[h]
  <2> DEFINE w == [NoWriter EXCEPT !.pc = "put", !.chan = current]
  <2>1. w \in WriterType /\ w.pc = "put" /\ w.chan = current
    BY <1>3 DEF WriterType, NoWriter
  <2>2. UNCHANGED <<call, results>> /\ writer[g].msg \in Messages
    BY <1>6 DEF Written, Typed, WritersTyped, IsBusy
  <2>3. \/ writer' = [writer EXCEPT ![g] = Selecting]
        \/ writer' = [writer EXCEPT ![g] = w]
    BY <1>6 DEF Written
  <2>4. current # 0
    BY <1>3, <1>6, KeyholderAssumption DEF Written, Typed, WritersTyped, CallsTyped
  <2> HIDE DEF w
  <2>5. WritersTyped' /\ \A h \in Conn : h # g => writer'[h] = writer[h]
    BY <1>1, <1>3, <1>4, <2>1, <2>3, <2>4, OneWriter
  <2>6. toPeer' \in [Conn -> Seq(Messages)]
    <3>1. toPeer \in [Conn -> Seq(Messages)]
      BY DEF Typed, WiresTyped
    <3>2. \A s \in Seq(Messages) : Append(s, writer[g].msg) \in Seq(Messages)
      BY <2>2
    <3>3. \/ UNCHANGED toPeer
          \/ toPeer' = [toPeer EXCEPT ![writer[g].chan] = Append(@, writer[g].msg)]
      BY <1>6 DEF Written
    <3> DEFINE c == writer[g].chan
               message == writer[g].msg
    <3> HIDE DEF c, message
    <3>4. CASE toPeer' = [toPeer EXCEPT ![c] = Append(@, message)]
      <4>1. \A d \in Conn : toPeer[d] \in Seq(Messages) /\ Append(toPeer[d], message) \in Seq(Messages)
        BY <3>1, <3>2 DEF message
      <4> QED
        BY <3>1, <3>4, <4>1
    <3> QED
      BY <3>1, <3>3, <3>4 DEF c, message
  <2> QED
    BY <1>1, <1>2, <2>2, <2>5, <2>6 DEF Typed, CallsTyped, WiresTyped
<1>7. ASSUME PutError(g)
      PROVE  Typed' /\ \A h \in Conn : h # g => writer'[h] = writer[h]
  <2>1. writer' = [writer EXCEPT ![g] = Selecting] /\ UNCHANGED <<call, toPeer>>
    BY <1>7 DEF PutError
  <2>2. WritersTyped' /\ \A h \in Conn : h # g => writer'[h] = writer[h]
    BY <1>1, <1>3, <1>4, <2>1, OneWriter
  <2>3. <<Error>> \in Seq(Results) /\ Len(<<Error>>) <= 1
    BY DEF Error, Results
  <2>4. results' = [results EXCEPT ![writer[g].chan] = <<Error>>]
    BY <1>7 DEF PutError
  <2>5. results' \in [Conn -> Seq(Results)] /\ \A c \in Conn : results'[c] \in {results[c], <<Error>>}
    BY <2>3, <2>4 DEF Typed, WiresTyped
  <2>6. ASSUME NEW c \in Conn PROVE Len(results'[c]) <= 1
    <3>1. Len(results[c]) <= 1 /\ (results'[c] = results[c] \/ results'[c] = <<Error>>)
      BY <2>5 DEF Typed, WiresTyped
    <3> QED
      BY <2>3, <3>1, Zenon
  <2>7. WiresTyped'
    BY <1>1, <2>1, <2>5, <2>6 DEF Typed, WiresTyped
  <2> QED
    BY <1>1, <1>2, <2>1, <2>2, <2>7 DEF Typed, CallsTyped
<1>8. ASSUME WriterEnds(g)
      PROVE  Typed' /\ \A h \in Conn : h # g => writer'[h] = writer[h]
  <2> DEFINE w == [writer[g] EXCEPT !.pc = "gone"]
  <2>1. writer' = [writer EXCEPT ![g] = w] /\ UNCHANGED <<call, results, toPeer>>
    BY <1>8 DEF WriterEnds
  <2>2. w \in WriterType /\ w.pc = "gone" /\ w.chan = writer[g].chan
    BY <1>3 DEF WriterType
  <2> HIDE DEF w
  <2>3. WritersTyped' /\ \A h \in Conn : h # g => writer'[h] = writer[h]
    BY <1>1, <1>3, <2>1, <2>2, OneWriter
  <2> QED
    BY <1>1, <1>2, <2>1, <2>3 DEF Typed, CallsTyped, WiresTyped
<1> QED
  BY <1>1, <1>5, <1>6, <1>7, <1>8 DEF WriterStep

LEMMA CutTyped ==
    ASSUME Typed, NEW g \in Conn, Cut(g)
    PROVE  /\ up' \subseteq Conn
           /\ toPeer' \in [Conn -> Seq(Messages)] /\ toKeyholder' \in [Conn -> Seq(Replies)]
           /\ toPeer'[g] = <<>> /\ toKeyholder'[g] = <<>> /\ g \notin up'
           /\ \A c \in Conn : c # g => /\ toPeer'[c] = toPeer[c] /\ toKeyholder'[c] = toKeyholder[c]
                                       /\ (c \in up' <=> c \in up)
<1>1. <<>> \in Seq(Messages) /\ <<>> \in Seq(Replies)
  OBVIOUS
<1> QED
  BY <1>1 DEF Cut, Typed, CallsTyped, WiresTyped

LEMMA ReaderEffect ==
    ASSUME Typed, KeyInv, NEW g \in Conn, ReaderStep(g)
    PROVE  /\ Typed'
           /\ \A h \in Conn : h # g => /\ reader'[h] = reader[h] /\ results'[h] = results[h]
                                       /\ toKeyholder'[h] = toKeyholder[h]
           /\ UNCHANGED <<storeVars, current, up, writer, call, calls, toPeer, peerFilter, refused, late>>
<1> DEFINE Others == \A h \in Conn : h # g => /\ reader'[h] = reader[h] /\ results'[h] = results[h]
                                             /\ toKeyholder'[h] = toKeyholder[h]
<1>1. UNCHANGED <<storeVars, current, up, writer, call, calls, toPeer, peerFilter, refused, late>>
  BY DEF ReaderStep, Read, ReadFails, PutResult, CloseChannel, ClearConn, ReaderOnly
<1>2. WritersTyped'
  BY <1>1 DEF Typed, WritersTyped, IsBusy
<1>3. /\ conn' \in {0, conn} /\ closed' \subseteq closed \cup {g} /\ CallsTyped'
  <2>1. conn' \in {0, conn} /\ closed' \subseteq closed \cup {g}
    BY DEF ReaderStep, Read, ReadFails, PutResult, CloseChannel, ClearConn
  <2> QED
    BY <1>1, <2>1 DEF Typed, CallsTyped
<1>4. reader[g] \in ReaderType
  BY DEF Typed, ReadersTyped, ReaderType
<1>5. ASSUME Read(g) PROVE ReadersTyped' /\ WiresTyped' /\ Others
  <2>1. toKeyholder[g] \in Seq(Replies) /\ toKeyholder[g] # <<>>
    BY <1>5 DEF Read, Typed, WiresTyped
  <2>2. Head(toKeyholder[g]) \in Replies /\ Tail(toKeyholder[g]) \in Seq(Replies)
    BY <2>1, Taking
  <2> DEFINE a == Head(toKeyholder[g])
             r == [pc |-> "put", result |-> Answer(a), on |-> "read"]
  <2>3. Answer(a) \in Results /\ Answer(a) # Error
    <3>1. a.call \in Nat /\ a.err \in BOOLEAN /\ (a.err => a.call # 0)
      BY <2>2 DEF Replies
    <3> HIDE DEF a
    <3> QED
      BY <3>1 DEF Results, Answer, Error
  <2>4. r \in ReaderType /\ r.result = Answer(a) /\ r.on = "read"
    BY <2>3 DEF ReaderType
  <2>5. reader' = [reader EXCEPT ![g] = IF IsResult(Head(toKeyholder[g]).type) THEN r ELSE reader[g]]
    BY <1>5 DEF Read
  <2>6. reader[g].pc # "put"
    BY <1>5 DEF Read
  <2> HIDE DEF r
  <2>7. ReadersTyped' /\ \A h \in Conn : h # g => reader'[h] = reader[h]
    <3>1. CASE IsResult(Head(toKeyholder[g]).type)
      BY <2>3, <2>4, <2>5, <3>1, OneReader
    <3>2. CASE ~IsResult(Head(toKeyholder[g]).type)
      BY <1>4, <2>5, <2>6, <3>2, OneReader
    <3> QED
      BY <3>1, <3>2
  <2>8. toKeyholder' = [toKeyholder EXCEPT ![g] = Tail(@)] /\ UNCHANGED results
    BY <1>5 DEF Read
  <2>9. WiresTyped' /\ \A h \in Conn : h # g => toKeyholder'[h] = toKeyholder[h]
    BY <1>1, <2>2, <2>8 DEF Typed, WiresTyped
  <2> QED
    BY <2>7, <2>8, <2>9
<1>6. ASSUME ReadFails(g) PROVE ReadersTyped' /\ WiresTyped' /\ Others
  <2> DEFINE r == [pc |-> "put", result |-> Error, on |-> "close"]
  <2>1. Error \in Results
    BY DEF Results, Error
  <2>2. r \in ReaderType /\ r.result = Error /\ r.on = "close"
    BY <2>1 DEF ReaderType
  <2>3. reader' = [reader EXCEPT ![g] = r] /\ UNCHANGED <<results, toKeyholder>>
    BY <1>6 DEF ReadFails
  <2> HIDE DEF r
  <2>4. ReadersTyped' /\ \A h \in Conn : h # g => reader'[h] = reader[h]
    BY <2>1, <2>2, <2>3, OneReader
  <2> QED
    BY <1>1, <2>3, <2>4 DEF Typed, WiresTyped
<1>7. ASSUME PutResult(g) PROVE ReadersTyped' /\ WiresTyped' /\ Others
  <2> DEFINE r == [NoReader EXCEPT !.pc = reader[g].on]
  <2>1. reader[g].result \in Results /\ reader[g].on \in {"read", "close"}
    BY <1>7 DEF PutResult, Typed, ReadersTyped
  <2>2. r \in ReaderType /\ r.pc # "put"
    BY <2>1 DEF ReaderType, NoReader
  <2>3. reader' = [reader EXCEPT ![g] = r] /\ UNCHANGED toKeyholder
    BY <1>7 DEF PutResult
  <2> HIDE DEF r
  <2>4. ReadersTyped' /\ \A h \in Conn : h # g => reader'[h] = reader[h]
    BY <2>2, <2>3, OneReader
  <2>5. <<reader[g].result>> \in Seq(Results) /\ Len(<<reader[g].result>>) <= 1
    BY <2>1
  <2>6. results' = [results EXCEPT ![g] = <<reader[g].result>>]
    BY <1>7 DEF PutResult
  <2>7. /\ results' \in [Conn -> Seq(Results)] /\ results'[g] = <<reader[g].result>>
        /\ \A h \in Conn : h # g => results'[h] = results[h]
    BY <2>5, <2>6 DEF Typed, WiresTyped
  <2>8. \A h \in Conn : Len(results[h]) <= 1
    BY DEF Typed, WiresTyped
  <2>9. ASSUME NEW h \in Conn PROVE Len(results'[h]) <= 1
    BY <2>5, <2>7, <2>8, Zenon
  <2>10. WiresTyped'
    BY <1>1, <2>3, <2>7, <2>9 DEF Typed, WiresTyped
  <2> QED
    BY <2>3, <2>4, <2>7, <2>10
<1>8. ASSUME CloseChannel(g) PROVE ReadersTyped' /\ WiresTyped' /\ Others
  <2> DEFINE r == [reader[g] EXCEPT !.pc = "clear"]
  <2>1. r \in ReaderType /\ r.pc # "put"
    BY <1>4 DEF ReaderType
  <2>2. reader' = [reader EXCEPT ![g] = r] /\ UNCHANGED <<results, toKeyholder>>
    BY <1>8 DEF CloseChannel
  <2> HIDE DEF r
  <2>3. ReadersTyped' /\ \A h \in Conn : h # g => reader'[h] = reader[h]
    BY <2>1, <2>2, OneReader
  <2> QED
    BY <1>1, <2>2, <2>3 DEF Typed, WiresTyped
<1>9. ASSUME ClearConn(g) PROVE ReadersTyped' /\ WiresTyped' /\ Others
  <2> DEFINE r == [reader[g] EXCEPT !.pc = "gone"]
  <2>1. r \in ReaderType /\ r.pc # "put"
    BY <1>4 DEF ReaderType
  <2>2. reader' = [reader EXCEPT ![g] = r] /\ UNCHANGED <<results, toKeyholder>>
    BY <1>9 DEF ClearConn
  <2> HIDE DEF r
  <2>3. ReadersTyped' /\ \A h \in Conn : h # g => reader'[h] = reader[h]
    BY <2>1, <2>2, OneReader
  <2> QED
    BY <1>1, <2>2, <2>3 DEF Typed, WiresTyped
<1> QED
  BY <1>1, <1>2, <1>3, <1>5, <1>6, <1>7, <1>8, <1>9 DEF ReaderStep, Typed

LEMMA PeerTyped ==
    ASSUME Typed, KeyInv, NEW g \in Conn,
           Handle(g) \/ Lose(g) \/ \E k \in Key : Relay(g, k)
    PROVE  Typed'
<1>1. UNCHANGED <<storeVars, conn, current, closed, results, writer, reader, call, calls, late>>
  BY DEF Handle, Lose, Relay, PeerOnly
<1>2. WritersTyped' /\ ReadersTyped'
  BY <1>1 DEF Typed, WritersTyped, ReadersTyped, IsBusy
<1>3. up' \subseteq Conn
  BY CutTyped DEF Handle, Lose, Relay, PeerOnly, Typed, CallsTyped
<1>4. CallsTyped'
  BY <1>1, <1>3 DEF Typed, CallsTyped
<1>5. ASSUME Handle(g) PROVE WiresTyped'
  <2>1. toPeer[g] \in Seq(Messages) /\ toPeer[g] # <<>>
    BY <1>5 DEF Handle, Typed, WiresTyped
  <2>2. Head(toPeer[g]) \in Messages /\ Tail(toPeer[g]) \in Seq(Messages)
    BY <2>1, Taking
  <2>0. PICK err \in BOOLEAN :
          /\ toKeyholder' = [toKeyholder EXCEPT ![g] =
               Append(@, [type |-> AnswerType[Head(toPeer[g]).request], call |-> Head(toPeer[g]).call, err |-> err])]
          /\ peerFilter' \in {peerFilter, [peerFilter EXCEPT ![g] = Head(toPeer[g]).keys]}
    BY <1>5 DEF Handle
  <2> DEFINE m == Head(toPeer[g])
             a == [type |-> AnswerType[m.request], call |-> m.call, err |-> err]
  <2>3. a \in Replies /\ m.keys \in SUBSET Key
    BY <2>2 DEF Messages, Replies
  <2>4. /\ toKeyholder' = [toKeyholder EXCEPT ![g] = Append(@, a)]
        /\ toPeer' = [toPeer EXCEPT ![g] = Tail(@)]
        /\ peerFilter' \in {peerFilter, [peerFilter EXCEPT ![g] = m.keys]}
    BY <1>5, <2>0 DEF Handle
  <2> HIDE DEF a
  <2>5. toKeyholder' \in [Conn -> Seq(Replies)]
    BY <2>3, <2>4 DEF Typed, WiresTyped
  <2>6. toPeer' \in [Conn -> Seq(Messages)]
    BY <2>2, <2>4 DEF Typed, WiresTyped
  <2> HIDE DEF m
  <2>7. peerFilter' \in [Conn -> (SUBSET Key) \cup {None}]
    BY <2>3, <2>4 DEF Typed, WiresTyped
  <2> QED
    BY <1>1, <2>5, <2>6, <2>7 DEF Typed, WiresTyped
<1>6. ASSUME NEW k \in Key, Relay(g, k) PROVE WiresTyped'
  <2> DEFINE a == [type |-> "push_representation", call |-> 0, err |-> FALSE]
  <2>1. a \in Replies
    BY DEF Replies
  <2>2. toKeyholder' = [toKeyholder EXCEPT ![g] = Append(@, a)] /\ UNCHANGED <<toPeer, peerFilter, refused>>
    BY <1>6 DEF Relay
  <2> HIDE DEF a
  <2> QED
    BY <1>1, <2>1, <2>2 DEF Typed, WiresTyped
<1>7. ASSUME Lose(g) PROVE WiresTyped'
  BY <1>1, <1>7, CutTyped DEF Lose, Typed, WiresTyped
<1> QED
  BY <1>2, <1>4, <1>5, <1>6, <1>7 DEF Typed

LEMMA RestartTyped ==
    ASSUME Typed, NEW p \in Passphrase, Restart(p)
    PROVE  Typed'
<1>1. CallsTyped'
  <2>1. 0 \in 0..MaxConn /\ 0 \in 0..MaxCall
    BY KeyholderAssumption
  <2>2. call' \in Calls /\ (call.pc)' = "idle"
    BY IdleTyped DEF Restart
  <2>3. conn' = 0 /\ current' = 0 /\ calls' = 0 /\ up' = {} /\ closed' = {} /\ late' \in BOOLEAN
    BY DEF Restart
  <2> QED
    BY <2>1, <2>2, <2>3 DEF CallsTyped
<1>2. WritersTyped'
  BY KeyholderAssumption DEF Restart, WritersTyped, NoWriter, IsBusy
<1>3. ReadersTyped'
  BY DEF Restart, ReadersTyped, NoReader
<1>4. WiresTyped'
  BY DEF Restart, WiresTyped
<1> QED
  BY <1>1, <1>2, <1>3, <1>4 DEF Typed

----------------------------------------------------------------------------
(* Connections *)

LEMMA NoGoroutines == NoReader.pc = "none" /\ NoWriter.pc = "none"
BY DEF NoReader, NoWriter

\* What is up is what the fields hold.
LEMMA UpIsCurrent ==
    ASSUME Typed, ConnInv
    PROVE  /\ up \subseteq {current} /\ (conn \in up => conn = current)
           /\ \A c \in Conn : /\ reader[c].pc \in {"read", "put", "close", "clear"} => c = current /\ conn # 0
                              /\ c > current => writer[c].pc = "none" /\ reader[c].pc = "none"
           /\ (current \in up => current \in Conn /\ conn = current)
BY NoGoroutines DEF Typed, CallsTyped, ConnInv, Conn

LEMMA ConnInvInit == ASSUME Init PROVE ConnInv
BY DEF Init, ConnInv, NoReader, NoWriter, Conn

LEMMA ConnectKeepsConnInv ==
    ASSUME Typed, ConnInv, Connect, conn = 0
    PROVE  ConnInv' /\ current' \notin up
<1>1. /\ current' = current + 1 /\ current' \in Conn /\ conn' = current' /\ current \in Nat
      /\ up' = up \cup {current'}
      /\ UNCHANGED <<closed, results, toPeer, toKeyholder, peerFilter, refused>>
  BY ConnectTyped, KeyholderAssumption DEF Connect, Typed, CallsTyped
<1>2. current' \notin up
  BY <1>1, UpIsCurrent
<1>3. /\ reader' = [reader EXCEPT ![current'].pc = "read"]
      /\ \E w : writer' = [writer EXCEPT ![current'] = w]
  BY <1>1 DEF Connect
<1>4. /\ reader'[current'].pc = "read"
      /\ \A c \in Conn : c # current' => reader'[c] = reader[c] /\ writer'[c] = writer[c]
  BY <1>1, <1>3 DEF Typed, ReadersTyped, WritersTyped
<1>5. \A c \in Conn : reader[c].pc \in {"none", "gone"}
  BY <1>1, NoGoroutines DEF ConnInv, Conn
<1>6. \A c \in Conn : c > current' => c > current /\ c # current'
  BY <1>1 DEF Conn
<1>7. \A c \in Conn : c \in up => FALSE
  BY <1>5 DEF ConnInv
<1>8. ASSUME NEW c \in Conn
      PROVE /\ c # current' => reader'[c].pc \in {"none", "gone"}
            /\ c \in up' => reader'[c].pc = "read" /\ c \notin closed'
            /\ c \notin up' => toPeer'[c] = <<>> /\ toKeyholder'[c] = <<>>
            /\ c > current' => /\ results'[c] = <<>> /\ peerFilter'[c] = None /\ c \notin closed'
                               /\ reader'[c] = NoReader /\ writer'[c] = NoWriter
  BY <1>1, <1>4, <1>5, <1>6, <1>7 DEF ConnInv
<1>9. conn' # 0
  BY <1>1 DEF Conn
<1> QED
  BY <1>2, <1>8, <1>9 DEF ConnInv

LEMMA CutKeepsConnInv ==
    ASSUME Typed, ConnInv, NEW g \in Conn, Cut(g),
           UNCHANGED <<conn, current, closed, results, reader, writer, peerFilter, refused>>
    PROVE  ConnInv'
BY CutTyped DEF ConnInv

LEMMA CommandKeepsConnInv ==
    ASSUME Typed, ConnInv, KeyInv,
           \/ \E todo \in Command : Start(todo)
           \/ \E new \in SUBSET Generated : GenerateKeys(new)
           \/ \E k \in Imported : ImportKey(k)
           \/ Quit \/ SendPanics \/ TakeResult \/ Ended
           \/ \E p \in Passphrase : Restart(p)
           \/ \E g \in Conn : Send(g)
    PROVE  ConnInv'
<1>1. ASSUME NEW todo \in Command, Start(todo) PROVE ConnInv'
  <2>1. CASE conn # 0
    BY <1>1, <2>1 DEF Start, CommandOnly, ConnInv
  <2>2. CASE conn = 0
    BY <1>1, <2>2, ConnectKeepsConnInv DEF Start
  <2> QED
    BY <2>1, <2>2
<1>2. ASSUME NEW new \in SUBSET Generated, GenerateKeys(new) PROVE ConnInv'
  BY <1>2 DEF GenerateKeys, CommandOnly, ConnInv
<1>3. ASSUME NEW k \in Imported, ImportKey(k) PROVE ConnInv'
  BY <1>3 DEF ImportKey, CommandOnly, ConnInv
<1>4. ASSUME Quit PROVE ConnInv'
  <2>1. conn # 0 => conn \in Conn
    BY KeyholderAssumption DEF Typed, CallsTyped, Conn
  <2>2. CASE conn # 0
    BY <1>4, <2>1, <2>2, CutKeepsConnInv DEF Quit
  <2>3. CASE conn = 0
    BY <1>4, <2>3 DEF Quit, ConnInv
  <2> QED
    BY <2>2, <2>3
<1>5. ASSUME SendPanics \/ Ended PROVE ConnInv'
  BY <1>5 DEF SendPanics, Ended, CommandOnly, ConnInv
<1>6. ASSUME TakeResult PROVE ConnInv'
  <2>1. results' = [results EXCEPT ![current] = Tail(@)]
        /\ UNCHANGED <<conn, current, up, closed, reader, writer, toPeer, toKeyholder, peerFilter, refused>>
    BY <1>6 DEF TakeResult, CommandOnly
  <2>2. current \in Nat
    BY KeyholderAssumption DEF Typed, CallsTyped
  <2>3. \A c \in Conn : c > current => results'[c] = results[c]
    BY <2>1, <2>2 DEF Conn, Typed, WiresTyped
  <2> QED
    BY <2>1, <2>3 DEF ConnInv
<1>7. ASSUME NEW p \in Passphrase, Restart(p) PROVE ConnInv'
  BY <1>7 DEF Restart, ConnInv, NoReader, NoWriter, Conn
<1>8. ASSUME NEW g \in Conn, Send(g) PROVE ConnInv'
  <2>1. /\ \A h \in Conn : h # g => writer'[h] = writer[h]
        /\ UNCHANGED <<conn, current, up, closed, results, reader, toPeer, toKeyholder, peerFilter, refused>>
    BY <1>8, SendEffect DEF Send
  <2>2. ~(g > current)
    BY <1>8, UpIsCurrent DEF Send
  <2> QED
    BY <2>1, <2>2 DEF ConnInv
<1> QED
  BY <1>1, <1>2, <1>3, <1>4, <1>5, <1>6, <1>7, <1>8

LEMMA WriterKeepsConnInv ==
    ASSUME Typed, ConnInv, KeyInv, NEW g \in Conn, WriterStep(g)
    PROVE  ConnInv'
<1>1. /\ \A h \in Conn : h # g => writer'[h] = writer[h]
      /\ UNCHANGED <<conn, current, up, closed, reader, toKeyholder, peerFilter, refused>>
  BY WriterEffect
<1>2. ~(g > current)
  BY UpIsCurrent DEF WriterStep, Write, Written, PutError, WriterEnds
<1>3. current \in Nat
  BY KeyholderAssumption DEF Typed, CallsTyped
<1>4. \A c \in Conn : c > current => results'[c] = results[c]
  <2>1. UNCHANGED results \/ (writer[g].chan <= current /\ results' = [results EXCEPT ![writer[g].chan] = <<Error>>])
    BY DEF WriterStep, Write, Written, PutError, WriterEnds, Typed, WritersTyped
  <2>2. writer[g].chan \in Nat
    BY KeyholderAssumption DEF Typed, WritersTyped
  <2>3. ASSUME NEW c \in Conn, c > current PROVE c # writer[g].chan \/ results' = results
    BY <1>3, <2>1, <2>2, <2>3 DEF Conn
  <2>4. results \in [Conn -> Seq(Results)]
    BY DEF Typed, WiresTyped
  <2> QED
    BY <2>1, <2>3, <2>4
<1>5. \A c \in Conn : c \notin up => toPeer'[c] = toPeer[c]
  BY DEF WriterStep, Write, Written, PutError, WriterEnds, Typed, WiresTyped
<1> QED
  BY <1>1, <1>2, <1>4, <1>5 DEF ConnInv

LEMMA AnswerIsNoError ==
    ASSUME Typed, NEW c \in Conn, toKeyholder[c] # <<>>
    PROVE  Answer(Head(toKeyholder[c])) # Error
<1>1. Head(toKeyholder[c]) \in Replies
  BY Taking DEF Typed, WiresTyped
<1> QED
  BY <1>1 DEF Replies, Answer, Error

LEMMA ReaderKeepsConnInv ==
    ASSUME Typed, ConnInv, KeyInv, NEW g \in Conn, ReaderStep(g)
    PROVE  ConnInv'
<1>1. /\ \A h \in Conn : h # g => /\ reader'[h] = reader[h] /\ results'[h] = results[h]
                                  /\ toKeyholder'[h] = toKeyholder[h]
      /\ UNCHANGED <<current, up, writer, toPeer, peerFilter, refused>>
  BY ReaderEffect
<1>2. g = current /\ conn # 0
  BY UpIsCurrent DEF ReaderStep, Read, ReadFails, PutResult, CloseChannel, ClearConn
<1>3. ~(g > current) /\ g # 0
  BY <1>2 DEF Conn
<1>4. /\ g \in up => reader'[g].pc = "read" \/ (reader'[g].pc = "put" /\ reader'[g].result # Error)
      /\ g \notin up => toKeyholder'[g] = toKeyholder[g]
      /\ conn' # 0 \/ reader'[g].pc = "gone"
  <2>1. reader \in [Conn -> ReaderType]
    BY DEF Typed, ReadersTyped, ReaderType
  <2>2. CASE Read(g)
    <3> DEFINE r == [pc |-> "put", result |-> Answer(Head(toKeyholder[g])), on |-> "read"]
    <3>1. r.pc = "put" /\ r.result # Error
      BY <2>2, AnswerIsNoError DEF Read
    <3>2. reader'[g] = r \/ reader'[g] = reader[g]
      BY <2>1, <2>2 DEF Read
    <3> HIDE DEF r
    <3>3. reader[g].pc = "read" /\ g \in up /\ conn' = conn
      BY <2>2 DEF Read, ConnInv
    <3> QED
      BY <1>2, <3>1, <3>2, <3>3
  <2>3. CASE ReadFails(g)
    BY <1>2, <2>3 DEF ReadFails
  <2>4. CASE PutResult(g)
    <3>1. reader'[g] = [NoReader EXCEPT !.pc = reader[g].on]
      BY <2>1, <2>4 DEF PutResult
    <3>2. reader'[g].pc = reader[g].on
      BY <3>1 DEF NoReader
    <3>3. g \in up => reader[g].on = "read"
      BY <2>4 DEF PutResult, ConnInv, Typed, ReadersTyped
    <3> QED
      BY <1>2, <2>4, <3>2, <3>3 DEF PutResult
  <2>5. CASE CloseChannel(g)
    BY <1>2, <2>5 DEF CloseChannel, ConnInv
  <2>6. CASE ClearConn(g)
    BY <1>2, <2>1, <2>6 DEF ClearConn, ConnInv, ReaderType
  <2> QED
    BY <2>2, <2>3, <2>4, <2>5, <2>6 DEF ReaderStep
<1>7. \A c \in Conn : c \in closed' => c \in closed \/ (c = g /\ g \notin up)
  BY DEF ReaderStep, Read, ReadFails, PutResult, CloseChannel, ClearConn, ConnInv
<1>5. conn' = 0 /\ current' # 0 => reader'[current'].pc = "gone"
  BY <1>1, <1>2, <1>4
<1>6. ASSUME NEW c \in Conn
      PROVE /\ c # current' => reader'[c].pc \in {"none", "gone"}
            /\ c \in up' => /\ c \notin closed'
                            /\ reader'[c].pc = "read" \/ (reader'[c].pc = "put" /\ reader'[c].result # Error)
            /\ c \notin up' => toPeer'[c] = <<>> /\ toKeyholder'[c] = <<>>
            /\ c > current' => /\ results'[c] = <<>> /\ peerFilter'[c] = None /\ c \notin closed'
                               /\ reader'[c] = NoReader /\ writer'[c] = NoWriter
  BY <1>1, <1>2, <1>3, <1>4, <1>7 DEF ConnInv
<1> QED
  BY <1>5, <1>6 DEF ConnInv

LEMMA PeerKeepsConnInv ==
    ASSUME Typed, ConnInv, KeyInv, NEW g \in Conn,
           Handle(g) \/ Lose(g) \/ \E k \in Key : Relay(g, k)
    PROVE  ConnInv'
<1>1. ASSUME Handle(g) \/ \E k \in Key : Relay(g, k) PROVE ConnInv'
  <2>1. /\ g \in up
        /\ UNCHANGED <<conn, current, up, closed, results, writer, reader>>
        /\ \A c \in Conn : c # g => toPeer'[c] = toPeer[c] /\ toKeyholder'[c] = toKeyholder[c]
                                    /\ peerFilter'[c] = peerFilter[c]
    BY <1>1 DEF Handle, Relay, PeerOnly, Typed, WiresTyped
  <2>2. g = current /\ current \in Nat
    BY <2>1, UpIsCurrent, KeyholderAssumption DEF Typed, CallsTyped
  <2> QED
    BY <2>1, <2>2 DEF ConnInv
<1>2. ASSUME Lose(g) PROVE ConnInv'
  BY <1>2, CutKeepsConnInv DEF Lose
<1> QED
  BY <1>1, <1>2

----------------------------------------------------------------------------
(* The call on its way, the commands *)

Pipeline == WriterInv /\ PeerInv /\ ReplyInv /\ ResultInv

Invariants == Typed /\ ConnInv /\ KeyInv /\ Ordered

LEMMA CurrentIsConn == ASSUME Typed, current # 0 PROVE current \in Conn /\ current \in Nat
BY KeyholderAssumption DEF Typed, CallsTyped, Conn

\* Nothing is on its way for a command that does not wait.
LEMMA Quiet ==
    ASSUME Typed, Pipeline, call.pc # "await"
    PROVE  /\ toPeer[current] = <<>> /\ ~Back /\ ~Held /\ ~Ready
           /\ current \in up => \A g \in Conn : ~IsBusy(g)
BY DEF Pipeline, WriterInv, PeerInv, ReplyInv, ResultInv, Back

LEMMA OtherCommandKeepsPipeline ==
    ASSUME Typed, Pipeline, call.pc # "await",
           UNCHANGED <<current, up, calls, results, reader, writer, toPeer, toKeyholder>>
    PROVE  Pipeline'
<1>1. UNCHANGED <<Back, Held, Ready>>
  BY DEF Back, Reply, Held, Ready
<1>2. WriterInv'
  BY <1>1, Quiet DEF Pipeline, WriterInv, IsBusy
<1>3. PeerInv'
  BY <1>1, Quiet DEF Pipeline, PeerInv
<1>4. ReplyInv' /\ ResultInv'
  BY <1>1, Quiet DEF Pipeline, ReplyInv, ResultInv, Back, Reply
<1> QED
  BY <1>2, <1>3, <1>4 DEF Pipeline

\* The connection is cut while nothing else changes, or while no command waits.
LEMMA CutKeepsPipeline ==
    ASSUME Typed, Pipeline, current \in Conn, NEW g \in Conn, Cut(g),
           UNCHANGED <<current, calls, results, reader, writer, filter>>,
           call.pc = "await" => UNCHANGED call
    PROVE  Pipeline'
<1>1. /\ toPeer'[current] \in {toPeer[current], <<>>}
      /\ toKeyholder'[current] \in {toKeyholder[current], <<>>}
      /\ current \in up' => current \in up
  BY CutTyped
<1>2. Len(<<>>) = 0
  OBVIOUS
<1>3. UNCHANGED <<Held, Ready>> /\ (Back' => Back)
  BY <1>1, <1>2 DEF Back, Reply, Held, Ready
<1>4. \A m : call.pc = "await" /\ Asked(m) => (call.pc)' = "await" /\ Asked(m)'
  BY DEF Asked
<1>5. WriterInv'
  BY <1>1, <1>3, <1>4 DEF Pipeline, WriterInv, IsBusy
<1>6. PeerInv'
  BY <1>1, <1>2, <1>3, <1>4 DEF Pipeline, PeerInv
<1>7. ReplyInv' /\ ResultInv'
  BY <1>1, <1>2, <1>3 DEF Pipeline, ReplyInv, ResultInv, Reply
<1> QED
  BY <1>5, <1>6, <1>7 DEF Pipeline

\* A new connection begins with nothing on its way, unless a writer is busy.
LEMMA ConnectPipeline ==
    ASSUME Typed, ConnInv, Connect, conn = 0, ~late'
    PROVE  Pipeline' /\ ~Back' /\ ~Held' /\ ~Ready'
<1>1. /\ current' = current + 1 /\ current' \in Conn /\ current \in Nat
      /\ up' = up \cup {current'}
      /\ UNCHANGED <<results, toPeer, toKeyholder, peerFilter, refused>>
  BY ConnectTyped, KeyholderAssumption DEF Connect, Typed, CallsTyped
<1>2. \A g \in Conn : ~IsBusy(g)
  BY DEF Connect
<1>3. /\ reader'[current'].pc = "read" /\ writer'[current'].pc = "select"
      /\ \A c \in Conn : c # current' => writer'[c] = writer[c]
  <2> DEFINE w == [NoWriter EXCEPT !.pc = "select", !.chan = current']
  <2>1. w.pc = "select"
    BY DEF NoWriter
  <2>2. writer' = [writer EXCEPT ![current'] = w] /\ reader' = [reader EXCEPT ![current'].pc = "read"]
    BY <1>1 DEF Connect
  <2> HIDE DEF w
  <2> QED
    BY <1>1, <2>1, <2>2 DEF Typed, WritersTyped, ReadersTyped
<1>4. /\ results'[current'] = <<>> /\ toPeer'[current'] = <<>> /\ toKeyholder'[current'] = <<>>
      /\ Len(<<>>) = 0
  BY <1>1, ConnectKeepsConnInv DEF ConnInv
<1>5. ~Back' /\ ~Held' /\ ~Ready'
  BY <1>3, <1>4 DEF Back, Held, Ready
<1>6. \A g \in Conn : ~IsBusy(g)' /\ ((writer'[g].pc = "put") => writer'[g].chan # current')
  <2>1. \A g \in Conn : writer[g].chan \in Nat /\ writer[g].chan <= current
    BY KeyholderAssumption DEF Typed, WritersTyped
  <2>2. ASSUME NEW g \in Conn, g # current' PROVE writer'[g].chan # current'
    <3>1. writer'[g] = writer[g] /\ writer[g].chan \in Nat /\ writer[g].chan <= current
      BY <1>3, <2>1, <2>2
    <3>2. \A x \in Nat : x <= current => x # current'
      BY <1>1
    <3> QED
      BY <3>1, <3>2, Zenon
  <2> QED
    BY <1>1, <1>2, <1>3, <2>2 DEF IsBusy
<1>7. WriterInv'
  BY <1>6 DEF WriterInv, IsBusy
<1>8. PeerInv' /\ ReplyInv' /\ ResultInv'
  BY <1>4, <1>5 DEF PeerInv, ReplyInv, ResultInv
<1> QED
  BY <1>5, <1>7, <1>8 DEF Pipeline

\* Only the filter of the newest connection, and what it must have, matter.
LEMMA FilterFrame ==
    ASSUME FilterInv, UNCHANGED <<current, encrypted, imported, displaced, peerFilter, refused>>,
           current \in up' => /\ current \in up
                              /\ call.pc \in {"send", "await"} /\ Head(call.todo) = "filter_load" =>
                                   /\ (call.pc)' \in {"send", "await"} /\ Head(call.todo)' = "filter_load"
                                   /\ (Back' \/ Held' \/ Ready' => Back \/ Held \/ Ready)
    PROVE  FilterInv'
<1>1. UNCHANGED Expected
  BY DEF Expected, Stored
<1> QED
  BY <1>1 DEF FilterInv

LEMMA SendKeepsOrdered ==
    ASSUME Invariants, NEW g \in Conn, Send(g)
    PROVE  Ordered'
<1> SUFFICES ASSUME ~late', current' # 0 PROVE Pipeline' /\ FilterInv'
  BY DEF Ordered, Pipeline
<1>1. /\ writer'[g].pc = "write" /\ writer'[g].msg = Message
      /\ \A h \in Conn : h # g => writer'[h] = writer[h]
      /\ (call.pc)' = "await" /\ (call.todo)' = call.todo /\ call.todo # <<>>
      /\ calls' = calls + 1 /\ call.pc = "send"
      /\ UNCHANGED <<storeVars, current, up, results, reader, toPeer, toKeyholder, peerFilter, refused, late>>
  BY SendEffect DEF Invariants, Send, Typed, CallsTyped
<1>2. Pipeline /\ FilterInv /\ Typed
  BY <1>1 DEF Invariants, Ordered, Pipeline
<1>3. /\ toPeer[current] = <<>> /\ ~Back /\ ~Held /\ ~Ready
      /\ current \in up => \A h \in Conn : ~IsBusy(h)
  BY <1>1, <1>2, Quiet
<1>4. UNCHANGED <<Back, Held, Ready>>
  BY <1>1 DEF Back, Reply, Held, Ready
<1>5. Asked(writer[g].msg)'
  <2>1. Message.call = calls + 1 /\ Message.request = call.todo[1] /\ Message.keys = filter
    BY DEF Message
  <2>2. Head(call.todo) = call.todo[1]
    BY <1>1, <1>2 DEF Typed, CallsTyped, Calls
  <2> QED
    BY <1>1, <2>1, <2>2 DEF Asked, storeVars
<1>6. WriterInv'
  BY <1>1, <1>2, <1>3, <1>4, <1>5 DEF Pipeline, WriterInv, IsBusy
<1>7. PeerInv'
  BY <1>1, <1>2, <1>3 DEF Pipeline, PeerInv
<1>8. ReplyInv' /\ ResultInv'
  BY <1>1, <1>2, <1>3, <1>4 DEF Pipeline, ReplyInv, ResultInv, Back, Reply
<1>9. FilterInv'
  BY <1>1, <1>2, <1>4, FilterFrame DEF storeVars
<1> QED
  BY <1>6, <1>7, <1>8, <1>9 DEF Pipeline

LEMMA CommandKeepsOrdered ==
    ASSUME Invariants,
           \/ \E todo \in Command : Start(todo)
           \/ \E new \in SUBSET Generated : GenerateKeys(new)
           \/ \E k \in Imported : ImportKey(k)
           \/ Quit \/ SendPanics \/ TakeResult \/ Ended
    PROVE  Ordered'
<1> SUFFICES ASSUME ~late', current' # 0 PROVE Pipeline' /\ FilterInv'
  BY DEF Ordered, Pipeline
<1> USE DEF CommandOnly
<1>1. ASSUME NEW todo \in Command, Start(todo) PROVE Pipeline' /\ FilterInv'
  <2>1. CASE conn # 0
    <3>1. call.pc = "idle" /\ UNCHANGED <<storeVars, current, up, calls, results, reader, writer, toPeer, toKeyholder, peerFilter, refused, late>>
      BY <1>1, <2>1 DEF Start
    <3>2. Pipeline /\ FilterInv /\ Typed
      BY <3>1 DEF Invariants, Ordered, Pipeline
    <3>3. UNCHANGED <<Back, Held, Ready>>
      BY <3>1 DEF Back, Reply, Held, Ready
    <3> QED
      BY <3>1, <3>2, <3>3, OtherCommandKeepsPipeline, FilterFrame DEF storeVars
  <2>2. CASE conn = 0
    <3>1. Connect /\ call' = Make(<<"filter_load">> \o todo)
      BY <1>1, <2>2 DEF Start
    <3>2. Pipeline' /\ ~Back' /\ ~Held' /\ ~Ready'
      BY <2>2, <3>1, ConnectPipeline DEF Invariants
    <3>3. <<"filter_load">> \o todo # <<>> /\ Head(<<"filter_load">> \o todo) = "filter_load"
      BY KeyholderAssumption
    <3>4. (call.pc)' = "send" /\ Head(call.todo)' = "filter_load"
      BY <3>1, <3>3 DEF Make
    <3> QED
      BY <3>2, <3>4 DEF FilterInv
  <2> QED
    BY <2>1, <2>2
<1>2. ASSUME NEW new \in SUBSET Generated, GenerateKeys(new) PROVE Pipeline' /\ FilterInv'
  <2>1. call.pc = "idle" /\ UNCHANGED <<conn, current, up, calls, results, reader, writer, toPeer, toKeyholder, peerFilter, refused, late>>
    BY <1>2 DEF GenerateKeys
  <2>2. Pipeline /\ FilterInv /\ Typed /\ ConnInv /\ KeyInv
    BY <2>1 DEF Invariants, Ordered, Pipeline
  <2>3. Pipeline'
    BY <2>1, <2>2, OtherCommandKeepsPipeline
  <2>4. ASSUME current \in up, NewKeys(new), call' = IF conn # 0 THEN Make(<<"filter_load">>) ELSE Idle
        PROVE  FilterInv'
    <3>1. conn # 0
      BY <2>2, <2>4, UpIsCurrent DEF Conn
    <3>2. <<"filter_load">> # <<>> /\ Head(<<"filter_load">>) = "filter_load"
      OBVIOUS
    <3>3. (call.pc)' = "send" /\ Head(call.todo)' = "filter_load"
      BY <2>4, <3>1, <3>2 DEF Make
    <3>4. ~Back' /\ ~Held' /\ ~Ready'
      BY <2>1, <2>2, Quiet DEF Back, Reply, Held, Ready
    <3> QED
      BY <3>3, <3>4 DEF FilterInv
  <2>5. ASSUME NewKeysRefused(new) PROVE FilterInv'
    <3>1. Expected' \subseteq Expected
      BY <2>2, <2>5, NewKeysRefusedKeepsKeyInv
    <3> QED
      BY <2>1, <2>2, <3>1 DEF FilterInv
  <2> QED
    BY <1>2, <2>1, <2>3, <2>4, <2>5 DEF FilterInv, GenerateKeys
<1>3. ASSUME NEW k \in Imported, ImportKey(k) PROVE Pipeline' /\ FilterInv'
  <2>1. call.pc = "idle" /\ UNCHANGED <<conn, current, up, calls, results, reader, writer, toPeer, toKeyholder, peerFilter, refused, late>>
    BY <1>3 DEF ImportKey
  <2>2. Pipeline /\ FilterInv /\ Typed /\ KeyInv
    BY <2>1 DEF Invariants, Ordered, Pipeline
  <2>3. Pipeline'
    BY <2>1, <2>2, OtherCommandKeepsPipeline
  <2>4. Expected' \subseteq Expected
    BY <1>3, <2>2 DEF ImportKey, AddKey, Expected, Stored, KeyInv
  <2>5. FilterInv'
    BY <2>1, <2>2, <2>4 DEF FilterInv
  <2> QED
    BY <2>3, <2>5
<1>4. ASSUME SendPanics \/ Ended PROVE Pipeline' /\ FilterInv'
  <2>1. call.pc \in {"send", "quit"} /\ UNCHANGED <<storeVars, conn, current, up, calls, results, reader, writer, toPeer, toKeyholder, peerFilter, refused, late>>
    BY <1>4 DEF SendPanics, Ended
  <2>2. Pipeline /\ FilterInv /\ Typed /\ ConnInv
    BY <2>1 DEF Invariants, Ordered, Pipeline
  <2>3. Pipeline'
    BY <2>1, <2>2, OtherCommandKeepsPipeline
  <2>4. CASE current \notin up
    BY <2>1, <2>3, <2>4 DEF FilterInv
  <2>5. CASE current \in up
    <3>1. ~SendPanics
      BY <2>2, <2>5 DEF ConnInv, SendPanics, Typed, CallsTyped
    <3>2. call.pc = "quit"
      BY <1>4, <3>1 DEF Ended
    <3> QED
      BY <2>1, <2>2, <2>3, <2>5, <3>2 DEF FilterInv, storeVars, Expected, Stored
  <2> QED
    BY <2>3, <2>4, <2>5
<1>5. ASSUME Quit PROVE Pipeline' /\ FilterInv'
  <2>1. /\ call.pc = "idle" /\ UNCHANGED <<storeVars, current, calls, results, reader, writer, peerFilter, refused, late>>
        /\ conn # 0 => Cut(conn)
        /\ conn = 0 => UNCHANGED <<up, toPeer, toKeyholder>>
    BY <1>5 DEF Quit
  <2>2. Pipeline /\ FilterInv /\ Typed /\ current \in Conn /\ conn \in {0, current}
    BY <2>1, CurrentIsConn DEF Invariants, Ordered, Pipeline, Typed, CallsTyped
  <2>3. Pipeline'
    <3>1. CASE conn = 0
      BY <2>1, <2>2, <3>1, OtherCommandKeepsPipeline
    <3>2. CASE conn # 0
      BY <2>1, <2>2, <3>2, CutKeepsPipeline DEF storeVars
    <3> QED
      BY <3>1, <3>2
  <2>4. current \in up' => current \in up
    BY <2>1, <2>2, CutTyped
  <2> QED
    BY <2>1, <2>2, <2>3, <2>4 DEF FilterInv, storeVars, Expected, Stored
<1>6. ASSUME TakeResult PROVE Pipeline' /\ FilterInv'
  <2>1. /\ call.pc = "await" /\ results[current] # <<>>
        /\ results' = [results EXCEPT ![current] = Tail(@)]
        /\ UNCHANGED <<storeVars, current, up, calls, reader, writer, toPeer, toKeyholder, peerFilter, refused, late>>
    BY <1>6 DEF TakeResult
  <2>2. Pipeline /\ FilterInv /\ Typed /\ ConnInv /\ current \in Conn
    BY <2>1, CurrentIsConn DEF Invariants, Ordered, Pipeline
  <2>3. results'[current] = <<>>
    BY <2>1, <2>2 DEF Typed, WiresTyped
  <2>4. ~Held /\ ~Back /\ toPeer[current] = <<>> /\ (current \in up => Ready)
    <3>1. CASE Ready
      BY <2>2, <3>1 DEF Pipeline, PeerInv, ReplyInv, Back
    <3>2. CASE ~Ready
      <4>1. current \notin up /\ ~Held
        BY <2>1, <2>2, <3>2 DEF Ready, Pipeline, ResultInv
      <4>2. toPeer[current] = <<>> /\ toKeyholder[current] = <<>> /\ Len(<<>>) = 0
        BY <2>2, <4>1 DEF ConnInv
      <4> QED
        BY <4>1, <4>2 DEF Back
    <3> QED
      BY <3>1, <3>2
  <2>5. ~Held' /\ ~Back' /\ ~Ready'
    BY <2>1, <2>3, <2>4 DEF Held, Back, Reply, Ready
  <2>6. WriterInv'
    BY <2>1, <2>2, <2>4, <2>5 DEF Pipeline, WriterInv, IsBusy
  <2>7. PeerInv'
    BY <2>1, <2>2, <2>4 DEF Pipeline, PeerInv
  <2>8. ReplyInv' /\ ResultInv'
    BY <2>1, <2>3, <2>5 DEF ReplyInv, ResultInv, Back
  <2>9. FilterInv'
    BY <2>1, <2>2, <2>4 DEF FilterInv, storeVars, Expected, Stored
  <2> QED
    BY <2>6, <2>7, <2>8, <2>9 DEF Pipeline
<1> QED
  BY <1>1, <1>2, <1>3, <1>4, <1>5, <1>6

----------------------------------------------------------------------------
(* The call on its way, the goroutines and the peer *)

LEMMA WriterKeepsOrdered ==
    ASSUME Invariants, NEW g \in Conn, WriterStep(g)
    PROVE  Ordered'
<1> SUFFICES ASSUME ~late', current' # 0 PROVE Pipeline' /\ FilterInv'
  BY DEF Ordered, Pipeline
<1>1. /\ \A h \in Conn : h # g => writer'[h] = writer[h]
      /\ UNCHANGED <<storeVars, conn, current, up, reader, calls, toKeyholder, peerFilter, refused, late>>
  BY WriterEffect DEF Invariants
<1>2. Pipeline /\ FilterInv /\ Typed /\ ConnInv /\ current \in Conn
  BY <1>1, CurrentIsConn DEF Invariants, Ordered, Pipeline
<1>3. UNCHANGED <<Back, Held>>
  BY <1>1 DEF Back, Reply, Held
<1>4. writer \in [Conn -> WriterType]
  BY <1>2 DEF Typed, WritersTyped, WriterType
<1>5. ASSUME Write(g), conn = 0 PROVE Pipeline' /\ FilterInv'
  <2>1. UNCHANGED <<writer, results, toPeer>>
    BY <1>5 DEF Write
  <2>2. current \notin up
    BY <1>2, <1>5, UpIsCurrent DEF Conn
  <2>3. IsBusy(g)
    BY <1>5 DEF Write, IsBusy
  <2>4. toPeer[current] = <<>> /\ ~Back /\ ~Held /\ ~Ready
    BY <1>2, <2>3 DEF Pipeline, WriterInv
  <2>5. UNCHANGED Ready
    BY <1>1, <2>1 DEF Ready
  <2>6. WriterInv'
    BY <1>1, <1>2, <1>3, <2>1, <2>2, <2>4, <2>5 DEF Pipeline, WriterInv, IsBusy
  <2>7. PeerInv' /\ ReplyInv' /\ ResultInv'
    BY <1>1, <1>2, <1>3, <2>1, <2>4, <2>5 DEF Pipeline, PeerInv, ReplyInv, ResultInv, Back, Reply
  <2> QED
    BY <1>1, <2>2, <2>6, <2>7 DEF Pipeline, FilterInv
<1>6. ASSUME Write(g), conn # 0 PROVE Pipeline' /\ FilterInv'
  <2> DEFINE w == [writer[g] EXCEPT !.pc = "writing", !.chan = conn]
  <2>1. writer' = [writer EXCEPT ![g] = w] /\ UNCHANGED <<call, results, toPeer>> /\ IsBusy(g)
    BY <1>6 DEF Write, IsBusy
  <2>2. conn = current
    BY <1>2, <1>6 DEF Typed, CallsTyped
  <2>3. w.pc = "writing" /\ w.chan = current /\ w.msg = writer[g].msg
    BY <1>4, <2>2 DEF WriterType
  <2> HIDE DEF w
  <2>4. writer'[g].pc = "writing" /\ writer'[g].chan = current /\ writer'[g].msg = writer[g].msg
    BY <1>4, <2>1, <2>3
  <2>5. UNCHANGED Ready
    BY <1>1, <2>1 DEF Ready
  <2>6. \A h \in Conn : IsBusy(h)' <=> IsBusy(h)
    BY <1>1, <2>1, <2>4 DEF IsBusy
  <2>7. \A m : Asked(m) => Asked(m)'
    BY <1>1, <2>1 DEF Asked, storeVars
  <2>8. WriterInv'
    <3>1. \A h \in Conn : (writer[h].msg)' = writer[h].msg
      BY <1>1, <2>4
    <3> QED
      BY <1>1, <1>2, <1>3, <2>1, <2>4, <2>5, <2>6, <2>7, <3>1 DEF Pipeline, WriterInv
  <2>9. PeerInv' /\ ReplyInv' /\ ResultInv'
    BY <1>1, <1>2, <1>3, <2>1, <2>5, <2>7 DEF Pipeline, PeerInv, ReplyInv, ResultInv, Reply
  <2> QED
    BY <1>1, <1>2, <1>3, <2>1, <2>5, <2>8, <2>9, FilterFrame DEF Pipeline, storeVars
<1>7. ASSUME Written(g) PROVE Pipeline' /\ FilterInv'
  <2>1. writer[g].pc = "writing" /\ IsBusy(g) /\ UNCHANGED <<results, call>>
    BY <1>7 DEF Written, IsBusy
  <2>2. /\ writer[g].chan = current /\ toPeer[current] = <<>> /\ ~Back /\ ~Held /\ ~Ready
        /\ current \in up => /\ call.pc = "await" /\ Asked(writer[g].msg)
                             /\ \A h \in Conn : IsBusy(h) => h = g
    BY <1>2, <2>1 DEF Pipeline, WriterInv
  <2>3. UNCHANGED Ready
    BY <1>1, <2>1 DEF Ready
  <2>4. /\ writer'[g].pc \in {"select", "put"}
        /\ writer'[g].pc = "put" => current \notin up
    <3> DEFINE w == [NoWriter EXCEPT !.pc = "put", !.chan = current]
    <3>1. w.pc = "put" /\ Selecting.pc = "select"
      BY DEF NoWriter, Selecting
    <3>2. \/ writer' = [writer EXCEPT ![g] = Selecting]
          \/ writer' = [writer EXCEPT ![g] = w] /\ current \notin up
      BY <1>7, <2>2 DEF Written
    <3> HIDE DEF w
    <3> QED
      BY <1>4, <3>1, <3>2
  <2>5. \A h \in Conn : IsBusy(h)' <=> IsBusy(h) /\ h # g
    BY <1>1, <2>4 DEF IsBusy
  <2>6. IF current \in up THEN toPeer'[current] \in {<<>>, <<writer[g].msg>>} ELSE toPeer'[current] = <<>>
    <3>1. toPeer' \in {toPeer, [toPeer EXCEPT ![current] = Append(@, writer[g].msg)]}
          /\ (current \notin up => toPeer' = toPeer)
      BY <1>7, <2>2 DEF Written
    <3>2. Append(<<>>, writer[g].msg) = <<writer[g].msg>>
      OBVIOUS
    <3> QED
      BY <1>2, <2>2, <3>1, <3>2 DEF Typed, WiresTyped
  <2>7. \A m : Asked(m) => Asked(m)'
    BY <1>1, <2>1 DEF Asked, storeVars
  <2>8. WriterInv'
    <3>1. \A h \in Conn : IsBusy(h)' => current \notin up
      BY <2>2, <2>5
    <3>2. current \notin up => toPeer'[current] = <<>>
      BY <2>6
    <3>3. \A h \in Conn : h # g /\ writer[h].pc = "writing" => writer[h].chan = current
      BY <1>2 DEF Pipeline, WriterInv
    <3>4. \A h \in Conn : h # g /\ writer[h].pc = "put" /\ writer[h].chan = current => current \notin up
      BY <1>2 DEF Pipeline, WriterInv
    <3> QED
      BY <1>1, <1>3, <2>2, <2>3, <2>4, <3>1, <3>2, <3>3, <3>4 DEF WriterInv
  <2>9. PeerInv'
    <3>1. CASE toPeer'[current] = <<>>
      BY <1>1, <3>1 DEF PeerInv
    <3>2. CASE toPeer'[current] # <<>>
      <4>1. current \in up /\ toPeer'[current] = <<writer[g].msg>>
        BY <2>6, <3>2
      <4>2. Len(toPeer'[current]) = 1 /\ toPeer'[current][1] = writer[g].msg
        BY <4>1
      <4>3. Asked(toPeer[current][1])'
        BY <1>1, <2>1, <2>2, <4>1, <4>2 DEF Asked, storeVars
      <4> QED
        BY <1>1, <1>3, <2>1, <2>2, <2>3, <4>1, <4>2, <4>3 DEF PeerInv
    <3> QED
      BY <3>1, <3>2
  <2>10. ReplyInv' /\ ResultInv'
    BY <1>1, <1>2, <1>3, <2>1, <2>3 DEF Pipeline, ReplyInv, ResultInv, Reply
  <2> QED
    BY <1>1, <1>2, <1>3, <2>1, <2>3, <2>8, <2>9, <2>10, FilterFrame DEF Pipeline, storeVars
<1>8. ASSUME PutError(g) PROVE Pipeline' /\ FilterInv'
  <2>1. /\ writer[g].pc = "put" /\ results[writer[g].chan] = <<>> /\ UNCHANGED <<call, toPeer>>
        /\ results' = [results EXCEPT ![writer[g].chan] = <<Error>>]
        /\ writer' = [writer EXCEPT ![g] = Selecting]
    BY <1>8 DEF PutError
  <2>2. writer'[g].pc = "select"
    BY <1>4, <2>1 DEF Selecting, NoWriter
  <2>3. <<Error>> # <<>> /\ Head(<<Error>>) = Error
    OBVIOUS
  <2>4. \/ results'[current] = results[current]
        \/ results'[current] = <<Error>> /\ current \notin up /\ ~Held /\ ~Ready
    BY <1>2, <2>1 DEF Typed, WiresTyped, Pipeline, WriterInv
  <2>5. Ready' => Ready
    BY <1>1, <2>3, <2>4 DEF Ready
  <2>6. WriterInv'
    BY <1>1, <1>2, <1>3, <2>1, <2>2, <2>5 DEF Pipeline, WriterInv, IsBusy, Asked, storeVars
  <2>7. PeerInv' /\ ReplyInv'
    BY <1>1, <1>2, <1>3, <2>1, <2>5 DEF Pipeline, PeerInv, ReplyInv, Reply, Asked, storeVars
  <2>8. ResultInv'
    BY <1>1, <1>2, <1>3, <2>1, <2>3, <2>4 DEF Pipeline, ResultInv, Ready
  <2> QED
    BY <1>1, <1>2, <1>3, <2>1, <2>5, <2>6, <2>7, <2>8, FilterFrame DEF Pipeline, storeVars
<1>9. ASSUME WriterEnds(g) PROVE Pipeline' /\ FilterInv'
  <2>1. writer' = [writer EXCEPT ![g].pc = "gone"] /\ UNCHANGED <<results, call, toPeer>>
    BY <1>9 DEF WriterEnds
  <2>2. writer'[g].pc = "gone"
    BY <1>4, <2>1 DEF WriterType
  <2>3. UNCHANGED Ready
    BY <1>1, <2>1 DEF Ready
  <2>4. WriterInv'
    BY <1>1, <1>2, <1>3, <2>1, <2>2, <2>3 DEF Pipeline, WriterInv, IsBusy, Asked, storeVars
  <2>5. PeerInv' /\ ReplyInv' /\ ResultInv'
    BY <1>1, <1>2, <1>3, <2>1, <2>3 DEF Pipeline, PeerInv, ReplyInv, ResultInv, Reply, Asked, storeVars
  <2> QED
    BY <1>1, <1>2, <1>3, <2>1, <2>3, <2>4, <2>5, FilterFrame DEF Pipeline, storeVars
<1> QED
  BY <1>5, <1>6, <1>7, <1>8, <1>9 DEF WriterStep

\* Only the reader of the newest connection takes a step.
LEMMA ReaderKeepsOrdered ==
    ASSUME Invariants, NEW g \in Conn, ReaderStep(g)
    PROVE  Ordered'
<1> SUFFICES ASSUME ~late', current' # 0 PROVE Pipeline' /\ FilterInv'
  BY DEF Ordered, Pipeline
<1>1. UNCHANGED <<storeVars, current, up, writer, call, calls, toPeer, peerFilter, refused, late>>
  BY ReaderEffect DEF Invariants
<1>2. Pipeline /\ FilterInv /\ Typed /\ ConnInv /\ current \in Conn
  BY <1>1, CurrentIsConn DEF Invariants, Ordered, Pipeline
<1>3. g = current
  BY <1>2, UpIsCurrent DEF ReaderStep, Read, ReadFails, PutResult, CloseChannel, ClearConn
<1>4. reader \in [Conn -> ReaderType]
  BY <1>2 DEF Typed, ReadersTyped, ReaderType
<1>5. \A m : Asked(m) => Asked(m)'
  BY <1>1 DEF Asked, storeVars
<1>6. ASSUME UNCHANGED toKeyholder, UNCHANGED results, ~Held' PROVE Pipeline' /\ FilterInv'
  <2>1. UNCHANGED <<Back, Ready>>
    BY <1>1, <1>6 DEF Back, Reply, Ready
  <2>2. WriterInv' /\ PeerInv'
    BY <1>1, <1>2, <1>5, <1>6, <2>1 DEF Pipeline, WriterInv, PeerInv, IsBusy
  <2>3. ReplyInv' /\ ResultInv'
    BY <1>1, <1>2, <1>6, <2>1 DEF Pipeline, ReplyInv, ResultInv, Reply
  <2> QED
    BY <1>1, <1>2, <1>6, <2>1, <2>2, <2>3, FilterFrame DEF Pipeline, storeVars
<1>7. ASSUME Read(g) PROVE Pipeline' /\ FilterInv'
  <2> DEFINE s == toKeyholder[current]
             a == Head(s)
             r == [pc |-> "put", result |-> Answer(a), on |-> "read"]
  <2>1. /\ reader[current].pc = "read" /\ s # <<>> /\ UNCHANGED results
        /\ reader' = [reader EXCEPT ![current] = IF IsResult(a.type) THEN r ELSE @]
        /\ toKeyholder' = [toKeyholder EXCEPT ![current] = Tail(@)]
    BY <1>3, <1>7 DEF Read
  <2>2. /\ s \in Seq(Replies) /\ Len(s) \in Nat /\ Len(s) >= 1 /\ a = s[1]
        /\ toKeyholder'[current] = Tail(s) /\ Len(Tail(s)) = Len(s) - 1
        /\ \A i \in 1..Len(Tail(s)) : Tail(s)[i] = s[i+1] /\ i + 1 \in 1..Len(s) /\ i + 1 # 1
    <3>1. s \in Seq(Replies)
      BY <1>2 DEF Typed, WiresTyped
    <3>2. toKeyholder'[current] = Tail(s)
      BY <1>2, <2>1 DEF Typed, WiresTyped
    <3> HIDE DEF s
    <3> QED
      BY <2>1, <3>1, <3>2
  <2>3. r.pc = "put" /\ r.result # Error /\ r.result.call = a.call
    BY <1>2, <2>1, AnswerIsNoError DEF Answer
  <2>4. IsResult(a.type) => a.type # "push_representation"
    BY DEF IsResult, Handled
  <2>5. current \in up
    BY <1>2, <2>1 DEF ConnInv
  <2>6. UNCHANGED Ready
    BY <1>1, <2>1 DEF Ready
  <2>7. ~Held
    BY <2>1 DEF Held
  <2> HIDE DEF s, a, r
  <2>8. ASSUME IsResult(a.type) PROVE Pipeline' /\ FilterInv'
    <3>1. Reply(current, 1) /\ 1 \in 1..Len(toKeyholder[current])
      BY <2>2, <2>4, <2>8 DEF Reply, s
    <3>2. /\ call.pc = "await" /\ a.call = calls /\ ~Ready
          /\ \A j \in 1..Len(toKeyholder[current]) : Reply(current, j) => 1 = j
      BY <1>2, <2>2, <3>1 DEF Pipeline, ReplyInv, s
    <3>3. Back
      BY <3>1 DEF Back
    <3>4. toPeer[current] = <<>> /\ \A h \in Conn : ~IsBusy(h) /\ ~(writer[h].pc = "put" /\ writer[h].chan = current)
      BY <1>2, <2>5, <3>3 DEF Pipeline, PeerInv, WriterInv
    <3>5. \A i \in 1..Len(toKeyholder'[current]) : ~Reply(current, i)'
      <4> SUFFICES ASSUME NEW i \in 1..Len(Tail(s)) PROVE Tail(s)[i].type = "push_representation"
        BY <1>1, <2>2 DEF Reply
      <4>1. i + 1 \in 1..Len(toKeyholder[current]) /\ i + 1 # 1
        BY <2>2 DEF s
      <4>2. ~Reply(current, i + 1)
        BY <3>2, <4>1
      <4> QED
        BY <2>2, <4>2 DEF Reply, s
    <3>6. ~Back'
      BY <1>1, <3>5 DEF Back
    <3>7. reader'[current] = r
      BY <1>2, <1>4, <2>1, <2>8
    <3>8. WriterInv'
      BY <1>1, <1>2, <2>5, <3>4 DEF Pipeline, WriterInv, IsBusy
    <3>9. PeerInv'
      BY <1>1, <1>2, <3>4 DEF Pipeline, PeerInv
    <3>10. ReplyInv'
      BY <1>1, <2>3, <2>6, <3>2, <3>5, <3>7 DEF ReplyInv
    <3>11. ResultInv'
      BY <1>1, <1>2, <2>1, <2>5, <2>6, <3>2 DEF Pipeline, ResultInv
    <3>12. FilterInv'
      BY <1>1, <1>2, <3>3 DEF FilterInv, storeVars, Expected, Stored
    <3> QED
      BY <3>8, <3>9, <3>10, <3>11, <3>12 DEF Pipeline
  <2>9. ASSUME ~IsResult(a.type) PROVE Pipeline' /\ FilterInv'
    <3>1. reader'[current] = reader[current]
      BY <1>2, <1>4, <2>1, <2>9
    <3>2. ~Held'
      BY <1>1, <2>7, <3>1 DEF Held
    <3>3. ASSUME NEW i \in 1..Len(toKeyholder'[current]), Reply(current, i)'
          PROVE  i + 1 \in 1..Len(toKeyholder[current]) /\ Reply(current, i + 1)
                 /\ toKeyholder'[current][i] = toKeyholder[current][i+1]
      BY <1>1, <2>2, <3>3 DEF Reply, s
    <3>4. Back' => Back
      <4> SUFFICES ASSUME NEW i \in 1..Len(toKeyholder'[current]), Reply(current, i)' PROVE Back
        BY <1>1 DEF Back
      <4> QED
        BY <3>3 DEF Back
    <3>5. WriterInv' /\ PeerInv'
      BY <1>1, <1>2, <1>5, <2>6, <3>2, <3>4 DEF Pipeline, WriterInv, PeerInv, IsBusy
    <3>6. ReplyInv'
      <4> SUFFICES ASSUME NEW i \in 1..Len(toKeyholder'[current]), Reply(current, i)'
                   PROVE  /\ call.pc = "await" /\ toKeyholder'[current][i].call = calls /\ ~Ready
                          /\ \A j \in 1..Len(toKeyholder'[current]) : Reply(current, j)' => i = j
        BY <1>1, <2>6, <3>2 DEF ReplyInv
      <4>1. /\ i + 1 \in 1..Len(toKeyholder[current]) /\ Reply(current, i + 1)
            /\ toKeyholder'[current][i] = toKeyholder[current][i+1]
        BY <3>3
      <4>2. /\ call.pc = "await" /\ toKeyholder[current][i+1].call = calls /\ ~Ready
            /\ \A j \in 1..Len(toKeyholder[current]) : Reply(current, j) => i + 1 = j
        BY <1>2, <4>1 DEF Pipeline, ReplyInv
      <4>3. ASSUME NEW j \in 1..Len(toKeyholder'[current]), Reply(current, j)' PROVE i = j
        <5>1. j + 1 \in 1..Len(toKeyholder[current]) /\ Reply(current, j + 1)
          BY <3>3, <4>3
        <5>2. i + 1 = j + 1
          BY <4>2, <5>1
        <5>3. i \in Nat /\ j \in Nat
          BY <2>2
        <5> QED
          BY <5>2, <5>3
      <4> QED
        BY <4>1, <4>2, <4>3
    <3>7. ResultInv'
      BY <1>1, <1>2, <2>1, <2>6, <3>2 DEF Pipeline, ResultInv
    <3> QED
      BY <1>1, <1>2, <2>6, <3>2, <3>4, <3>5, <3>6, <3>7, FilterFrame DEF Pipeline, storeVars
  <2> QED
    BY <2>8, <2>9
<1>8. ASSUME ReadFails(g) PROVE Pipeline' /\ FilterInv'
  <2> DEFINE r == [pc |-> "put", result |-> Error, on |-> "close"]
  <2>1. reader' = [reader EXCEPT ![current] = r] /\ UNCHANGED <<results, toKeyholder>>
    BY <1>3, <1>8 DEF ReadFails
  <2>2. r.result = Error
    OBVIOUS
  <2> HIDE DEF r
  <2>3. ~Held'
    BY <1>1, <1>2, <1>4, <2>1, <2>2 DEF Held
  <2> QED
    BY <1>6, <2>1, <2>3
<1>9. ASSUME PutResult(g) PROVE Pipeline' /\ FilterInv'
  <2> DEFINE r == [NoReader EXCEPT !.pc = reader[current].on]
             x == reader[current].result
  <2>1. /\ reader[current].pc = "put" /\ results[current] = <<>> /\ UNCHANGED toKeyholder
        /\ results' = [results EXCEPT ![current] = <<x>>]
        /\ reader' = [reader EXCEPT ![current] = r]
    BY <1>3, <1>9 DEF PutResult
  <2>2. x \in Results /\ reader[current].on \in {"read", "close"}
    BY <1>2, <2>1 DEF Typed, ReadersTyped
  <2>3. r.pc # "put"
    BY <2>2 DEF NoReader
  <2> HIDE DEF r
  <2>4. ~Held'
    BY <1>1, <1>2, <1>4, <2>1, <2>3 DEF Held
  <2>5. results'[current] = <<x>> /\ <<x>> # <<>> /\ Head(<<x>>) = x
    BY <1>2, <2>1 DEF Typed, WiresTyped
  <2>6. Held <=> x # Error
    BY <2>1 DEF Held
  <2>7. Ready' <=> Held
    BY <1>1, <2>5, <2>6 DEF Ready
  <2>8. UNCHANGED Back
    BY <1>1, <2>1 DEF Back, Reply
  <2>9. Held => /\ call.pc = "await" /\ x.call = calls /\ toPeer[current] = <<>> /\ ~Back
                /\ \A h \in Conn : ~IsBusy(h) /\ ~(writer[h].pc = "put" /\ writer[h].chan = current)
    BY <1>2 DEF Pipeline, ReplyInv, PeerInv, WriterInv, Back
  <2>10. ~Held => current \notin up
    BY <1>2, <2>1, <2>6 DEF ConnInv
  <2> HIDE DEF x
  <2>11. WriterInv'
    BY <1>1, <1>2, <1>5, <2>4, <2>7, <2>8, <2>9 DEF Pipeline, WriterInv, IsBusy
  <2>12. PeerInv'
    BY <1>1, <1>2, <1>5, <2>4, <2>7, <2>8, <2>9 DEF Pipeline, PeerInv
  <2>13. ReplyInv'
    BY <1>1, <1>2, <2>1, <2>4, <2>7, <2>9 DEF Pipeline, ReplyInv, Reply, Back
  <2>14. ResultInv'
    BY <1>1, <2>4, <2>5, <2>6, <2>7, <2>9, <2>10 DEF ResultInv
  <2>15. FilterInv'
    BY <1>1, <1>2, <2>4, <2>7, <2>8, FilterFrame DEF storeVars
  <2> QED
    BY <2>11, <2>12, <2>13, <2>14, <2>15 DEF Pipeline
<1>10. ASSUME CloseChannel(g) \/ ClearConn(g) PROVE Pipeline' /\ FilterInv'
  <2>1. UNCHANGED <<results, toKeyholder>> /\ reader'[current].pc \in {"clear", "gone"}
    BY <1>2, <1>3, <1>4, <1>10 DEF CloseChannel, ClearConn, ReaderType
  <2>2. ~Held'
    BY <1>1, <2>1 DEF Held
  <2> QED
    BY <1>6, <2>1, <2>2
<1> QED
  BY <1>7, <1>8, <1>9, <1>10 DEF ReaderStep

LEMMA PeerKeepsOrdered ==
    ASSUME Invariants, NEW g \in Conn,
           Handle(g) \/ Lose(g) \/ \E k \in Key : Relay(g, k)
    PROVE  Ordered'
<1> SUFFICES ASSUME ~late', current' # 0 PROVE Pipeline' /\ FilterInv'
  BY DEF Ordered, Pipeline
<1>1. UNCHANGED <<storeVars, current, results, writer, reader, call, calls, late>>
  BY DEF Handle, Lose, Relay, PeerOnly
<1>2. Pipeline /\ FilterInv /\ Typed /\ ConnInv /\ KeyInv /\ current \in Conn
  BY <1>1, CurrentIsConn DEF Invariants, Ordered, Pipeline
<1>3. g = current /\ g \in up
  BY <1>2, UpIsCurrent DEF Handle, Lose, Relay
<1>4. UNCHANGED <<Held, Ready>>
  BY <1>1 DEF Held, Ready
<1>5. \A m : Asked(m) => Asked(m)'
  BY <1>1 DEF Asked, storeVars
<1>6. ASSUME Handle(g) PROVE Pipeline' /\ FilterInv'
  <2>0. PICK err \in BOOLEAN :
          /\ toKeyholder' = [toKeyholder EXCEPT ![g] =
               Append(@, [type |-> AnswerType[Head(toPeer[g]).request], call |-> Head(toPeer[g]).call, err |-> err])]
          /\ IF Head(toPeer[g]).request = "filter_load"
             THEN /\ peerFilter' = IF err THEN peerFilter ELSE [peerFilter EXCEPT ![g] = Head(toPeer[g]).keys]
                  /\ refused' = IF err THEN refused \cup {g} ELSE refused \ {g}
             ELSE UNCHANGED <<peerFilter, refused>>
    BY <1>6 DEF Handle
  <2> DEFINE m == Head(toPeer[current])
             a == [type |-> AnswerType[m.request], call |-> m.call, err |-> err]
             s == toKeyholder[current]
  <2>1. /\ toPeer[current] # <<>> /\ UNCHANGED up
        /\ toPeer' = [toPeer EXCEPT ![current] = Tail(@)]
        /\ toKeyholder' = [toKeyholder EXCEPT ![current] = Append(@, a)]
        /\ IF m.request = "filter_load"
           THEN (err /\ current \in refused') \/ peerFilter' = [peerFilter EXCEPT ![current] = m.keys]
           ELSE UNCHANGED <<peerFilter, refused>>
    BY <1>3, <1>6, <2>0 DEF Handle, PeerOnly
  <2>2. m \in Messages /\ m = toPeer[current][1]
    BY <1>2, <2>1, Taking DEF Typed, WiresTyped
  <2>3. /\ call.pc = "await" /\ Asked(m) /\ ~Back /\ ~Held /\ ~Ready /\ Len(toPeer[current]) <= 1
    BY <1>2, <2>1, <2>2 DEF Pipeline, PeerInv
  <2>4. toPeer'[current] = <<>>
    BY <1>2, <2>1, <2>3 DEF Typed, WiresTyped
  <2>5. a.type # "push_representation" /\ a.call = calls
    BY <2>2, <2>3 DEF Messages, Request, AnswerType, Asked
  <2>6. \A h \in Conn : ~IsBusy(h) /\ ~(writer[h].pc = "put" /\ writer[h].chan = current)
    BY <1>2, <1>3, <2>1 DEF Pipeline, WriterInv
  <2>7. IF m.request = "filter_load"
        THEN \/ current \in refused'
             \/ peerFilter'[current] = filter /\ filter # None /\ Expected \subseteq filter
        ELSE UNCHANGED <<peerFilter, refused>>
    BY <1>2, <2>1, <2>3, KeyholderAssumption DEF Asked, KeyInv, FilterHasKeys, Typed, WiresTyped
  <2>8. m.request = Head(call.todo)
    BY <2>3 DEF Asked
  <2>9. FilterInv'
    BY <1>1, <1>2, <1>3, <2>7, <2>8 DEF FilterInv, storeVars, Expected, Stored
  <2> HIDE DEF m, a
  <2>10. /\ s \in Seq(Replies) /\ toKeyholder'[current] = Append(s, a)
    BY <1>2, <2>1 DEF Typed, WiresTyped
  <2>11. \A i \in 1..Len(s) : s[i].type = "push_representation"
    BY <2>3 DEF Back, Reply
  <2> HIDE DEF s
  <2>12. /\ \A i \in 1..Len(toKeyholder'[current]) :
              i = Len(s) + 1 \/ toKeyholder'[current][i].type = "push_representation"
         /\ Len(s) + 1 \in 1..Len(toKeyholder'[current]) /\ toKeyholder'[current][Len(s)+1] = a
    BY <2>10, <2>11
  <2>13. WriterInv'
    BY <1>1, <1>2, <2>6 DEF Pipeline, WriterInv, IsBusy
  <2>14. PeerInv'
    BY <1>1, <2>4 DEF PeerInv
  <2>15. ReplyInv'
    BY <1>1, <1>4, <2>3, <2>5, <2>12 DEF ReplyInv, Reply
  <2>16. ResultInv'
    BY <1>1, <1>2, <1>4, <2>1 DEF Pipeline, ResultInv
  <2> QED
    BY <2>9, <2>13, <2>14, <2>15, <2>16 DEF Pipeline
<1>7. ASSUME NEW k \in Key, Relay(g, k) PROVE Pipeline' /\ FilterInv'
  <2> DEFINE a == [type |-> "push_representation", call |-> 0, err |-> FALSE]
             s == toKeyholder[current]
  <2>1. /\ UNCHANGED <<up, toPeer, peerFilter, refused>>
        /\ toKeyholder' = [toKeyholder EXCEPT ![current] = Append(@, a)]
    BY <1>3, <1>7 DEF Relay, PeerOnly
  <2>2. a.type = "push_representation"
    OBVIOUS
  <2>3. s \in Seq(Replies)
    BY <1>2 DEF Typed, WiresTyped
  <2> HIDE DEF a
  <2>4. toKeyholder'[current] = Append(s, a)
    BY <1>2, <2>1 DEF Typed, WiresTyped
  <2>5. ASSUME NEW i \in 1..Len(toKeyholder'[current]), Reply(current, i)'
        PROVE  i \in 1..Len(toKeyholder[current]) /\ toKeyholder'[current][i] = toKeyholder[current][i]
    <3> HIDE DEF s
    <3>1. i \in 1..Len(s) + 1 /\ (i \in 1..Len(s) => Append(s, a)[i] = s[i]) /\ Append(s, a)[Len(s) + 1] = a
      BY <2>3, <2>4
    <3>2. i # Len(s) + 1
      BY <1>1, <2>2, <2>4, <2>5, <3>1 DEF Reply
    <3>3. i \in 1..Len(s)
      BY <2>3, <3>1, <3>2
    <3> QED
      BY <2>4, <3>1, <3>3 DEF s
  <2>6. \A i \in 1..Len(toKeyholder'[current]) : Reply(current, i)' => i \in 1..Len(toKeyholder[current]) /\ Reply(current, i)
    BY <1>1, <2>5 DEF Reply
  <2>7. Back' => Back
    BY <1>1, <2>6 DEF Back
  <2>8. WriterInv' /\ PeerInv'
    BY <1>1, <1>2, <1>4, <1>5, <2>1, <2>7 DEF Pipeline, WriterInv, PeerInv, IsBusy
  <2>9. ReplyInv'
    BY <1>1, <1>2, <1>4, <2>5, <2>6 DEF Pipeline, ReplyInv
  <2>10. ResultInv'
    BY <1>1, <1>2, <1>4, <2>1 DEF Pipeline, ResultInv
  <2> QED
    BY <1>1, <1>2, <1>4, <2>1, <2>7, <2>8, <2>9, <2>10, FilterFrame DEF Pipeline, storeVars
<1>8. ASSUME Lose(g) PROVE Pipeline' /\ FilterInv'
  <2>1. Pipeline' /\ current \notin up'
    BY <1>1, <1>2, <1>3, <1>8, CutKeepsPipeline, CutTyped DEF Lose, storeVars
  <2> QED
    BY <1>1, <2>1 DEF FilterInv
<1> QED
  BY <1>6, <1>7, <1>8

----------------------------------------------------------------------------
(* The theorems *)

LEMMA InvariantsHold == Spec => []Invariants
<1>1. Init => Invariants
  BY TypedInit, ConnInvInit, KeyInvInit DEF Invariants, Ordered, Init
<1>2. ASSUME Invariants, [Next]_vars PROVE Invariants'
  <2>1. KeyInv'
    BY <1>2, KeyInvNext DEF Invariants
  <2>2. ASSUME \/ \E todo \in Command : Start(todo)
               \/ \E new \in SUBSET Generated : GenerateKeys(new)
               \/ \E k \in Imported : ImportKey(k)
               \/ Quit \/ SendPanics \/ TakeResult \/ Ended
        PROVE  Invariants'
    BY <1>2, <2>1, <2>2, CommandTyped, CommandKeepsConnInv, CommandKeepsOrdered DEF Invariants
  <2>3. ASSUME NEW p \in Passphrase, Restart(p) PROVE Invariants'
    <3>1. Ordered'
      BY <2>3 DEF Restart, Ordered
    <3> QED
      BY <1>2, <2>1, <2>3, <3>1, RestartTyped, CommandKeepsConnInv DEF Invariants
  <2>4. ASSUME NEW g \in Conn, Send(g) PROVE Invariants'
    BY <1>2, <2>1, <2>4, SendEffect, CommandKeepsConnInv, SendKeepsOrdered DEF Invariants
  <2>5. ASSUME NEW g \in Conn, WriterStep(g) PROVE Invariants'
    BY <1>2, <2>1, <2>5, WriterEffect, WriterKeepsConnInv, WriterKeepsOrdered DEF Invariants
  <2>6. ASSUME NEW g \in Conn, ReaderStep(g) PROVE Invariants'
    BY <1>2, <2>1, <2>6, ReaderEffect, ReaderKeepsConnInv, ReaderKeepsOrdered DEF Invariants
  <2>7. ASSUME NEW g \in Conn, Handle(g) \/ Lose(g) \/ \E k \in Key : Relay(g, k) PROVE Invariants'
    BY <1>2, <2>1, <2>7, PeerTyped, PeerKeepsConnInv, PeerKeepsOrdered DEF Invariants
  <2>8. ASSUME UNCHANGED vars PROVE Invariants'
    <3>1. UNCHANGED <<storeVars, conn, current, up, closed, results, writer, reader, call, calls, toPeer, toKeyholder, peerFilter, refused, late>>
      BY <2>8 DEF vars, connVars
    <3>2. Typed'
      BY <1>2, <3>1 DEF Invariants, Typed, CallsTyped, WritersTyped, ReadersTyped, WiresTyped, IsBusy
    <3>3. ConnInv'
      BY <1>2, <3>1 DEF Invariants, ConnInv
    <3>4. Ordered'
      BY <1>2, <3>1 DEF Invariants, Ordered, WriterInv, PeerInv, ReplyInv, ResultInv, FilterInv,
                        Back, Held, Ready, Reply, Asked, IsBusy, storeVars, Expected, Stored
    <3> QED
      BY <2>1, <3>2, <3>3, <3>4 DEF Invariants
  <2> QED
    BY <1>2, <2>2, <2>3, <2>4, <2>5, <2>6, <2>7, <2>8 DEF Next, CommandStep
<1> QED
  BY <1>1, <1>2, PTL DEF Spec

(* A command takes the answer to its own request, or an error of a lost    *)
(* connection, whatever is lost, relayed and asked in which order, unless  *)
(* it connected while a writer was busy.                                   *)
THEOREM AnswersStayOwn == Spec => []AnswersAreOwn
<1>1. Invariants => AnswersAreOwn
  <2> SUFFICES ASSUME Invariants, call.pc = "await", results[current] # <<>>, ~late
               PROVE  LET r == Head(results[current])
                      IN  IF r = Error THEN current \notin up ELSE r.call = calls
    BY DEF AnswersAreOwn
  <2>1. CASE current # 0
    BY <2>1 DEF Invariants, Ordered, ResultInv, Ready
  <2>2. current # 0
    BY DEF Invariants, Typed, CallsTyped
  <2> QED
    BY <2>1, <2>2
<1> QED
  BY <1>1, InvariantsHold, PTL

(* Between two commands the peer looks for every key the filter should     *)
(* have, unless it refused the last one it was sent, whatever it refused,  *)
(* relayed and lost before.                                                *)
THEOREM PeerKeepsKeys == Spec => []PeerHasKeys
<1>1. Invariants => PeerHasKeys
  <2> SUFFICES ASSUME Invariants, call.pc = "idle", conn \in up \ refused, ~late
               PROVE  peerFilter[conn] # None /\ Expected \subseteq peerFilter[conn]
    BY DEF PeerHasKeys
  <2>1. conn = current /\ current # 0 /\ current \in up
    BY UpIsCurrent DEF Invariants, Conn
  <2> QED
    BY <2>1 DEF Invariants, Ordered, FilterInv
<1> QED
  BY <1>1, InvariantsHold, PTL

(* The variables keep their types. *)
THEOREM KeyholderTypeCorrect == Spec => []TypeOK
<1>1. Invariants => TypeOK
  <2> SUFFICES ASSUME Invariants PROVE TypeOK
    OBVIOUS
  <2>1. newest \in Stored \cup {None}
    BY KeyStoreAssumption DEF Invariants, KeyInv, NewestGuards, Stored
  <2>2. call.pc \in {"idle", "send", "await", "quit", "ended", "panic"} /\ call.todo \in Seq(Request)
    BY DEF Invariants, Typed, CallsTyped, Calls
  <2>3. ASSUME NEW c \in Conn
        PROVE  /\ Len(results[c]) <= 1
               /\ writer[c].pc \in {"none", "select", "write", "writing", "put", "gone"}
               /\ reader[c].pc \in {"none", "read", "put", "close", "clear", "gone"}
               /\ peerFilter[c] = None \/ peerFilter[c] \subseteq Key
    BY DEF Invariants, Typed, WritersTyped, ReadersTyped, WiresTyped
  <2> QED
    BY <2>1, <2>2, <2>3 DEF TypeOK, Invariants, KeyInv, Typed, CallsTyped
<1> QED
  BY <1>1, InvariantsHold, PTL
=============================================================================
