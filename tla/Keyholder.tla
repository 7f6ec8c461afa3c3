----------------------------- MODULE Keyholder -----------------------------
(***************************************************************************)
(* A keyholder and the peer that answers it.  Commands run one at a time.  *)
(* A command that needs the peer connects first, and then makes its calls: *)
(* a call hands its request to the writer goroutine over outChan and takes *)
(* the next result from resultChan, which holds one.  Requests carry no    *)
(* number: answers are matched by their order.                             *)
(*                                                                         *)
(* A connection, its two channels and its two goroutines are named by the  *)
(* number of the connection.  The goroutines use the fields of the         *)
(* keyholder each time, and these change when it connects again.           *)
(***************************************************************************)
EXTENDS KeyStore, Sequences

CONSTANTS
    Command,     \* the sequences of requests of the user's commands
    MaxConn,     \* bound: connections
    MaxCall,     \* bound: calls
    MaxPush      \* bound: representations on their way

\* What the peer answers to a request.  It knows no get_rankings.
AnswerType ==
    [get_profile |-> "profile", get_graph |-> "graph", get_ranking |-> "ranking",
     get_imbalance |-> "imbalance", get_imbalances |-> "imbalances",
     get_public_key_representations |-> "public_key_representations",
     get_representation |-> "representation", get_tip_header |-> "tip_header",
     push_representation |-> "push_representation_result",
     filter_load |-> "filter_result", filter_add |-> "filter_result"]

Request == DOMAIN AnswerType

\* The requests whose answer can hold an error that ends the call with it.
Fallible ==
    {"filter_load", "filter_add", "push_representation", "get_public_key_representations",
     "get_tip_header"}

ASSUME KeyholderAssumption ==
    /\ Command \subseteq Seq(Request)
    /\ \A keys \in SUBSET Key : keys # None
    /\ {MaxConn, MaxCall, MaxPush} \subseteq Nat

\* The types of message the keyholder's reader hands on as a result.
Handled ==
    {"imbalance", "ranking", "graph", "tip_header", "representation_relay_policy",
     "push_representation_result", "representation", "public_key_representations",
     "filter_result"}

\* Mutant of IsResult: so are the representations the peer relays.
IsResultOrPush(type) == type \in Handled \cup {"push_representation"}

IsResult(type) == type \in Handled

Conn == 1..MaxConn

VARIABLES
    conn,        \* w.conn, 0 for nil
    current,     \* the connection whose channels the fields hold
    up,          \* connections that are open
    closed,      \* connections whose outChan is closed
    results,     \* resultChan of each
    writer, reader,
    call,        \* the command line
    calls,       \* calls made
    toPeer, toKeyholder,   \* what is on its way on each connection
    peerFilter,  \* the filter the peer has for each, or None
    refused,     \* history: connections whose last filter the peer refused
    late         \* history: it connected while a writer was busy with a message

connVars == <<conn, current, up, closed, results, writer, reader, call, calls,
              toPeer, toKeyholder, peerFilter, refused, late>>
vars == <<storeVars, connVars>>

\* todo: the requests of the command that are left, the first one being made.
Idle == [pc |-> "idle", todo |-> <<>>]

\* A writer waits on a channel, has taken a message, writes it to a
\* connection, and hands an error to a channel.
NoWriter == [pc |-> "none", chan |-> 0, msg |-> None]
\* A reader hands a result to a channel; on is where it goes on.
NoReader == [pc |-> "none", result |-> None, on |-> None]

Error == [err |-> TRUE, call |-> 0]
Answer(m) == [err |-> m.err, call |-> m.call]

Init ==
    /\ KeyStoreInit
    /\ conn = 0 /\ current = 0
    /\ up = {} /\ closed = {}
    /\ results = [c \in Conn |-> <<>>]
    /\ writer = [c \in Conn |-> NoWriter]
    /\ reader = [c \in Conn |-> NoReader]
    /\ call = Idle /\ calls = 0
    /\ toPeer = [c \in Conn |-> <<>>]
    /\ toKeyholder = [c \in Conn |-> <<>>]
    /\ peerFilter = [c \in Conn |-> None] /\ refused = {}
    /\ late = FALSE

----------------------------------------------------------------------------
(* The command line *)

CommandOnly == UNCHANGED <<conn, up, closed, writer, reader, toPeer, toKeyholder, peerFilter, refused, late>>

\* The calls of a command are made one after the other.
Make(todo) == IF todo = <<>> THEN Idle ELSE [pc |-> "send", todo |-> todo]

\* The writer has taken a message and has not written it or reported that it could not.
IsBusy(g) == writer[g].pc \in {"write", "writing"}

\* connectKeyholder: both goroutines are started and the filter is set.
Connect ==
    /\ current < MaxConn
    /\ LET c == current + 1
       IN  /\ conn' = c /\ current' = c
           /\ up' = up \cup {c}
           /\ writer' = [writer EXCEPT ![c] = [NoWriter EXCEPT !.pc = "select", !.chan = c]]
           /\ reader' = [reader EXCEPT ![c].pc = "read"]
    /\ late' = (late \/ \E g \in Conn : IsBusy(g))
    /\ UNCHANGED <<storeVars, closed, results, calls, toPeer, toKeyholder, peerFilter,
                   refused>>

\* Mutant of Start: a new connection gets no filter.
StartUnfiltered(todo) ==
    /\ call.pc = "idle"
    /\ IF conn # 0
       THEN call' = Make(todo) /\ UNCHANGED <<storeVars, current, results, calls>> /\ CommandOnly
       ELSE Connect /\ call' = Make(todo)

Start(todo) ==
    /\ call.pc = "idle"
    /\ IF conn # 0
       THEN call' = Make(todo) /\ UNCHANGED <<storeVars, current, results, calls>> /\ CommandOnly
       ELSE Connect /\ call' = Make(<<"filter_load">> \o todo)

\* newkey and genkeys; the filter is sent if there is a connection, but not
\* after an error.
GenerateKeys(new) ==
    /\ call.pc = "idle"
    /\ \/ NewKeys(new) /\ call' = IF conn # 0 THEN Make(<<"filter_load">>) ELSE Idle
       \/ NewKeysRefused(new) /\ call' = Idle
    /\ UNCHANGED <<current, results, calls>> /\ CommandOnly

ImportKey(k) ==
    /\ call.pc = "idle"
    /\ AddKey(k)
    /\ UNCHANGED <<current, results, call, calls>> /\ CommandOnly

\* The filter is encoded when the call is made.
Message == [request |-> call.todo[1], call |-> calls + 1, keys |-> filter]

\* The rendezvous with a writer that waits on the channel in the field.
Send(g) ==
    /\ call.pc = "send" /\ current \notin closed
    /\ writer[g].pc = "select" /\ writer[g].chan = current
    /\ writer' = [writer EXCEPT ![g] = [@ EXCEPT !.pc = "write", !.msg = Message]]
    /\ calls < MaxCall /\ calls' = calls + 1
    /\ call' = [call EXCEPT !.pc = "await"]
    /\ UNCHANGED <<storeVars, conn, current, up, closed, results, reader, toPeer, toKeyholder,
                   peerFilter, refused, late>>

\* A send on a closed channel.
SendPanics ==
    /\ call.pc = "send" /\ current \in closed
    /\ call' = [Idle EXCEPT !.pc = "panic"]
    /\ UNCHANGED <<storeVars, current, results, calls>> /\ CommandOnly

\* An error ends the command; an answer to another call may look like one.
TakeResult ==
    /\ call.pc = "await" /\ results[current] # <<>>
    /\ LET r == Head(results[current])
       IN  \/ (r.err \/ r.call # calls) /\ call' = Idle
           \/ ~r.err /\ call' = Make(Tail(call.todo))
    /\ results' = [results EXCEPT ![current] = Tail(@)]
    /\ UNCHANGED <<storeVars, current, calls>> /\ CommandOnly

\* Closing a connection loses what is on its way.
Cut(c) ==
    /\ up' = up \ {c}
    /\ toPeer' = [toPeer EXCEPT ![c] = <<>>]
    /\ toKeyholder' = [toKeyholder EXCEPT ![c] = <<>>]

\* Mutant of Quit: it waits for the goroutines without closing the connection.
QuitOpen ==
    /\ call.pc = "idle"
    /\ call' = [Idle EXCEPT !.pc = "quit"]
    /\ UNCHANGED <<storeVars, current, results, calls>> /\ CommandOnly

\* Shutdown closes the connection and waits for the goroutines.
Quit ==
    /\ call.pc = "idle"
    /\ call' = [Idle EXCEPT !.pc = "quit"]
    /\ IF conn # 0 THEN Cut(conn) ELSE UNCHANGED <<up, toPeer, toKeyholder>>
    /\ UNCHANGED <<storeVars, conn, current, closed, results, writer, reader, calls, peerFilter, refused, late>>

Ended ==
    /\ call.pc = "quit"
    /\ \A c \in Conn : writer[c].pc \in {"none", "gone"} /\ reader[c].pc \in {"none", "gone"}
    /\ call' = [Idle EXCEPT !.pc = "ended"]
    /\ UNCHANGED <<storeVars, current, results, calls>> /\ CommandOnly

\* The keyholder is started again; nothing of its connections is left.
Restart(p) ==
    /\ call.pc \in {"ended", "panic"}
    /\ Open(p)
    /\ conn' = 0 /\ current' = 0
    /\ up' = {} /\ closed' = {}
    /\ results' = [c \in Conn |-> <<>>]
    /\ writer' = [c \in Conn |-> NoWriter] /\ reader' = [c \in Conn |-> NoReader]
    /\ call' = Idle /\ calls' = 0
    /\ toPeer' = [c \in Conn |-> <<>>] /\ toKeyholder' = [c \in Conn |-> <<>>]
    /\ peerFilter' = [c \in Conn |-> None] /\ refused' = {}
    /\ late' = FALSE

CommandStep == (\E g \in Conn : Send(g)) \/ SendPanics \/ TakeResult \/ Ended

----------------------------------------------------------------------------
(* The writer goroutine of connection g *)

WriterOnly == UNCHANGED <<storeVars, conn, current, up, closed, reader, calls, toKeyholder, peerFilter,
                        refused>>

\* The connection is the one in the field, or nil.
Write(g) ==
    /\ writer[g].pc = "write"
    /\ IF conn = 0
       THEN call' = [Idle EXCEPT !.pc = "panic"] /\ UNCHANGED writer
       ELSE /\ writer' = [writer EXCEPT ![g] = [@ EXCEPT !.pc = "writing", !.chan = conn]]
            /\ UNCHANGED call
    /\ UNCHANGED <<results, toPeer, late>>
    /\ WriterOnly

\* The next message is awaited on the channel in the field.
Selecting == [NoWriter EXCEPT !.pc = "select", !.chan = current]

\* A message to a lost connection is lost, with or without an error; the error
\* goes to the channel in the field.
Written(g) ==
    /\ writer[g].pc = "writing"
    /\ \/ writer' = [writer EXCEPT ![g] = Selecting]
          /\ toPeer' = IF writer[g].chan \in up
                       THEN [toPeer EXCEPT ![writer[g].chan] = Append(@, writer[g].msg)]
                       ELSE toPeer
       \/ /\ writer[g].chan \notin up
          /\ writer' = [writer EXCEPT ![g] = [NoWriter EXCEPT !.pc = "put", !.chan = current]]
          /\ UNCHANGED toPeer
    /\ UNCHANGED <<results, call, late>>
    /\ WriterOnly

PutError(g) ==
    /\ writer[g].pc = "put" /\ results[writer[g].chan] = <<>>
    /\ results' = [results EXCEPT ![writer[g].chan] = <<Error>>]
    /\ writer' = [writer EXCEPT ![g] = Selecting]
    /\ UNCHANGED <<call, toPeer, late>>
    /\ WriterOnly

WriterEnds(g) ==
    /\ writer[g].pc = "select" /\ writer[g].chan \in closed
    /\ writer' = [writer EXCEPT ![g].pc = "gone"]
    /\ UNCHANGED <<results, call, toPeer, late>>
    /\ WriterOnly

WriterStep(g) == Write(g) \/ Written(g) \/ PutError(g) \/ WriterEnds(g)

----------------------------------------------------------------------------
(* The reader goroutine of connection g *)

ReaderOnly == UNCHANGED <<storeVars, current, up, writer, call, calls, toPeer, peerFilter, refused, late>>

\* A message that is not a result is for the callbacks, or is ignored.
Read(g) ==
    /\ reader[g].pc = "read" /\ toKeyholder[g] # <<>>
    /\ LET m == Head(toKeyholder[g])
       IN  reader' = [reader EXCEPT ![g] =
                        IF IsResult(m.type)
                        THEN [pc |-> "put", result |-> Answer(m), on |-> "read"]
                        ELSE @]
    /\ toKeyholder' = [toKeyholder EXCEPT ![g] = Tail(@)]
    /\ UNCHANGED <<conn, closed, results>>
    /\ ReaderOnly

\* Mutant of ReadFails: the loop ends without an error.
ReadFailsSilently(g) ==
    /\ reader[g].pc = "read" /\ g \notin up /\ toKeyholder[g] = <<>>
    /\ reader' = [reader EXCEPT ![g].pc = "close"]
    /\ UNCHANGED <<conn, closed, results, toKeyholder>>
    /\ ReaderOnly

ReadFails(g) ==
    /\ reader[g].pc = "read" /\ g \notin up /\ toKeyholder[g] = <<>>
    /\ reader' = [reader EXCEPT ![g] = [pc |-> "put", result |-> Error, on |-> "close"]]
    /\ UNCHANGED <<conn, closed, results, toKeyholder>>
    /\ ReaderOnly

\* The channel is the reader's own: the keyholder connects again after it has ended.
PutResult(g) ==
    /\ reader[g].pc = "put" /\ results[g] = <<>>
    /\ results' = [results EXCEPT ![g] = <<reader[g].result>>]
    /\ reader' = [reader EXCEPT ![g] = [NoReader EXCEPT !.pc = reader[g].on]]
    /\ UNCHANGED <<conn, closed, toKeyholder>>
    /\ ReaderOnly

\* The deferred calls, in their order.
CloseChannel(g) ==
    /\ reader[g].pc = "close"
    /\ closed' = closed \cup {g}
    /\ reader' = [reader EXCEPT ![g].pc = "clear"]
    /\ UNCHANGED <<conn, results, toKeyholder>>
    /\ ReaderOnly

ClearConn(g) ==
    /\ reader[g].pc = "clear"
    /\ conn' = 0
    /\ reader' = [reader EXCEPT ![g].pc = "gone"]
    /\ UNCHANGED <<closed, results, toKeyholder>>
    /\ ReaderOnly

ReaderStep(g) == Read(g) \/ ReadFails(g) \/ PutResult(g) \/ CloseChannel(g) \/ ClearConn(g)

----------------------------------------------------------------------------
(* The peer *)

PeerOnly == UNCHANGED <<storeVars, conn, current, up, closed, results, writer, reader, call, calls, late>>

\* Requests are handled, and answered, in their order.  A filter that is too
\* large or that it cannot decode is refused: the peer keeps the one it has, and
\* the connection.
Handle(g) ==
    /\ g \in up /\ toPeer[g] # <<>>
    /\ LET m == Head(toPeer[g])
       IN  \E err \in IF m.request \in Fallible THEN BOOLEAN ELSE {FALSE} :
             /\ toKeyholder' = [toKeyholder EXCEPT ![g] =
                  Append(@, [type |-> AnswerType[m.request], call |-> m.call, err |-> err])]
             /\ IF m.request = "filter_load"
                THEN /\ peerFilter' = IF err THEN peerFilter ELSE [peerFilter EXCEPT ![g] = m.keys]
                     /\ refused' = IF err THEN refused \cup {g} ELSE refused \ {g}
                ELSE UNCHANGED <<peerFilter, refused>>
    /\ toPeer' = [toPeer EXCEPT ![g] = Tail(@)]
    /\ PeerOnly

\* A new representation of key k is relayed if the filter lets it through.
Relay(g, k) ==
    /\ g \in up /\ Len(toKeyholder[g]) < MaxPush
    /\ k \in (IF peerFilter[g] = None THEN Key ELSE peerFilter[g])
    /\ toKeyholder' = [toKeyholder EXCEPT ![g] =
                         Append(@, [type |-> "push_representation", call |-> 0, err |-> FALSE])]
    /\ UNCHANGED <<toPeer, peerFilter, refused>>
    /\ PeerOnly

Lose(g) ==
    /\ g \in up
    /\ Cut(g)
    /\ UNCHANGED <<storeVars, conn, current, closed, results, writer, reader, call, calls, peerFilter, refused, late>>

Next ==
    \/ \E todo \in Command : Start(todo)
    \/ \E new \in SUBSET Generated : GenerateKeys(new)
    \/ \E k \in Imported : ImportKey(k)
    \/ Quit \/ \E p \in Passphrase : Restart(p)
    \/ CommandStep
    \/ \E g \in Conn : WriterStep(g) \/ ReaderStep(g) \/ Handle(g) \/ Lose(g)
    \/ \E g \in Conn, k \in Key : Relay(g, k)

\* The goroutines go on and the peer answers; nothing makes a user go on.
Spec ==
    /\ Init /\ [][Next]_vars
    /\ WF_vars(CommandStep)
    /\ \A g \in Conn : WF_vars(WriterStep(g)) /\ WF_vars(ReaderStep(g)) /\ WF_vars(Handle(g))

----------------------------------------------------------------------------
(* Correctness *)

TypeOK ==
    /\ encrypted \in [Key -> Passphrase \cup {None}]
    /\ newest \in Stored \cup {None} /\ passphrase \in Passphrase
    /\ conn \in {0, current} /\ current \in 0..MaxConn /\ calls \in 0..MaxCall
    /\ up \subseteq Conn /\ closed \subseteq Conn
    /\ call.pc \in {"idle", "send", "await", "quit", "ended", "panic"}
    /\ call.todo \in Seq(Request)
    /\ \A c \in Conn :
         /\ Len(results[c]) <= 1
         /\ writer[c].pc \in {"none", "select", "write", "writing", "put", "gone"}
         /\ reader[c].pc \in {"none", "read", "put", "close", "clear", "gone"}
         /\ peerFilter[c] = None \/ peerFilter[c] \subseteq Key

(* The result a call takes is the answer to its request, or an error of a  *)
(* connection that is lost, unless the keyholder has connected again while *)
(* a writer was busy: that one may still write its message, or put its     *)
(* error, to the new connection, and from then on every call may take the  *)
(* answer to the one before it.                                            *)
AnswersAreOwn ==
    (call.pc = "await" /\ results[current] # <<>> /\ ~late)
      => LET r == Head(results[current])
         IN  IF r = Error THEN current \notin up ELSE r.call = calls

(* Between two commands the peer looks for every key, unless it refused    *)
(* the last filter it was sent, and but for the keys that the filter does  *)
(* not have either: those imported since the keyholder was started, and    *)
(* those that a refused insertion displaced.                               *)
PeerHasKeys ==
    (call.pc = "idle" /\ conn \in up \ refused /\ ~late)
      => /\ peerFilter[conn] # None
         /\ Expected \subseteq peerFilter[conn]

(* A call whose answer the keyholder's reader hands on returns, or the     *)
(* program panics, if the reader still reads: one that is made after the   *)
(* reader's error was taken by the call before may wait for ever.          *)
IsAnswered == AnswerType[call.todo[1]] \in Handled

CallsReturn ==
    \A n \in 1..MaxCall :
      (call.pc = "await" /\ calls = n /\ IsAnswered /\ reader[current].pc = "read")
        ~> (call.pc # "await" \/ calls # n)

(* Shutdown ends, unless the keyholder has connected while a writer was    *)
(* busy.                                                                   *)
ShutdownEnds == call.pc = "quit" ~> (call.pc # "quit" \/ late)
=============================================================================
