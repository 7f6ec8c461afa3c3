--------------------------- MODULE ChannelsProofs ---------------------------
(***************************************************************************)
(* Proofs about the notices that the processor sends its subscribers.      *)
(*                                                                         *)
(* The processor's place, the subscribers it has still to send to and each *)
(* channel are counted together: a notice is in the processor's hand, in   *)
(* the channel or read.  What the last notice on its way tells of, or the  *)
(* work in hand if there is none, is the tip that the processor will have  *)
(* when it has no more changes to make.                                    *)
(*                                                                         *)
(* What the channels hold is left open, but for the fields that matter.    *)
(*                                                                         *)
(* Then three more invariants: of the calls and who waits for them, of the *)
(* registered channels and where their owners are, and of the types.       *)
(***************************************************************************)
EXTENDS Channels, TLAPS, SequenceTheorems, WellFoundedInduction

----------------------------------------------------------------------------
(* Natural numbers: induction is stated for sets of them *)

LEMMA LeastElement ==
    ASSUME NEW A, A \subseteq Nat, A # {}
    PROVE  \E n \in A : \A m \in A : n <= m
<1>1. PICK n \in A : \A m \in A : ~(<<m, n>> \in OpToRel(<, Nat))
  BY NatLessThanWellFounded, WFMin
<1>2. \A m \in A : ~(m < n)
  BY <1>1 DEF OpToRel
<1> QED
  BY <1>2

LEMMA Induction ==
    ASSUME NEW A, 0 \in A, \A n \in Nat : n \in A => n + 1 \in A
    PROVE  Nat \subseteq A
<1> SUFFICES ASSUME Nat \ A # {} PROVE FALSE
  OBVIOUS
<1>1. PICK n \in Nat \ A : \A m \in Nat \ A : n <= m
  BY LeastElement
<1>2. n # 0 /\ n - 1 \in Nat
  BY <1>1
<1>3. n - 1 \in A
  BY <1>1, <1>2
<1> QED
  BY <1>1, <1>2, <1>3

----------------------------------------------------------------------------
(* Sequences *)

IsSeq(s) == \E S : s \in Seq(S)

LEMMA EmptyIsSeq == IsSeq(<<>>) /\ Len(<<>>) = 0
<1>1. <<>> \in Seq({})
  OBVIOUS
<1> QED
  BY <1>1 DEF IsSeq

LEMMA SeqHasLength ==
    ASSUME NEW s, IsSeq(s)
    PROVE  Len(s) \in Nat /\ DOMAIN s = 1..Len(s) /\ (s = <<>> <=> Len(s) = 0)
<1>1. PICK S : s \in Seq(S)
  BY DEF IsSeq
<1> QED
  BY <1>1

LEMMA AppendToSeq ==
    ASSUME NEW s, IsSeq(s), NEW x
    PROVE  /\ IsSeq(Append(s, x))
           /\ Len(Append(s, x)) = Len(s) + 1
           /\ \A n \in 1..Len(s) : Append(s, x)[n] = s[n]
           /\ Append(s, x)[Len(s) + 1] = x
           /\ Append(s, x) # <<>>
           /\ Last(Append(s, x)) = x
<1>1. PICK S : s \in Seq(S)
  BY DEF IsSeq
<1> DEFINE T == S \cup {x}
<1>2. s \in Seq(T)
  BY <1>1
<1>3. Append(s, x) \in Seq(T)
  BY <1>2
<1>4. Len(Append(s, x)) = Len(s) + 1 /\ Len(s) \in Nat
  BY <1>1
<1>5. \A n \in 1..Len(s) : Append(s, x)[n] = s[n]
  BY <1>2
<1>6. Append(s, x)[Len(s) + 1] = x
  BY <1>2
<1>7. Last(Append(s, x)) = x
  BY <1>4, <1>6 DEF Last
<1>8. Append(s, x) # <<>>
  BY <1>3, <1>4
<1> QED
  BY <1>3, <1>4, <1>5, <1>6, <1>7, <1>8 DEF IsSeq

LEMMA TailOfSeq ==
    ASSUME NEW s, IsSeq(s), s # <<>>
    PROVE  /\ IsSeq(Tail(s))
           /\ Len(Tail(s)) = Len(s) - 1
           /\ \A n \in 1..Len(s) - 1 : Tail(s)[n] = s[n+1]
           /\ Head(s) = s[1]
           /\ Tail(s) = <<>> => Last(s) = Head(s)
           /\ Tail(s) # <<>> => Last(Tail(s)) = Last(s)
<1>1. PICK S : s \in Seq(S)
  BY DEF IsSeq
<1>2. Tail(s) \in Seq(S) /\ Len(Tail(s)) = Len(s) - 1 /\ Len(s) \in Nat \ {0}
  BY <1>1
<1>3. \A n \in 1..Len(s) - 1 : Tail(s)[n] = s[n+1]
  BY <1>1
<1>4. Head(s) = s[1]
  BY <1>1
<1>5. ASSUME Tail(s) = <<>> PROVE Last(s) = Head(s)
  <2>1. Len(s) = 1
    BY <1>2, <1>5, EmptyIsSeq
  <2> QED
    BY <1>4, <2>1 DEF Last
<1>6. ASSUME Tail(s) # <<>> PROVE Last(Tail(s)) = Last(s)
  <2>1. Len(s) - 1 \in 1..Len(s) - 1
    BY <1>2, <1>6
  <2>2. Tail(s)[Len(s) - 1] = s[Len(s) - 1 + 1]
    BY <1>3, <2>1
  <2>3. Len(s) - 1 + 1 = Len(s)
    BY <1>2
  <2>4. Last(Tail(s)) = Tail(s)[Len(s) - 1] /\ Last(s) = s[Len(s)]
    BY <1>2 DEF Last
  <2> QED
    BY <2>2, <2>3, <2>4
<1> QED
  BY <1>2, <1>3, <1>4, <1>5, <1>6 DEF IsSeq

LEMMA FrontOfSeq ==
    ASSUME NEW s, IsSeq(s)
    PROVE  IsSeq(Front(s))
<1>1. PICK S : s \in Seq(S)
  BY DEF IsSeq
<1>2. SubSeq(s, 1, Len(s) - 1) \in Seq(S)
  BY <1>1
<1> QED
  BY <1>2 DEF IsSeq, Front

LEMMA OneElement ==
    ASSUME NEW x
    PROVE  IsSeq(<<x>>) /\ Last(<<x>>) = x
<1>1. <<x>> \in Seq({x})
  OBVIOUS
<1> QED
  BY <1>1 DEF IsSeq, Last

LEMMA TwoElements ==
    ASSUME NEW x, NEW y
    PROVE  IsSeq(<<x, y>>) /\ Last(<<x, y>>) = y
<1>1. <<x, y>> \in Seq({x, y})
  OBVIOUS
<1> QED
  BY <1>1 DEF IsSeq, Last

LEMMA ThreeElements ==
    ASSUME NEW x, NEW y, NEW z
    PROVE  IsSeq(<<x, y, z>>) /\ Last(<<x, y, z>>) = z
<1>1. <<x, y, z>> \in Seq({x, y, z})
  OBVIOUS
<1> QED
  BY <1>1 DEF IsSeq, Last

----------------------------------------------------------------------------
(* The invariant *)

\* None, or a plot the scriber has just begun.
HasWork(s) == work[s] # None \/ pc[s] = "create"

\* What is written with EXCEPT is written where it is defined.
Shapes ==
    /\ IsSeq(thread)
    /\ IsSeq(todo)
    /\ tipChan = [s \in Subscriber |-> tipChan[s]]
    /\ \A s \in Subscriber : IsSeq(tipChan[s])
    /\ heard = [s \in Subscriber |-> heard[s]]
    /\ pc = [g \in Goroutine |-> pc[g]]
    /\ work = [s \in Scriber |-> work[s]]
    /\ \A s \in Scriber :
         HasWork(s) => work[s] = [parent |-> work[s].parent, txs |-> work[s].txs]
    /\ DOMAIN count = {"plots", "changes", "calls", "solutions"}
    /\ count = [f \in DOMAIN count |-> count[f]]
    /\ count.changes \in Nat
    /\ tipSubs \subseteq Subscriber

IsLast(change) == change.connect /\ ~change.more

\* Where the processor is in the request it handles.
Handling ==
    /\ at \in {"select", "plot", "queue", "tx"}
    /\ at \in {"select", "tx"} => todo = <<>>
    /\ at \in {"select", "queue"} => left = {}
    /\ at = "plot" => left \subseteq tipSubs
    /\ at = "queue" \/ (at = "plot" /\ left # {}) => notice.number = count.changes
    /\ settled /\ todo # <<>> => IsLast(Last(todo))

\* A subscriber that is not registered has nothing yet.
Fresh(s) ==
    pc[s] = "registerTip" =>
      /\ s \notin tipSubs
      /\ tipChan[s] = <<>>
      /\ s \in Scriber => work[s] = None

Hears(s) ==
    /\ heard[s] \in Nat
    /\ heard[s] + Len(tipChan[s]) = Sent(s)
    /\ \A n \in DOMAIN tipChan[s] : tipChan[s][n].number = heard[s] + n

InHand(s) == at = "queue" \/ (at = "plot" /\ s \in left)

TellsOfTip(change) == IsLast(change) /\ change.plot.id = Tip.id

\* The last that a scriber has, or will get, is the tip.
Follows(s) ==
    /\ InHand(s) => TellsOfTip(notice.change)
    /\ ~InHand(s) /\ tipChan[s] # <<>> => TellsOfTip(Last(tipChan[s]).change)
    /\ ~InHand(s) /\ tipChan[s] = <<>> /\ HasWork(s) => work[s].parent = Tip.id

ChannelsInvariant ==
    /\ Shapes
    /\ Handling
    /\ \A s \in Subscriber : Fresh(s)
    /\ \A s \in tipSubs : Hears(s)
    /\ settled /\ todo = <<>> => \A s \in Scriber \cap tipSubs : Follows(s)

LEMMA ChannelsInit == Init => ChannelsInvariant
<1> SUFFICES ASSUME Init PROVE ChannelsInvariant
  OBVIOUS
<1> USE DEF Init
<1>1. IsSeq(thread) /\ IsSeq(todo)
  BY EmptyIsSeq, OneElement
<1>2. Shapes
  <2>1. /\ tipChan = [s \in Subscriber |-> tipChan[s]]
        /\ heard = [s \in Subscriber |-> heard[s]]
        /\ pc = [g \in Goroutine |-> pc[g]]
        /\ work = [s \in Scriber |-> work[s]]
    OBVIOUS
  <2>2. \A s \in Subscriber : IsSeq(tipChan[s])
    BY EmptyIsSeq
  <2>3. \A s \in Scriber : ~HasWork(s)
    BY DEF HasWork, Goroutine, Subscriber
  <2>4. DOMAIN count = {"plots", "changes", "calls", "solutions"} /\ count.changes \in Nat
    OBVIOUS
  <2>5. count = [f \in DOMAIN count |-> count[f]]
    OBVIOUS
  <2> QED
    BY <1>1, <2>1, <2>2, <2>3, <2>4, <2>5 DEF Shapes
<1>3. Handling
  BY DEF Handling
<1>4. \A s \in Subscriber : Fresh(s)
  BY DEF Fresh
<1> QED
  BY <1>2, <1>3, <1>4 DEF ChannelsInvariant

----------------------------------------------------------------------------
(* Steps that send and read no notice *)

\* What a goroutine does on its own: the work of a scriber may change, but not
\* to a plot on another parent.
LEMMA Elsewhere ==
    ASSUME ChannelsInvariant, Shapes',
           UNCHANGED <<procVars, tipChan, heard>>, count'.changes = count.changes,
           \A s \in Subscriber : pc'[s] = "registerTip" =>
             pc[s] = "registerTip" /\ (s \in Scriber => work'[s] = work[s]),
           \A s \in Scriber \cap tipSubs : tipChan[s] = <<>> /\ HasWork(s)' =>
             work'[s].parent = Tip.id \/ (HasWork(s) /\ work'[s].parent = work[s].parent)
    PROVE  ChannelsInvariant'
<1> USE DEF ChannelsInvariant, procVars
<1>1. Handling'
  BY DEF Handling
<1>2. \A s \in Subscriber : Fresh(s)'
  BY DEF Fresh
<1>3. \A s \in tipSubs' : Hears(s)'
  BY DEF Hears, Sent
<1>4. Tip' = Tip
  BY DEF Tip
<1>5. ASSUME settled', todo' = <<>>, NEW s \in (Scriber \cap tipSubs)' PROVE Follows(s)'
  <2>1. Follows(s) /\ (InHand(s)' <=> InHand(s))
    BY <1>5 DEF InHand
  <2> QED
    BY <1>4, <2>1 DEF Follows, TellsOfTip
<1> QED
  BY <1>1, <1>2, <1>3, <1>5

LEMMA CallersKeep ==
    ASSUME ChannelsInvariant, NEW c \in Caller,
           ProcessPlot(c) \/ \E x \in Tx : ProcessRepresentation(c, x)
    PROVE  ChannelsInvariant'
<1>1. /\ UNCHANGED <<procVars, tipChan, heard, work>>
      /\ count' = [count EXCEPT !.calls = @ + 1]
      /\ GoTo(c, "wait")
  BY DEF ProcessPlot, ProcessRepresentation
<1>2. Shapes'
  <2>1. /\ DOMAIN count' = DOMAIN count
        /\ count' = [f \in DOMAIN count' |-> count'[f]]
        /\ count'.changes = count.changes
    BY <1>1 DEF ChannelsInvariant, Shapes
  <2>2. pc' = [g \in Goroutine |-> pc'[g]] /\ \A g \in Goroutine : pc'[g] = pc[g] \/ pc'[g] = "wait"
    BY <1>1 DEF ChannelsInvariant, Shapes, GoTo
  <2> QED
    BY <1>1, <2>1, <2>2 DEF ChannelsInvariant, Shapes, procVars, HasWork, Goroutine, Subscriber
<1>3. count'.changes = count.changes
  BY <1>1 DEF ChannelsInvariant, Shapes
<1>4. \A g \in Goroutine : pc'[g] = pc[g] \/ pc'[g] = "wait"
  BY <1>1 DEF ChannelsInvariant, Shapes, GoTo
<1>5. \A s \in Scriber : HasWork(s)' => HasWork(s)
  BY <1>1, <1>4 DEF HasWork, Goroutine, Subscriber
<1>6. \A s \in Subscriber : pc'[s] = "registerTip" => pc[s] = "registerTip"
  BY <1>4 DEF Goroutine
<1> QED
  BY <1>1, <1>2, <1>3, <1>5, <1>6, Elsewhere

LEMMA ScribersKeep ==
    ASSUME ChannelsInvariant, NEW s \in Scriber,
           ReadThreadTip(s) \/ CreateNextPlot(s) \/ Solve(s)
    PROVE  ChannelsInvariant'
<1> USE DEF ChannelsInvariant
<1>1. /\ UNCHANGED <<procVars, tipChan, heard>>
      /\ pc[s] # "registerTip"
      /\ \E place \in {"create", "run", "wait"} : GoTo(s, place)
  BY DEF ReadThreadTip, CreateNextPlot, Solve, IsQuiet
<1>2. /\ count' = count \/ count' = [count EXCEPT !.solutions = @ + 1]
      /\ DOMAIN count' = DOMAIN count
      /\ count'.changes = count.changes
      /\ count' = [f \in DOMAIN count' |-> count'[f]]
  BY DEF ReadThreadTip, CreateNextPlot, Solve, Shapes
<1>3. \/ ReadThreadTip(s) /\ work' = [work EXCEPT ![s] = [parent |-> Tip.id, txs |-> <<>>]]
      \/ CreateNextPlot(s) /\ work' = [work EXCEPT ![s] = NextPlot(work[s].parent)]
      \/ Solve(s) /\ work' = [work EXCEPT ![s] = None]
  BY DEF ReadThreadTip, CreateNextPlot, Solve
<1>4. work' = [t \in Scriber |-> work'[t]] /\ \A t \in Scriber \ {s} : work'[t] = work[t]
  BY <1>3 DEF Shapes
<1>5. pc' = [g \in Goroutine |-> pc'[g]] /\ \A g \in Goroutine \ {s} : pc'[g] = pc[g]
  BY <1>1 DEF Shapes, GoTo
<1>6. s \in Goroutine /\ s \in Subscriber /\ Scriber \subseteq Goroutine /\ Subscriber \subseteq Goroutine
  BY DEF Goroutine, Subscriber
<1>7. ASSUME HasWork(s)'
      PROVE  \/ work'[s] = [parent |-> Tip.id, txs |-> <<>>]
             \/ HasWork(s) /\ \E t : work'[s] = [parent |-> work[s].parent, txs |-> t]
  <2>1. CASE ReadThreadTip(s)
    BY <1>3, <1>6, <2>1 DEF Shapes, ReadThreadTip
  <2>2. CASE CreateNextPlot(s)
    BY <1>6, <2>2 DEF Shapes, CreateNextPlot, NextPlot, HasWork
  <2>3. CASE Solve(s)
    BY <1>6, <1>7, <2>3 DEF Shapes, Solve, HasWork, GoTo
  <2> QED
    BY <1>3, <2>1, <2>2, <2>3
<1>8. ASSUME HasWork(s)'
      PROVE  /\ work'[s] = [parent |-> work'[s].parent, txs |-> work'[s].txs]
             /\ work'[s].parent = Tip.id \/ (HasWork(s) /\ work'[s].parent = work[s].parent)
  <2>1. CASE work'[s] = [parent |-> Tip.id, txs |-> <<>>]
    BY <2>1
  <2>2. CASE HasWork(s) /\ \E t : work'[s] = [parent |-> work[s].parent, txs |-> t]
    <3>1. PICK t : work'[s] = [parent |-> work[s].parent, txs |-> t]
      BY <2>2
    <3> QED
      BY <2>2, <3>1
  <2> QED
    BY <1>7, <1>8, <2>1, <2>2
<1>9. ASSUME NEW t \in Scriber \ {s} PROVE work'[t] = work[t] /\ (HasWork(t)' <=> HasWork(t))
  BY <1>4, <1>5, <1>6 DEF HasWork
<1>10. Shapes'
  <2>1. \A t \in Scriber :
          HasWork(t)' => work'[t] = [parent |-> work'[t].parent, txs |-> work'[t].txs]
    BY <1>8, <1>9 DEF Shapes
  <2> QED
    BY <1>1, <1>2, <1>4, <1>5, <2>1 DEF Shapes, procVars
<1>11. \A t \in Subscriber : pc'[t] = "registerTip" =>
         pc[t] = "registerTip" /\ (t \in Scriber => work'[t] = work[t])
  BY <1>1, <1>4, <1>5, <1>6 DEF Shapes, GoTo
<1>12. \A t \in Scriber \cap tipSubs : tipChan[t] = <<>> /\ HasWork(t)' =>
         work'[t].parent = Tip.id \/ (HasWork(t) /\ work'[t].parent = work[t].parent)
  BY <1>8, <1>9
<1> QED
  BY <1>1, <1>2, <1>10, <1>11, <1>12, Elsewhere

LEMMA ReadTxKeeps ==
    ASSUME ChannelsInvariant, NEW s \in TxSubscriber, ReadTx(s)
    PROVE  ChannelsInvariant'
<1> USE DEF ChannelsInvariant
<1>1. UNCHANGED <<procVars, tipChan, heard, pc, count>> /\ pc[s] = "run"
  BY DEF ReadTx
<1>2. \/ UNCHANGED work
      \/ /\ s \in Scriber /\ HasWork(s)
         /\ work' = [work EXCEPT ![s].txs = Append(@, Head(newTxChan[s]))]
  <2>1. work[s] # None => HasWork(s)
    BY DEF HasWork
  <2> QED
    BY <2>1 DEF ReadTx
<1>3. ASSUME NEW t \in Scriber, HasWork(t)'
      PROVE  /\ HasWork(t)
             /\ work'[t].parent = work[t].parent
             /\ work'[t] = [parent |-> work'[t].parent, txs |-> work'[t].txs]
  <2>1. HasWork(t)
    BY <1>1, <1>2, <1>3 DEF HasWork, Shapes
  <2>2. work[t] = [parent |-> work[t].parent, txs |-> work[t].txs]
    BY <2>1 DEF Shapes
  <2>3. CASE UNCHANGED work
    BY <2>1, <2>2, <2>3
  <2>4. CASE ~UNCHANGED work
    <3>1. work' = [work EXCEPT ![s].txs = Append(@, Head(newTxChan[s]))]
      BY <1>2, <2>4
    <3>2. CASE t = s
      <4>1. work'[t] = [work[t] EXCEPT !.txs = Append(work[t].txs, Head(newTxChan[t]))]
        BY <3>1, <3>2 DEF Shapes
      <4>2. work'[t] = [parent |-> work[t].parent, txs |-> Append(work[t].txs, Head(newTxChan[t]))]
        BY <2>2, <4>1
      <4> QED
        BY <2>1, <4>2
    <3>3. CASE t # s
      BY <2>1, <2>2, <3>1, <3>3 DEF Shapes
    <3> QED
      BY <3>2, <3>3
  <2> QED
    BY <2>3, <2>4
<1>4. work' = [t \in Scriber |-> work'[t]]
  BY <1>2 DEF Shapes
<1>5. Shapes'
  BY <1>1, <1>3, <1>4 DEF Shapes, procVars
<1>6. \A t \in Subscriber : pc'[t] = "registerTip" =>
        pc[t] = "registerTip" /\ (t \in Scriber => work'[t] = work[t])
  BY <1>1, <1>2 DEF Shapes
<1> QED
  BY <1>1, <1>3, <1>5, <1>6, Elsewhere

LEMMA LeaveKeeps ==
    ASSUME ChannelsInvariant, NEW s \in Subscriber, Leave(s)
    PROVE  ChannelsInvariant'
<1> USE DEF ChannelsInvariant
<1>1. /\ UNCHANGED <<procVars, tipChan, heard, work, count>>
      /\ pc[s] = "run"
      /\ GoTo(s, "leaveTx") \/ GoTo(s, "leaveTip")
  BY DEF Leave
<1>2. /\ pc' = [g \in Goroutine |-> pc'[g]]
      /\ \A g \in Goroutine : pc'[g] \in {pc[g], "leaveTx", "leaveTip"}
  BY <1>1 DEF Shapes, GoTo
<1>3. \A t \in Scriber : HasWork(t)' => HasWork(t)
  BY <1>1, <1>2 DEF HasWork, Goroutine, Subscriber
<1>4. Shapes'
  BY <1>1, <1>2, <1>3 DEF Shapes, procVars
<1>5. \A t \in Subscriber : pc'[t] = "registerTip" => pc[t] = "registerTip"
  BY <1>2 DEF Goroutine
<1> QED
  BY <1>1, <1>3, <1>4, <1>5, Elsewhere

----------------------------------------------------------------------------
(* The processor's steps *)

\* What the processor does between two notices: the thread and the channels
\* of notices stay, and so does what it has in hand.
LEMMA BetweenNotices ==
    ASSUME ChannelsInvariant, Shapes', Handling',
           UNCHANGED <<thread, tipSubs, tipChan, heard, work>>, count'.changes = count.changes,
           \A s \in Subscriber : pc'[s] = "registerTip" => pc[s] = "registerTip",
           \A s \in Scriber : HasWork(s)' => HasWork(s),
           \A s \in tipSubs : ~InHand(s) /\ ~InHand(s)',
           settled' /\ todo' = <<>> => settled /\ todo = <<>>
    PROVE  ChannelsInvariant'
<1> USE DEF ChannelsInvariant
<1>1. \A s \in Subscriber : Fresh(s)'
  BY DEF Fresh
<1>2. \A s \in tipSubs' : Hears(s)'
  BY DEF Hears, Sent, InHand
<1>3. Tip' = Tip
  BY DEF Tip
<1>4. ASSUME settled', todo' = <<>>, NEW s \in (Scriber \cap tipSubs)' PROVE Follows(s)'
  <2>1. Follows(s)
    BY <1>4
  <2> QED
    BY <1>3, <2>1 DEF Follows, TellsOfTip
<1> QED
  BY <1>1, <1>2, <1>4

LEMMA FourElements ==
    ASSUME NEW x, NEW y, NEW z, NEW u
    PROVE  IsSeq(<<x, y, z, u>>) /\ Last(<<x, y, z, u>>) = u
<1>1. <<x, y, z, u>> \in Seq({x, y, z, u})
  OBVIOUS
<1> QED
  BY <1>1 DEF IsSeq, Last

\* A plot's changes, unless they break off, end with one that is connected,
\* with no more to come.
LEMMA ChangesOfPlot ==
    ASSUME NEW call, todo' \in IF call.plot = None THEN PeerOutcomes ELSE ScriberOutcomes(call.plot)
    PROVE  IsSeq(todo') /\ (todo' # <<>> => todo' \in AllBrokenOff \/ IsLast(Last(todo')))
<1>1. \/ todo' = <<>>
      \/ \E txs : todo' = Extension(txs)
      \/ todo' \in Reorganizations
  BY DEF PeerOutcomes, ScriberOutcomes
<1>2. todo' \in Reorganizations =>
        \/ \E txs : todo' = Reorganization(txs)
        \/ \E txs : todo' \in RolledBack(txs)
        \/ todo' \in AllBrokenOff /\ \E txs : todo' \in BrokenOff(txs)
  BY DEF Reorganizations, AllBrokenOff
<1>3. \A plot : IsLast(Connection(plot, FALSE))
  BY DEF IsLast, Connection
<1>4. CASE todo' = <<>>
  BY <1>4, EmptyIsSeq
<1>5. CASE \E txs : todo' = Extension(txs)
  <2>1. PICK x : todo' = <<x>> /\ IsLast(x)
    BY <1>3, <1>5 DEF Extension
  <2> QED
    BY <2>1, OneElement
<1>6. CASE \E txs : todo' = Reorganization(txs)
  <2>1. PICK x, y, z : todo' = <<x, y, z>> /\ IsLast(z)
    BY <1>3, <1>6 DEF Reorganization
  <2> QED
    BY <2>1, ThreeElements
<1>7. CASE \E txs : todo' \in RolledBack(txs)
  <2>1. \/ \E x, y : todo' = <<x, y>> /\ IsLast(y)
        \/ \E x, y, z, u : todo' = <<x, y, z, u>> /\ IsLast(u)
    BY <1>3, <1>7 DEF RolledBack
  <2>2. ASSUME NEW x, NEW y, todo' = <<x, y>>, IsLast(y)
        PROVE  IsSeq(todo') /\ IsLast(Last(todo'))
    BY <2>2, TwoElements
  <2>3. ASSUME NEW x, NEW y, NEW z, NEW u, todo' = <<x, y, z, u>>, IsLast(u)
        PROVE  IsSeq(todo') /\ IsLast(Last(todo'))
    BY <2>3, FourElements
  <2> QED
    BY <2>1, <2>2, <2>3
<1>8. CASE todo' \in AllBrokenOff /\ \E txs : todo' \in BrokenOff(txs)
  <2>1. \E x, y, z : todo' \in {<<x>>, <<x, y>>, <<x, y, z>>}
    BY <1>8 DEF BrokenOff
  <2>2. IsSeq(todo')
    BY <2>1, OneElement, TwoElements, ThreeElements
  <2> QED
    BY <1>8, <2>2
<1> QED
  BY <1>1, <1>2, <1>4, <1>5, <1>6, <1>7, <1>8

LEMMA TakePlotKeeps ==
    ASSUME ChannelsInvariant, TakePlot
    PROVE  ChannelsInvariant'
<1> USE DEF ChannelsInvariant
<1>1. /\ at = "select" /\ at' = "plot" /\ todo = <<>> /\ left = {}
      /\ UNCHANGED <<thread, left, tipSubs, tipChan, heard, work, count, pc>>
  BY DEF TakePlot, Handling
<1>2. /\ IsSeq(todo')
      /\ settled' /\ todo' # <<>> => IsLast(Last(todo'))
      /\ settled' /\ todo' = <<>> => settled
  <2>1. /\ todo' \in IF Head(plotChan).plot = None THEN PeerOutcomes
                    ELSE ScriberOutcomes(Head(plotChan).plot)
        /\ settled' = IF todo' = <<>> THEN settled ELSE todo' \notin AllBrokenOff
    BY DEF TakePlot
  <2> QED
    BY <2>1, ChangesOfPlot
<1>3. \A s : HasWork(s)' <=> HasWork(s)
  BY <1>1 DEF HasWork
<1>4. Shapes'
  BY <1>1, <1>2, <1>3 DEF Shapes
<1>5. Handling'
  BY <1>1, <1>2 DEF Handling
<1>6. \A s \in tipSubs : ~InHand(s) /\ ~InHand(s)'
  BY <1>1 DEF InHand
<1> QED
  BY <1>1, <1>2, <1>3, <1>4, <1>5, <1>6, BetweenNotices

LEMMA RepresentationsKeep ==
    ASSUME ChannelsInvariant,
           TakeRepresentation \/ \E s \in TxSubscriber : SendTx(s)
    PROVE  ChannelsInvariant'
<1> USE DEF ChannelsInvariant
<1>1. /\ at \in {"select", "tx"} /\ at' = "tx" /\ todo = <<>>
      /\ UNCHANGED <<thread, todo, settled, tipSubs, tipChan, heard, work, count, pc>>
  BY DEF TakeRepresentation, SendTx, Handling
<1>2. \A s : HasWork(s)' <=> HasWork(s)
  BY <1>1 DEF HasWork
<1>3. Shapes'
  BY <1>1, <1>2 DEF Shapes
<1>4. Handling'
  BY <1>1 DEF Handling
<1>5. \A s \in tipSubs : ~InHand(s) /\ ~InHand(s)'
  BY <1>1 DEF InHand
<1> QED
  BY <1>1, <1>2, <1>3, <1>4, <1>5, BetweenNotices

LEMMA ReplyKeeps ==
    ASSUME ChannelsInvariant, Reply
    PROVE  ChannelsInvariant'
<1> USE DEF ChannelsInvariant
<1>1. /\ at \in {"plot", "tx"} /\ at' = "select" /\ todo = <<>> /\ left = {}
      /\ UNCHANGED <<thread, todo, settled, left, tipSubs, tipChan, heard, work, count>>
      /\ GoTo(caller, "run")
  BY DEF Reply
<1>2. /\ pc' = [g \in Goroutine |-> pc'[g]]
      /\ \A g \in Goroutine : pc'[g] \in {pc[g], "run"}
  BY <1>1 DEF Shapes, GoTo
<1>3. \A s \in Scriber : HasWork(s)' => HasWork(s)
  BY <1>1, <1>2 DEF HasWork, Goroutine, Subscriber
<1>4. Shapes'
  BY <1>1, <1>2, <1>3 DEF Shapes
<1>5. Handling'
  BY <1>1 DEF Handling
<1>6. \A s \in tipSubs : ~InHand(s) /\ ~InHand(s)'
  BY <1>1 DEF InHand
<1>7. \A s \in Subscriber : pc'[s] = "registerTip" => pc[s] = "registerTip"
  BY <1>2 DEF Goroutine
<1> QED
  BY <1>1, <1>3, <1>4, <1>5, <1>6, <1>7, BetweenNotices

LEMMA ChangeLedgerKeeps ==
    ASSUME ChannelsInvariant, ChangeLedger
    PROVE  ChannelsInvariant'
<1> USE DEF ChannelsInvariant
<1> DEFINE change == Head(todo)
<1>1. /\ at = "plot" /\ left = {} /\ todo # <<>>
      /\ at' = "queue" /\ todo' = Tail(todo)
      /\ thread' = IF change.connect THEN Append(thread, change.plot) ELSE Front(thread)
      /\ notice' = [change |-> change, number |-> count.changes + 1]
      /\ UNCHANGED <<settled, left, tipSubs, tipChan, heard, work, pc>>
  BY DEF ChangeLedger
<1>2. /\ DOMAIN count' = DOMAIN count
      /\ count' = [f \in DOMAIN count' |-> count'[f]]
      /\ count'.changes = count.changes + 1
      /\ count.changes \in Nat
  BY DEF ChangeLedger, Shapes
<1>3. IsSeq(thread) /\ IsSeq(todo)
  BY DEF Shapes
<1>4. /\ IsSeq(Tail(todo))
      /\ Tail(todo) = <<>> => Last(todo) = Head(todo)
      /\ Tail(todo) # <<>> => Last(Tail(todo)) = Last(todo)
  BY <1>1, <1>3, TailOfSeq
<1>5. IsSeq(Append(thread, change.plot)) /\ Last(Append(thread, change.plot)) = change.plot
  BY <1>3, AppendToSeq
<1>6. IsSeq(Front(thread))
  BY <1>3, FrontOfSeq
<1>7. \A s : HasWork(s)' <=> HasWork(s)
  BY <1>1 DEF HasWork
<1>8. Shapes'
  BY <1>1, <1>2, <1>4, <1>5, <1>6, <1>7 DEF Shapes
<1>9. Handling'
  BY <1>1, <1>2, <1>4 DEF Handling
<1>10. \A s \in Subscriber : Fresh(s)'
  BY <1>1 DEF Fresh
<1>11. \A s \in tipSubs' : Hears(s)'
  BY <1>1, <1>2 DEF Hears, Sent
<1>12. ASSUME settled', todo' = <<>>, NEW s \in (Scriber \cap tipSubs)' PROVE Follows(s)'
  <2>1. IsLast(change)
    BY <1>1, <1>4, <1>12 DEF Handling
  <2>2. Tip' = change.plot
    BY <1>1, <1>5, <2>1 DEF Tip, IsLast
  <2>3. TellsOfTip(notice.change)'
    BY <1>1, <2>1, <2>2 DEF TellsOfTip, IsLast
  <2> QED
    BY <1>1, <2>3 DEF Follows, InHand
<1> QED
  BY <1>8, <1>9, <1>10, <1>11, <1>12

LEMMA ChangeQueueKeeps ==
    ASSUME ChannelsInvariant, ChangeQueue
    PROVE  ChannelsInvariant'
<1> USE DEF ChannelsInvariant
<1>1. /\ at = "queue" /\ at' = "plot" /\ left = {} /\ left' = tipSubs
      /\ UNCHANGED <<thread, todo, settled, notice, tipSubs, tipChan, heard, work, count, pc>>
  BY DEF ChangeQueue, Handling
<1>2. \A s : HasWork(s)' <=> HasWork(s)
  BY <1>1 DEF HasWork
<1>3. Shapes'
  BY <1>1, <1>2 DEF Shapes
<1>4. Handling'
  BY <1>1 DEF Handling
<1>5. \A s \in Subscriber : Fresh(s)'
  BY <1>1 DEF Fresh
<1>6. \A s \in tipSubs' : Hears(s)'
  BY <1>1 DEF Hears, Sent
<1>7. ASSUME settled', todo' = <<>>, NEW s \in (Scriber \cap tipSubs)' PROVE Follows(s)'
  <2>1. Follows(s) /\ InHand(s) /\ InHand(s)' /\ Tip' = Tip
    BY <1>1, <1>7 DEF InHand, Tip
  <2> QED
    BY <1>1, <2>1 DEF Follows, TellsOfTip
<1> QED
  BY <1>3, <1>4, <1>5, <1>6, <1>7

LEMMA SendTipKeeps ==
    ASSUME ChannelsInvariant, NEW t \in Subscriber, SendTip(t)
    PROVE  ChannelsInvariant'
<1> USE DEF ChannelsInvariant
<1>1. /\ at = "plot" /\ at' = "plot" /\ t \in left /\ left' = left \ {t} /\ t \in tipSubs
      /\ tipChan' = [tipChan EXCEPT ![t] = Append(@, notice)]
      /\ notice.number = count.changes
      /\ UNCHANGED <<thread, todo, settled, notice, tipSubs, heard, work, count, pc>>
  BY DEF SendTip, Handling
<1>2. /\ tipChan' = [s \in Subscriber |-> tipChan'[s]]
      /\ tipChan'[t] = Append(tipChan[t], notice)
      /\ \A s \in Subscriber \ {t} : tipChan'[s] = tipChan[s]
  BY <1>1 DEF Shapes
<1>3. IsSeq(tipChan[t])
  BY DEF Shapes
<1>4. /\ IsSeq(tipChan'[t])
      /\ Len(tipChan'[t]) = Len(tipChan[t]) + 1
      /\ \A n \in 1..Len(tipChan[t]) : tipChan'[t][n] = tipChan[t][n]
      /\ tipChan'[t][Len(tipChan[t]) + 1] = notice
      /\ tipChan'[t] # <<>>
      /\ Last(tipChan'[t]) = notice
  BY <1>2, <1>3, AppendToSeq
<1>5. Len(tipChan[t]) \in Nat /\ DOMAIN tipChan[t] = 1..Len(tipChan[t])
  BY <1>3, SeqHasLength
<1>6. DOMAIN tipChan'[t] = 1..Len(tipChan'[t])
  BY <1>4, SeqHasLength
<1>7. \A s : HasWork(s)' <=> HasWork(s)
  BY <1>1 DEF HasWork
<1>8. Shapes'
  BY <1>1, <1>2, <1>4, <1>7 DEF Shapes
<1>9. Handling'
  BY <1>1 DEF Handling
<1>10. \A s \in Subscriber : Fresh(s)'
  BY <1>1, <1>2 DEF Fresh
<1>11. Hears(t)'
  <2>1. /\ heard[t] \in Nat /\ count.changes \in Nat
        /\ heard[t] + Len(tipChan[t]) = count.changes - 1
        /\ \A n \in 1..Len(tipChan[t]) : tipChan[t][n].number = heard[t] + n
    BY <1>1, <1>5 DEF Hears, Sent, Shapes
  <2>2. heard[t] + Len(tipChan'[t]) = count.changes
    <3>1. Len(tipChan'[t]) = Len(tipChan[t]) + 1 /\ Len(tipChan[t]) \in Nat
      BY <1>4, <1>5
    <3>2. heard[t] + (Len(tipChan[t]) + 1) = count.changes
      <4> DEFINE read == heard[t]
                 length == Len(tipChan[t])
                 changes == count.changes
      <4>1. read \in Nat /\ length \in Nat /\ changes \in Nat /\ read + length = changes - 1
        BY <2>1, <3>1
      <4> HIDE DEF read, length, changes
      <4>2. read + (length + 1) = changes
        BY <4>1
      <4> QED
        BY <4>2 DEF read, length, changes
    <3> QED
      BY <3>1, <3>2
  <2>3. Sent(t)' = count.changes
    BY <1>1, <2>1 DEF Sent
  <2>4. ASSUME NEW n \in 1..Len(tipChan'[t]) PROVE tipChan'[t][n].number = heard[t] + n
    <3>1. CASE n = Len(tipChan[t]) + 1
      BY <1>1, <1>4, <2>2, <3>1
    <3>2. CASE n \in 1..Len(tipChan[t])
      BY <1>4, <2>1, <3>2
    <3> QED
      BY <1>4, <1>5, <3>1, <3>2
  <2> QED
    BY <1>1, <1>6, <2>1, <2>2, <2>3, <2>4 DEF Hears
<1>12. ASSUME NEW s \in tipSubs \ {t} PROVE Hears(s)'
  <2>1. tipChan'[s] = tipChan[s] /\ Hears(s)
    BY <1>2 DEF Shapes
  <2> QED
    BY <1>1, <2>1 DEF Hears, Sent
<1>13. ASSUME settled', todo' = <<>>, NEW s \in (Scriber \cap tipSubs)' PROVE Follows(s)'
  <2>1. Follows(s) /\ Tip' = Tip
    BY <1>1, <1>13 DEF Tip
  <2>2. CASE s = t
    BY <1>1, <1>4, <2>1, <2>2 DEF Follows, InHand, TellsOfTip
  <2>3. CASE s # t
    <3>1. tipChan'[s] = tipChan[s] /\ (InHand(s)' <=> InHand(s))
      BY <1>1, <1>2, <1>13, <2>3 DEF InHand, Subscriber
    <3> QED
      BY <1>1, <1>7, <2>1, <3>1 DEF Follows, TellsOfTip
  <2> QED
    BY <2>2, <2>3
<1> QED
  BY <1>1, <1>8, <1>9, <1>10, <1>11, <1>12, <1>13

LEMMA RegisterKeeps ==
    ASSUME ChannelsInvariant, NEW t \in Subscriber, Register(t)
    PROVE  ChannelsInvariant'
<1> USE DEF ChannelsInvariant
<1>1. /\ at = "select" /\ at' = at /\ todo = <<>> /\ left = {}
      /\ UNCHANGED <<thread, todo, settled, notice, left, tipChan, work, count>>
      /\ \E place \in {"registerTx", "run"} : GoTo(t, place)
  BY DEF Register, Handling
<1>2. /\ pc' = [g \in Goroutine |-> pc'[g]]
      /\ \A g \in Goroutine \ {t} : pc'[g] = pc[g]
      /\ pc'[t] \in {"registerTx", "run"}
  BY <1>1 DEF Shapes, GoTo, Goroutine
<1>3. \A s \in Scriber : HasWork(s)' => HasWork(s)
  BY <1>1, <1>2 DEF HasWork, Goroutine, Subscriber
<1>4. ASSUME NEW s \in tipSubs, s # t PROVE heard'[s] = heard[s]
  BY <1>4 DEF Register, Shapes
<1>5. heard' = [s \in Subscriber |-> heard'[s]] /\ tipSubs' \subseteq Subscriber
  BY DEF Register, Shapes
<1>6. Shapes'
  BY <1>1, <1>2, <1>3, <1>5 DEF Shapes
<1>7. Handling'
  BY <1>1 DEF Handling
<1>8. /\ ~InHand(t) /\ ~InHand(t)' /\ Tip' = Tip
      /\ \A s : (InHand(s)' <=> InHand(s)) /\ Sent(s)' = Sent(s)
  BY <1>1 DEF InHand, Sent, Tip
<1>9. CASE pc[t] = "registerTip"
  <2>1. /\ tipSubs' = tipSubs \cup {t}
        /\ heard' = [heard EXCEPT ![t] = count.changes]
        /\ t \notin tipSubs
        /\ tipChan[t] = <<>>
        /\ t \in Scriber => work[t] = None
    BY <1>9 DEF Register, Fresh
  <2>2. \A s \in Subscriber : Fresh(s)'
    BY <1>1, <1>2, <2>1 DEF Fresh, Goroutine
  <2>3. Hears(t)'
    <3>1. heard'[t] = count.changes /\ count.changes \in Nat
      BY <2>1 DEF Shapes
    <3>2. tipChan'[t] = <<>> /\ Len(tipChan'[t]) = 0 /\ DOMAIN tipChan'[t] = {}
      BY <1>1, <2>1, EmptyIsSeq
    <3>3. Sent(t)' = count.changes
      BY <1>1, <3>1 DEF Sent
    <3> QED
      BY <3>1, <3>2, <3>3 DEF Hears
  <2>4. ASSUME NEW s \in tipSubs PROVE Hears(s)'
    BY <1>1, <1>4, <1>8, <2>1 DEF Hears
  <2>5. ASSUME settled, NEW s \in Scriber \cap tipSubs' PROVE Follows(s)'
    <3>1. CASE s = t
      BY <1>1, <1>2, <1>8, <2>1, <3>1 DEF Follows, HasWork
    <3>2. CASE s \in tipSubs
      BY <1>1, <1>3, <1>8, <2>5, <3>2 DEF Follows, TellsOfTip
    <3> QED
      BY <2>1, <3>1, <3>2
  <2> QED
    BY <1>1, <1>6, <1>7, <2>1, <2>2, <2>3, <2>4, <2>5
<1>10. CASE pc[t] # "registerTip"
  <2>1. UNCHANGED <<tipSubs, heard>>
    BY <1>10 DEF Register
  <2>2. \A s \in Subscriber : Fresh(s)'
    BY <1>1, <1>2, <2>1 DEF Fresh, Goroutine
  <2>3. ASSUME NEW s \in tipSubs PROVE Hears(s)'
    BY <1>1, <1>8, <2>1 DEF Hears
  <2>4. ASSUME settled, NEW s \in Scriber \cap tipSubs PROVE Follows(s)'
    BY <1>1, <1>3, <1>8, <2>4 DEF Follows, TellsOfTip
  <2> QED
    BY <1>1, <1>6, <1>7, <2>1, <2>2, <2>3, <2>4
<1> QED
  BY <1>9, <1>10

LEMMA UnregisterKeeps ==
    ASSUME ChannelsInvariant, NEW t \in Subscriber, Unregister(t)
    PROVE  ChannelsInvariant'
<1> USE DEF ChannelsInvariant
<1>1. /\ at = "select" /\ at' = at /\ todo = <<>> /\ left = {}
      /\ UNCHANGED <<thread, todo, settled, notice, left, tipChan, work, count, heard>>
      /\ \E place \in {"leaveTip", "gone"} : GoTo(t, place)
      /\ tipSubs' \subseteq tipSubs
  BY DEF Unregister, Handling
<1>2. /\ pc' = [g \in Goroutine |-> pc'[g]]
      /\ \A g \in Goroutine : pc'[g] \in {pc[g], "leaveTip", "gone"}
  BY <1>1 DEF Shapes, GoTo
<1>3. \A s \in Scriber : HasWork(s)' => HasWork(s)
  BY <1>1, <1>2 DEF HasWork, Goroutine, Subscriber
<1>4. Shapes'
  BY <1>1, <1>2, <1>3 DEF Shapes
<1>5. Handling'
  BY <1>1 DEF Handling
<1>6. \A s \in Subscriber : Fresh(s)'
  BY <1>1, <1>2 DEF Fresh, Goroutine
<1>7. /\ Tip' = Tip
      /\ \A s : (InHand(s)' <=> InHand(s)) /\ Sent(s)' = Sent(s)
  BY <1>1 DEF InHand, Sent, Tip
<1>8. ASSUME NEW s \in tipSubs' PROVE Hears(s)'
  BY <1>1, <1>7 DEF Hears
<1>9. ASSUME settled, NEW s \in (Scriber \cap tipSubs)' PROVE Follows(s)'
  BY <1>1, <1>3, <1>7, <1>9 DEF Follows, TellsOfTip
<1> QED
  BY <1>1, <1>4, <1>5, <1>6, <1>8, <1>9

----------------------------------------------------------------------------
(* A subscriber reads a notice *)

LEMMA ReadTipKeeps ==
    ASSUME ChannelsInvariant, NEW t \in Subscriber, ReadTip(t)
    PROVE  ChannelsInvariant'
<1> USE DEF ChannelsInvariant
<1> DEFINE first == Head(tipChan[t])
<1>1. /\ pc[t] = "run" /\ tipChan[t] # <<>>
      /\ UNCHANGED <<procVars, count>>
      /\ pc' = pc \/ GoTo(t, "rank")
      /\ tipChan' = [tipChan EXCEPT ![t] = Tail(@)]
      /\ heard' = [heard EXCEPT ![t] = first.number]
      /\ work' = IF t \in Scriber /\ first.change.connect /\ ~first.change.more
                 THEN [work EXCEPT ![t] = NextPlot(first.change.plot.id)]
                 ELSE work
  BY DEF ReadTip
<1>2. /\ tipChan' = [s \in Subscriber |-> tipChan'[s]]
      /\ tipChan'[t] = Tail(tipChan[t])
      /\ \A s \in Subscriber \ {t} : tipChan'[s] = tipChan[s]
      /\ heard' = [s \in Subscriber |-> heard'[s]]
      /\ heard'[t] = first.number
      /\ \A s \in Subscriber \ {t} : heard'[s] = heard[s]
  BY <1>1 DEF Shapes
<1>3. /\ work' = [s \in Scriber |-> work'[s]]
      /\ \A s \in Scriber \ {t} : work'[s] = work[s]
  BY <1>1 DEF Shapes
<1>3a. /\ pc' = [g \in Goroutine |-> pc'[g]]
       /\ \A g \in Goroutine : pc'[g] \in {pc[g], "rank"}
  BY <1>1 DEF Shapes, GoTo
<1>4. IsSeq(tipChan[t])
  BY DEF Shapes
<1>5. /\ IsSeq(tipChan'[t])
      /\ Len(tipChan'[t]) = Len(tipChan[t]) - 1
      /\ \A n \in 1..Len(tipChan[t]) - 1 : tipChan'[t][n] = tipChan[t][n+1]
      /\ first = tipChan[t][1]
      /\ tipChan'[t] = <<>> => Last(tipChan[t]) = first
      /\ tipChan'[t] # <<>> => Last(tipChan'[t]) = Last(tipChan[t])
  <2> DEFINE chan == tipChan[t]
  <2>1. IsSeq(chan) /\ chan # <<>> /\ tipChan'[t] = Tail(chan)
    BY <1>1, <1>2, <1>4
  <2> HIDE DEF chan
  <2>2. /\ IsSeq(Tail(chan))
        /\ Len(Tail(chan)) = Len(chan) - 1
        /\ \A n \in 1..Len(chan) - 1 : Tail(chan)[n] = chan[n+1]
        /\ Head(chan) = chan[1]
        /\ Tail(chan) = <<>> => Last(chan) = Head(chan)
        /\ Tail(chan) # <<>> => Last(Tail(chan)) = Last(chan)
    BY <2>1, TailOfSeq
  <2> QED
    BY <2>1, <2>2 DEF chan
<1>6. /\ Len(tipChan[t]) \in Nat \ {0}
      /\ DOMAIN tipChan[t] = 1..Len(tipChan[t])
      /\ DOMAIN tipChan'[t] = 1..Len(tipChan'[t])
  BY <1>1, <1>4, <1>5, SeqHasLength
<1>7. ASSUME t \in Scriber, HasWork(t)'
      PROVE  work'[t] = [parent |-> work'[t].parent, txs |-> work'[t].txs]
  <2>1. CASE UNCHANGED work
    BY <1>1, <1>7, <1>3a, <2>1 DEF HasWork, Shapes, Goroutine, Subscriber
  <2>2. CASE ~UNCHANGED work
    BY <1>1, <1>7, <2>2 DEF Shapes, NextPlot
  <2> QED
    BY <2>1, <2>2
<1>8. \A s \in Scriber \ {t} : HasWork(s)' => HasWork(s)
  BY <1>3, <1>3a DEF HasWork, Goroutine, Subscriber
<1>9. \A s \in Subscriber : IsSeq(tipChan'[s])
  BY <1>2, <1>5 DEF Shapes
<1>10. Shapes'
  <2>1. \A s \in Scriber :
          HasWork(s)' => work'[s] = [parent |-> work'[s].parent, txs |-> work'[s].txs]
    BY <1>3, <1>7, <1>8 DEF Shapes
  <2>2. UNCHANGED <<thread, todo, tipSubs, count>>
    BY <1>1 DEF procVars
  <2>3. /\ IsSeq(thread') /\ IsSeq(todo') /\ tipSubs' \subseteq Subscriber
        /\ pc' = [g \in Goroutine |-> pc'[g]]
    BY <1>3a, <2>2 DEF Shapes
  <2>4. /\ DOMAIN count' = {"plots", "changes", "calls", "solutions"}
        /\ count' = [f \in DOMAIN count' |-> count'[f]]
        /\ count'.changes \in Nat
    BY <2>2 DEF Shapes
  <2>5. /\ tipChan' = [s \in Subscriber |-> tipChan'[s]]
        /\ heard' = [s \in Subscriber |-> heard'[s]]
        /\ work' = [s \in Scriber |-> work'[s]]
    BY <1>2, <1>3
  <2> HIDE DEF ChannelsInvariant
  <2> QED
    BY <1>9, <2>1, <2>3, <2>4, <2>5 DEF Shapes
<1>11. Handling'
  BY <1>1 DEF Handling, procVars
<1>12. \A s \in Subscriber : Fresh(s)'
  BY <1>1, <1>2, <1>3, <1>3a DEF Fresh, procVars, Goroutine
<1>13. /\ Tip' = Tip
       /\ \A s : (InHand(s)' <=> InHand(s)) /\ Sent(s)' = Sent(s)
  BY <1>1 DEF InHand, Sent, Tip, procVars
<1>14. ASSUME t \in tipSubs PROVE Hears(t)'
  <2>1. /\ heard[t] \in Nat
        /\ heard[t] + Len(tipChan[t]) = Sent(t)
        /\ \A n \in 1..Len(tipChan[t]) : tipChan[t][n].number = heard[t] + n
    BY <1>6, <1>14 DEF Hears
  <2>2. heard'[t] = heard[t] + 1
    BY <1>2, <1>5, <1>6, <2>1
  <2>3. heard'[t] \in Nat /\ heard'[t] + Len(tipChan'[t]) = Sent(t)
    BY <1>5, <1>6, <2>1, <2>2
  <2>4. ASSUME NEW n \in 1..Len(tipChan'[t]) PROVE tipChan'[t][n].number = heard'[t] + n
    <3>1. tipChan'[t][n] = tipChan[t][n+1] /\ n + 1 \in 1..Len(tipChan[t])
      BY <1>5, <1>6
    <3>2. tipChan[t][n+1].number = heard[t] + (n + 1)
      BY <2>1, <3>1
    <3> QED
      <4> DEFINE read == heard[t]
      <4>1. read \in Nat /\ heard'[t] = read + 1 /\ tipChan[t][n+1].number = read + (n + 1)
        BY <2>1, <2>2, <3>2
      <4> HIDE DEF read
      <4>2. read + (n + 1) = (read + 1) + n
        BY <4>1
      <4>3. tipChan'[t][n].number = read + (n + 1)
        BY <3>1, <4>1
      <4> QED
        BY <4>1, <4>2, <4>3
  <2> QED
    BY <1>6, <1>13, <2>3, <2>4 DEF Hears
<1>15. ASSUME NEW s \in tipSubs, s # t PROVE Hears(s)'
  <2>1. tipChan'[s] = tipChan[s] /\ heard'[s] = heard[s] /\ Hears(s)
    BY <1>2, <1>15 DEF Shapes
  <2> QED
    BY <1>13, <2>1 DEF Hears
<1>16. ASSUME settled', todo' = <<>>, NEW s \in (Scriber \cap tipSubs)' PROVE Follows(s)'
  <2>1. Follows(s) /\ s \in Scriber \cap tipSubs /\ notice' = notice
    BY <1>1, <1>16 DEF procVars
  <2>2. CASE s # t
    BY <1>2, <1>3, <1>8, <1>13, <2>1, <2>2 DEF Follows, TellsOfTip, Subscriber
  <2>3. CASE s = t
    <3>1. InHand(t)' => TellsOfTip(notice.change)'
      BY <1>13, <2>1, <2>3 DEF Follows, TellsOfTip
    <3>2. ~InHand(t)' /\ tipChan'[t] # <<>> => TellsOfTip(Last(tipChan[t]).change)'
      BY <1>1, <1>5, <1>13, <2>1, <2>3 DEF Follows, TellsOfTip
    <3>3. ASSUME ~InHand(t)', tipChan'[t] = <<>> PROVE work'[t].parent = Tip'.id
      <4>1. TellsOfTip(first.change)
        BY <1>1, <1>5, <1>13, <2>1, <2>3, <3>3 DEF Follows
      <4>2. work' = [work EXCEPT ![t] = NextPlot(first.change.plot.id)]
        BY <1>1, <2>1, <2>3, <4>1 DEF TellsOfTip, IsLast
      <4>3. work'[t] = NextPlot(first.change.plot.id)
        BY <2>1, <2>3, <4>2 DEF Shapes
      <4> QED
        BY <1>13, <4>1, <4>3 DEF TellsOfTip, NextPlot
    <3> QED
      BY <2>3, <3>1, <3>2, <3>3 DEF Follows
  <2> QED
    BY <2>2, <2>3
<1>17. \A s \in tipSubs' : Hears(s)'
  BY <1>1, <1>14, <1>15 DEF procVars
<1> QED
  BY <1>10, <1>11, <1>12, <1>16, <1>17

----------------------------------------------------------------------------
(* The theorems *)

LEMMA ChannelsNext == ChannelsInvariant /\ [Next]_vars => ChannelsInvariant'
<1> SUFFICES ASSUME ChannelsInvariant, [Next]_vars PROVE ChannelsInvariant'
  OBVIOUS
<1>1. CASE ProcessorStep
  <2>1. CASE TakePlot
    BY <2>1, TakePlotKeeps
  <2>2. CASE TakeRepresentation \/ \E s \in TxSubscriber : SendTx(s)
    BY <2>2, RepresentationsKeep
  <2>3. CASE ChangeLedger
    BY <2>3, ChangeLedgerKeeps
  <2>4. CASE ChangeQueue
    BY <2>4, ChangeQueueKeeps
  <2>5. CASE \E s \in Subscriber : SendTip(s)
    BY <2>5, SendTipKeeps
  <2>6. CASE Reply
    BY <2>6, ReplyKeeps
  <2>7. CASE \E s \in Subscriber : Register(s) \/ Unregister(s)
    BY <2>7, RegisterKeeps, UnregisterKeeps
  <2> QED
    BY <1>1, <2>1, <2>2, <2>3, <2>4, <2>5, <2>6, <2>7 DEF ProcessorStep
<1>2. CASE \/ \E c \in Caller : ProcessPlot(c)
         \/ \E c \in Reader : \E x \in Tx : ProcessRepresentation(c, x)
  BY <1>2, CallersKeep DEF Caller
<1>3. CASE \E s \in Subscriber : Listen(s)
  BY <1>3, ReadTipKeeps, ReadTxKeeps, ScribersKeep DEF Listen
<1>4. CASE \E s \in Scriber : Solve(s)
  BY <1>4, ScribersKeep
<1>5. CASE \E s \in Leaving : Leave(s)
  BY <1>5, LeaveKeeps, ChannelsAssumption
<1>6. CASE UNCHANGED vars
  <2>1. UNCHANGED <<procVars, tipChan, heard, pc, work, count>>
    BY <1>6 DEF vars
  <2>2. \A s : HasWork(s)' <=> HasWork(s)
    BY <2>1 DEF HasWork
  <2>3. Shapes'
    BY <2>1, <2>2 DEF ChannelsInvariant, Shapes, procVars
  <2> QED
    BY <2>1, <2>2, <2>3, Elsewhere
<1> QED
  BY <1>1, <1>2, <1>3, <1>4, <1>5, <1>6 DEF Next

LEMMA ChannelsAlways == Spec => []ChannelsInvariant
<1> QED
  BY ChannelsInit, ChannelsNext, PTL DEF Spec

\* Whatever is full, whoever leaves and in whatever order the channels are
\* visited, a registered subscriber gets every tip change once and in order.
THEOREM NoticesStayComplete == Spec => []NoticesAreComplete
<1>1. ChannelsInvariant => NoticesAreComplete
  BY DEF ChannelsInvariant, Hears, NoticesAreComplete
<1> QED
  BY <1>1, ChannelsAlways, PTL

\* A scriber that has read what it was sent works on the tip, through any
\* reorganizations and roll-backs, as long as no request broke off half-way: it
\* never adds to a plot that was left.
THEOREM ScriberStaysOnTip == Spec => []ScriberFollowsTip
<1>1. ChannelsInvariant => ScriberFollowsTip
  BY DEF ChannelsInvariant, Handling, Follows, InHand, HasWork, ScriberFollowsTip
<1> QED
  BY <1>1, ChannelsAlways, PTL

----------------------------------------------------------------------------
(* Calls *)

\* The places of a goroutine's requests in a channel.
Placed(s, g) == {n \in DOMAIN s : s[n].by = g}

IsHandled(g) == at # "select" /\ caller = g

\* CallersWait, one place after the other.
OneCall(g) ==
    LET plots == Placed(plotChan, g)
        txs == Placed(txChan, g)
    IN  /\ pc[g] = "wait" <=> plots # {} \/ txs # {} \/ IsHandled(g)
        /\ \A m, n \in plots : m = n
        /\ \A m, n \in txs : m = n
        /\ plots = {} \/ txs = {}
        /\ IsHandled(g) => plots = {} /\ txs = {}

Requests ==
    /\ IsSeq(plotChan) /\ IsSeq(txChan)
    /\ pc = [g \in Goroutine |-> pc[g]]
    /\ \A g \in Goroutine : OneCall(g)

LEMMA PlacedEmpty ==
    ASSUME NEW g
    PROVE  Placed(<<>>, g) = {}
BY DEF Placed

LEMMA PlacedAppend ==
    ASSUME NEW s, IsSeq(s), NEW x, NEW g
    PROVE  /\ Len(s) + 1 \notin Placed(s, g)
           /\ Placed(Append(s, x), g) =
                IF x.by = g THEN Placed(s, g) \cup {Len(s) + 1} ELSE Placed(s, g)
<1> DEFINE t == Append(s, x)
<1>1. /\ IsSeq(t) /\ Len(t) = Len(s) + 1
      /\ \A n \in 1..Len(s) : t[n] = s[n]
      /\ t[Len(s) + 1] = x
  BY AppendToSeq
<1>2. Len(s) \in Nat /\ DOMAIN s = 1..Len(s)
  BY SeqHasLength
<1> HIDE DEF t
<1>3. DOMAIN t = 1..Len(t)
  BY <1>1, SeqHasLength
<1>4. \A n : n \in DOMAIN t <=> n \in DOMAIN s \/ n = Len(s) + 1
  BY <1>1, <1>2, <1>3
<1>5. Len(s) + 1 \notin DOMAIN s
  BY <1>2
<1>6. \A n \in DOMAIN s : t[n] = s[n]
  BY <1>1, <1>2
<1>7. \A n : n \in Placed(t, g) <=> n \in Placed(s, g) \/ (n = Len(s) + 1 /\ x.by = g)
  BY <1>1, <1>4, <1>5, <1>6 DEF Placed
<1>8. Placed(t, g) = IF x.by = g THEN Placed(s, g) \cup {Len(s) + 1} ELSE Placed(s, g)
  BY <1>7
<1> QED
  BY <1>5, <1>8 DEF Placed, t

LEMMA PlacedTail ==
    ASSUME NEW s, IsSeq(s), s # <<>>, NEW g
    PROVE  /\ 1 \in Placed(s, g) <=> Head(s).by = g
           /\ \A n : n \in Placed(Tail(s), g) <=> n \in Nat \ {0} /\ n + 1 \in Placed(s, g)
           /\ \A n \in Placed(s, g) : n = 1 \/ n - 1 \in Placed(Tail(s), g)
<1> DEFINE t == Tail(s)
           k == Len(s)
<1>1. /\ IsSeq(t) /\ Len(t) = k - 1
      /\ \A n \in 1..k - 1 : t[n] = s[n+1]
      /\ Head(s) = s[1]
  BY TailOfSeq
<1>2. k \in Nat \ {0} /\ DOMAIN s = 1..k
  BY SeqHasLength
<1> HIDE DEF t, k
<1>3. DOMAIN t = 1..k - 1
  BY <1>1, SeqHasLength
<1>4. 1 \in DOMAIN s
  BY <1>2
<1>5. \A n : n \in DOMAIN t <=> n \in Nat \ {0} /\ n + 1 \in DOMAIN s
  BY <1>2, <1>3
<1>6. \A n \in DOMAIN t : t[n] = s[n+1]
  BY <1>1, <1>3
<1>7. \A n : n \in Placed(t, g) <=> n \in Nat \ {0} /\ n + 1 \in Placed(s, g)
  BY <1>5, <1>6 DEF Placed
<1>8. \A n \in DOMAIN s : n = 1 \/ (n - 1 \in Nat \ {0} /\ n - 1 + 1 = n)
  BY <1>2
<1>9. \A n \in Placed(s, g) : n = 1 \/ n - 1 \in Placed(t, g)
  BY <1>7, <1>8 DEF Placed
<1> QED
  BY <1>1, <1>4, <1>7, <1>9 DEF Placed, t

LEMMA RequestsInit == Init => Requests
<1> SUFFICES ASSUME Init PROVE Requests
  OBVIOUS
<1> USE DEF Init
<1>1. IsSeq(plotChan) /\ IsSeq(txChan)
  BY EmptyIsSeq
<1>2. \A g \in Goroutine : pc[g] # "wait"
  OBVIOUS
<1>3. \A g : Placed(plotChan, g) = {} /\ Placed(txChan, g) = {} /\ ~IsHandled(g)
  BY PlacedEmpty DEF IsHandled
<1>4. pc = [g \in Goroutine |-> pc[g]]
  OBVIOUS
<1> QED
  BY <1>1, <1>2, <1>3, <1>4 DEF Requests, OneCall

\* Whoever begins to wait has put a request on one of the channels.
LEMMA CallIsPlaced ==
    ASSUME Requests, NEW c \in Goroutine, pc[c] = "run", GoTo(c, "wait"),
           NEW x, x.by = c, UNCHANGED <<at, caller>>,
           \/ plotChan' = Append(plotChan, x) /\ UNCHANGED txChan
           \/ txChan' = Append(txChan, x) /\ UNCHANGED plotChan
    PROVE  Requests'
<1>1. /\ pc' = [g \in Goroutine |-> pc'[g]] /\ pc'[c] = "wait"
      /\ \A g \in Goroutine \ {c} : pc'[g] = pc[g]
  BY DEF Requests, GoTo
<1>2. IsSeq(plotChan') /\ IsSeq(txChan')
  BY AppendToSeq DEF Requests
<1>3. \A g : IsHandled(g)' <=> IsHandled(g)
  BY DEF IsHandled
<1>4. Placed(plotChan, c) = {} /\ Placed(txChan, c) = {} /\ ~IsHandled(c)
  BY DEF Requests, OneCall
<1>5. \/ /\ Placed(plotChan', c) = {Len(plotChan) + 1} /\ Placed(txChan', c) = {}
      \/ /\ Placed(txChan', c) = {Len(txChan) + 1} /\ Placed(plotChan', c) = {}
  <2>1. CASE plotChan' = Append(plotChan, x) /\ UNCHANGED txChan
    <3>1. Placed(plotChan', c) = Placed(plotChan, c) \cup {Len(plotChan) + 1}
      BY <2>1, PlacedAppend DEF Requests
    <3> QED
      BY <1>4, <2>1, <3>1
  <2>2. CASE txChan' = Append(txChan, x) /\ UNCHANGED plotChan
    <3>1. Placed(txChan', c) = Placed(txChan, c) \cup {Len(txChan) + 1}
      BY <2>2, PlacedAppend DEF Requests
    <3> QED
      BY <1>4, <2>2, <3>1
  <2> QED
    BY <2>1, <2>2
<1>6. OneCall(c)'
  BY <1>1, <1>3, <1>4, <1>5 DEF OneCall
<1>7. ASSUME NEW g \in Goroutine, g # c PROVE OneCall(g)'
  <2>1. /\ Placed(Append(plotChan, x), g) = Placed(plotChan, g)
        /\ Placed(Append(txChan, x), g) = Placed(txChan, g)
    <3>1. IsSeq(plotChan) /\ IsSeq(txChan) /\ x.by # g
      BY <1>7 DEF Requests
    <3>2. Placed(Append(plotChan, x), g) = Placed(plotChan, g)
      BY <3>1, PlacedAppend
    <3>3. Placed(Append(txChan, x), g) = Placed(txChan, g)
      BY <3>1, PlacedAppend
    <3> QED
      BY <3>2, <3>3
  <2>2. Placed(plotChan', g) = Placed(plotChan, g) /\ Placed(txChan', g) = Placed(txChan, g)
    <3>1. /\ plotChan' \in {plotChan, Append(plotChan, x)}
          /\ txChan' \in {txChan, Append(txChan, x)}
      OBVIOUS
    <3> QED
      BY <2>1, <3>1
  <2>3. OneCall(g) /\ pc'[g] = pc[g]
    BY <1>1, <1>7 DEF Requests
  <2> QED
    BY <1>3, <2>2, <2>3 DEF OneCall
<1> QED
  BY <1>1, <1>2, <1>6, <1>7 DEF Requests

\* A request that the processor takes from a channel is in its hand.
LEMMA CallIsTaken ==
    ASSUME Requests, at = "select", at' # "select", UNCHANGED pc,
           \/ /\ plotChan # <<>> /\ caller' = Head(plotChan).by
              /\ plotChan' = Tail(plotChan) /\ UNCHANGED txChan
           \/ /\ txChan # <<>> /\ caller' = Head(txChan).by
              /\ txChan' = Tail(txChan) /\ UNCHANGED plotChan
    PROVE  Requests'
<1>1. IsSeq(plotChan') /\ IsSeq(txChan')
  BY TailOfSeq DEF Requests
<1>2. ASSUME NEW g \in Goroutine PROVE OneCall(g)'
  <2> DEFINE plots == Placed(plotChan, g)
             txs == Placed(txChan, g)
             plots2 == Placed(plotChan', g)
             txs2 == Placed(txChan', g)
  <2>1. /\ pc[g] = "wait" <=> plots # {} \/ txs # {}
        /\ \A m, n \in plots : m = n
        /\ \A m, n \in txs : m = n
        /\ plots = {} \/ txs = {}
        /\ ~IsHandled(g) /\ pc'[g] = pc[g]
        /\ IsHandled(g)' <=> caller' = g
    BY DEF Requests, OneCall, IsHandled
  <2>2. CASE plotChan # <<>> /\ caller' = Head(plotChan).by
             /\ plotChan' = Tail(plotChan) /\ UNCHANGED txChan
    <3>1. /\ 1 \in plots <=> caller' = g
          /\ \A n : n \in plots2 <=> n \in Nat \ {0} /\ n + 1 \in plots
          /\ \A n \in plots : n = 1 \/ n - 1 \in plots2
      BY <2>2, PlacedTail DEF Requests
    <3>2. txs2 = txs
      BY <2>2
    <3> HIDE DEF plots, plots2, txs, txs2
    <3>3. \A m, n \in plots2 : m = n
      <4> SUFFICES ASSUME NEW m \in plots2, NEW n \in plots2 PROVE m = n
        OBVIOUS
      <4>1. m \in Nat /\ n \in Nat /\ m + 1 = n + 1
        BY <2>1, <3>1
      <4> QED
        BY <4>1
    <3>4. CASE caller' = g
      <4>1. plots = {1} /\ txs = {}
        BY <2>1, <3>1, <3>4
      <4>2. plots2 = {}
        BY <3>1, <4>1
      <4> QED
        BY <2>1, <3>2, <3>4, <4>1, <4>2 DEF OneCall, plots, plots2, txs, txs2
    <3>5. CASE caller' # g
      <4>1. plots # {} <=> plots2 # {}
        BY <3>1, <3>5
      <4> QED
        BY <2>1, <3>2, <3>3, <3>5, <4>1 DEF OneCall, plots, plots2, txs, txs2
    <3> QED
      BY <3>4, <3>5
  <2>3. CASE txChan # <<>> /\ caller' = Head(txChan).by
             /\ txChan' = Tail(txChan) /\ UNCHANGED plotChan
    <3>1. /\ 1 \in txs <=> caller' = g
          /\ \A n : n \in txs2 <=> n \in Nat \ {0} /\ n + 1 \in txs
          /\ \A n \in txs : n = 1 \/ n - 1 \in txs2
      BY <2>3, PlacedTail DEF Requests
    <3>2. plots2 = plots
      BY <2>3
    <3> HIDE DEF plots, plots2, txs, txs2
    <3>3. \A m, n \in txs2 : m = n
      <4> SUFFICES ASSUME NEW m \in txs2, NEW n \in txs2 PROVE m = n
        OBVIOUS
      <4>1. m \in Nat /\ n \in Nat /\ m + 1 = n + 1
        BY <2>1, <3>1
      <4> QED
        BY <4>1
    <3>4. CASE caller' = g
      <4>1. txs = {1} /\ plots = {}
        BY <2>1, <3>1, <3>4
      <4>2. txs2 = {}
        BY <3>1, <4>1
      <4> QED
        BY <2>1, <3>2, <3>4, <4>1, <4>2 DEF OneCall, plots, plots2, txs, txs2
    <3>5. CASE caller' # g
      <4>1. txs # {} <=> txs2 # {}
        BY <3>1, <3>5
      <4> QED
        BY <2>1, <3>2, <3>3, <3>5, <4>1 DEF OneCall, plots, plots2, txs, txs2
    <3> QED
      BY <3>4, <3>5
  <2> QED
    BY <2>2, <2>3
<1> QED
  BY <1>1, <1>2 DEF Requests

\* The one who gets the result has waited for it.
LEMMA CallIsAnswered ==
    ASSUME Requests, Reply
    PROVE  Requests'
<1>1. /\ at # "select" /\ at' = "select" /\ GoTo(caller, "run")
      /\ UNCHANGED <<plotChan, txChan>>
  BY DEF Reply
<1>2. /\ pc' = [g \in Goroutine |-> pc'[g]]
      /\ \A g \in Goroutine : pc'[g] = IF g = caller THEN "run" ELSE pc[g]
  BY <1>1 DEF Requests, GoTo
<1>3. \A g : IsHandled(g) <=> g = caller
  BY <1>1 DEF IsHandled
<1>4. \A g : ~IsHandled(g)'
  BY <1>1 DEF IsHandled
<1>5. ASSUME NEW g \in Goroutine PROVE OneCall(g)'
  <2>1. OneCall(g)
    BY DEF Requests
  <2>2. Placed(plotChan', g) = Placed(plotChan, g) /\ Placed(txChan', g) = Placed(txChan, g)
    BY <1>1
  <2> QED
    BY <1>2, <1>3, <1>4, <2>1, <2>2 DEF OneCall
<1> QED
  BY <1>1, <1>2, <1>5 DEF Requests

\* Nothing else has to do with requests.
LEMMA CallsStay ==
    ASSUME Requests, UNCHANGED <<plotChan, txChan, caller>>, at = "select" <=> at' = "select",
           pc' = [g \in Goroutine |-> pc'[g]],
           \A g \in Goroutine : pc'[g] = "wait" <=> pc[g] = "wait"
    PROVE  Requests'
<1>1. \A g : IsHandled(g)' <=> IsHandled(g)
  BY DEF IsHandled
<1>2. ASSUME NEW g \in Goroutine PROVE OneCall(g)'
  <2>1. OneCall(g)
    BY DEF Requests
  <2>2. Placed(plotChan', g) = Placed(plotChan, g) /\ Placed(txChan', g) = Placed(txChan, g)
    OBVIOUS
  <2> QED
    BY <1>1, <2>1, <2>2 DEF OneCall
<1> QED
  BY <1>2 DEF Requests

LEMMA RequestsNext == Requests /\ [Next]_vars => Requests'
<1> SUFFICES ASSUME Requests, [Next]_vars PROVE Requests'
  OBVIOUS
<1> DEFINE Keeps == /\ UNCHANGED <<plotChan, txChan, caller>>
                    /\ at = "select" <=> at' = "select"
                    /\ pc' = [g \in Goroutine |-> pc'[g]]
                    /\ \A g \in Goroutine : pc'[g] = "wait" <=> pc[g] = "wait"
<1>0. /\ pc = [g \in Goroutine |-> pc[g]]
      /\ Reader \subseteq Goroutine /\ Scriber \subseteq Subscriber
      /\ Leaving \subseteq Subscriber /\ Subscriber \subseteq Goroutine
      /\ Caller \subseteq Goroutine
  BY ChannelsAssumption DEF Requests, Goroutine, Subscriber, Caller
<1>1. ASSUME NEW g \in Goroutine, pc[g] # "wait", NEW place, place # "wait", GoTo(g, place)
      PROVE  /\ pc' = [h \in Goroutine |-> pc'[h]]
             /\ \A h \in Goroutine : pc'[h] = "wait" <=> pc[h] = "wait"
  BY <1>0, <1>1 DEF GoTo
<1>2. ASSUME UNCHANGED pc
      PROVE  /\ pc' = [h \in Goroutine |-> pc'[h]]
             /\ \A h \in Goroutine : pc'[h] = "wait" <=> pc[h] = "wait"
  BY <1>0, <1>2
<1>3. ASSUME Keeps PROVE Requests'
  BY <1>3, CallsStay
<1> HIDE DEF Keeps
<1>4. CASE ProcessorStep
  <2>1. CASE TakePlot
    BY <2>1, CallIsTaken DEF TakePlot
  <2>2. CASE TakeRepresentation
    BY <2>2, CallIsTaken DEF TakeRepresentation
  <2>3. CASE ChangeLedger
    BY <1>2, <1>3, <2>3 DEF ChangeLedger, Keeps
  <2>4. CASE ChangeQueue
    BY <1>2, <1>3, <2>4 DEF ChangeQueue, Keeps
  <2>5. ASSUME NEW s \in Subscriber, SendTip(s) PROVE Requests'
    BY <1>2, <1>3, <2>5 DEF SendTip, Keeps
  <2>6. ASSUME NEW s \in TxSubscriber, SendTx(s) PROVE Requests'
    BY <1>2, <1>3, <2>6 DEF SendTx, Keeps
  <2>7. CASE Reply
    BY <2>7, CallIsAnswered
  <2>8. ASSUME NEW s \in Subscriber, Register(s) PROVE Requests'
    <3>1. s \in Goroutine /\ pc[s] # "wait" /\ \E place : place # "wait" /\ GoTo(s, place)
      BY <1>0, <2>8 DEF Register
    <3>2. UNCHANGED <<plotChan, txChan, caller, at>>
      BY <2>8 DEF Register
    <3> QED
      BY <1>1, <1>3, <3>1, <3>2 DEF Keeps
  <2>9. ASSUME NEW s \in Subscriber, Unregister(s) PROVE Requests'
    <3>1. s \in Goroutine /\ pc[s] # "wait" /\ \E place : place # "wait" /\ GoTo(s, place)
      BY <1>0, <2>9 DEF Unregister
    <3>2. UNCHANGED <<plotChan, txChan, caller, at>>
      BY <2>9 DEF Unregister
    <3> QED
      BY <1>1, <1>3, <3>1, <3>2 DEF Keeps
  <2> QED
    BY <1>4, <2>1, <2>2, <2>3, <2>4, <2>5, <2>6, <2>7, <2>8, <2>9 DEF ProcessorStep
<1>5. ASSUME NEW c \in Caller, ProcessPlot(c) PROVE Requests'
  <2> DEFINE x == [by |-> c, plot |-> None]
  <2>1. /\ c \in Goroutine /\ pc[c] = "run" /\ GoTo(c, "wait") /\ x.by = c
        /\ UNCHANGED <<at, caller, txChan>>
        /\ plotChan' = Append(plotChan, x)
    BY <1>0, <1>5 DEF ProcessPlot, procVars
  <2> HIDE DEF x
  <2> QED
    BY <2>1, CallIsPlaced
<1>6. ASSUME NEW c \in Reader, NEW tx \in Tx, ProcessRepresentation(c, tx) PROVE Requests'
  <2> DEFINE x == [by |-> c, tx |-> tx]
  <2>1. /\ c \in Goroutine /\ pc[c] = "run" /\ GoTo(c, "wait") /\ x.by = c
        /\ UNCHANGED <<at, caller, plotChan>>
        /\ txChan' = Append(txChan, x)
    BY <1>0, <1>6 DEF ProcessRepresentation, procVars
  <2> HIDE DEF x
  <2> QED
    BY <2>1, CallIsPlaced
<1>7. ASSUME NEW s \in Scriber, Solve(s) PROVE Requests'
  <2> DEFINE x == [by |-> s, plot |-> work[s]]
  <2>1. /\ s \in Goroutine /\ pc[s] = "run" /\ GoTo(s, "wait") /\ x.by = s
        /\ UNCHANGED <<at, caller, txChan>>
        /\ plotChan' = Append(plotChan, x)
    BY <1>0, <1>7 DEF Solve, IsQuiet, procVars
  <2> HIDE DEF x
  <2> QED
    BY <2>1, CallIsPlaced
<1>8. ASSUME NEW s \in Subscriber, ReadTip(s) \/ ReadTx(s) PROVE Requests'
  <2>1. UNCHANGED <<plotChan, txChan, caller, at>>
    BY <1>8 DEF ReadTip, ReadTx, procVars
  <2>2. CASE UNCHANGED pc
    BY <1>2, <1>3, <2>1, <2>2 DEF Keeps
  <2>3. CASE ~UNCHANGED pc
    <3>1. s \in Goroutine /\ pc[s] # "wait" /\ \E place : place # "wait" /\ GoTo(s, place)
      BY <1>0, <1>8, <2>3 DEF ReadTip, ReadTx
    <3> QED
      BY <1>1, <1>3, <2>1, <3>1 DEF Keeps
  <2> QED
    BY <2>2, <2>3
<1>9. ASSUME NEW s \in Scriber, ReadThreadTip(s) \/ CreateNextPlot(s) PROVE Requests'
  <2>1. s \in Goroutine /\ pc[s] # "wait" /\ \E place : place # "wait" /\ GoTo(s, place)
    BY <1>0, <1>9 DEF ReadThreadTip, CreateNextPlot, IsQuiet
  <2>2. UNCHANGED <<plotChan, txChan, caller, at>>
    BY <1>9 DEF ReadThreadTip, CreateNextPlot, procVars
  <2> QED
    BY <1>1, <1>3, <2>1, <2>2 DEF Keeps
<1>10. ASSUME NEW s \in Leaving, Leave(s) PROVE Requests'
  <2>1. s \in Goroutine /\ pc[s] # "wait" /\ \E place : place # "wait" /\ GoTo(s, place)
    BY <1>0, <1>10 DEF Leave
  <2>2. UNCHANGED <<plotChan, txChan, caller, at>>
    BY <1>10 DEF Leave, procVars
  <2> QED
    BY <1>1, <1>3, <2>1, <2>2 DEF Keeps
<1>11. CASE UNCHANGED vars
  <2>1. UNCHANGED <<plotChan, txChan, caller, at, pc>>
    BY <1>11 DEF vars, procVars
  <2> QED
    BY <1>2, <1>3, <2>1 DEF Keeps
<1> QED
  BY <1>4, <1>5, <1>6, <1>7, <1>8, <1>9, <1>10, <1>11 DEF Next, Listen

LEMMA RequestsAlways == Spec => []Requests
BY RequestsInit, RequestsNext, PTL DEF Spec

LEMMA OneCallIsOne ==
    ASSUME Requests
    PROVE  CallersWait
<1> SUFFICES ASSUME NEW g \in Goroutine
             PROVE  /\ pc[g] = "wait" <=> Calls(g) # {}
                    /\ \A c, d \in Calls(g) : c = d
  BY DEF CallersWait
<1> DEFINE plots == Placed(plotChan, g)
           txs == Placed(txChan, g)
           hand == IF at # "select" /\ caller = g THEN {<<"processor", 0>>} ELSE {}
<1>1. Calls(g) = ({"plot"} \X plots) \cup ({"tx"} \X txs) \cup hand
  BY DEF Calls, Placed
<1>2. /\ pc[g] = "wait" <=> plots # {} \/ txs # {} \/ hand # {}
      /\ \A m, n \in plots : m = n
      /\ \A m, n \in txs : m = n
      /\ plots = {} \/ txs = {}
      /\ hand # {} => plots = {} /\ txs = {}
      /\ \A c, d \in hand : c = d
  BY DEF Requests, OneCall, IsHandled
<1> HIDE DEF plots, txs, hand
<1>3. Calls(g) # {} <=> plots # {} \/ txs # {} \/ hand # {}
  <2>1. ASSUME NEW A, NEW x PROVE {x} \X A = {} <=> A = {}
    <3>1. ASSUME NEW a \in A PROVE <<x, a>> \in {x} \X A
      OBVIOUS
    <3>2. A = {} => {x} \X A = {}
      OBVIOUS
    <3> QED
      BY <3>1, <3>2
  <2>2. Calls(g) = {} <=> {"plot"} \X plots = {} /\ {"tx"} \X txs = {} /\ hand = {}
    BY Zenon, <1>1
  <2> QED
    BY Zenon, <2>1, <2>2
<1>4. /\ \A c \in {"plot"} \X plots : plots # {} /\ c[2] \in plots /\ c = <<"plot", c[2]>>
      /\ \A c \in {"tx"} \X txs : txs # {} /\ c[2] \in txs /\ c = <<"tx", c[2]>>
  OBVIOUS
<1>5. ASSUME NEW c \in Calls(g), NEW d \in Calls(g) PROVE c = d
  <2>1. CASE plots # {}
    <3>1. c \in {"plot"} \X plots /\ d \in {"plot"} \X plots
      BY <1>1, <1>2, <1>4, <2>1
    <3> QED
      BY <1>2, <1>4, <3>1
  <2>2. CASE txs # {}
    <3>1. c \in {"tx"} \X txs /\ d \in {"tx"} \X txs
      BY <1>1, <1>2, <1>4, <2>2
    <3> QED
      BY <1>2, <1>4, <3>1
  <2>3. CASE plots = {} /\ txs = {}
    <3>1. c \in hand /\ d \in hand
      BY <1>1, <1>4, <2>3
    <3> QED
      BY <1>2, <3>1
  <2> QED
    BY <2>1, <2>2, <2>3
<1> QED
  BY <1>2, <1>3, <1>5

\* Every call is in one place and its caller waits there for the result, however
\* many call and wherever the processor is: sending a result never blocks it.
LEMMA CallersStayWaiting == Spec => []CallersWait
BY RequestsAlways, OneCallIsOne, PTL

----------------------------------------------------------------------------
(* Readers *)

\* Where a goroutine is while its channel is registered.
HasTipChannel(place) == place \notin {"registerTip", "gone"}

HasTxChannel(place) == place \notin {"registerTip", "registerTx", "leaveTip", "gone"}

Registered ==
    /\ pc = [g \in Goroutine |-> pc[g]]
    /\ tipSubs \subseteq Subscriber /\ \A s \in tipSubs : HasTipChannel(pc[s])
    /\ txSubs \subseteq TxSubscriber /\ \A s \in txSubs : HasTxChannel(pc[s])
    /\ \A s \in Subscriber : pc[s] = "registerTx" => s \in TxSubscriber

Sending ==
    /\ at \in {"select", "plot", "queue", "tx"}
    /\ at \in {"select", "queue"} => left = {}
    /\ at = "plot" => left \subseteq tipSubs
    /\ at = "tx" => left \subseteq txSubs

Present == Registered /\ Sending

LEMMA PresentInit == Init => Present
<1> SUFFICES ASSUME Init PROVE Present
  OBVIOUS
<1>1. \A g \in Goroutine : pc[g] # "registerTx"
  BY DEF Init
<1>2. Subscriber \subseteq Goroutine
  BY DEF Goroutine
<1> QED
  BY <1>1, <1>2 DEF Init, Present, Registered, Sending

\* A goroutine with a channel goes where it keeps it.
LEMMA MovesOn ==
    ASSUME Registered, NEW g \in Goroutine, NEW place, GoTo(g, place),
           UNCHANGED <<tipSubs, txSubs>>,
           HasTipChannel(pc[g]) => HasTipChannel(place),
           HasTxChannel(pc[g]) /\ g \in TxSubscriber => HasTxChannel(place),
           place # "registerTx"
    PROVE  Registered'
<1>1. /\ pc' = [h \in Goroutine |-> pc'[h]] /\ pc'[g] = place
      /\ \A h \in Goroutine \ {g} : pc'[h] = pc[h]
  BY DEF Registered, GoTo
<1>2. TxSubscriber \subseteq Subscriber /\ Subscriber \subseteq Goroutine
  BY DEF TxSubscriber, Subscriber, Goroutine
<1>3. ASSUME NEW s \in tipSubs PROVE HasTipChannel(pc'[s])
  BY <1>1, <1>2 DEF Registered
<1>4. ASSUME NEW s \in txSubs PROVE HasTxChannel(pc'[s])
  BY <1>1, <1>2 DEF Registered
<1> QED
  BY <1>1, <1>2, <1>3, <1>4 DEF Registered

LEMMA SendingStays ==
    ASSUME Sending, UNCHANGED <<at, left, tipSubs, txSubs>>
    PROVE  Sending'
BY DEF Sending

LEMMA PresentRegister ==
    ASSUME Present, NEW t \in Subscriber, Register(t)
    PROVE  Present'
<1>1. at = "select" /\ left = {} /\ UNCHANGED <<at, left>>
  BY DEF Register, Present, Sending
<1>2. t \in Goroutine /\ TxSubscriber \subseteq Subscriber /\ Subscriber \subseteq Goroutine
  BY DEF TxSubscriber, Subscriber, Goroutine
<1>3. CASE pc[t] = "registerTip"
  <2>1. /\ tipSubs' = tipSubs \cup {t} /\ txSubs' = txSubs
        /\ GoTo(t, IF t \in TxSubscriber THEN "registerTx" ELSE "run")
    BY <1>3 DEF Register
  <2>2. /\ pc' = [h \in Goroutine |-> pc'[h]]
        /\ pc'[t] = IF t \in TxSubscriber THEN "registerTx" ELSE "run"
        /\ \A h \in Goroutine \ {t} : pc'[h] = pc[h]
    BY <1>2, <2>1 DEF Present, Registered, GoTo
  <2>3. t \notin txSubs
    BY <1>3 DEF Present, Registered, HasTxChannel
  <2>4. Registered'
    BY <1>2, <2>1, <2>2, <2>3 DEF Present, Registered, HasTipChannel
  <2> QED
    BY <1>1, <2>4 DEF Present, Sending
<1>4. CASE pc[t] # "registerTip"
  <2>1. /\ pc[t] = "registerTx" /\ tipSubs' = tipSubs /\ txSubs' = txSubs \cup {t}
        /\ GoTo(t, "run")
    BY <1>4 DEF Register
  <2>2. /\ pc' = [h \in Goroutine |-> pc'[h]]
        /\ pc'[t] = "run"
        /\ \A h \in Goroutine \ {t} : pc'[h] = pc[h]
    BY <1>2, <2>1 DEF Present, Registered, GoTo
  <2>3. t \in TxSubscriber
    BY <2>1 DEF Present, Registered
  <2>4. Registered'
    BY <1>2, <2>1, <2>2, <2>3 DEF Present, Registered, HasTipChannel, HasTxChannel
  <2> QED
    BY <1>1, <2>4 DEF Present, Sending
<1> QED
  BY <1>3, <1>4

LEMMA PresentUnregister ==
    ASSUME Present, NEW t \in Subscriber, Unregister(t)
    PROVE  Present'
<1>1. at = "select" /\ left = {} /\ UNCHANGED <<at, left>>
  BY DEF Unregister, Present, Sending
<1>2. t \in Goroutine /\ TxSubscriber \subseteq Subscriber /\ Subscriber \subseteq Goroutine
  BY DEF TxSubscriber, Subscriber, Goroutine
<1>3. \/ /\ pc[t] = "leaveTx" /\ txSubs' = txSubs \ {t} /\ tipSubs' = tipSubs
         /\ GoTo(t, "leaveTip")
      \/ /\ pc[t] = "leaveTip" /\ tipSubs' = tipSubs \ {t} /\ txSubs' = txSubs
         /\ GoTo(t, "gone")
  BY DEF Unregister
<1>4. /\ pc' = [h \in Goroutine |-> pc'[h]]
      /\ pc'[t] \in {"leaveTip", "gone"}
      /\ pc'[t] = "gone" => t \notin tipSubs'
      /\ t \notin txSubs'
      /\ \A h \in Goroutine \ {t} : pc'[h] = pc[h]
  BY <1>2, <1>3 DEF Present, Registered, GoTo, HasTxChannel
<1>5. tipSubs' \subseteq tipSubs /\ txSubs' \subseteq txSubs
  BY <1>3
<1>6. \A s \in tipSubs' : HasTipChannel(pc'[s])
  BY <1>2, <1>4, <1>5 DEF Present, Registered, HasTipChannel
<1>7. \A s \in txSubs' : HasTxChannel(pc'[s])
  BY <1>2, <1>4, <1>5 DEF Present, Registered
<1>8. Registered'
  BY <1>2, <1>4, <1>5, <1>6, <1>7 DEF Present, Registered
<1> QED
  BY <1>1, <1>8 DEF Present, Sending

LEMMA PresentNext == Present /\ [Next]_vars => Present'
<1> SUFFICES ASSUME Present, [Next]_vars PROVE Present'
  OBVIOUS
<1>0. /\ Registered /\ Sending
      /\ Reader \subseteq Goroutine /\ Scriber \subseteq Subscriber
      /\ Leaving \subseteq Subscriber /\ Subscriber \subseteq Goroutine
      /\ Caller \subseteq Goroutine
  BY ChannelsAssumption DEF Present, Goroutine, Subscriber, Caller
<1>1. ASSUME UNCHANGED <<pc, tipSubs, txSubs>> PROVE Registered'
  BY <1>0, <1>1 DEF Registered
<1>2. ASSUME UNCHANGED procVars PROVE Sending' /\ UNCHANGED <<tipSubs, txSubs>>
  BY <1>0, <1>2, SendingStays DEF procVars
<1>3. ASSUME NEW g \in Goroutine, UNCHANGED <<tipSubs, txSubs>>,
             \/ GoTo(g, "run") \/ GoTo(g, "wait") \/ GoTo(g, "create") \/ GoTo(g, "rank")
             \/ pc[g] = "run" /\ GoTo(g, IF g \in TxSubscriber THEN "leaveTx" ELSE "leaveTip")
      PROVE  Registered'
  <2>1. CASE GoTo(g, "run")
    BY <1>0, <1>3, <2>1, MovesOn DEF HasTipChannel, HasTxChannel
  <2>2. CASE GoTo(g, "wait")
    BY <1>0, <1>3, <2>2, MovesOn DEF HasTipChannel, HasTxChannel
  <2>3. CASE GoTo(g, "create")
    BY <1>0, <1>3, <2>3, MovesOn DEF HasTipChannel, HasTxChannel
  <2>5. CASE GoTo(g, "rank")
    BY <1>0, <1>3, <2>5, MovesOn DEF HasTipChannel, HasTxChannel
  <2>4. CASE GoTo(g, IF g \in TxSubscriber THEN "leaveTx" ELSE "leaveTip")
    <3>1. CASE g \in TxSubscriber
      BY <1>0, <1>3, <2>4, <3>1, MovesOn DEF HasTipChannel, HasTxChannel
    <3>2. CASE g \notin TxSubscriber
      BY <1>0, <1>3, <2>4, <3>2, MovesOn DEF HasTipChannel, HasTxChannel
    <3> QED
      BY <3>1, <3>2
  <2> QED
    BY <1>3, <2>1, <2>2, <2>3, <2>4, <2>5
<1>4. CASE ProcessorStep
  <2>1. CASE TakePlot
    BY <1>0, <1>1, <2>1 DEF TakePlot, Present, Sending
  <2>2. CASE TakeRepresentation
    <3>1. UNCHANGED <<pc, tipSubs, txSubs>> /\ at' = "tx" /\ left' \subseteq txSubs'
      BY <2>2 DEF TakeRepresentation
    <3> QED
      BY <1>1, <3>1 DEF Present, Sending
  <2>3. CASE ChangeLedger
    BY <1>0, <1>1, <2>3 DEF ChangeLedger, Present, Sending
  <2>4. CASE ChangeQueue
    BY <1>0, <1>1, <2>4 DEF ChangeQueue, Present, Sending
  <2>5. ASSUME NEW s \in Subscriber, SendTip(s) PROVE Present'
    BY <1>0, <1>1, <2>5 DEF SendTip, Present, Sending
  <2>6. ASSUME NEW s \in TxSubscriber, SendTx(s) PROVE Present'
    BY <1>0, <1>1, <2>6 DEF SendTx, Present, Sending
  <2>7. CASE Reply
    <3>1. /\ at' = "select" /\ left' = {} /\ GoTo(caller, "run")
          /\ UNCHANGED <<tipSubs, txSubs>>
      BY <2>7 DEF Reply
    <3>2. Registered'
      <4>1. CASE caller \in Goroutine
        BY <1>3, <3>1, <4>1
      <4>2. CASE caller \notin Goroutine
        <5>1. pc' = pc
          BY <1>0, <3>1, <4>2 DEF Registered, GoTo
        <5> QED
          BY <1>1, <3>1, <5>1
      <4> QED
        BY <4>1, <4>2
    <3> QED
      BY <3>1, <3>2 DEF Present, Sending
  <2>8. ASSUME NEW s \in Subscriber, Register(s) \/ Unregister(s) PROVE Present'
    BY <2>8, PresentRegister, PresentUnregister
  <2> QED
    BY <1>4, <2>1, <2>2, <2>3, <2>4, <2>5, <2>6, <2>7, <2>8 DEF ProcessorStep
<1>5. ASSUME NEW c \in Goroutine, ProcessPlot(c) \/ \E x \in Tx : ProcessRepresentation(c, x)
      PROVE  Present'
  <2>1. UNCHANGED procVars /\ GoTo(c, "wait")
    BY <1>5 DEF ProcessPlot, ProcessRepresentation
  <2> QED
    BY <1>0, <1>2, <1>3, <2>1 DEF Present
<1>6. ASSUME NEW s \in Subscriber, ReadTip(s) \/ ReadTx(s) PROVE Present'
  <2>1. UNCHANGED procVars /\ (UNCHANGED pc \/ GoTo(s, "rank"))
    BY <1>6 DEF ReadTip, ReadTx
  <2> QED
    BY <1>0, <1>1, <1>2, <1>3, <2>1 DEF Present
<1>7. ASSUME NEW s \in Scriber, ReadThreadTip(s) \/ CreateNextPlot(s) \/ Solve(s) PROVE Present'
  <2>1. UNCHANGED procVars /\ (GoTo(s, "run") \/ GoTo(s, "wait") \/ GoTo(s, "create"))
    BY <1>7 DEF ReadThreadTip, CreateNextPlot, Solve
  <2> QED
    BY <1>0, <1>2, <1>3, <2>1 DEF Present
<1>8. ASSUME NEW s \in Leaving, Leave(s) PROVE Present'
  <2>1. /\ UNCHANGED procVars /\ pc[s] = "run"
        /\ GoTo(s, IF s \in TxSubscriber THEN "leaveTx" ELSE "leaveTip")
    BY <1>8 DEF Leave
  <2> QED
    BY <1>0, <1>2, <1>3, <2>1 DEF Present
<1>9. CASE UNCHANGED vars
  <2>1. UNCHANGED procVars /\ UNCHANGED pc
    BY <1>9 DEF vars
  <2> QED
    BY <1>1, <1>2, <2>1 DEF Present
<1> QED
  BY <1>0, <1>4, <1>5, <1>6, <1>7, <1>8, <1>9 DEF Next, Listen

\* Nobody goes while the processor has a notice for it, and it has none for
\* those who have gone: it waits only for readers that are there.
LEMMA NoticesKeepReaders == Spec => []NoticesHaveReaders
<1>1. Present => NoticesHaveReaders
  <2> SUFFICES ASSUME Present, NEW s \in left
               PROVE  /\ pc[s] \notin {"registerTip", "gone"}
                      /\ at = "tx" => pc[s] \notin {"registerTx", "leaveTip"}
    BY DEF NoticesHaveReaders
  <2>1. at = "plot" => HasTipChannel(pc[s])
    BY DEF Present, Sending, Registered
  <2>2. at = "tx" => HasTxChannel(pc[s])
    BY DEF Present, Sending, Registered
  <2>3. at \in {"plot", "tx"}
    BY DEF Present, Sending
  <2> QED
    BY <2>1, <2>2, <2>3 DEF HasTipChannel, HasTxChannel
<1> QED
  BY <1>1, PresentInit, PresentNext, PTL DEF Spec

\* Neither a result nor a notice is for somebody who has given up on it:
\* what may stop the processor is a full channel whose reader is there.
THEOREM ReceiversStay == Spec => []ReceiversAreThere
<1>1. CallersWait /\ NoticesHaveReaders => ReceiversAreThere
  BY DEF ReceiversAreThere
<1> QED
  BY <1>1, CallersStayWaiting, NoticesKeepReaders, PTL

----------------------------------------------------------------------------
(* The rest of the queue *)

LEMMA OneMore ==
    ASSUME NEW S, NEW s \in Seq(S), NEW e \in S
    PROVE  /\ Append(s, e) \in Seq(S)
           /\ Len(Append(s, e)) = Len(s) + 1
           /\ Range(Append(s, e)) = Range(s) \cup {e}
           /\ IsInjective(s) /\ e \notin Range(s) => IsInjective(Append(s, e))
<1> DEFINE t == Append(s, e)
<1>1. /\ t \in Seq(S) /\ Len(s) \in Nat /\ Len(t) = Len(s) + 1
      /\ DOMAIN t = 1..Len(s) + 1 /\ DOMAIN s = 1..Len(s)
      /\ t[Len(s) + 1] = e
      /\ \A i \in 1..Len(s) : t[i] = s[i]
  OBVIOUS
<1> HIDE DEF t
<1>2. \A i : i \in 1..Len(s) + 1 <=> i \in 1..Len(s) \/ i = Len(s) + 1
  BY <1>1
<1>3. Range(t) = Range(s) \cup {e}
  BY <1>1, <1>2 DEF Range
<1>4. ASSUME IsInjective(s), e \notin Range(s) PROVE IsInjective(t)
  <2>1. \A i \in 1..Len(s) : s[i] # e
    BY <1>1, <1>4 DEF Range
  <2> QED
    BY <1>1, <1>2, <1>4, <2>1 DEF IsInjective
<1> QED
  BY <1>1, <1>3, <1>4 DEF t

\* Two lists of different things, one after the other.
LEMMA OneAfterTheOther ==
    ASSUME NEW S, NEW s \in Seq(S), NEW t \in Seq(S),
           IsInjective(s), IsInjective(t), Range(s) \cap Range(t) = {}
    PROVE  s \o t \in Seq(S) /\ IsInjective(s \o t)
<1> DEFINE u == s \o t
           m == Len(s)
           n == Len(t)
<1>1. u \in Seq(S) /\ m \in Nat /\ n \in Nat
  OBVIOUS
<1>2. DOMAIN u = 1..m + n /\ DOMAIN s = 1..m /\ DOMAIN t = 1..n
  OBVIOUS
<1>3. /\ \A i \in 1..m : u[i] = s[i]
      /\ \A i \in m+1..m+n : u[i] = t[i-m]
  OBVIOUS
<1> HIDE DEF u, m, n
<1>4. \A i \in 1..m + n : i \in 1..m \/ (i \in m+1..m+n /\ i - m \in 1..n)
  BY <1>1
<1>5. \A a \in 1..m, b \in 1..n : s[a] # t[b]
  BY <1>2 DEF Range
<1>6. ASSUME NEW i \in 1..m + n, NEW j \in 1..m + n, u[i] = u[j]
      PROVE  i = j
  <2>1. CASE i \in 1..m /\ j \in 1..m
    <3>1. s[i] = s[j]
      BY <1>3, <1>6, <2>1
    <3> QED
      BY <1>2, <2>1, <3>1 DEF IsInjective
  <2>2. CASE i \in m+1..m+n /\ j \in m+1..m+n /\ i - m \in 1..n /\ j - m \in 1..n
    <3>1. t[i-m] = t[j-m]
      BY <1>3, <1>6, <2>2
    <3>2. i - m = j - m
      BY <1>2, <2>2, <3>1 DEF IsInjective
    <3> QED
      BY <1>1, <2>2, <3>2
  <2>3. CASE i \in 1..m /\ j \in m+1..m+n /\ j - m \in 1..n
    BY <1>3, <1>5, <1>6, <2>3
  <2>4. CASE i \in m+1..m+n /\ j \in 1..m /\ i - m \in 1..n
    BY <1>3, <1>5, <1>6, <2>4
  <2> QED
    BY <1>4, <2>1, <2>2, <2>3, <2>4
<1>7. IsInjective(u)
  BY <1>2, <1>6 DEF IsInjective
<1> QED
  BY <1>1, <1>7 DEF u

\* The recursive function of Without.
Rest(f, txs, k) ==
    f = [n \in 0..k |->
           IF n = 0 THEN <<>>
           ELSE IF txQueue[n] \in Range(txs) THEN f[n-1]
           ELSE Append(f[n-1], txQueue[n])]

RestByOne(f, txs, k) ==
    /\ f[0] = <<>>
    /\ \A n \in Nat : n + 1 <= k =>
         f[n+1] = IF txQueue[n+1] \in Range(txs) THEN f[n] ELSE Append(f[n], txQueue[n+1])

LEMMA RestSteps ==
    ASSUME NEW txs, NEW k \in Nat, NEW f, Rest(f, txs, k)
    PROVE  RestByOne(f, txs, k)
<1> DEFINE Value(n) == IF n = 0 THEN <<>>
                      ELSE IF txQueue[n] \in Range(txs) THEN f[n-1]
                      ELSE Append(f[n-1], txQueue[n])
           g == [n \in 0..k |-> Value(n)]
<1>1. f = g
  BY Zenon DEF Rest
<1> HIDE DEF Value
<1>2. g[0] = Value(0) /\ \A n \in Nat : n + 1 <= k => g[n+1] = Value(n+1)
  OBVIOUS
<1> HIDE DEF g
<1>3. f[0] = Value(0) /\ \A n \in Nat : n + 1 <= k => f[n+1] = Value(n+1)
  BY <1>1, <1>2
<1>4. \A n \in Nat : n + 1 # 0 /\ n + 1 - 1 = n
  OBVIOUS
<1> QED
  BY <1>3, <1>4 DEF Value, RestByOne

LEMMA RestExists ==
    ASSUME NEW txs, NEW k \in Nat
    PROVE  \E f : Rest(f, txs, k)
<1> DEFINE Value(f, n) == IF n = 0 THEN <<>>
                          ELSE IF txQueue[n] \in Range(txs) THEN f[n-1]
                          ELSE Append(f[n-1], txQueue[n])
           IsRest(f, m) == f = [n \in 0..m |-> Value(f, n)]
           A == {m \in Nat : \E f : IsRest(f, m)}
<1>1. 0 \in A
  <2> DEFINE f == [n \in 0..0 |-> <<>>]
  <2>1. \A n \in 0..0 : n = 0
    OBVIOUS
  <2>2. \A n \in 0..0 : Value(f, n) = <<>>
    BY <2>1
  <2> HIDE DEF Value
  <2>3. [n \in 0..0 |-> Value(f, n)] = f
    BY <2>2
  <2> HIDE DEF f
  <2> QED
    BY <2>3
<1>2. ASSUME NEW m \in Nat, m \in A PROVE m + 1 \in A
  <2>1. PICK f : IsRest(f, m)
    BY <1>2
  <2> DEFINE g == [n \in 0..m+1 |-> Value(f, n)]
  <2>2. ASSUME NEW n \in 0..m PROVE g[n] = f[n]
    <3>1. g[n] = Value(f, n)
      OBVIOUS
    <3>2. f[n] = Value(f, n)
      <4> HIDE DEF Value
      <4> DEFINE e == [i \in 0..m |-> Value(f, i)]
      <4>1. f = e /\ e[n] = Value(f, n)
        BY <2>1
      <4> HIDE DEF e
      <4> QED
        BY <4>1
    <3> QED
      BY <3>1, <3>2
  <2>3. ASSUME NEW n \in 0..m+1 PROVE Value(g, n) = Value(f, n)
    <3>1. CASE n = 0
      BY <3>1
    <3>2. CASE n # 0
      <4>1. n - 1 \in 0..m
        BY <3>2
      <4>2. g[n-1] = f[n-1]
        BY <2>2, <4>1
      <4> HIDE DEF g
      <4> QED
        BY <3>2, <4>2
    <3> QED
      BY <3>1, <3>2
  <2> HIDE DEF Value
  <2>4. g = [n \in 0..m+1 |-> Value(g, n)]
    <3> DEFINE h == [n \in 0..m+1 |-> Value(g, n)]
    <3>1. \A n \in 0..m+1 : h[n] = g[n]
      BY <2>3
    <3> QED
      BY <3>1
  <2> HIDE DEF g
  <2> QED
    BY <2>4
<1>3. Nat \subseteq A
  <2> HIDE DEF A
  <2> QED
    BY <1>1, <1>2, Induction
<1>4. PICK f : IsRest(f, k)
  BY <1>3
<1> QED
  BY Zenon, <1>4 DEF Rest

\* What Without is for.
LEMMA RestOfQueue ==
    ASSUME txQueue \in Seq(Tx), IsInjective(txQueue), NEW txs
    PROVE  /\ Without(txs) \in Seq(Tx)
           /\ IsInjective(Without(txs))
           /\ Range(Without(txs)) = Range(txQueue) \ Range(txs)
<1> DEFINE k == Len(txQueue)
<1>1. /\ k \in Nat /\ DOMAIN txQueue = 1..k
      /\ \A n \in 1..k : txQueue[n] \in Tx
  OBVIOUS
<1> DEFINE f == CHOOSE f : Rest(f, txs, k)
<1>2. Rest(f, txs, k)
  BY <1>1, RestExists
<1>3. Without(txs) = f[k]
  BY Zenon DEF Without, Rest
<1> HIDE DEF f, k
<1>4. RestByOne(f, txs, k)
  BY <1>1, <1>2, RestSteps
<1> DEFINE Good(n) == /\ f[n] \in Seq(Tx)
                      /\ IsInjective(f[n])
                      /\ Range(f[n]) = {txQueue[i] : i \in 1..n} \ Range(txs)
           A == {n \in Nat : n <= k => Good(n)}
<1>5. 0 \in A
  <2>1. f[0] = <<>>
    BY <1>4 DEF RestByOne
  <2>2. {txQueue[i] : i \in 1..0} = {}
    OBVIOUS
  <2>3. Good(0)
    BY <2>1, <2>2 DEF IsInjective, Range
  <2> QED
    BY <2>3
<1>6. ASSUME NEW n \in Nat, n \in A PROVE n + 1 \in A
  <2> SUFFICES ASSUME n + 1 <= k PROVE Good(n + 1)
    OBVIOUS
  <2> DEFINE x == txQueue[n+1]
  <2>1. Good(n) /\ n + 1 \in 1..k
    BY <1>1, <1>6
  <2>2. x \in Tx
    BY <1>1, <2>1
  <2>3. f[n+1] = IF x \in Range(txs) THEN f[n] ELSE Append(f[n], x)
    BY <1>4 DEF RestByOne
  <2>4. {txQueue[i] : i \in 1..n+1} = {txQueue[i] : i \in 1..n} \cup {x}
    <3>1. \A i : i \in 1..n+1 <=> i \in 1..n \/ i = n + 1
      OBVIOUS
    <3> QED
      BY <3>1
  <2>5. x \notin {txQueue[i] : i \in 1..n}
    BY <1>1, <2>1 DEF IsInjective
  <2> HIDE DEF x
  <2>6. CASE x \in Range(txs)
    BY <2>1, <2>3, <2>4, <2>6
  <2>7. CASE x \notin Range(txs)
    <3>1. f[n+1] = Append(f[n], x) /\ x \notin Range(f[n])
      BY <2>1, <2>3, <2>5, <2>7
    <3>2. /\ f[n+1] \in Seq(Tx) /\ IsInjective(f[n+1])
          /\ Range(f[n+1]) = Range(f[n]) \cup {x}
      BY <2>1, <2>2, <3>1, OneMore
    <3> QED
      BY <2>1, <2>4, <2>7, <3>2
  <2> QED
    BY <2>6, <2>7
<1>7. Nat \subseteq A
  <2> HIDE DEF A
  <2> QED
    BY <1>5, <1>6, Induction
<1>8. Good(k)
  <2>1. k \in A
    BY <1>1, <1>7
  <2> QED
    BY <2>1, <1>1
<1>9. {txQueue[i] : i \in 1..k} = Range(txQueue)
  BY <1>1 DEF Range
<1> QED
  BY <1>3, <1>8, <1>9

----------------------------------------------------------------------------
(* Types *)

LEMMA AllButLast ==
    ASSUME NEW S, NEW s \in Seq(S), Len(s) - 1 >= 1
    PROVE  /\ SubSeq(s, 1, Len(s) - 1) \in Seq(S)
           /\ SubSeq(s, 1, Len(s) - 1) # <<>>
           /\ SubSeq(s, 1, Len(s) - 1)[1] = s[1]
<1> DEFINE t == SubSeq(s, 1, Len(s) - 1)
<1>1. t \in Seq(S) /\ Len(t) = Len(s) - 1 /\ t[1] = s[1]
  OBVIOUS
<1>2. t # <<>>
  <2>1. Len(t) # 0
    BY <1>1
  <2> HIDE DEF t
  <2> QED
    BY <2>1
<1> QED
  BY <1>1, <1>2

SoundPlot == {p \in [id : Nat, txs : Seq(Tx)] : IsInjective(p.txs)}

Change == [plot : SoundPlot, connect : BOOLEAN, more : BOOLEAN]

ThreadTyped ==
    /\ thread \in Seq(SoundPlot) /\ thread # <<>> /\ thread[1] = Genesis
    /\ count.plots \in Nat

\* What is taken off is not the first plot: it has just been put on, or there is
\* one besides the first.
TodoTyped ==
    /\ todo \in Seq(Change)
    /\ \A n \in 1..Len(todo) :
         ~todo[n].connect => IF n = 1 THEN Len(thread) > 1 ELSE todo[n-1].connect

NoticeTyped ==
    /\ at = "queue" => notice.change \in Change
    /\ at = "tx" => notice \in Tx

QueueTyped == txQueue \in Seq(Tx) /\ IsInjective(txQueue)

MayBeSolved(plot) == plot # None => plot.txs \in Seq(Tx)

RequestsTyped ==
    /\ IsSeq(plotChan) /\ Len(plotChan) <= PlotCapacity
    /\ \A n \in DOMAIN plotChan : MayBeSolved(plotChan[n].plot)
    /\ IsSeq(txChan) /\ Len(txChan) <= RepresentationCapacity
    /\ \A n \in DOMAIN txChan : txChan[n].tx \in Tx

FitsPlot(plot) ==
    plot # None => plot.txs \in Seq(Tx) /\ Len(plot.txs) < MAX_REPRESENTATIONS_TO_INCLUDE_PER_PLOT

WorkTyped ==
    /\ work = [s \in Scriber |-> work[s]]
    /\ \A s \in Scriber : FitsPlot(work[s])

TipChanTyped ==
    /\ tipChan = [s \in Subscriber |-> tipChan[s]]
    /\ \A s \in Subscriber : IsSeq(tipChan[s]) /\ Len(tipChan[s]) <= TipCapacity[s]

NewTxChanTyped ==
    /\ newTxChan = [s \in TxSubscriber |-> newTxChan[s]]
    /\ \A s \in TxSubscriber : newTxChan[s] \in Seq(Tx) /\ Len(newTxChan[s]) <= TxCapacity[s]

PcTyped == pc \in [Goroutine -> Places]

ChannelsTyped == RequestsTyped /\ TipChanTyped /\ NewTxChanTyped

Typed ==
    ThreadTyped /\ TodoTyped /\ NoticeTyped /\ QueueTyped /\ WorkTyped /\ ChannelsTyped /\ PcTyped

LEMMA NoneIsInjective == <<>> \in Seq(Tx) /\ IsInjective(<<>>)
BY DEF IsInjective

LEMMA OneIsInjective ==
    ASSUME NEW x \in Tx
    PROVE  <<x>> \in Seq(Tx) /\ IsInjective(<<x>>)
BY DEF IsInjective

LEMMA TypedInit == Init => Typed
<1> SUFFICES ASSUME Init PROVE Typed
  OBVIOUS
<1> USE DEF Init
<1>1. Genesis \in SoundPlot
  BY NoneIsInjective DEF Genesis, SoundPlot
<1>2. ThreadTyped
  BY <1>1 DEF ThreadTyped
<1>3. TodoTyped /\ NoticeTyped
  BY DEF TodoTyped, NoticeTyped
<1>4. QueueTyped
  BY NoneIsInjective DEF QueueTyped
<1>5. WorkTyped
  BY DEF WorkTyped, FitsPlot
<1>6. IsSeq(<<>>) /\ Len(<<>>) = 0 /\ DOMAIN <<>> = {} /\ <<>> \in Seq(Tx)
  BY EmptyIsSeq
<1>7. RequestsTyped
  BY <1>6, ChannelsAssumption DEF RequestsTyped
<1>8. TipChanTyped
  BY <1>6, ChannelsAssumption DEF TipChanTyped
<1>9. NewTxChanTyped
  BY <1>6, ChannelsAssumption DEF NewTxChanTyped
<1>10. PcTyped
  BY DEF PcTyped, Places
<1> QED
  BY <1>2, <1>3, <1>4, <1>5, <1>7, <1>8, <1>9, <1>10 DEF Typed, ChannelsTyped

----------------------------------------------------------------------------
(* Types: the processor's steps *)

LEMMA ContentsAreSound ==
    ASSUME NEW t, NEW txs \in Contents(t)
    PROVE  txs \in Seq(Tx) /\ IsInjective(txs)
BY NoneIsInjective, OneIsInjective DEF Contents

LEMMA NewPlotIsSound ==
    ASSUME ThreadTyped, NEW n \in Nat, NEW txs \in Seq(Tx), IsInjective(txs)
    PROVE  NewPlot(n, txs) \in SoundPlot
BY DEF ThreadTyped, NewPlot, SoundPlot

LEMMA TipIsSound ==
    ASSUME ThreadTyped
    PROVE  Tip \in SoundPlot
BY DEF ThreadTyped, Tip, Last

LEMMA ChangesAreTyped ==
    ASSUME ThreadTyped, UNCHANGED thread, NEW plot, MayBeSolved(plot),
           todo' \in IF plot = None THEN PeerOutcomes ELSE ScriberOutcomes(plot)
    PROVE  TodoTyped'
<1>1. ASSUME NEW p \in SoundPlot, NEW more \in BOOLEAN
      PROVE  /\ Connection(p, more) \in Change /\ Connection(p, more).connect
             /\ Disconnection(p) \in Change
  BY DEF Connection, Disconnection, Change
<1>2. \/ todo' = <<>>
      \/ \E txs \in Seq(Tx) : IsInjective(txs) /\ todo' = Extension(txs)
      \/ todo' \in Reorganizations
  <2>1. CASE plot = None
    BY <2>1, ContentsAreSound DEF PeerOutcomes
  <2>2. CASE plot # None
    BY <2>2 DEF ScriberOutcomes, IsValid, MayBeSolved
  <2> QED
    BY <2>1, <2>2
<1>3. CASE todo' = <<>>
  BY <1>3 DEF TodoTyped
<1>4. CASE \E txs \in Seq(Tx) : IsInjective(txs) /\ todo' = Extension(txs)
  <2>1. PICK c \in Change : todo' = <<c>> /\ c.connect
    BY <1>1, <1>4, NewPlotIsSound DEF Extension
  <2> QED
    BY <2>1 DEF TodoTyped
<1>5. CASE todo' \in Reorganizations
  <2>1. Len(thread) > 1
    BY <1>5 DEF Reorganizations
  <2>2. PICK txs \in Contents(Front(thread)) :
          todo' \in {Reorganization(txs)} \cup RolledBack(txs) \cup BrokenOff(txs)
    BY <1>5 DEF Reorganizations, AllBrokenOff
  <2> DEFINE off == Disconnection(Tip)
             back == Connection(Tip, FALSE)
             on == Connection(NewPlot(1, txs), TRUE)
             undo == Disconnection(NewPlot(1, txs))
             more == Connection(NewPlot(2, <<>>), FALSE)
  <2>3. todo' \in {<<off, on, more>>, <<off, back>>, <<off, on, undo, back>>,
                   <<off>>, <<off, on>>, <<off, on, undo>>}
    BY <2>2 DEF Reorganization, RolledBack, BrokenOff
  <2>4. {off, back, on, undo, more} \subseteq Change /\ on.connect /\ back.connect /\ more.connect
    <3>1. NewPlot(1, txs) \in SoundPlot /\ NewPlot(2, <<>>) \in SoundPlot /\ Tip \in SoundPlot
      BY NewPlotIsSound, NoneIsInjective, TipIsSound, ContentsAreSound
    <3> QED
      BY <1>1, <3>1
  <2> HIDE DEF off, back, on, undo, more
  <2>5. CASE todo' = <<off, on, more>>
    BY <2>1, <2>4, <2>5 DEF TodoTyped
  <2>6. CASE todo' = <<off, on, undo>>
    BY <2>1, <2>4, <2>6 DEF TodoTyped
  <2>7. CASE todo' = <<off, on, undo, back>>
    BY <2>1, <2>4, <2>7 DEF TodoTyped
  <2>8. CASE todo' = <<off>>
    BY <2>1, <2>4, <2>8 DEF TodoTyped
  <2>9. CASE todo' = <<off, back>>
    BY <2>1, <2>4, <2>9 DEF TodoTyped
  <2>10. CASE todo' = <<off, on>>
    BY <2>1, <2>4, <2>10 DEF TodoTyped
  <2> QED
    BY <2>3, <2>5, <2>6, <2>7, <2>8, <2>9, <2>10
<1> QED
  BY <1>2, <1>3, <1>4, <1>5

LEMMA LessOnPlotChan ==
    ASSUME RequestsTyped, plotChan # <<>>, plotChan' = Tail(plotChan), UNCHANGED txChan
    PROVE  RequestsTyped' /\ MayBeSolved(Head(plotChan).plot)
<1>1. /\ IsSeq(plotChan') /\ Len(plotChan') = Len(plotChan) - 1
      /\ \A n \in 1..Len(plotChan) - 1 : plotChan'[n] = plotChan[n+1]
      /\ Head(plotChan) = plotChan[1]
  BY TailOfSeq DEF RequestsTyped
<1>2. /\ Len(plotChan) \in Nat \ {0} /\ DOMAIN plotChan = 1..Len(plotChan)
      /\ DOMAIN plotChan' = 1..Len(plotChan')
  BY <1>1, SeqHasLength DEF RequestsTyped
<1>3. \A n \in DOMAIN plotChan' : n + 1 \in DOMAIN plotChan /\ plotChan'[n] = plotChan[n+1]
  BY <1>1, <1>2
<1>4. Len(plotChan') <= PlotCapacity
  BY <1>1, <1>2, ChannelsAssumption DEF RequestsTyped
<1> QED
  BY <1>1, <1>2, <1>3, <1>4 DEF RequestsTyped

LEMMA LessOnTxChan ==
    ASSUME RequestsTyped, txChan # <<>>, txChan' = Tail(txChan), UNCHANGED plotChan
    PROVE  RequestsTyped' /\ Head(txChan).tx \in Tx
<1>1. /\ IsSeq(txChan') /\ Len(txChan') = Len(txChan) - 1
      /\ \A n \in 1..Len(txChan) - 1 : txChan'[n] = txChan[n+1]
      /\ Head(txChan) = txChan[1]
  BY TailOfSeq DEF RequestsTyped
<1>2. /\ Len(txChan) \in Nat \ {0} /\ DOMAIN txChan = 1..Len(txChan)
      /\ DOMAIN txChan' = 1..Len(txChan')
  BY <1>1, SeqHasLength DEF RequestsTyped
<1>3. \A n \in DOMAIN txChan' : n + 1 \in DOMAIN txChan /\ txChan'[n] = txChan[n+1]
  BY <1>1, <1>2
<1>4. Len(txChan') <= RepresentationCapacity
  BY <1>1, <1>2, ChannelsAssumption DEF RequestsTyped
<1> QED
  BY <1>1, <1>2, <1>3, <1>4 DEF RequestsTyped

LEMMA TypedTakePlot ==
    ASSUME Typed, TakePlot
    PROVE  Typed'
<1> USE DEF Typed, ChannelsTyped
<1> DEFINE call == Head(plotChan)
<1>1. /\ plotChan # <<>> /\ plotChan' = Tail(plotChan) /\ at' = "plot"
      /\ todo' \in IF call.plot = None THEN PeerOutcomes ELSE ScriberOutcomes(call.plot)
      /\ UNCHANGED <<thread, txQueue, txChan, tipChan, newTxChan, pc, work, count>>
  BY DEF TakePlot
<1>2. RequestsTyped' /\ MayBeSolved(call.plot)
  BY <1>1, LessOnPlotChan
<1> HIDE DEF call
<1>3. TodoTyped'
  BY <1>1, <1>2, ChangesAreTyped
<1> QED
  BY <1>1, <1>2, <1>3 DEF ThreadTyped, NoticeTyped, QueueTyped, WorkTyped, TipChanTyped,
                          NewTxChanTyped, PcTyped

LEMMA TypedTakeRepresentation ==
    ASSUME Typed, TakeRepresentation
    PROVE  Typed'
<1> USE DEF Typed, ChannelsTyped
<1> DEFINE x == Head(txChan).tx
<1>1. /\ txChan # <<>> /\ txChan' = Tail(txChan) /\ at' = "tx" /\ notice' = x
      /\ txQueue' = txQueue \/ (x \notin Range(txQueue) /\ txQueue' = Append(txQueue, x))
      /\ UNCHANGED <<thread, todo, plotChan, tipChan, newTxChan, pc, work, count>>
  BY DEF TakeRepresentation
<1>2. RequestsTyped' /\ x \in Tx
  BY <1>1, LessOnTxChan
<1> HIDE DEF x
<1>3. QueueTyped'
  <2>1. txQueue \in Seq(Tx) /\ IsInjective(txQueue)
    BY DEF QueueTyped
  <2>2. /\ Append(txQueue, x) \in Seq(Tx)
        /\ x \notin Range(txQueue) => IsInjective(Append(txQueue, x))
    BY <1>2, <2>1, OneMore
  <2>3. txQueue' \in Seq(Tx) /\ IsInjective(txQueue')
    BY Zenon, <1>1, <2>1, <2>2
  <2> QED
    BY <2>3 DEF QueueTyped
<1> QED
  BY <1>1, <1>2, <1>3 DEF ThreadTyped, TodoTyped, NoticeTyped, WorkTyped, TipChanTyped,
                          NewTxChanTyped, PcTyped

LEMMA TypedChangeLedger ==
    ASSUME ChannelsInvariant, Typed, ChangeLedger
    PROVE  Typed'
<1> USE DEF Typed, ChannelsTyped
<1> DEFINE change == Head(todo)
           plot == change.plot
<1>1. /\ todo # <<>> /\ todo' = Tail(todo) /\ at' = "queue"
      /\ thread' = IF change.connect THEN Append(thread, plot) ELSE Front(thread)
      /\ notice'.change = change
      /\ UNCHANGED <<txQueue, plotChan, txChan, tipChan, newTxChan, pc, work>>
  BY DEF ChangeLedger
<1>2. count'.plots = count.plots \/ (change.connect /\ count'.plots = plot.id)
  BY DEF ChangeLedger, ChannelsInvariant, Shapes
<1>3. /\ change \in Change /\ change = todo[1] /\ Len(todo) \in Nat \ {0}
      /\ Tail(todo) \in Seq(Change) /\ Len(Tail(todo)) = Len(todo) - 1
      /\ \A n \in 1..Len(todo) - 1 : Tail(todo)[n] = todo[n+1]
  BY <1>1 DEF TodoTyped
<1>4. plot \in SoundPlot /\ plot.id \in Nat
  BY <1>3 DEF Change, SoundPlot
<1>5. ~change.connect => Len(thread) > 1
  BY <1>3 DEF TodoTyped
<1> HIDE DEF change, plot
<1>6. ThreadTyped'
  <2>1. CASE change.connect
    <3>1. thread' \in Seq(SoundPlot) /\ thread' # <<>> /\ thread'[1] = thread[1]
      <4>1. thread \in Seq(SoundPlot) /\ Len(thread) \in Nat \ {0}
        BY DEF ThreadTyped
      <4>2. /\ Append(thread, plot) \in Seq(SoundPlot)
            /\ Len(Append(thread, plot)) = Len(thread) + 1
            /\ \A i \in 1..Len(thread) : Append(thread, plot)[i] = thread[i]
        BY <1>4, <4>1
      <4> QED
        BY <1>1, <2>1, <4>1, <4>2
    <3> QED
      BY <1>2, <1>4, <3>1 DEF ThreadTyped
  <2>2. CASE ~change.connect
    <3>1. thread' \in Seq(SoundPlot) /\ thread' # <<>> /\ thread'[1] = thread[1]
      <4>1. thread \in Seq(SoundPlot) /\ Len(thread) \in Nat /\ Len(thread) - 1 >= 1
        BY <1>5, <2>2 DEF ThreadTyped
      <4>2. thread' = SubSeq(thread, 1, Len(thread) - 1)
        BY <1>1, <2>2 DEF Front
      <4>3. /\ SubSeq(thread, 1, Len(thread) - 1) \in Seq(SoundPlot)
            /\ SubSeq(thread, 1, Len(thread) - 1) # <<>>
            /\ SubSeq(thread, 1, Len(thread) - 1)[1] = thread[1]
        BY <4>1, AllButLast
      <4> QED
        BY Zenon, <4>2, <4>3
    <3> QED
      BY <1>2, <2>2, <3>1 DEF ThreadTyped
  <2> QED
    BY <2>1, <2>2
<1>7. TodoTyped'
  <2>1. ASSUME NEW n \in 1..Len(todo'), ~todo'[n].connect
        PROVE  IF n = 1 THEN Len(thread') > 1 ELSE todo'[n-1].connect
    <3>1. n + 1 \in 1..Len(todo) /\ n + 1 # 1 /\ n + 1 - 1 = n /\ todo'[n] = todo[n+1]
      BY <1>1, <1>3
    <3>2. todo[n].connect
      BY <2>1, <3>1 DEF TodoTyped
    <3>3. CASE n = 1
      <4>1. Len(thread') = Len(thread) + 1
        BY <1>1, <1>3, <1>4, <3>2, <3>3 DEF ThreadTyped
      <4>2. Len(thread) \in Nat \ {0}
        BY DEF ThreadTyped
      <4> QED
        BY <3>3, <4>1, <4>2
    <3>4. CASE n # 1
      <4>1. n - 1 \in 1..Len(todo) - 1 /\ n - 1 + 1 = n
        BY <1>1, <1>3, <3>4
      <4>2. todo'[n-1] = todo[n]
        BY <1>1, <1>3, <4>1
      <4> QED
        BY <3>2, <3>4, <4>2
    <3> QED
      BY <3>3, <3>4
  <2> QED
    BY <1>1, <1>3, <2>1 DEF TodoTyped
<1>8. NoticeTyped'
  BY <1>1, <1>3 DEF NoticeTyped
<1> QED
  BY <1>1, <1>6, <1>7, <1>8 DEF QueueTyped, RequestsTyped, WorkTyped, TipChanTyped,
                                NewTxChanTyped, PcTyped

LEMMA TypedChangeQueue ==
    ASSUME Typed, ChangeQueue
    PROVE  Typed'
<1> USE DEF Typed, ChannelsTyped
<1> DEFINE txs == notice.change.plot.txs
<1>1. /\ at = "queue" /\ at' = "plot"
      /\ txQueue' \in {Without(txs), txs \o Without(txs)}
      /\ UNCHANGED <<thread, todo, notice, plotChan, txChan, tipChan, newTxChan, pc, work, count>>
  BY DEF ChangeQueue
<1>2. txs \in Seq(Tx) /\ IsInjective(txs)
  BY <1>1 DEF NoticeTyped, Change, SoundPlot
<1> HIDE DEF txs
<1>3. /\ Without(txs) \in Seq(Tx) /\ IsInjective(Without(txs))
      /\ Range(Without(txs)) = Range(txQueue) \ Range(txs)
  BY RestOfQueue DEF QueueTyped
<1>4. txs \o Without(txs) \in Seq(Tx) /\ IsInjective(txs \o Without(txs))
  <2>1. Range(txs) \cap Range(Without(txs)) = {}
    BY <1>3
  <2> QED
    BY <1>2, <1>3, <2>1, OneAfterTheOther
<1>5. QueueTyped'
  BY <1>1, <1>3, <1>4 DEF QueueTyped
<1> QED
  BY <1>1, <1>5 DEF ThreadTyped, TodoTyped, NoticeTyped, RequestsTyped, WorkTyped, TipChanTyped,
                    NewTxChanTyped, PcTyped

\* A channel that is not full has room for one more.
LEMMA TypedSendTip ==
    ASSUME Typed, NEW t \in Subscriber, SendTip(t)
    PROVE  Typed'
<1> USE DEF Typed, ChannelsTyped
<1>1. /\ Len(tipChan[t]) < TipCapacity[t]
      /\ tipChan' = [tipChan EXCEPT ![t] = Append(@, notice)]
      /\ UNCHANGED <<thread, txQueue, at, todo, notice, plotChan, txChan, newTxChan, pc, work, count>>
  BY DEF SendTip
<1>2. /\ tipChan' = [s \in Subscriber |-> tipChan'[s]]
      /\ tipChan'[t] = Append(tipChan[t], notice)
      /\ \A s \in Subscriber \ {t} : tipChan'[s] = tipChan[s]
  BY <1>1 DEF TipChanTyped
<1>3. IsSeq(tipChan'[t]) /\ Len(tipChan'[t]) = Len(tipChan[t]) + 1 /\ Len(tipChan[t]) \in Nat
  BY <1>2, AppendToSeq, SeqHasLength DEF TipChanTyped
<1>4. Len(tipChan'[t]) <= TipCapacity[t]
  <2> DEFINE capacity == TipCapacity[t]
             length == Len(tipChan[t])
  <2>1. capacity \in Nat /\ length \in Nat /\ length < capacity
    BY <1>1, <1>3, ChannelsAssumption
  <2> HIDE DEF capacity, length
  <2>2. length + 1 <= capacity
    BY <2>1
  <2> QED
    BY <1>3, <2>2 DEF capacity, length
<1>5. TipChanTyped'
  BY <1>2, <1>3, <1>4 DEF TipChanTyped
<1> QED
  BY <1>1, <1>5 DEF ThreadTyped, TodoTyped, NoticeTyped, QueueTyped, RequestsTyped, WorkTyped,
                    NewTxChanTyped, PcTyped

LEMMA TypedSendTx ==
    ASSUME Typed, NEW t \in TxSubscriber, SendTx(t)
    PROVE  Typed'
<1> USE DEF Typed, ChannelsTyped
<1>1. /\ at = "tx" /\ Len(newTxChan[t]) < TxCapacity[t]
      /\ newTxChan' = [newTxChan EXCEPT ![t] = Append(@, notice)]
      /\ UNCHANGED <<thread, txQueue, at, todo, notice, plotChan, txChan, tipChan, pc, work, count>>
  BY DEF SendTx
<1>2. /\ newTxChan' = [s \in TxSubscriber |-> newTxChan'[s]]
      /\ newTxChan'[t] = Append(newTxChan[t], notice)
      /\ \A s \in TxSubscriber \ {t} : newTxChan'[s] = newTxChan[s]
  BY <1>1 DEF NewTxChanTyped
<1>3. /\ newTxChan'[t] \in Seq(Tx)
      /\ Len(newTxChan'[t]) = Len(newTxChan[t]) + 1 /\ Len(newTxChan[t]) \in Nat
  <2>1. newTxChan[t] \in Seq(Tx) /\ notice \in Tx
    BY <1>1 DEF NewTxChanTyped, NoticeTyped
  <2> QED
    BY <1>2, <2>1
<1>4. Len(newTxChan'[t]) <= TxCapacity[t]
  <2> DEFINE capacity == TxCapacity[t]
             length == Len(newTxChan[t])
  <2>1. capacity \in Nat /\ length \in Nat /\ length < capacity
    BY <1>1, <1>3, ChannelsAssumption
  <2> HIDE DEF capacity, length
  <2>2. length + 1 <= capacity
    BY <2>1
  <2> QED
    BY <1>3, <2>2 DEF capacity, length
<1>5. NewTxChanTyped'
  BY <1>2, <1>3, <1>4 DEF NewTxChanTyped
<1> QED
  BY <1>1, <1>5 DEF ThreadTyped, TodoTyped, NoticeTyped, QueueTyped, RequestsTyped, WorkTyped,
                    TipChanTyped, PcTyped

\* The steps that only move a goroutine or the processor's hand.
LEMMA TypedMove ==
    ASSUME Typed, UNCHANGED <<thread, txQueue, todo, plotChan, txChan, tipChan, newTxChan, work, count>>,
           at' = "select" \/ UNCHANGED <<at, notice>>,
           pc' = pc \/ \E g : \E place \in Places : GoTo(g, place)
    PROVE  Typed'
<1> USE DEF Typed, ChannelsTyped
<1>1. NoticeTyped'
  BY DEF NoticeTyped
<1>2. PcTyped'
  BY DEF PcTyped, GoTo
<1> QED
  BY <1>1, <1>2 DEF ThreadTyped, TodoTyped, QueueTyped, RequestsTyped, WorkTyped,
                    TipChanTyped, NewTxChanTyped

----------------------------------------------------------------------------
(* Types: the goroutines' steps *)

LEMMA MoreOnPlotChan ==
    ASSUME RequestsTyped, NEW c, MayBeSolved(c.plot), Len(plotChan) < PlotCapacity,
           plotChan' = Append(plotChan, c), UNCHANGED txChan
    PROVE  RequestsTyped'
<1>1. /\ IsSeq(plotChan') /\ Len(plotChan') = Len(plotChan) + 1
      /\ \A n \in 1..Len(plotChan) : plotChan'[n] = plotChan[n]
      /\ plotChan'[Len(plotChan) + 1] = c
  BY AppendToSeq DEF RequestsTyped
<1>2. /\ Len(plotChan) \in Nat /\ DOMAIN plotChan = 1..Len(plotChan)
      /\ DOMAIN plotChan' = 1..Len(plotChan')
  BY <1>1, SeqHasLength DEF RequestsTyped
<1>3. \A n \in DOMAIN plotChan' :
        plotChan'[n] = c \/ (n \in DOMAIN plotChan /\ plotChan'[n] = plotChan[n])
  BY <1>1, <1>2
<1>4. Len(plotChan') <= PlotCapacity
  BY <1>1, <1>2, ChannelsAssumption
<1> QED
  BY <1>1, <1>3, <1>4 DEF RequestsTyped

LEMMA MoreOnTxChan ==
    ASSUME RequestsTyped, NEW c, c.tx \in Tx, Len(txChan) < RepresentationCapacity,
           txChan' = Append(txChan, c), UNCHANGED plotChan
    PROVE  RequestsTyped'
<1>1. /\ IsSeq(txChan') /\ Len(txChan') = Len(txChan) + 1
      /\ \A n \in 1..Len(txChan) : txChan'[n] = txChan[n]
      /\ txChan'[Len(txChan) + 1] = c
  BY AppendToSeq DEF RequestsTyped
<1>2. /\ Len(txChan) \in Nat /\ DOMAIN txChan = 1..Len(txChan)
      /\ DOMAIN txChan' = 1..Len(txChan')
  BY <1>1, SeqHasLength DEF RequestsTyped
<1>3. \A n \in DOMAIN txChan' :
        txChan'[n] = c \/ (n \in DOMAIN txChan /\ txChan'[n] = txChan[n])
  BY <1>1, <1>2
<1>4. Len(txChan') <= RepresentationCapacity
  BY <1>1, <1>2, ChannelsAssumption
<1> QED
  BY <1>1, <1>3, <1>4 DEF RequestsTyped

LEMMA TypedWork ==
    ASSUME WorkTyped, NEW t, NEW plot, FitsPlot(plot), work' = [work EXCEPT ![t] = plot]
    PROVE  WorkTyped'
<1>1. /\ work' = [s \in Scriber |-> work'[s]]
      /\ \A s \in Scriber : work'[s] \in {plot, work[s]}
  BY DEF WorkTyped
<1> QED
  BY <1>1 DEF WorkTyped

\* One place of a plot is left for its plotroot.
LEMMA NextPlotFits ==
    ASSUME QueueTyped, NEW parent
    PROVE  FitsPlot(NextPlot(parent))
<1> DEFINE max == MAX_REPRESENTATIONS_TO_INCLUDE_PER_PLOT
           k == IF Len(txQueue) < max - 1 THEN Len(txQueue) ELSE max - 1
<1>1. /\ max \in Nat \ {0} /\ Len(txQueue) \in Nat /\ txQueue \in Seq(Tx)
  BY ChannelsAssumption DEF QueueTyped
<1>2. NextPlot(parent).txs = SubSeq(txQueue, 1, k)
  BY DEF NextPlot
<1> HIDE DEF max
<1>3. k \in 0..Len(txQueue) /\ k < max
  BY <1>1
<1> HIDE DEF k
<1>4. SubSeq(txQueue, 1, k) \in Seq(Tx) /\ Len(SubSeq(txQueue, 1, k)) = k
  BY <1>1, <1>3
<1> QED
  BY <1>2, <1>3, <1>4 DEF FitsPlot, max

LEMMA Gone ==
    ASSUME PcTyped, NEW g, NEW place \in Places, GoTo(g, place)
    PROVE  PcTyped'
BY DEF PcTyped, GoTo

LEMMA TypedReadTip ==
    ASSUME Typed, NEW t \in Subscriber, ReadTip(t)
    PROVE  Typed'
<1> USE DEF Typed, ChannelsTyped
<1>1. /\ tipChan[t] # <<>>
      /\ tipChan' = [tipChan EXCEPT ![t] = Tail(@)]
      /\ UNCHANGED <<thread, txQueue, at, todo, notice, plotChan, txChan, newTxChan, count>>
      /\ pc' = pc \/ GoTo(t, "rank")
  BY DEF ReadTip, procVars
<1>2. work' = work \/ \E parent : work' = [work EXCEPT ![t] = NextPlot(parent)]
  BY DEF ReadTip
<1>3. WorkTyped'
  BY <1>2, TypedWork, NextPlotFits DEF WorkTyped
<1>4. /\ tipChan' = [s \in Subscriber |-> tipChan'[s]]
      /\ tipChan'[t] = Tail(tipChan[t])
      /\ \A s \in Subscriber \ {t} : tipChan'[s] = tipChan[s]
  BY <1>1 DEF TipChanTyped
<1>5. IsSeq(tipChan'[t]) /\ Len(tipChan'[t]) = Len(tipChan[t]) - 1 /\ Len(tipChan[t]) \in Nat
  BY <1>1, <1>4, TailOfSeq, SeqHasLength DEF TipChanTyped
<1>6. Len(tipChan'[t]) <= TipCapacity[t]
  <2> DEFINE capacity == TipCapacity[t]
             length == Len(tipChan[t])
  <2>1. capacity \in Nat /\ length \in Nat /\ length <= capacity
    BY <1>5, ChannelsAssumption DEF TipChanTyped
  <2> HIDE DEF capacity, length
  <2>2. length - 1 <= capacity
    BY <2>1
  <2> QED
    BY <1>5, <2>2 DEF capacity, length
<1>7. TipChanTyped'
  BY <1>4, <1>5, <1>6 DEF TipChanTyped
<1>8. PcTyped'
  <2>1. "rank" \in Places
    BY DEF Places
  <2>2. PcTyped
    OBVIOUS
  <2>3. UNCHANGED pc => PcTyped'
    BY <2>2 DEF PcTyped
  <2> QED
    BY <1>1, <2>1, <2>2, <2>3, Gone
<1> QED
  BY <1>1, <1>3, <1>7, <1>8 DEF ThreadTyped, TodoTyped, NoticeTyped, QueueTyped, RequestsTyped,
                                NewTxChanTyped

\* A representation is added to a plot that has room for it.
LEMMA TypedAddition ==
    ASSUME Shapes, WorkTyped, NEW t \in Scriber, work[t] # None, HasRoom(work[t]), NEW x \in Tx,
           work' = [work EXCEPT ![t].txs = Append(@, x)]
    PROVE  WorkTyped'
<1> DEFINE plot == [parent |-> work[t].parent, txs |-> Append(work[t].txs, x)]
<1>1. work[t] = [parent |-> work[t].parent, txs |-> work[t].txs]
  BY DEF Shapes, HasWork
<1>2. work' = [work EXCEPT ![t] = [work[t] EXCEPT !.txs = Append(work[t].txs, x)]]
  OBVIOUS
<1>3. [work[t] EXCEPT !.txs = Append(work[t].txs, x)] = plot
  <2> DEFINE p == work[t].parent
             q == work[t].txs
             r == Append(q, x)
             old == work[t]
  <2>1. old = [parent |-> p, txs |-> q]
    BY <1>1
  <2> HIDE DEF p, q, r, old
  <2>2. [old EXCEPT !.txs = r] = [parent |-> p, txs |-> r]
    BY <2>1
  <2> QED
    BY <2>2 DEF p, q, r, old
<1>4. work[t].txs \in Seq(Tx) /\ Len(work[t].txs) + 1 < MAX_REPRESENTATIONS_TO_INCLUDE_PER_PLOT
  BY DEF WorkTyped, FitsPlot, HasRoom
<1>5. /\ Append(work[t].txs, x) \in Seq(Tx)
      /\ Len(Append(work[t].txs, x)) = Len(work[t].txs) + 1
  BY <1>4
<1>6. FitsPlot(plot)
  BY <1>4, <1>5 DEF FitsPlot
<1> HIDE DEF plot
<1> QED
  BY <1>2, <1>3, <1>6, TypedWork

LEMMA TypedReadTx ==
    ASSUME ChannelsInvariant, Typed, NEW t \in TxSubscriber, ReadTx(t)
    PROVE  Typed'
<1> USE DEF Typed, ChannelsTyped
<1> DEFINE s == newTxChan[t]
<1>1. /\ s # <<>>
      /\ newTxChan' = [newTxChan EXCEPT ![t] = Tail(s)]
      /\ UNCHANGED <<thread, txQueue, at, todo, notice, plotChan, txChan, tipChan, pc, count>>
  BY DEF ReadTx, procVars
<1>2. \/ work' = work
      \/ /\ t \in Scriber /\ work[t] # None /\ HasRoom(work[t])
         /\ work' = [work EXCEPT ![t].txs = Append(@, Head(s))]
  BY DEF ReadTx
<1>3. s \in Seq(Tx) /\ Len(s) <= TxCapacity[t] /\ TxCapacity[t] \in Nat
  BY ChannelsAssumption DEF NewTxChanTyped
<1>4. /\ newTxChan' = [u \in TxSubscriber |-> newTxChan'[u]]
      /\ newTxChan'[t] = Tail(s)
      /\ \A u \in TxSubscriber \ {t} : newTxChan'[u] = newTxChan[u]
  BY <1>1 DEF NewTxChanTyped
<1> HIDE DEF s
<1>5. Head(s) \in Tx /\ Tail(s) \in Seq(Tx) /\ Len(Tail(s)) = Len(s) - 1 /\ Len(s) \in Nat
  BY <1>1, <1>3
<1>6. WorkTyped'
  BY <1>2, <1>5, TypedAddition DEF WorkTyped, ChannelsInvariant
<1>7. Len(Tail(s)) <= TxCapacity[t]
  <2> DEFINE capacity == TxCapacity[t]
             length == Len(s)
  <2>1. capacity \in Nat /\ length \in Nat /\ length <= capacity
    BY <1>3, <1>5
  <2> HIDE DEF capacity, length
  <2>2. length - 1 <= capacity
    BY <2>1
  <2> QED
    BY <1>5, <2>2 DEF capacity, length
<1>8. NewTxChanTyped'
  BY <1>4, <1>5, <1>7 DEF NewTxChanTyped
<1> QED
  BY <1>1, <1>6, <1>8 DEF ThreadTyped, TodoTyped, NoticeTyped, QueueTyped, RequestsTyped,
                          TipChanTyped, PcTyped

\* A scriber begins a plot.
LEMMA TypedBegin ==
    ASSUME Typed, NEW t \in Scriber, ReadThreadTip(t) \/ CreateNextPlot(t)
    PROVE  Typed'
<1> USE DEF Typed, ChannelsTyped
<1>1. /\ UNCHANGED <<thread, txQueue, at, todo, notice, plotChan, txChan, tipChan, newTxChan, count>>
      /\ GoTo(t, "create") \/ GoTo(t, "run")
  BY DEF ReadThreadTip, CreateNextPlot, procVars
<1>2. PICK plot : work' = [work EXCEPT ![t] = plot] /\ FitsPlot(plot)
  <2>1. CASE ReadThreadTip(t)
    <3> DEFINE plot == [parent |-> Tip.id, txs |-> <<>>]
    <3>1. work' = [work EXCEPT ![t] = plot]
      BY <2>1 DEF ReadThreadTip
    <3>2. FitsPlot(plot)
      <4>1. <<>> \in Seq(Tx) /\ Len(<<>>) = 0
        OBVIOUS
      <4> QED
        BY <4>1, ChannelsAssumption DEF FitsPlot
    <3> QED
      BY <3>1, <3>2
  <2>2. CASE CreateNextPlot(t)
    <3> DEFINE plot == NextPlot(work[t].parent)
    <3>1. work' = [work EXCEPT ![t] = plot]
      BY <2>2 DEF CreateNextPlot
    <3>2. FitsPlot(plot)
      BY NextPlotFits
    <3> HIDE DEF plot
    <3> QED
      BY <3>1, <3>2
  <2> QED
    BY <2>1, <2>2
<1>3. WorkTyped'
  BY <1>2, TypedWork
<1>4. PcTyped'
  <2>1. {"create", "run"} \subseteq Places
    BY DEF Places
  <2> QED
    BY <1>1, <2>1, Gone
<1> QED
  BY <1>1, <1>3, <1>4 DEF ThreadTyped, TodoTyped, NoticeTyped, QueueTyped, RequestsTyped,
                          TipChanTyped, NewTxChanTyped

\* A reader or a scriber calls the processor.
LEMMA TypedCall ==
    ASSUME ChannelsInvariant, Typed, NEW g, GoTo(g, "wait"), RequestsTyped', WorkTyped',
           UNCHANGED <<procVars, tipChan, newTxChan>>,
           NEW f \in {"calls", "solutions"}, count' = [count EXCEPT ![f] = @ + 1]
    PROVE  Typed'
<1> USE DEF Typed, ChannelsTyped
<1>1. PcTyped'
  <2>1. "wait" \in Places
    BY DEF Places
  <2> QED
    BY <2>1, Gone
<1>2. count'.plots = count.plots
  BY DEF ChannelsInvariant, Shapes
<1> QED
  BY <1>1, <1>2 DEF procVars, ThreadTyped, TodoTyped, NoticeTyped, QueueTyped, TipChanTyped,
                    NewTxChanTyped

LEMMA TypedSolve ==
    ASSUME ChannelsInvariant, Typed, NEW t \in Scriber, Solve(t)
    PROVE  Typed'
<1> DEFINE c == [by |-> t, plot |-> work[t]]
<1>1. /\ plotChan' = Append(plotChan, c) /\ Len(plotChan) < PlotCapacity
      /\ work' = [work EXCEPT ![t] = None]
      /\ count' = [count EXCEPT !.solutions = @ + 1] /\ GoTo(t, "wait")
      /\ UNCHANGED <<procVars, txChan, tipChan, newTxChan>>
  BY DEF Solve
<1>2. WorkTyped'
  <2>1. FitsPlot(None)
    BY DEF FitsPlot
  <2> QED
    BY <1>1, <2>1, TypedWork DEF Typed
<1>3. MayBeSolved(c.plot)
  BY DEF Typed, WorkTyped, FitsPlot, MayBeSolved
<1> HIDE DEF c
<1>4. RequestsTyped'
  BY <1>1, <1>3, MoreOnPlotChan DEF Typed, ChannelsTyped
<1> QED
  BY <1>1, <1>2, <1>4, TypedCall

LEMMA TypedProcess ==
    ASSUME ChannelsInvariant, Typed, NEW g,
           ProcessPlot(g) \/ \E x \in Tx : ProcessRepresentation(g, x)
    PROVE  Typed'
<1>1. /\ count' = [count EXCEPT !.calls = @ + 1] /\ GoTo(g, "wait")
      /\ UNCHANGED <<procVars, tipChan, newTxChan, work>>
  BY DEF ProcessPlot, ProcessRepresentation
<1>2. WorkTyped'
  BY <1>1 DEF Typed, WorkTyped
<1>3. RequestsTyped /\ RequestsTyped'
  <2>1. RequestsTyped
    BY DEF Typed, ChannelsTyped
  <2>2. CASE ProcessPlot(g)
    <3> DEFINE c == [by |-> g, plot |-> None]
    <3>1. /\ plotChan' = Append(plotChan, c) /\ Len(plotChan) < PlotCapacity
          /\ UNCHANGED txChan
      BY <2>2 DEF ProcessPlot
    <3>2. MayBeSolved(c.plot)
      BY DEF MayBeSolved
    <3> HIDE DEF c
    <3> QED
      BY <2>1, <3>1, <3>2, MoreOnPlotChan
  <2>3. CASE \E x \in Tx : ProcessRepresentation(g, x)
    <3>1. PICK x \in Tx : ProcessRepresentation(g, x)
      BY <2>3
    <3> DEFINE c == [by |-> g, tx |-> x]
    <3>2. /\ txChan' = Append(txChan, c) /\ Len(txChan) < RepresentationCapacity
          /\ UNCHANGED plotChan /\ c.tx \in Tx
      BY <3>1 DEF ProcessRepresentation
    <3> HIDE DEF c
    <3> QED
      BY <2>1, <3>2, MoreOnTxChan
  <2> QED
    BY <2>1, <2>2, <2>3
<1> QED
  BY <1>1, <1>2, <1>3, TypedCall

LEMMA TypedNext == ChannelsInvariant /\ Typed /\ [Next]_vars => Typed'
<1> SUFFICES ASSUME ChannelsInvariant, Typed, [Next]_vars PROVE Typed'
  OBVIOUS
<1> DEFINE Kept == UNCHANGED <<thread, txQueue, todo, plotChan, txChan, tipChan, newTxChan, work, count>>
<1>1. ASSUME Kept, at' = "select" \/ UNCHANGED <<at, notice>>,
             \/ pc' = pc
             \/ \E g : \E place \in {"registerTx", "run", "leaveTx", "leaveTip", "gone"} : GoTo(g, place)
      PROVE  Typed'
  <2>1. {"registerTx", "run", "leaveTx", "leaveTip", "gone"} \subseteq Places
    BY DEF Places
  <2>2. pc' = pc \/ \E g : \E place \in Places : GoTo(g, place)
    BY <1>1, <2>1
  <2> QED
    BY <1>1, <2>2, TypedMove
<1> HIDE DEF Kept
<1>2. CASE ProcessorStep
  <2>1. CASE TakePlot
    BY <2>1, TypedTakePlot
  <2>2. CASE TakeRepresentation
    BY <2>2, TypedTakeRepresentation
  <2>3. CASE ChangeLedger
    BY <2>3, TypedChangeLedger
  <2>4. CASE ChangeQueue
    BY <2>4, TypedChangeQueue
  <2>5. ASSUME NEW s \in Subscriber, SendTip(s) PROVE Typed'
    BY <2>5, TypedSendTip
  <2>6. ASSUME NEW s \in TxSubscriber, SendTx(s) PROVE Typed'
    BY <2>6, TypedSendTx
  <2>7. CASE Reply
    <3>1. Kept /\ at' = "select" /\ GoTo(caller, "run")
      BY <2>7 DEF Reply, Kept
    <3> QED
      BY <1>1, <3>1
  <2>8. ASSUME NEW s \in Subscriber, Register(s) PROVE Typed'
    <3>1. Kept /\ UNCHANGED <<at, notice>> /\ (GoTo(s, "registerTx") \/ GoTo(s, "run"))
      BY <2>8 DEF Register, Kept
    <3> QED
      BY <1>1, <3>1
  <2>9. ASSUME NEW s \in Subscriber, Unregister(s) PROVE Typed'
    <3>1. Kept /\ UNCHANGED <<at, notice>> /\ (GoTo(s, "leaveTip") \/ GoTo(s, "gone"))
      BY <2>9 DEF Unregister, Kept
    <3> QED
      BY <1>1, <3>1
  <2> QED
    BY <1>2, <2>1, <2>2, <2>3, <2>4, <2>5, <2>6, <2>7, <2>8, <2>9 DEF ProcessorStep
<1>3. ASSUME NEW g, ProcessPlot(g) \/ \E x \in Tx : ProcessRepresentation(g, x)
      PROVE  Typed'
  BY <1>3, TypedProcess
<1>4. ASSUME NEW s \in Subscriber, Listen(s) PROVE Typed'
  BY <1>4, TypedReadTip, TypedReadTx, TypedBegin DEF Listen
<1>5. ASSUME NEW s \in Scriber, Solve(s) PROVE Typed'
  BY <1>5, TypedSolve
<1>6. ASSUME NEW s \in Leaving, Leave(s) PROVE Typed'
  <2>1. Kept /\ UNCHANGED <<at, notice>> /\ (GoTo(s, "leaveTx") \/ GoTo(s, "leaveTip"))
    BY <1>6 DEF Leave, Kept, procVars
  <2> QED
    BY <1>1, <2>1
<1>7. CASE UNCHANGED vars
  <2>1. Kept /\ UNCHANGED <<at, notice, pc>>
    BY <1>7 DEF vars, procVars, Kept
  <2> QED
    BY <1>1, <2>1
<1> QED
  BY <1>2, <1>3, <1>4, <1>5, <1>6, <1>7 DEF Next

LEMMA TypedIsTypeOK == ChannelsInvariant /\ Present /\ Typed => TypeOK
<1> SUFFICES ASSUME ChannelsInvariant, Present, Typed PROVE TypeOK
  OBVIOUS
<1>1. thread \in Seq([id : Nat, txs : Seq(Tx)]) /\ Head(thread) = Genesis
  <2>1. thread \in Seq(SoundPlot) /\ thread # <<>> /\ thread[1] = Genesis
    BY DEF Typed, ThreadTyped
  <2>2. SoundPlot \subseteq [id : Nat, txs : Seq(Tx)]
    BY DEF SoundPlot
  <2> HIDE DEF SoundPlot
  <2>3. Head(thread) = thread[1]
    BY <2>1
  <2> DEFINE P == [id : Nat, txs : Seq(Tx)]
  <2>4. SoundPlot \subseteq P
    BY <2>2
  <2> HIDE DEF P
  <2>5. thread \in Seq(P)
    BY <2>1, <2>4
  <2> QED
    BY <2>1, <2>3, <2>5 DEF P
<1>2. txQueue \in Seq(Tx) /\ IsInjective(txQueue)
  BY DEF Typed, QueueTyped
<1>3. at \in {"select", "plot", "queue", "tx"} /\ (at = "select" => todo = <<>> /\ left = {})
  BY DEF ChannelsInvariant, Handling
<1>4. tipSubs \subseteq Subscriber /\ txSubs \subseteq TxSubscriber
  BY DEF Present, Registered
<1>5. Len(plotChan) <= PlotCapacity /\ Len(txChan) <= RepresentationCapacity
  BY DEF Typed, ChannelsTyped, RequestsTyped
<1>6. \A s \in Subscriber : Len(tipChan[s]) <= TipCapacity[s]
  BY DEF Typed, ChannelsTyped, TipChanTyped
<1>7. \A s \in TxSubscriber : Len(newTxChan[s]) <= TxCapacity[s]
  BY DEF Typed, ChannelsTyped, NewTxChanTyped
<1>8. pc \in [Goroutine -> Places]
  BY DEF Typed, PcTyped
<1>9. \A s \in Scriber :
        work[s] # None => Len(work[s].txs) < MAX_REPRESENTATIONS_TO_INCLUDE_PER_PLOT
  BY DEF Typed, WorkTyped, FitsPlot
<1> QED
  BY <1>1, <1>2, <1>3, <1>4, <1>5, <1>6, <1>7, <1>8, <1>9 DEF TypeOK

\* No channel ever holds more than it was made for, the queue never holds a
\* representation twice, through any reorganization, and no plot that a scriber
\* works on has more representations than its plotroot leaves room for.
THEOREM ChannelsTypeCorrect == Spec => []TypeOK
<1>1. Spec => []Present
  BY PresentInit, PresentNext, PTL DEF Spec
<1>2. ChannelsInvariant /\ Typed /\ [Next]_vars => Typed'
  BY TypedNext
<1>3. Spec => []Typed
  BY <1>2, TypedInit, ChannelsAlways, PTL DEF Spec
<1> QED
  BY <1>1, <1>3, ChannelsAlways, TypedIsTypeOK, PTL
=============================================================================
