---------------------------- MODULE PeerStorage ----------------------------
(***************************************************************************)
(* The database of peer addresses: for every known address its last        *)
(* attempt and last success, and two indices that list the addresses by    *)
(* these times.  The main loop of the peer manager, the handlers of        *)
(* inbound connections and the writers of outbound peers all call it.      *)
(*                                                                         *)
(* Nothing locks the database: an operation reads an address's record,     *)
(* and writes one batch computed from what it read.  Read and the Write    *)
(* actions are these two steps.  An address that was never tried has a     *)
(* random time that is below every real one, which lists it first.         *)
(*                                                                         *)
(* Times count the changes of the clock, not seconds, so whether an        *)
(* interval of hours or of a week has passed is a choice.                  *)
(***************************************************************************)
EXTENDS Integers, Sequences, FiniteSets

CONSTANTS
    Addr,       \* addresses of other nodes
    Caller,     \* goroutines that call the storage
    None,
    MaxRank,    \* times up to MaxRank mean "never tried"
    MaxTime     \* bound: the last time of the clock

\* The record of an address, 0 if it never succeeded, and what a caller has read.
Info == [attempt : Nat, success : Nat]
Lookup == [addr : Addr, seen : Info \cup {None}]

ASSUME PeerStorageAssumption ==
    /\ MaxRank \in Nat \ {0}
    /\ MaxTime \in Nat /\ MaxTime > MaxRank
    /\ None \notin Addr \cup Caller
    /\ None \notin Info /\ None \notin Lookup

VARIABLES
    info,            \* p{addr}: [attempt, success], or None
    attempts,        \* a{time}{addr}
    successes,       \* s{time}{addr}
    connectedPeers,  \* in memory, under a lock of its own
    pending,         \* what each caller has read: [addr, seen], or None
    now,
    raced            \* history: addresses written from a record that had changed

storageVars == <<info, attempts, successes, connectedPeers, pending, now, raced>>

StorageInit ==
    /\ info = [a \in Addr |-> None]
    /\ attempts = {} /\ successes = {}
    /\ connectedPeers = {}
    /\ pending = [g \in Caller |-> None]
    /\ now = MaxRank + 1
    /\ raced = {}

PassTime ==
    /\ now < MaxTime
    /\ now' = now + 1
    /\ UNCHANGED <<info, attempts, successes, connectedPeers, pending, raced>>

\* getPeerInfo, the first step of every operation.
Read(g, a) ==
    /\ pending[g] = None
    /\ pending' = [pending EXCEPT ![g] = [addr |-> a, seen |-> info[a]]]
    /\ UNCHANGED <<info, attempts, successes, connectedPeers, now, raced>>

----------------------------------------------------------------------------
(* The second steps *)

IsNeverTried(i) == i.attempt <= MaxRank

\* One that was tried is due again after an interval that grows with its absence.
MayBeRetried(i) == IF IsNeverTried(i) THEN {TRUE} ELSE BOOLEAN

MayBeDeleted(i) ==
    IF i.success = 0 THEN {TRUE} ELSE IF i.success = now THEN {FALSE} ELSE BOOLEAN

Addressed(g) == pending[g].addr
Seen(g) == pending[g].seen
IsKnown(g) == Seen(g) # None

Return(g) ==
    /\ pending' = [pending EXCEPT ![g] = None]
    /\ UNCHANGED now

\* What every batch has in common: the address, and that it may have changed.
Noted(g) ==
    raced' = IF info[Addressed(g)] # Seen(g) THEN raced \cup {Addressed(g)} ELSE raced

Unwritten(g) ==
    /\ Return(g)
    /\ UNCHANGED <<info, attempts, successes, connectedPeers, raced>>

\* Mutant of WriteStore: the place in the index is not the one in the record.
WriteStoreElsewhere(g) ==
    IF IsKnown(g)
    THEN Unwritten(g)
    ELSE /\ \E rank, other \in 1..MaxRank :
              /\ info' = [info EXCEPT ![Addressed(g)] = [attempt |-> rank, success |-> 0]]
              /\ attempts' = attempts \cup {<<other, Addressed(g)>>}
         /\ Noted(g)
         /\ Return(g)
         /\ UNCHANGED <<successes, connectedPeers>>

WriteStore(g) ==
    IF IsKnown(g)
    THEN Unwritten(g)
    ELSE /\ \E rank \in 1..MaxRank :
              /\ info' = [info EXCEPT ![Addressed(g)] = [attempt |-> rank, success |-> 0]]
              /\ attempts' = attempts \cup {<<rank, Addressed(g)>>}
         /\ Noted(g)
         /\ Return(g)
         /\ UNCHANGED <<successes, connectedPeers>>

WriteAttempt(g) ==
    IF ~IsKnown(g)
    THEN Unwritten(g)
    ELSE /\ info' = [info EXCEPT ![Addressed(g)] = [Seen(g) EXCEPT !.attempt = now]]
         /\ attempts' = (attempts \ {<<Seen(g).attempt, Addressed(g)>>})
                          \cup {<<now, Addressed(g)>>}
         /\ Noted(g)
         /\ Return(g)
         /\ UNCHANGED <<successes, connectedPeers>>

WriteSuccess(g) ==
    IF ~IsKnown(g)
    THEN Unwritten(g)
    ELSE /\ info' = [info EXCEPT ![Addressed(g)] = [Seen(g) EXCEPT !.success = now]]
         /\ successes' = (successes \ {<<Seen(g).success, Addressed(g)>>})
                           \cup {<<now, Addressed(g)>>}
         /\ connectedPeers' = connectedPeers \cup {Addressed(g)}
         /\ Noted(g)
         /\ Return(g)
         /\ UNCHANGED attempts

\* After a failure the address is deleted if it has been absent for too long.
WriteDelete(g) ==
    IF ~IsKnown(g)
    THEN Unwritten(g)
    ELSE /\ info' = [info EXCEPT ![Addressed(g)] = None]
         /\ attempts' = attempts \ {<<Seen(g).attempt, Addressed(g)>>}
         /\ successes' = successes \ {<<Seen(g).success, Addressed(g)>>}
         /\ Noted(g)
         /\ Return(g)
         /\ UNCHANGED connectedPeers

WriteFailure(g) ==
    \/ IsKnown(g) /\ TRUE \in MayBeDeleted(Seen(g)) /\ WriteDelete(g)
    \/ (IsKnown(g) => FALSE \in MayBeDeleted(Seen(g))) /\ Unwritten(g)

OnDisconnect(a) ==
    /\ connectedPeers' = connectedPeers \ {a}
    /\ UNCHANGED <<info, attempts, successes, pending, now, raced>>

----------------------------------------------------------------------------
(* Get: the entries of the attempt index, in order, that are not connected *)
(* and are due.  An entry without a record is dereferenced all the same.   *)

Candidates == {k \in attempts : k[2] \notin connectedPeers}

HasInfo(k) == info[k[2]] # None

MustTake(k) == HasInfo(k) /\ MayBeRetried(info[k[2]]) = {TRUE}

\* The possible results: short of count only if no other entry is due.
IsResult(s, count) ==
    /\ Len(s) <= count
    /\ \A i \in DOMAIN s :
         /\ s[i] \in Candidates /\ HasInfo(s[i])
         /\ \A j \in DOMAIN s : j > i => s[i] # s[j] /\ s[i][1] <= s[j][1]
    /\ \A k \in Candidates :
         \/ \E i \in DOMAIN s : s[i] = k
         \/ HasInfo(k) /\ ~MustTake(k)
         \/ Len(s) = count /\ s[count][1] <= k[1]

Results(count) ==
    {[i \in DOMAIN s |-> s[i][2]] :
       s \in {t \in UNION {[1..n -> Candidates] : n \in 0..count} : IsResult(t, count)}}

\* An entry without a record is reached before count others were taken.
GetMayPanic(count) ==
    \E k \in Candidates :
      ~HasInfo(k) /\ Cardinality({j \in Candidates : MustTake(j) /\ j[1] < k[1]}) < count

----------------------------------------------------------------------------
(* Correctness *)

(* The two indices list exactly the times in the records, unless two       *)
(* operations on the address overlapped: an entry that is left over is     *)
(* never removed, and makes Get panic when its address is deleted.         *)
KeysOf(index, a) == {k \in index : k[2] = a}

IndicesMatchInfoUnlessRaced ==
    \A a \in Addr \ raced :
      IF info[a] = None
      THEN KeysOf(attempts, a) = {} /\ KeysOf(successes, a) = {}
      ELSE /\ KeysOf(attempts, a) = {<<info[a].attempt, a>>}
           /\ KeysOf(successes, a) = IF info[a].success = 0 THEN {}
                                     ELSE {<<info[a].success, a>>}
=============================================================================
