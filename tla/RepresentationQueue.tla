------------------------ MODULE RepresentationQueue ------------------------
(***************************************************************************)
(* RepresentationQueueMemory: the representations that wait for a plot.    *)
(*                                                                         *)
(* The queue keeps an imbalance cache of its own, in which everything it   *)
(* accepted is applied.  A key the cache has not touched falls back to the *)
(* ledger at the moment it is asked about, so here, unlike in the ledger's *)
(* short-lived caches, untouched keys are kept apart (None).               *)
(*                                                                         *)
(* The code's map of list elements always holds the list's members.        *)
(***************************************************************************)
EXTENDS Ledger, SequencesExt

CONSTANT MAX_REPRESENTATION_QUEUE_LENGTH

ASSUME QueueAssumption ==
    /\ MAX_REPRESENTATION_QUEUE_LENGTH \in Nat
    /\ None \notin Nat

VARIABLES
    queue,   \* the list, front first
    cache,   \* the cached imbalance of each key, None if not touched
    drifted  \* history: the cache holds a representation that was refused

queueVars == <<queue, cache, drifted>>

EmptyCache == [k \in Key |-> None]

QueueInit ==
    /\ queue = <<>>
    /\ cache = EmptyCache
    /\ drifted = FALSE

----------------------------------------------------------------------------
(* The cache *)

View(c, ledger) == [k \in Key |-> IF c[k] = None THEN ledger[k] ELSE c[k]]

ApplyCached(c, ledger, r) ==
    [k \in Key |-> IF k \in {r.By, r.For} THEN Apply(View(c, ledger), r)[k] ELSE c[k]]

ClosesCycle(r) == IsParentDescendant(graph, r.For, r.By)

\* What a representation has to be for the plot at the given height.
IsEligible(r, height) ==
    /\ CheckRepresentationSeries(r, height)
    /\ IsMature(r, height)
    /\ ~IsExpired(r, height)

----------------------------------------------------------------------------
(* Operations *)

\* The cache is updated before the graph is asked.
Add(r) ==
    /\ r \notin Range(queue)
    /\ CanApply(View(cache, imbalance), r)
    /\ cache' = ApplyCached(cache, imbalance, r)
    /\ queue' = IF ClosesCycle(r) THEN queue ELSE Append(queue, r)
    /\ drifted' = (drifted \/ ClosesCycle(r))

\* The rest of the list, in its order.
Without(reps) ==
    LET rest[n \in 0..Len(queue)] ==
          IF n = 0 THEN <<>>
          ELSE IF queue[n] \in Range(reps) THEN rest[n-1]
          ELSE Append(rest[n-1], queue[n])
    IN  rest[Len(queue)]

\* Mutant of AddBatch: the batch is taken from one place too far.
AddBatchFromThird(p) ==
    LET reps == SubSeq(Representations[p], 3, Len(Representations[p]))
    IN  /\ queue' = reps \o Without(reps)
        /\ UNCHANGED <<cache, drifted>>

\* A disconnected plot's representations go to the front, in their order.
AddBatch(p) ==
    LET reps == Tail(Representations[p])
    IN  /\ queue' = reps \o Without(reps)
        /\ UNCHANGED <<cache, drifted>>

Reconsider(s, r, height, ledger) ==
    IF IsEligible(r, height) /\ CanApply(View(s.cache, ledger), r)
    THEN [kept    |-> IF ClosesCycle(r) THEN s.kept ELSE Append(s.kept, r),
          cache   |-> ApplyCached(s.cache, ledger, r),
          drifted |-> s.drifted \/ ClosesCycle(r)]
    ELSE s

\* Mutants of Reprocessed: eligible at the tip's height; an old cache.
ReprocessedForTip(reps, height, ledger) ==
    FoldLeft(LAMBDA s, r : Reconsider(s, r, height, ledger),
             [kept |-> <<>>, cache |-> EmptyCache, drifted |-> FALSE], reps)

ReprocessedWithOldCache(reps, height, ledger) ==
    FoldLeft(LAMBDA s, r : Reconsider(s, r, height + 1, ledger),
             [kept |-> <<>>, cache |-> cache, drifted |-> FALSE], reps)

\* reprocessQueue: from an empty cache, everything is considered once more for
\* the next plot.
Reprocessed(reps, height, ledger) ==
    LET done[n \in 0..Len(reps)] ==
          IF n = 0 THEN [kept |-> <<>>, cache |-> EmptyCache, drifted |-> FALSE]
          ELSE Reconsider(done[n-1], reps[n], height + 1, ledger)
    IN  done[Len(reps)]

\* Mutant of RemoveBatch: nothing is removed before the last plot.
RemoveBatchAtLast(p, more) ==
    IF more
    THEN UNCHANGED queueVars
    ELSE LET done == Reprocessed(Without(Tail(Representations[p])), Height[p], imbalance')
         IN  queue' = done.kept /\ cache' = done.cache /\ drifted' = done.drifted

\* A connected plot's representations go; called after the ledger's write.
RemoveBatch(p, more) ==
    LET rest == Without(Tail(Representations[p]))
        done == Reprocessed(rest, Height[p], imbalance')
    IN  IF more
        THEN queue' = rest /\ UNCHANGED <<cache, drifted>>
        ELSE queue' = done.kept /\ cache' = done.cache /\ drifted' = done.drifted

\* The queue is in memory only.
LoseQueue ==
    /\ queue' = <<>>
    /\ cache' = EmptyCache
    /\ drifted' = FALSE
=============================================================================
