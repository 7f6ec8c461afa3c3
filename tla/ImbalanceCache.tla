--------------------------- MODULE ImbalanceCache ---------------------------
(***************************************************************************)
(* ImbalanceCache: the working copy of the imbalances that the ledger      *)
(* builds up while it goes through a plot's representations.  A cache is   *)
(* a function from keys to imbalances; the code's map holds the keys it    *)
(* touched and falls back to the ledger for the others.                    *)
(*                                                                         *)
(* Apply and Undo are one call each.  Applied and Undone are what a run of *)
(* calls leaves behind, written without recursion: every representation    *)
(* moves exactly one unit, so it is enough to count them.                  *)
(***************************************************************************)
EXTENDS PlotTree

\* Mutant of CanApply: senders may overdraw.
CanAlwaysApply(cache, r) == TRUE

\* False if the sender's imbalance would go negative.
CanApply(cache, r) == ~IsPlotroot(r) => cache[r.By] >= 1

Apply(cache, r) ==
    [k \in Key |-> cache[k] + (IF k = r.For THEN 1 ELSE 0)
                            - (IF k = r.By THEN 1 ELSE 0)]

\* The code panics when this is false.
CanUndo(cache, r) == cache[r.For] >= 1

Undo(cache, r) ==
    [k \in Key |-> cache[k] - (IF k = r.For THEN 1 ELSE 0)
                            + (IF k = r.By THEN 1 ELSE 0)]

Received(reps, k, first, last) ==
    Cardinality({m \in first..last : reps[m].For = k})

Sent(reps, k, first, last) ==
    Cardinality({m \in first..last : reps[m].By = k})

\* Mutant of Undone: only the recipients are updated.
UndoneForRecipients(cache, reps, n) ==
    [k \in Key |-> cache[k] - Received(reps, k, n, Len(reps))]

\* The cache after Apply of reps[1], ..., reps[n].
Applied(cache, reps, n) ==
    [k \in Key |-> cache[k] + Received(reps, k, 1, n) - Sent(reps, k, 1, n)]

\* The cache after Undo of reps[Len(reps)], ..., reps[n].
Undone(cache, reps, n) ==
    [k \in Key |-> cache[k] - Received(reps, k, n, Len(reps))
                            + Sent(reps, k, n, Len(reps))]

CanApplyAll(cache, reps) ==
    \A n \in DOMAIN reps : CanApply(Applied(cache, reps, n - 1), reps[n])

CanUndoAll(cache, reps) ==
    \A n \in DOMAIN reps : CanUndo(Undone(cache, reps, n + 1), reps[n])
=============================================================================
