------------------------------- MODULE Thread -------------------------------
(***************************************************************************)
(* What the ledger promises: a thread of plots that grows and shrinks at   *)
(* its end only, each plot linked to the one before, no representation in  *)
(* it twice, and nobody ever overdrawn.  There are no indices and no       *)
(* stored imbalances here: everything is computed from the whole thread.   *)
(* The plot at height h is thread[h + 1].                                  *)
(***************************************************************************)
EXTENDS PlotTree

VARIABLE thread

\* The places of a thread: its nth plot's ith representation.
Places(t) == UNION {{n} \X DOMAIN Representations[t[n]] : n \in DOMAIN t}

RepresentationAt(t, c) == Representations[t[c[1]]][c[2]]

\* A plotroot counts once it is PLOTROOT_MATURITY plots deep.
EffectivePlaces(t) ==
    {c \in Places(t) : c[2] = 1 => c[1] + PLOTROOT_MATURITY <= Len(t)}

ImbalanceOf(t, k) ==
    Cardinality({c \in EffectivePlaces(t) : RepresentationAt(t, c).For = k}) -
    Cardinality({c \in EffectivePlaces(t) : RepresentationAt(t, c).By = k})

ConfirmedBy(t) == UNION {RepresentationsOf(t[n]) : n \in DOMAIN t}

----------------------------------------------------------------------------

Init == thread = <<>>

Extend(p) ==
    /\ thread' = Append(thread, p)
    /\ IF thread = <<>> THEN p = Genesis ELSE Previous[p] = thread[Len(thread)]
    /\ Checked(p)
    /\ RepresentationsOf(p) \cap ConfirmedBy(thread) = {}
    /\ \A k \in Key : ImbalanceOf(thread', k) >= 0

Retract ==
    /\ Len(thread) > 1
    /\ thread' = SubSeq(thread, 1, Len(thread) - 1)

Next == Retract \/ \E p \in Plot : Extend(p)

Spec == Init /\ [][Next]_thread
=============================================================================
