------------------------ MODULE RepresentationGraph ------------------------
(***************************************************************************)
(* The directed graph of representations, from sender to recipient, that   *)
(* the indexer builds in memory and that the ledger and the queue ask for  *)
(* cycles.  Weights are left out: an edge whose weight has returned to     *)
(* zero stays in the map, and the search follows it all the same.          *)
(***************************************************************************)
EXTENDS PlotTree

ASSUME GraphAssumption == IsFiniteSet(Key)

\* The edges that Graph.Link is called with for the representations of a plot,
\* with either sign of weight.
Links(p) == {<<r.By, r.For>> : r \in RepresentationsOf(p)}

GraphKeys(graph) == {e[1] : e \in graph} \cup {e[2] : e \in graph}

\* dfs: everything reachable from k, k included.
Reachable(graph, k) ==
    LET reach[n \in 0..Cardinality(Key)] ==
          IF n = 0
          THEN {k}
          ELSE reach[n-1] \cup {e[2] : e \in {f \in graph : f[1] \in reach[n-1]}}
    IN  reach[Cardinality(Key)]

IsParentDescendant(graph, parent, descendant) ==
    /\ {parent, descendant} \subseteq GraphKeys(graph)
    /\ descendant \in Reachable(graph, parent)
=============================================================================
