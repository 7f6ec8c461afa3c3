---------------------------- MODULE MCProcessor ----------------------------
(***************************************************************************)
(* The processor over a small tree of plots with three branches.           *)
(*                                                                         *)
(*   g -- a1 -- a2 -- a3        the branch a node usually hears of first   *)
(*    \                                                                    *)
(*     b1 -- b2 -- b3 -- b4     b3 overdraws b, which only connecting it   *)
(*             \                shows; b4 stands on it                     *)
(*              c3 -- d4        another branch; d4 declares the target of  *)
(*                              another thread                             *)
(*                                                                         *)
(* a2 and c3 confirm the same representation; b2 confirms one in the       *)
(* opposite direction, so the graph sees a cycle if both are indexed.      *)
(***************************************************************************)
EXTENDS Processor

CONSTANTS a, b

Rep(by, for, nonce) ==
    [By |-> by, For |-> for, Matures |-> 0, Expires |-> 4,
     Series |-> 1, Nonce |-> nonce]

Plotroot(for, height, nonce) ==
    [By |-> NoKey, For |-> for, Matures |-> 0, Expires |-> 0,
     Series |-> SeriesAt(height), Nonce |-> nonce]

MCPlot == {"g", "a1", "a2", "a3", "b1", "b2", "b3", "b4", "c3", "d4"}
MCGenesis == "g"
MCPrevious == [p \in MCPlot |->
    CASE p = "g" -> None
      [] p \in {"a1", "b1"} -> "g"
      [] p = "a2" -> "a1"
      [] p = "a3" -> "a2"
      [] p = "b2" -> "b1"
      [] p \in {"b3", "c3"} -> "b2"
      [] p = "b4" -> "b3"
      [] p = "d4" -> "c3"]
MCHeight == [p \in MCPlot |->
    CASE p = "g" -> 0
      [] p \in {"a1", "b1"} -> 1
      [] p \in {"a2", "b2"} -> 2
      [] p \in {"a3", "b3", "c3"} -> 3
      [] p \in {"b4", "d4"} -> 4]
MCIDNumber == [p \in MCPlot |->
    CASE p = "g" -> 0
      [] p = "a1" -> 8 [] p = "a2" -> 2 [] p = "a3" -> 5
      [] p = "b1" -> 4 [] p = "b2" -> 7 [] p = "b3" -> 11 [] p = "b4" -> 9
      [] p = "c3" -> 6 [] p = "d4" -> 10]
MCAncestry == [p \in MCPlot |->
    CASE p = "g" -> {"g"}
      [] p = "a1" -> {"g", "a1"}
      [] p = "a2" -> {"g", "a1", "a2"}
      [] p = "a3" -> {"g", "a1", "a2", "a3"}
      [] p = "b1" -> {"g", "b1"}
      [] p = "b2" -> {"g", "b1", "b2"}
      [] p = "b3" -> {"g", "b1", "b2", "b3"}
      [] p = "b4" -> {"g", "b1", "b2", "b3", "b4"}
      [] p = "c3" -> {"g", "b1", "b2", "c3"}
      [] p = "d4" -> {"g", "b1", "b2", "c3", "d4"}]
MCWork == [p \in MCPlot |-> 1]
MCThreadWork == [p \in MCPlot |-> MCHeight[p] + 1]
\* Only g and a1 are early enough for the first clock value.
MCTime == [p \in MCPlot |-> IF p \in {"g", "a1"} THEN MCHeight[p] ELSE MCHeight[p] + 3]

X == Rep(a, b, 1)
Y == [Rep(b, a, 2) EXCEPT !.Matures = 4]
Overdraft == <<Rep(b, a, 3), Rep(b, a, 4)>>

MCRepresentations == [p \in MCPlot |->
    CASE p = "g" -> <<Plotroot(a, 0, 0)>>
      [] p = "a1" -> <<Plotroot(a, 1, 1)>>
      [] p = "a2" -> <<Plotroot(a, 2, 2), X>>
      [] p = "a3" -> <<Plotroot(a, 3, 3)>>
      [] p = "b1" -> <<Plotroot(b, 1, 4)>>
      [] p = "b2" -> <<Plotroot(b, 2, 5), Y>>
      [] p = "b3" -> <<Plotroot(b, 3, 6)>> \o Overdraft
      [] p = "b4" -> <<Plotroot(b, 4, 7)>>
      [] p = "c3" -> <<Plotroot(b, 3, 8), X>>
      [] p = "d4" -> <<Plotroot(b, 4, 10)>>]
MCRepresentation == UNION {{MCRepresentations[p][i] : i \in DOMAIN MCRepresentations[p]} :
                             p \in MCPlot}
MCMaxRepresentationsPerPlot == [h \in 0..MAX_NUMBER |-> 3]

\* A target is named by the header it was computed from.
MCOriginalTarget == [p \in MCPlot |-> "g"]
MCRevisedTarget == [p \in MCPlot |-> [q \in MCPlot |-> q]]
MCTarget == [p \in MCPlot |->
    IF p = "g" \/ ~UsesRevisedTarget(MCPrevious[p])
    THEN "g"
    ELSE IF p = "d4"
    THEN "a1"
    ELSE CHOOSE q \in MCAncestry[p] :
           MCHeight[q] = MCHeight[MCPrevious[p]] - RETARGET_SMA_WINDOW]
=============================================================================
