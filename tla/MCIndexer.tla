----------------------------- MODULE MCIndexer -----------------------------
(***************************************************************************)
(* Two branches above a common plot.  a2 and b2 represent in opposite      *)
(* directions, and so do b2 and b3: what is accepted depends on what has   *)
(* been linked by then, and a reorganization may fail after b2 and be      *)
(* rolled back.                                                            *)
(*                                                                         *)
(*   g -- g1 -- a2                                                         *)
(*          \                                                              *)
(*           b2 -- b3                                                      *)
(***************************************************************************)
EXTENDS Indexer

CONSTANTS a, b

Rep(by, for, nonce) ==
    [By |-> by, For |-> for, Matures |-> 0, Expires |-> 4,
     Series |-> 1, Nonce |-> nonce]

Plotroot(for, height, nonce) ==
    [By |-> NoKey, For |-> for, Matures |-> 0, Expires |-> 0,
     Series |-> SeriesAt(height), Nonce |-> nonce]

MCPlot == {"g", "g1", "a2", "b2", "b3"}
MCPrevious == [p \in MCPlot |->
    CASE p = "g" -> None
      [] p = "g1" -> "g"
      [] p \in {"a2", "b2"} -> "g1"
      [] p = "b3" -> "b2"]
MCHeight == [p \in MCPlot |->
    CASE p = "g" -> 0
      [] p = "g1" -> 1
      [] p \in {"a2", "b2"} -> 2
      [] p = "b3" -> 3]
MCIDNumber == [p \in MCPlot |->
    CASE p = "g" -> 0 [] p = "g1" -> 1 [] p = "a2" -> 2
      [] p = "b2" -> 3 [] p = "b3" -> 4]
MCAncestry == [p \in MCPlot |->
    CASE p = "g" -> {"g"}
      [] p = "g1" -> {"g", "g1"}
      [] p = "a2" -> {"g", "g1", "a2"}
      [] p = "b2" -> {"g", "g1", "b2"}
      [] p = "b3" -> {"g", "g1", "b2", "b3"}]
MCWork == [p \in MCPlot |-> 1]
MCThreadWork == [p \in MCPlot |-> MCHeight[p] + 1]
MCTime == MCHeight

MCRepresentations == [p \in MCPlot |->
    CASE p = "g" -> <<Plotroot(a, 0, 0)>>
      [] p = "g1" -> <<Plotroot(b, 1, 1)>>
      [] p = "a2" -> <<Plotroot(a, 2, 2), Rep(a, b, 1)>>
      [] p = "b2" -> <<Plotroot(b, 2, 4), Rep(b, a, 2)>>
      [] p = "b3" -> <<Plotroot(b, 3, 5), Rep(a, b, 3)>>]
MCRepresentation == UNION {{MCRepresentations[p][i] : i \in DOMAIN MCRepresentations[p]} :
                             p \in MCPlot}
MCMaxRepresentationsPerPlot == [h \in 0..MAX_NUMBER |-> 3]

\* The target never changes below BITCOIN_CASH_RETARGET_ALGORITHM_HEIGHT.
MCTarget == [p \in MCPlot |-> "g"]
MCRevisedTarget == [p \in MCPlot |-> [q \in MCPlot |-> "g"]]
=============================================================================
