------------------------------ MODULE MCQueue ------------------------------
(***************************************************************************)
(* The processor and its queue over two branches.                          *)
(*                                                                         *)
(*   g -- a1 -- a2 -- a3      a1 confirms AB, a2 the opposite BA           *)
(*    \                                                                    *)
(*     b1 -- b2 -- b3         b2 confirms AB; b3 overdraws c, which only   *)
(*                            connecting it shows                          *)
(*                                                                         *)
(* b2 wins a tie with a2, and b3 one with a3.  Loose representations are   *)
(* those of the plots and four more.                                      *)
(***************************************************************************)
EXTENDS QueuedProcessor

CONSTANTS a, b, c

Rep(by, for, nonce, expires) ==
    [By |-> by, For |-> for, Matures |-> 0, Expires |-> expires,
     Series |-> 1, Nonce |-> nonce]

Plotroot(height, nonce) ==
    [By |-> NoKey, For |-> a, Matures |-> 0, Expires |-> 0,
     Series |-> SeriesAt(height), Nonce |-> nonce]

AB == Rep(a, b, 1, 0)
BA == Rep(b, a, 2, 0)
CB == Rep(c, b, 3, 0)
AB2 == Rep(a, b, 4, 0)
BC == Rep(b, c, 5, 0)
AC == Rep(a, c, 6, 2)
BAM == [Rep(b, a, 7, 0) EXCEPT !.Matures = 3]

MCPlot == {"g", "a1", "a2", "a3", "b1", "b2", "b3"}
MCGenesis == "g"
MCHeight == [p \in MCPlot |->
    CASE p = "g" -> 0
      [] p \in {"a1", "b1"} -> 1
      [] p \in {"a2", "b2"} -> 2
      [] p \in {"a3", "b3"} -> 3]
MCAncestry == [p \in MCPlot |->
    CASE p = "g" -> {"g"}
      [] p = "a1" -> {"g", "a1"}
      [] p = "a2" -> {"g", "a1", "a2"}
      [] p = "a3" -> {"g", "a1", "a2", "a3"}
      [] p = "b1" -> {"g", "b1"}
      [] p = "b2" -> {"g", "b1", "b2"}
      [] p = "b3" -> {"g", "b1", "b2", "b3"}]
MCPrevious == [p \in MCPlot |->
    IF p = "g" THEN None ELSE CHOOSE q \in MCAncestry[p] : MCHeight[q] = MCHeight[p] - 1]
MCWork == [p \in MCPlot |-> 1]
MCThreadWork == [p \in MCPlot |-> MCHeight[p] + 1]
MCTime == MCHeight
MCIDNumber == [p \in MCPlot |->
    CASE p = "g" -> 0
      [] p = "a1" -> 1 [] p = "a2" -> 5 [] p = "a3" -> 6
      [] p = "b1" -> 2 [] p = "b2" -> 3 [] p = "b3" -> 4]
MCRepresentations == [p \in MCPlot |->
    CASE p = "g" -> <<Plotroot(0, 0)>>
      [] p = "a1" -> <<Plotroot(1, 1), AB>>
      [] p = "a2" -> <<Plotroot(2, 2), BA>>
      [] p = "a3" -> <<Plotroot(3, 3)>>
      [] p = "b1" -> <<Plotroot(1, 4)>>
      [] p = "b2" -> <<Plotroot(2, 5), AB>>
      [] p = "b3" -> <<Plotroot(3, 6), CB>>]
MCRepresentation ==
    UNION {{MCRepresentations[p][i] : i \in DOMAIN MCRepresentations[p]} : p \in MCPlot}
      \cup {AB2, BC, AC, BAM}
MCMaxRepresentationsPerPlot == [h \in 0..MAX_NUMBER |-> 3]
MCTarget == [p \in MCPlot |-> "g"]
MCRevisedTarget == [p \in MCPlot |-> [q \in MCPlot |-> "g"]]
=============================================================================
