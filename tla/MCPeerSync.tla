----------------------------- MODULE MCPeerSync -----------------------------
(***************************************************************************)
(* A thread of three plots and a fork: x, after m2, is a plot that the     *)
(* processor refuses.                                                      *)
(*                                                                         *)
(* One peer has the three plots, the other has two and then announces x.   *)
(***************************************************************************)
EXTENDS PeerSync

CONSTANTS a, b, g, m1, m2, m3, x

MCPlot == {g, m1, m2, m3, x}

MCPrevious ==
    [plot \in MCPlot \ {g} |->
       CASE plot = m1 -> g
         [] plot = m2 -> m1
         [] plot \in {m3, x} -> m2]

MCThreadTo[plot \in MCPlot] ==
    IF plot = g THEN <<g>> ELSE Append(MCThreadTo[MCPrevious[plot]], plot)

MCInitialRemoteTip == [p \in Peer |-> IF p = a THEN m2 ELSE m3]
MCFinalRemoteTip == [p \in Peer |-> IF p = a THEN x ELSE m3]
=============================================================================
