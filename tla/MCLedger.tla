------------------------------ MODULE MCLedger ------------------------------
(***************************************************************************)
(* The ledger over a whole tree of plots: a plot is the list of the        *)
(* choices that lead to it from the genesis plot, so every thread that can *)
(* be built from the representations below, up to MaxHeight, is walked.    *)
(***************************************************************************)
EXTENDS Ledger

CONSTANTS a, b, MaxHeight

Rep(by, for, series, nonce) ==
    [By |-> by, For |-> for, Matures |-> 0, Expires |-> 0,
     Series |-> series, Nonce |-> nonce]

\* One transfer each way in each direction and series; the plotroots go to a,
\* every third one to b.
AB1 == Rep(a, b, 1, 0)
BA1 == Rep(b, a, 1, 0)
AB2 == Rep(a, b, 2, 0)
BA2 == Rep(b, a, 2, 0)
AB3 == Rep(a, b, 3, 0)

PlotrootAt(h) == Rep(NoKey, IF h % 3 = 2 THEN b ELSE a, SeriesAt(h), h)

\* What a plot at each height may hold after its plotroot.
ChoicesAt(h) ==
    CASE h = 1 -> <<<<>>, <<AB1>>>>
      [] h = 2 -> <<<<>>, <<BA2>>, <<AB1>>, <<AB2>>, <<AB1, BA2>>>>
      [] h = 3 -> <<<<>>, <<BA2, AB1>>, <<AB2>>>>
      [] h = 4 -> <<<<>>, <<AB1>>, <<BA2>>>>
      [] h = 5 -> <<<<>>, <<AB2>>, <<BA2, AB3>>>>
      [] OTHER -> <<<<>>, <<AB2>>>>

Level[h \in 0..MaxHeight] ==
    IF h = 0
    THEN {<<>>}
    ELSE {Append(p, c) : p \in Level[h-1], c \in DOMAIN ChoicesAt(h)}

MCPlot == UNION {Level[h] : h \in 0..MaxHeight}
MCGenesis == <<>>
MCHeight == [p \in MCPlot |-> Len(p)]
MCPrevious ==
    [p \in MCPlot |-> IF p = <<>> THEN None ELSE SubSeq(p, 1, Len(p) - 1)]
MCAncestry == [p \in MCPlot |-> {SubSeq(p, 1, n) : n \in 0..Len(p)}]
MCWork == [p \in MCPlot |-> 1]
MCThreadWork == [p \in MCPlot |-> Len(p) + 1]
MCTime == [p \in MCPlot |-> Len(p)]

\* The choices read as the digits of a number.
Digits(p) ==
    LET value[n \in 0..Len(p)] == IF n = 0 THEN 1 ELSE 5 * value[n-1] + p[n]
    IN  value[Len(p)]

MCIDNumber == [p \in MCPlot |-> Digits(p)]
MCRepresentations ==
    [p \in MCPlot |-> <<PlotrootAt(Len(p))>> \o
                      (IF p = <<>> THEN <<>> ELSE ChoicesAt(Len(p))[p[Len(p)]])]
MCRepresentation ==
    {AB1, BA1, AB2, BA2, AB3} \cup {PlotrootAt(h) : h \in 0..MaxHeight}
MCMaxRepresentationsPerPlot == [h \in 0..MAX_NUMBER |-> 3]

\* branchType only decides which plots may be flagged, and flagging changes
\* nothing else: it is checked, but not distinguished.
LedgerView == <<tip, tipHeight, heightIndex, repIndex, pubKeyIndex, imbalance, graph>>
=============================================================================
