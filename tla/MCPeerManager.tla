--------------------------- MODULE MCPeerManager ---------------------------
(***************************************************************************)
(* One other node's address, the node's own, and two inbound connections   *)
(* from one host, the first of which announces the address.                *)
(***************************************************************************)
EXTENDS PeerManager

CONSTANTS a1, self, h1, h2, host

MCCaller == Outbound \cup Handler \cup {Main}

\* A second connection to a1 may run while the first one's writer still ends.
MCOutbound == {<<a1, 1>>, <<a1, 2>>, <<self, 1>>}

MCHostOf == [h \in Handler |-> host]
MCAnnouncedBy == [h \in Handler |-> IF h = h1 THEN a1 ELSE None]

\* A node that is not yet known to be reachable, one with -peer, one that dials
\* and accepts the same node, and one that only accepts.
Unverified == [explicit |-> None, banned |-> {}, open |-> FALSE, inbound |-> {}]
Explicit == [explicit |-> a1, banned |-> {}, open |-> TRUE, inbound |-> {}]
Mutual == [explicit |-> None, banned |-> {}, open |-> TRUE, inbound |-> {h1}]
Accepting == [explicit |-> None, banned |-> {a1}, open |-> TRUE, inbound |-> {h1, h2}]

MCConfiguration == {Unverified, Explicit, Mutual, Accepting}
MCEnding == {Unverified, Explicit, Accepting}
=============================================================================
