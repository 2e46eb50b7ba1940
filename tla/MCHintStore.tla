---------------------------- MODULE MCHintStore ----------------------------
(* An instance of HintStore: two hints of different sizes for one peer.     *)
(* Peers share nothing but the byte budget, which the two hints exceed      *)
(* together, and the drainer's snapshot.                                    *)
EXTENDS HintStore

CONSTANTS h1, h2, p1

MCHints == {h1, h2}
MCPeers == {p1}
MCPeerOf == [h \in MCHints |-> p1]
MCWeight == [h \in MCHints |-> IF h = h2 THEN 2 ELSE 1]
=============================================================================
