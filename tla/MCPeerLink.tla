----------------------------- MODULE MCPeerLink -----------------------------
(* Instances of PeerLink: three requests, the last without a deadline, and  *)
(* two gossip frames.                                                       *)
EXTENDS PeerLink

Three == 1..3
Two == 1..2
Frames == {11, 12}
AnyOutcome == {"backend", "inline", "spawned", "drop"}
BusyDatastore == {"backend", "inline"}
=============================================================================
