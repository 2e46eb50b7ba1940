---------------------------- MODULE MCRiakObject ----------------------------
(* An instance of RiakObject: three nodes, each a replica of the key and a     *)
(* coordinator.  The daemon's ring has the local peer's points too, so every   *)
(* replica list names all three.                                               *)
EXTENDS RiakObject, TLC

CONSTANTS g1, d1

MCNodes == 1..3
MCReplicas == [n \in MCNodes |-> <<1, 2, 3>>]
MCDurableNodes == {1, 2}
MCCoordinates == (1 :> {1}) @@ (2 :> {1, 2}) @@ (g1 :> {3}) @@ (d1 :> {2})
=============================================================================
