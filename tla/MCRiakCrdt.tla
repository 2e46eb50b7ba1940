----------------------------- MODULE MCRiakCrdt -----------------------------
(* An instance of RiakCrdt: a counter bumped three times and a set whose one   *)
(* element is added twice at one node and removed at another, so that an own   *)
(* update, a merge and a read repair overlap at the same store.                *)
EXTENDS RiakCrdt, TLC

CONSTANTS n1, n2, n3, e, u1, u2, u3, u4, u5, u6, f1

MCNodes == {n1, n2, n3}
MCUpdates == {u1, u2, u3, u4, u5, u6}
MCOpOf == (u1 :> [kind |-> "inc"]) @@ (u2 :> [kind |-> "dec"]) @@ (u3 :> [kind |-> "inc"])
          @@ (u4 :> [kind |-> "add", element |-> e]) @@ (u5 :> [kind |-> "add", element |-> e])
          @@ (u6 :> [kind |-> "remove", element |-> e])
MCAtNode == (u1 :> n1) @@ (u2 :> n2) @@ (u3 :> n1) @@ (u4 :> n1) @@ (u5 :> n1) @@ (u6 :> n2)
            @@ (f1 :> n1)
=============================================================================
