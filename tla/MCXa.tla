-------------------------------- MODULE MCXa --------------------------------
(* Instances of Xa: two transactions over a local and a remote branch.      *)
EXTENDS Xa, TLC

CONSTANTS t1, t2

Two == {t1, t2}
Symmetry == Permutations(Two)
LocalAndRemote == <<"here", "there">>
Peers == {"there"}
WriteVotes == {"Ok", "Abort"}
=============================================================================
