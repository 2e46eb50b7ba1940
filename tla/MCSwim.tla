------------------------------- MODULE MCSwim -------------------------------
(* Two observers and one member that may be slow, crash and restart.        *)
EXTENDS Swim

CONSTANTS n1, n2, n3

MCNodes == {n1, n2, n3}
MCShaky == {n3}
=============================================================================
