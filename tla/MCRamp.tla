------------------------------- MODULE MCRamp -------------------------------
(* An instance of Ramp: three transactions over three keys, each pair of    *)
(* which shares a key, and one reader of two keys; the third key comes into *)
(* its answer as a sibling.                                                 *)
EXTENDS Ramp, TLC

CONSTANTS a, b, c, t1, t2, t3, r1

MCKeys == {a, b, c}
MCTxns == {t1, t2, t3}
MCWriteSet == (t1 :> {a, b}) @@ (t2 :> {b, c}) @@ (t3 :> {a, c})
MCReaders == {r1}
MCReadSet == (r1 :> {a, c})
=============================================================================
