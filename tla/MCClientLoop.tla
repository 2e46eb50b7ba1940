---------------------------- MODULE MCClientLoop ----------------------------
(* Instances of ClientLoop.  The channel is smaller than the pipeline, so a *)
(* batch of inline replies can fill it.                                     *)
EXTENDS ClientLoop

AllOutcomes == {"pending", "hint", "inline", "drop", "quit"}
=============================================================================
