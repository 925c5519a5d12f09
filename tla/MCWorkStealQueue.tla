-------------------------- MODULE MCWorkStealQueue --------------------------
(***************************************************************************)
(* Model checking of WorkStealQueue: a queue whose indices are about to    *)
(* wrap around.                                                            *)
(***************************************************************************)
EXTENDS WorkStealQueue

Aged == {WordMod - 2}
=============================================================================
