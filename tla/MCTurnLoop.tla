------------------------------ MODULE MCTurnLoop ------------------------------
(* Model checking TurnLoop: the constants are given by the configurations. *)
EXTENDS TurnLoop
=============================================================================
