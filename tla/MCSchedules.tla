----------------------------- MODULE MCSchedules -----------------------------
(* Model checking Schedules: the constants are given by the configurations. *)
EXTENDS Schedules
=============================================================================
