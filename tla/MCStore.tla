-------------------------------- MODULE MCStore --------------------------------
(* Model checking Store: two sessions on the process's one connection, whose  *)
(* layers may resolve the same content.                                       *)
EXTENDS Store

CONSTANTS one, two, said
=============================================================================
