---------------------------- MODULE MCRepeatGuard ----------------------------
(* Model checking RepeatGuard; keys and results are interchangeable. *)
EXTENDS RepeatGuard, TLC

Symmetry == Permutations(Keys) \cup Permutations(Results)
=============================================================================
