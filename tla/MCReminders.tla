----------------------------- MODULE MCReminders -----------------------------
(* Model checking Reminders: a reminder of the discord interface, two loops *)
(* for discord and one for zulip, on one store.                             *)
EXTENDS Reminders

CONSTANTS discord, zulip, d1, d2, z1, rd1

MCRowPlatform == [r \in Rows |-> discord]
MCLoopPlatform == [l \in Loops |-> IF l = z1 THEN zulip ELSE discord]
=============================================================================
