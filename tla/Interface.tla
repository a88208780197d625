------------------------------- MODULE Interface -------------------------------
(***************************************************************************)
(* What the interfaces share: users and operators as their environment,    *)
(* the delivery loops an interface keeps seated on the Runtime's handles,  *)
(* and what a chat shows of a call.                                        *)
(***************************************************************************)
EXTENDS Session

VARIABLES
  loops,  \* the delivery loops: whether one runs, for which seat, the stamp it saw
  posts,  \* the messages answered in each place, in the order of their answers
  current \* the agent's own Session, or direct mode's: its place in sessions, or 0

sharedVars == <<interface, runtime, disk, sessions, calls, archive, forked, spent, loops, posts>>
turnVars == <<runtime, disk, loops, posts>>

NoLoop == [on |-> FALSE, seat |-> 0, stamp |-> 0]
LoopOn(rt, block) == [on |-> TRUE, seat |-> rt.seat[block], stamp |-> rt.stamp[block]]

(* The loops an interface runs; the other interfaces run none. *)
Delivers == [zulip |-> {"reminders"}, discord |-> {"reminders", "schedules"},
             threads |-> {"reminders", "schedules"}, repl |-> {}, direct |-> {}]

(* _start_reminders, _start_schedules: no handle, no loop. *)
Start(rt, block) ==
  IF rt.seat[block] = 0 \/ block \notin Delivers[interface] THEN NoLoop ELSE LoopOn(rt, block)

(* _sync_reminders and _sync_schedules, in one of three ways.  A loop that   *)
(* saw the Runtime's stamp stays; one that did not is given up at once and   *)
(* stopped while the task waits; where none runs, one starts.                *)
Current(block) == loops[block].on /\ loops[block].stamp = runtime.stamp[block]
Outdated(block) == loops[block].on /\ loops[block].stamp # runtime.stamp[block]

Synced(block) == IF Current(block) THEN loops[block] ELSE Start(runtime, block)

SyncNow(m, block, next) ==
  /\ At(m, "syncing") /\ ~Outdated(block)
  /\ loops' = [loops EXCEPT ![block] = Synced(block)]
  /\ calls' = next

SyncStops(m, block) ==
  /\ At(m, "syncing") /\ Outdated(block)
  /\ loops' = [loops EXCEPT ![block] = NoLoop]
  /\ Goto(m, "stopping")

(* "except CancelledError: pass": a task cancelled here goes on. *)
SyncStopped(m, block, next) ==
  /\ calls[m].pc = "stopping"
  /\ loops' = [loops EXCEPT ![block] = IF @.on THEN @ ELSE Start(runtime, block)]
  /\ calls' = next

(* A progress edit that nobody cancelled reaches the chat. *)
EditLands(m) ==
  /\ calls[m].edit
  /\ calls' = [calls EXCEPT ![m] = [@ EXCEPT !.edit = FALSE, !.shown = "progress"]]
  /\ UNCHANGED <<runtime, disk, sessions, archive, forked, spent, loops, posts>>

-----------------------------------------------------------------------------
(* The environment. *)

NextMessage == Unsent # {} /\ MoreToCome

(* What the operator did to the config file and the skill files since the    *)
(* last message; nothing else reads them.                                    *)
Edits ==
  \/ UNCHANGED <<disk, spent>>
  \/ Extra("edit config") /\ EditConfig
  \/ Extra("edit skills") /\ EditSkills
  \/ Extra("change access") /\ ChangeAccess

(* The process dies: what it did not finish is lost, and a new one starts    *)
(* with the config on disk, if that one starts at all.                       *)
Lost == [m \in Messages |-> CASE calls[m].pc = "unsent" -> calls[m]
                              [] calls[m].pc = "done"   -> [calls[m] EXCEPT !.edit = FALSE]
                              [] OTHER -> Ended(calls[m], "lost")]
Restarted ==
  /\ Extra("crash") /\ StartsUp(disk.config)
  /\ runtime' = StartRuntime(Loaded(disk), disk)
  /\ calls' = Lost
  /\ loops' = [b \in DOMAIN loops |-> Start(runtime', b)]
  /\ UNCHANGED <<disk, archive, forked, posts>>

SharedInit ==
  /\ RuntimeInit
  /\ calls = [m \in Messages |-> NoCall]
  /\ archive = [p \in Places |-> <<>>] /\ forked = {} /\ posts = [p \in Places |-> <<>>]
  /\ loops = [b \in {"reminders", "schedules"} |-> Start(runtime, b)] /\ spent = 0
=============================================================================
