-------------------------------- MODULE Discord --------------------------------
(***************************************************************************)
(* The Discord interface (spctr/interfaces/discord/interface.py): every    *)
(* message is handled by a task of its own, a turn by a task under it that *)
(* "/stop" may cancel.  The interface keeps the histories of its channels  *)
(* and gives the agent a new Session with a channel's history for every    *)
(* turn, one turn at a time.  The interface "threads" is the same one with  *)
(* auto_thread on.                                                         *)
(***************************************************************************)
EXTENDS Interface

VARIABLES
  history,     \* the history of each channel, as the interface keeps it
  active,      \* _active_runs: the turn "/stop" would cancel, or 0
  pendingId,   \* the placeholder of each channel's turn, named by its message, or 0
  turnLock,    \* _agent_turn_lock: its holder and those that wait
  placeKind    \* each place: a "thread", a "channel" whose messages each start
               \* one (auto_thread), or "unmade": a thread to come

channelVars == <<history, active, pendingId, turnLock, placeKind>>
discordVars == <<channelVars, current>>

Blocks == <<"reminders", "schedules">>
Stopped(m) == [role |-> "stopped", of |-> {m}]

DiscordInit ==
  /\ history = [c \in Places |-> <<>>] /\ active = [c \in Places |-> 0]
  /\ pendingId = [c \in Places |-> 0] /\ turnLock = <<>>
  /\ IF interface = "threads"
     THEN \E channel \in Places : placeKind = [c \in Places |-> IF c = channel THEN "channel" ELSE "unmade"]
     ELSE placeKind = [c \in Places |-> "thread"]

-----------------------------------------------------------------------------
(* A message arrives: _process_message, or _handle_slash for a native slash  *)
(* command, which the channel it was given in receives.                      *)

Stamped(ss) == [k \in DOMAIN ss |-> IF k = current THEN SetRunContext(ss[k]) ELSE ss[k]]

(* A message that is no command, or "/ask", asks the agent. *)
Commands == {"stop", "reset", "retry", "model"}
SlashCommands == Commands \cup {"say"}

(* A slash command to stop, reset or change the model differs from the text  *)
(* only where auto_thread would make a thread for the text.  As a bound,     *)
(* there are slash commands only in the interface with auto_thread.          *)
SlashDiffers(channel, kind) == kind \in {"say", "retry"} \/ placeKind[channel] = "channel"

(* The bound on threads: each text in a channel finds a place for its own. *)
Unmade == {c \in Places : placeKind[c] = "unmade"}
ToTarget == {n \in Messages : calls[n].pc \in {"syncing", "stopping", "threading"} /\ ~calls[n].slash}
ThreadsToCome(channel) ==
  placeKind[channel] = "channel" => Cardinality(ToTarget) < Cardinality(Unmade)

(* A message of somebody who may not speak to the agent: dispatch_message    *)
(* has read the config by then, and does not go on to apply it.              *)
Denied == runtime' = Reload(runtime, disk') /\ UNCHANGED sessions

(* The access filters let the message pass, but it does not mention the bot. *)
Unaddressed ==
  /\ runtime' = Reloaded(runtime, disk')
  /\ sessions' = IF ReloadRaises(disk') THEN sessions ELSE Notified(sessions, disk')

Overheard ==
  /\ NextMessage /\ Edits /\ disk' # disk
  /\ Denied \/ Unaddressed
  /\ \E channel \in Places :
       calls' = [calls EXCEPT ![Min(Unsent)] = [NoCall EXCEPT !.pc = "done", !.place = channel]]
  /\ UNCHANGED <<archive, forked, loops, posts, discordVars>>

(* The config is applied first; if that raises, the message is dropped. *)
Handed(channel, kind, slash) ==
  /\ calls' = [calls EXCEPT ![Min(Unsent)] =
       [NoCall EXCEPT !.place = channel, !.kind = kind, !.slash = slash,
                      !.pc = IF ReloadRaises(disk') THEN "lost" ELSE "syncing"]]
  /\ runtime' = Reloaded(runtime, disk')
  /\ sessions' = IF ReloadRaises(disk') THEN sessions ELSE Stamped(Notified(sessions, disk'))
  /\ UNCHANGED <<archive, forked, loops, posts, discordVars>>

(* As a bound, there is nothing to stop or retry where nothing was said. *)
Spoken(channel) == \E n \in Messages : calls[n].place = channel

Receive ==
  /\ NextMessage /\ Edits
  /\ \E channel \in Places, kind \in Commands \cup {"say"} :
       /\ placeKind[channel] # "unmade" /\ ThreadsToCome(channel)
       /\ kind \in Commands => Spoken(channel)
       /\ Handed(channel, kind, FALSE)

ReceiveSlash ==
  /\ interface = "threads" /\ NextMessage /\ Edits
  /\ \E channel \in Places, kind \in SlashCommands :
       /\ placeKind[channel] # "unmade" /\ SlashDiffers(channel, kind)
       /\ kind \in Commands => Spoken(channel)
       /\ Handed(channel, kind, TRUE)

(* _resolve_target_channel: a text in a channel, a command too, starts a     *)
(* thread; if none can be made the channel itself is the target.             *)
TargetFirst(m) ==
  IF placeKind[calls[m].place] = "channel" /\ ~calls[m].slash THEN "threading" ELSE "routing"

CreateThread(m) ==
  /\ At(m, "threading")
  /\ \/ Extra("send fails") /\ Goto(m, "routing") /\ UNCHANGED placeKind
     \/ \E thread \in Unmade :
          /\ placeKind' = [placeKind EXCEPT ![thread] = "thread"]
          /\ calls' = [calls EXCEPT ![m] = [@ EXCEPT !.pc = "routing", !.place = thread]]
          /\ UNCHANGED spent
  /\ UNCHANGED <<turnVars, sessions, archive, forked, history, active, pendingId, turnLock, current>>

(* Both loops are brought up to date; overlapping messages take no turns. *)
SyncBlock(m) ==
  LET b == calls[m].block
      next == [calls EXCEPT ![m] = [@ EXCEPT !.block = IF b = 2 THEN b ELSE b + 1,
                                           !.pc = IF b = 2 THEN TargetFirst(m) ELSE "syncing"]]
  IN  /\ \/ SyncNow(m, Blocks[b], next) \/ SyncStops(m, Blocks[b]) \/ SyncStopped(m, Blocks[b], next)
      /\ UNCHANGED <<runtime, disk, sessions, archive, forked, spent, posts, discordVars>>

Running(n) == n # 0 /\ calls[n].pc # "finalizing"
(* _stop_command: only the newest turn of the channel is tracked. *)
StopTargets(channel) == {n \in {active[channel]} : Running(n)}

StopCommand(m) ==
  /\ At(m, "routing") /\ calls[m].kind = "stop"
  /\ calls' = [n \in Messages |-> IF n = m THEN Finish(calls[n])
                                  ELSE [calls[n] EXCEPT !.cancelled = @ \/ n \in StopTargets(calls[m].place)]]
  /\ UNCHANGED <<turnVars, sessions, archive, forked, spent, discordVars>>

ResetCommand(m) ==
  /\ At(m, "routing") /\ calls[m].kind = "reset"
  /\ history' = [history EXCEPT ![calls[m].place] = <<>>]
  /\ pendingId' = [pendingId EXCEPT ![calls[m].place] = 0]
  /\ calls' = [calls EXCEPT ![m] = Finish(@)]
  /\ UNCHANGED <<turnVars, sessions, archive, forked, spent, active, turnLock, placeKind, current>>

(* _model_command: the next message's reload finds the pointer. *)
ModelCommand(m) ==
  /\ At(m, "routing") /\ calls[m].kind = "model"
  /\ \E model \in Selectable(runtime.source.model) : disk' = [disk EXCEPT !.pointer = model]
  /\ calls' = [calls EXCEPT ![m] = Finish(@)]
  /\ UNCHANGED <<runtime, loops, posts, sessions, archive, forked, spent, discordVars>>

Users(h) == {k \in DOMAIN h : h[k].role = "user"}

(* split_for_retry: the history before the last message of a user's. *)
BeforeLastUser(h) == SubSeq(h, 1, Max(Users(h)) - 1)

(* _run_agent: a task for the turn, which "/stop" finds until it ends. *)
RunAgent(m, h) ==
  /\ history' = [history EXCEPT ![calls[m].place] = h]
  /\ active' = [active EXCEPT ![calls[m].place] = m]
  /\ Goto(m, "starting")

(* "/ask" and "/retry" are first acknowledged in the channel. *)
Acknowledge(m, h) ==
  /\ history' = [history EXCEPT ![calls[m].place] = h]
  /\ Goto(m, "anchoring") /\ UNCHANGED active

Runs(m, h) == IF calls[m].slash THEN Acknowledge(m, h) ELSE RunAgent(m, h)

RouteToAgent(m) ==
  /\ At(m, "routing")
  /\ LET h == history[calls[m].place]
     IN  \/ calls[m].kind = "say" /\ Runs(m, h)
         \/ calls[m].kind = "retry" /\ Users(h) # {} /\ Runs(m, BeforeLastUser(h))
         \/ /\ calls[m].kind = "retry" /\ Users(h) = {}
            /\ calls' = [calls EXCEPT ![m] = Finish(@)] /\ UNCHANGED <<history, active>>
  /\ UNCHANGED <<turnVars, sessions, archive, forked, spent, pendingId, turnLock, placeKind, current>>

Acknowledged(m) ==
  /\ At(m, "anchoring") /\ RunAgent(m, history[calls[m].place])
  /\ UNCHANGED <<turnVars, sessions, archive, forked, spent, pendingId, turnLock, placeKind, current>>

SlashCommand(m) == StopCommand(m) \/ ResetCommand(m) \/ ModelCommand(m) \/ RouteToAgent(m) \/ Acknowledged(m)

-----------------------------------------------------------------------------
(* A turn: _process_through_agent. *)

Starts(m) ==
  /\ At(m, "starting")
  /\ history' = [history EXCEPT ![calls[m].place] = Append(@, User(m))]
  /\ Goto(m, "placing")
  /\ UNCHANGED <<turnVars, sessions, archive, forked, spent, active, pendingId, turnLock, placeKind, current>>

PostPlaceholder(m) ==
  /\ At(m, "placing")
  /\ \E shown \in {"thinking", "nothing"} :
       /\ IF shown = "nothing" THEN Extra("send fails") ELSE UNCHANGED spent
       /\ calls' = [calls EXCEPT ![m] = [@ EXCEPT !.pc = "locking", !.shown = shown]]
       /\ pendingId' = [pendingId EXCEPT ![calls[m].place] = IF shown = "thinking" THEN m ELSE 0]
  /\ turnLock' = Append(turnLock, m)
  /\ UNCHANGED <<turnVars, sessions, archive, forked, history, active, placeKind, current>>

(* A bug: the agent keeps its Session, and the channel's history is added. *)
RestoredMutant(m) ==
  IF current = 0 THEN [NewSession(calls[m].place, runtime) EXCEPT !.history = history[calls[m].place]]
  ELSE [NewSession(calls[m].place, runtime) EXCEPT !.history = sessions[current].history \o history[calls[m].place]]
(* _restore_history: a new Session of the channel's frame, with the history  *)
(* the interface keeps of the channel, this message included.  The typing    *)
(* indicator comes on, and the agent streams through the Session.            *)
RestoredHistory(m) == [NewSession(calls[m].place, runtime) EXCEPT !.history = history[calls[m].place]]

TakeTurn(m) ==
  /\ At(m, "locking") /\ Head(turnLock) = m
  /\ LET old == [k \in DOMAIN sessions |-> IF k = current THEN Close(sessions[k]) ELSE sessions[k]]
     IN  sessions' = Append(old, Entered(SetRunContext(RestoredHistory(m)), m))
  /\ current' = Len(sessions) + 1
  /\ calls' = [calls EXCEPT ![m] = [@ EXCEPT !.pc = "waiting", !.session = Len(sessions) + 1]]
  /\ UNCHANGED <<turnVars, archive, forked, spent, history, active, pendingId, turnLock, placeKind>>

AgentTurn(m) == TurnStep(m) /\ UNCHANGED <<turnVars, discordVars>>

(* _cancel_pending_stream_edit: the interface has one pending edit at most. *)
NoEdit == [n \in Messages |-> [calls[n] EXCEPT !.edit = FALSE]]

Progress(m) ==
  /\ At(m, "streaming") /\ calls[m].shown = "thinking" /\ ~calls[m].edit
  /\ calls' = [NoEdit EXCEPT ![m].edit = TRUE]
  /\ UNCHANGED <<turnVars, sessions, archive, forked, spent, discordVars>>

Unlocked(m) == RemoveFirst(turnLock, m)
Untracked(m) == [active EXCEPT ![calls[m].place] = IF @ = m THEN 0 ELSE @]

(* The lock is free; the answer joins the channel's history. *)
Answered(m) ==
  /\ At(m, "left") /\ calls[m].outcome = "answer"
  /\ turnLock' = Unlocked(m)
  /\ history' = [history EXCEPT ![calls[m].place] = Append(@, Assistant(m))]
  /\ calls' = [NoEdit EXCEPT ![m].pc = "delivering"]
  /\ UNCHANGED <<turnVars, sessions, archive, forked, spent, active, pendingId, placeKind, current>>

ShowAnswer(m) ==
  /\ At(m, "delivering")
  /\ calls' = [calls EXCEPT ![m] = [Finish(@) EXCEPT !.shown = IF @ = "nothing" THEN @ ELSE "answer"]]
  /\ posts' = [posts EXCEPT ![calls[m].place] = Append(@, m)]
  /\ pendingId' = [pendingId EXCEPT ![calls[m].place] = 0]
  /\ active' = Untracked(m)
  /\ UNCHANGED <<runtime, disk, loops, sessions, archive, forked, spent, history, turnLock, placeKind, current>>

(* An error replaces the placeholder, under the lock still; what an edit has *)
(* yet to show may follow it.                                                *)
ShowError(m) ==
  /\ At(m, "left") /\ calls[m].outcome = "error"
  /\ calls' = [calls EXCEPT ![m] = [Finish(@) EXCEPT !.shown = IF @ = "nothing" THEN @ ELSE "error"]]
  /\ turnLock' = Unlocked(m)
  /\ pendingId' = [pendingId EXCEPT ![calls[m].place] = 0]
  /\ active' = Untracked(m)
  /\ UNCHANGED <<turnVars, sessions, archive, forked, spent, history, placeKind, current>>

(* The turn's task is cancelled: _finalize_cancelled begins, with whatever   *)
(* placeholder the channel has now.                                          *)
Unwinds(m) ==
  /\ calls[m].cancelled /\ calls[m].pc \in {"starting", "placing", "locking", "left", "delivering"}
  /\ turnLock' = Unlocked(m)
  /\ calls' = [NoEdit EXCEPT ![m] = [@ EXCEPT !.pc = "finalizing", !.cancelled = FALSE, !.prev = pendingId[calls[m].place]]]
  /\ UNCHANGED <<turnVars, sessions, archive, forked, spent, history, active, pendingId, placeKind, current>>

(* The note is shown, and the history gets an answer for the message. *)
FinalizeCancelled(m) ==
  /\ At(m, "finalizing")
  /\ LET noted == IF calls[m].prev = 0 THEN calls ELSE [calls EXCEPT ![calls[m].prev].shown = "stopped"]
     IN  calls' = [noted EXCEPT ![m] = Finish(@)]
  /\ history' = [history EXCEPT ![calls[m].place] = Append(@, Stopped(m))]
  /\ pendingId' = [pendingId EXCEPT ![calls[m].place] = 0]
  /\ active' = Untracked(m)
  /\ UNCHANGED <<turnVars, sessions, archive, forked, spent, turnLock, placeKind, current>>

(* The channels' histories end with the process. *)
DiscordRestart ==
  /\ Restarted /\ sessions' = <<>>
  /\ history' = [c \in Places |-> <<>>] /\ active' = [c \in Places |-> 0]
  /\ pendingId' = [c \in Places |-> 0] /\ turnLock' = <<>> /\ current' = 0
  /\ UNCHANGED placeKind

DiscordTask(m) ==
  \/ SyncBlock(m) \/ CreateThread(m) \/ SlashCommand(m) \/ Starts(m)
  \/ PostPlaceholder(m) \/ TakeTurn(m) \/ AgentTurn(m) \/ Progress(m)
  \/ Answered(m) \/ ShowAnswer(m) \/ ShowError(m) \/ Unwinds(m) \/ FinalizeCancelled(m)

(* Between two awaits a task runs alone. *)
DiscordRunsOn == {m \in Messages : calls[m].pc \in {"syncing", "routing", "waiting", "left"}}

DiscordNext ==
  \/ \E m \in DiscordRunsOn : DiscordTask(m)
  \/ /\ DiscordRunsOn = {}
     /\ \/ Receive \/ ReceiveSlash \/ Overheard \/ DiscordRestart
        \/ \E m \in Messages : DiscordTask(m) \/ (EditLands(m) /\ UNCHANGED discordVars)
=============================================================================
