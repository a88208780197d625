---------------------------------- MODULE Repl ----------------------------------
(***************************************************************************)
(* The REPL (spctr/interfaces/repl.py): one user at a prompt, one turn at  *)
(* a time that Ctrl-C may cancel, and the commands that move the agent to  *)
(* another session key: "/reset" to a new one, "/resume" to one that is in *)
(* the archive, with the conversation found there.  A place is a key.      *)
(***************************************************************************)
EXTENDS Interface

VARIABLES
  minted,   \* the keys of the form this interface mints; the others are an operator's
  default   \* of the others, the one that is <name>-default, alone in a set

replVars == <<minted, default>>

Prompting == \A m \in Messages : calls[m].pc \in {"unsent", "done", "lost"}
Key == sessions[current].place

(* _mint_repl_key, retried while the key is in the archive. *)
FreshKeys == {k \in minted : archive[k] = <<>>}

(* start(): an explicit key stays, the default one gives way to a fresh one. *)
StartKeys == FreshKeys \cup (Places \ (minted \cup default))

FirstSession(key, rt) == SetRunContext(NewSession(key, rt))

ReplInit ==
  /\ minted \in SUBSET Places /\ default \in {{key} : key \in Places \ minted}
  /\ \E key \in StartKeys : sessions = <<FirstSession(key, runtime)>>
  /\ current = 1

-----------------------------------------------------------------------------
(* A turn. *)

(* run: a line that is no command becomes the turn's task. *)
Type ==
  /\ NextMessage /\ Prompting
  /\ calls' = [calls EXCEPT ![Min(Unsent)] = [NoCall EXCEPT !.pc = "starting", !.place = Key, !.session = current]]
  /\ UNCHANGED <<turnVars, sessions, archive, forked, spent, current, replVars>>

Enter(m) ==
  /\ At(m, "starting")
  /\ Set(m, Entered(Of(m), m))
  /\ Goto(m, "waiting")
  /\ UNCHANGED <<turnVars, archive, forked, spent, current, replVars>>

(* Ctrl-C stops a hand-off that runs and nothing else, or else cancels the   *)
(* turn.  A second one ends the process: Restarted.                          *)
Interrupt(m) ==
  /\ calls[m].pc \notin {"unsent", "done", "lost"} /\ Extra("interrupt")
  /\ IF sessions[current].handoff # "none"
     THEN sessions' = [sessions EXCEPT ![current] = CancelHandoff(@)] /\ calls' = calls
     ELSE ~calls[m].cancelled /\ calls' = [calls EXCEPT ![m].cancelled = TRUE] /\ sessions' = sessions
  /\ UNCHANGED <<turnVars, archive, forked, current, replVars>>

(* Cancelled before its first step, the task never reaches the Session. *)
NeverStarts(m) ==
  /\ calls[m].cancelled /\ calls[m].pc = "starting"
  /\ calls' = [calls EXCEPT ![m] = [Finish(@) EXCEPT !.shown = "stopped"]]
  /\ UNCHANGED <<turnVars, sessions, archive, forked, spent, current, replVars>>

(* The text streams to the terminal; the turn's end decides what follows it. *)
TurnShown(m) ==
  /\ calls[m].pc = "left"
  /\ calls' = [calls EXCEPT ![m] = [Finish(@) EXCEPT !.shown =
       IF calls[m].outcome = "cancelled" THEN "stopped" ELSE calls[m].outcome]]
  /\ UNCHANGED <<turnVars, sessions, archive, forked, spent, current, replVars>>

-----------------------------------------------------------------------------
(* The commands, each of them run to its end before the next line. *)

(* A bug: the Session of another key goes on with this one's messages. *)
MovedToMutant(s) == Append([sessions EXCEPT ![current] = Close(@)],
                           SetRunContext([s EXCEPT !.history = sessions[current].history \o @]))
(* _replace_session: the old Session is closed, the run context goes along. *)
MovedTo(s) == Append([sessions EXCEPT ![current] = Close(@)], SetRunContext(s))

Move(s) ==
  /\ sessions' = MovedTo(s) /\ current' = Len(sessions) + 1
  /\ UNCHANGED <<turnVars, calls, archive, forked, replVars>>

Reset ==
  /\ Prompting /\ Extra("reset")
  /\ \E key \in IF Key \in minted THEN FreshKeys ELSE default : Move(NewSession(key, runtime))

(* _max_archived_turn: a pair of messages per turn. *)
MaxArchivedTurn(h) == Len(h) \div 2 - 1

(* _takeover: the turn number is what the pairs of messages say, until the   *)
(* first turn continues the archive.                                         *)
TakenOver(key) ==
  LET h == ResumableHistory(key)
  IN  [NewSession(key, runtime) EXCEPT !.history = h, !.turn = MaxArchivedTurn(h)]

(* list_sessions: the keys that have a turn in the archive.  An index selects *)
(* one of them, and so does an exact key; any other changes nothing.         *)
Archived == {key \in Places : archive[key] # <<>>}

Resume ==
  /\ Prompting /\ Extra("resume")
  /\ \E key \in Archived : Move(TakenOver(key))

Selection == Selectable(runtime.config.model)

(* _cmd_change_model: the pointer first, if there is one to write, then the  *)
(* config in force with another active model, and nothing else of the file.  *)
ChangeModel ==
  /\ Prompting /\ Extra("change model")
  /\ \E model \in Selection, persisted \in BOOLEAN :
       /\ disk' = [disk EXCEPT !.pointer = IF persisted THEN model ELSE @]
       /\ runtime' = ApplyConfig(runtime, [runtime.config EXCEPT !.model = model], disk)
  /\ UNCHANGED <<sessions, calls, archive, forked, loops, posts, current, replVars>>

(* What the operator did to the files shows at the next start or command. *)
EditFiles ==
  /\ Prompting
  /\ \/ Extra("edit config") /\ EditConfig
     \/ Extra("edit skills") /\ EditSkills
     \/ Extra("change access") /\ ChangeAccess
  /\ UNCHANGED <<runtime, sessions, calls, archive, forked, loops, posts, current, replVars>>

ReplRestart ==
  /\ Restarted
  /\ \E key \in StartKeys : sessions' = <<FirstSession(key, runtime')>>
  /\ current' = 1
  /\ UNCHANGED replVars

ReplTask(m) ==
  \/ Enter(m) \/ Interrupt(m) \/ NeverStarts(m) \/ TurnShown(m)
  \/ TurnStep(m) /\ UNCHANGED <<turnVars, current, replVars>>

ReplNext ==
  \/ \E m \in Messages : calls[m].pc = "left" /\ TurnShown(m)
  \/ /\ \A m \in Messages : calls[m].pc # "left"
     /\ \/ Type \/ Reset \/ Resume \/ ChangeModel \/ EditFiles \/ ReplRestart
        \/ \E m \in Messages : ReplTask(m)
=============================================================================
