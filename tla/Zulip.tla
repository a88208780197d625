--------------------------------- MODULE Zulip ---------------------------------
(***************************************************************************)
(* The Zulip interface (spctr/interfaces/zulip/interface.py): the poller   *)
(* that takes what users wrote in batches, one chain of tasks and one      *)
(* Session per topic, "!stop", the probe of a topic this process does not  *)
(* own yet, and the delivery of progress and answers.                      *)
(***************************************************************************)
EXTENDS Interface

CONSTANT MentionOnly  \* agent.zulip.mention_only

VARIABLES
  inbox,     \* the events of the queue the poller has not fetched
  poller,    \* "running", "registering" (without a queue), "dead" (a reload raised) or "stopped"
  topicLog,  \* the messages a topic holds on the server; 0 is any other one
  owned,     \* the Session of each topic: its place in sessions, or 0
  tails,     \* the newest task of each topic's chain, or 0
  admitted   \* the messages that ever opened a Session

zulipVars == <<inbox, poller, topicLog, owned, tails, admitted>>

Alive(m) == calls[m].pc \notin {"unsent", "unread", "lost", "done"}
TasksOf(topic) == {m \in Messages : calls[m].place = topic /\ calls[m].kind # "stop" /\ Alive(m)}

ZulipInit ==
  /\ inbox = <<>> /\ poller = "running"
  /\ topicLog \in [Places -> {{}, {0}}]
  /\ owned = [t \in Places |-> 0] /\ tails = [t \in Places |-> 0] /\ admitted = {}

-----------------------------------------------------------------------------
(* The poller. *)

(* The server sends a message to the queue, if there is one. *)
Arrives(m) == IF poller = "registering" THEN inbox ELSE Append(inbox, m)
Written == IF poller = "registering" THEN "lost" ELSE "unread"

UserWrites ==
  /\ NextMessage
  /\ \E topic \in Places, kind \in {"say", "mention", "stop"} :
       LET m == Min(Unsent)
       IN  /\ kind = "mention" => MentionOnly
           /\ kind = "stop" => \E n \in Messages : calls[n].pc # "unsent" /\ calls[n].place = topic
           /\ calls' = [calls EXCEPT ![m] = [NoCall EXCEPT !.pc = Written, !.place = topic, !.kind = kind]]
           /\ inbox' = Arrives(m)
           /\ topicLog' = [topicLog EXCEPT ![topic] = @ \cup {m}]
  /\ UNCHANGED <<turnVars, sessions, archive, forked, spent, poller, owned, tails, admitted>>

(* A bot, or somebody whom agent.zulip.users does not admit: the message     *)
(* starts nothing and is a part of the topic.                                *)
StrangerWrites ==
  /\ Extra("stranger writes")
  /\ \E topic \in Places : 0 \notin topicLog[topic] /\ topicLog' = [topicLog EXCEPT ![topic] = @ \cup {0}]
  /\ UNCHANGED <<turnVars, sessions, archive, forked, calls, inbox, poller, owned, tails, admitted>>

(* BAD_EVENT_QUEUE_ID: the server has collected the queue.  What it held is   *)
(* not redelivered.                                                          *)
QueueExpires ==
  /\ poller = "running" /\ Extra("queue expires")
  /\ inbox' = <<>> /\ poller' = "registering"
  /\ calls' = [m \in Messages |-> IF calls[m].pc = "unread" THEN Ended(calls[m], "lost") ELSE calls[m]]
  /\ UNCHANGED <<turnVars, sessions, archive, forked, topicLog, owned, tails, admitted>>

(* register: a new queue; one that fails is tried again. *)
Register ==
  /\ poller = "registering" /\ poller' = "running"
  /\ UNCHANGED <<turnVars, sessions, archive, forked, spent, calls, inbox, topicLog, owned, tails, admitted>>

(* _dispatch: each message becomes a task behind the topic's newest one;     *)
(* "!stop" becomes a task of its own.  A batch is in the order of sending.   *)
Chained(topic) == {n \in Range(inbox) : calls[n].place = topic /\ calls[n].kind # "stop"}
Newest(batch, tail) == IF batch = {} THEN tail ELSE Max(batch)
Behind(m) ==
  LET topic == calls[m].place
  IN  IF calls[m].kind = "stop" THEN 0 ELSE Newest({n \in Chained(topic) : n < m}, tails[topic])
Dispatch(m) == [calls[m] EXCEPT !.pc = "queued", !.prev = Behind(m), !.batch = Range(inbox)]

(* A stop whose task has yet to take its first step. *)
Stopping(m) == calls[m].kind = "stop" /\ calls[m].pc = "queued"

(* One response of the server: one reload, then all of its messages.  The    *)
(* tasks of the last batch's stops have had their first step before it.      *)
Poll ==
  /\ poller = "running" /\ inbox # <<>> /\ Edits
  /\ \A m \in Messages : ~Stopping(m)
  /\ runtime' = Reloaded(runtime, disk')
  /\ sessions' = Notified(sessions, disk')
  /\ poller' = IF ReloadRaises(disk') THEN "dead" ELSE poller
  /\ calls' = [m \in Messages |-> IF m \notin Range(inbox) THEN calls[m]
                                  ELSE IF ReloadRaises(disk') THEN Ended(calls[m], "lost") ELSE Dispatch(m)]
  /\ tails' = IF ReloadRaises(disk') THEN tails ELSE [t \in Places |-> Newest(Chained(t), tails[t])]
  /\ inbox' = <<>>
  /\ UNCHANGED <<archive, forked, loops, posts, topicLog, owned, admitted>>

(* A bug: whichever task ends, the topic's chain is forgotten. *)
ForgetMutant(m) == [tails EXCEPT ![calls[m].place] = 0]
(* _forget: a done task is the tail no longer, if it still was. *)
Forget(m) == [tails EXCEPT ![calls[m].place] = IF @ = m THEN 0 ELSE @]

Cancel(ms) == [m \in Messages |-> [calls[m] EXCEPT !.cancelled = @ \/ m \in ms]]

(* _stop_topic: a running hand-off is cancelled and nothing else; otherwise  *)
(* the turn and all that queue behind it.  The reply stays in the topic.     *)
Replied(call) == [Finish(call) EXCEPT !.shown = "stopped"]
StopTopic(m) ==
  /\ Stopping(m)
  /\ LET topic == calls[m].place
         k == owned[topic]
     IN  /\ IF k # 0 /\ sessions[k].handoff # "none"
            THEN /\ sessions' = [sessions EXCEPT ![k] = CancelHandoff(@)]
                 /\ calls' = [calls EXCEPT ![m] = Replied(@)]
                 /\ tails' = tails
            ELSE /\ calls' = [Cancel(TasksOf(topic)) EXCEPT ![m] = Replied(@)]
                 /\ tails' = [tails EXCEPT ![topic] = IF TasksOf(topic) = {} THEN @ ELSE 0]
                 /\ sessions' = sessions
         /\ topicLog' = [topicLog EXCEPT ![topic] = @ \cup {0}]
  /\ UNCHANGED <<turnVars, archive, forked, spent, inbox, poller, owned, admitted>>

-----------------------------------------------------------------------------
(* A message's task up to its turn. *)

Ends(m) == calls' = [calls EXCEPT ![m] = Finish(@)] /\ tails' = Forget(m)

(* With mention_only a topic without a Session needs a mention of the bot. *)
MayOpen(m) == MentionOnly => calls[m].kind = "mention"

(* Its predecessor is done, failed or not, and the stops before it in its    *)
(* batch have had their first step: an owned topic's Session takes the       *)
(* message, another one is looked for, if the message may open one.          *)
Handle(m) ==
  /\ At(m, "queued") /\ calls[m].kind # "stop" /\ \A n \in 1..(m - 1) : ~Stopping(n)
  /\ calls[m].prev # 0 => ~Alive(calls[m].prev)
  /\ LET topic == calls[m].place
         k == owned[topic]
     IN  \/ /\ k # 0 /\ Goto(m, "syncing") /\ tails' = tails
            /\ sessions' = [sessions EXCEPT ![k] = SetRunContext(@)]
         \/ /\ k = 0 /\ ~MayOpen(m)
            /\ Ends(m) /\ sessions' = sessions
         \/ /\ k = 0 /\ MayOpen(m) /\ tails' = tails
            /\ sessions' = Append(sessions, NewSession(topic, runtime))
            /\ calls' = [calls EXCEPT ![m] = [@ EXCEPT !.pc = "restoring", !.session = Len(sessions) + 1]]
  /\ UNCHANGED <<turnVars, archive, forked, spent, inbox, poller, topicLog, owned, admitted>>

Adopt(m, s) ==
  /\ Set(m, SetRunContext(s))
  /\ owned' = [owned EXCEPT ![calls[m].place] = calls[m].session]
  /\ admitted' = admitted \cup {m}
  /\ Goto(m, "syncing")

(* _ensure_session: an archived topic is restored, and so is one whose       *)
(* archive cannot be read; only a topic without an archive is probed.        *)
Restore(m) ==
  /\ At(m, "restoring")
  /\ LET read(ok) == Restored(Of(m), ok)
     IN  \/ Extra("unread archive") /\ Adopt(m, read(FALSE))
         \/ read(TRUE).history # <<>> /\ Adopt(m, read(TRUE)) /\ UNCHANGED spent
         \/ read(TRUE).history = <<>> /\ Goto(m, "probing") /\ UNCHANGED <<sessions, spent, owned, admitted>>
  /\ UNCHANGED <<turnVars, archive, forked, inbox, poller, topicLog, tails>>

(* What the topic holds apart from this message, its batch and the admitted. *)
Prior(m) == topicLog[calls[m].place] \ (admitted \cup {m} \cup calls[m].batch) # {}

(* A topic with a past is refused, and so is one that cannot be probed; the  *)
(* reply becomes a part of its past.                                         *)
Probe(m) ==
  /\ At(m, "probing")
  /\ \/ /\ ~Prior(m) /\ Adopt(m, Of(m))
        /\ UNCHANGED <<spent, tails, topicLog>>
     \/ /\ IF Prior(m) THEN UNCHANGED spent ELSE Extra("probe fails")
        /\ Set(m, Close(Of(m))) /\ Ends(m)
        /\ topicLog' = [topicLog EXCEPT ![calls[m].place] = @ \cup {0}]
        /\ UNCHANGED <<owned, admitted>>
  /\ UNCHANGED <<turnVars, archive, forked, inbox, poller>>

(* _run_turn: the reminder loop is brought up to date, one task at a time.   *)
Sync(m) ==
  /\ \/ /\ \A n \in Messages : calls[n].pc # "stopping"
        /\ \/ SyncNow(m, "reminders", [calls EXCEPT ![m].pc = "placing"])
           \/ SyncStops(m, "reminders")
     \/ SyncStopped(m, "reminders", [calls EXCEPT ![m] = [@ EXCEPT !.pc = "placing", !.cancelled = FALSE]])
  /\ UNCHANGED <<runtime, disk, sessions, archive, forked, spent, posts, zulipVars>>

(* The placeholder is posted, or cannot be; the turn queues for its Session. *)
Place(m) ==
  /\ At(m, "placing")
  /\ LET k == owned[calls[m].place]
     IN  /\ sessions' = [sessions EXCEPT ![k] = Entered(@, m)]
         /\ \E shown \in {"thinking", "nothing"} :
              /\ IF shown = "nothing" THEN Extra("send fails") ELSE UNCHANGED spent
              /\ calls' = [calls EXCEPT ![m] = [@ EXCEPT !.pc = "waiting", !.session = k, !.shown = shown]]
         /\ topicLog' = [topicLog EXCEPT ![calls[m].place] = @ \cup {0}]
  /\ UNCHANGED <<turnVars, archive, forked, inbox, poller, owned, tails, admitted>>

-----------------------------------------------------------------------------
(* A message's task after its turn. *)

(* Text streams in, and an edit of the placeholder is scheduled. *)
Delta(m) ==
  /\ At(m, "streaming") /\ calls[m].shown = "thinking" /\ ~calls[m].edit
  /\ calls' = [calls EXCEPT ![m].edit = TRUE]
  /\ UNCHANGED <<turnVars, sessions, archive, forked, spent, zulipVars>>

(* A bug: the progress edit is left pending. *)
EditDroppedMutant(call) == call
EditDropped(call) == [call EXCEPT !.edit = FALSE]

(* "A stale progress edit must never land on the answer." *)
Settle(m) ==
  /\ calls[m].pc = "left"
  /\ IF calls[m].cancelled
     THEN calls' = [calls EXCEPT ![m] = Finish(EditDropped(@))] /\ tails' = Forget(m)
     ELSE calls' = [calls EXCEPT ![m] = [EditDropped(@) EXCEPT !.pc = "delivering"]] /\ tails' = tails
  /\ UNCHANGED <<turnVars, sessions, archive, forked, spent, inbox, poller, topicLog, owned, admitted>>

(* _deliver_answer: the answer or the error replaces the placeholder, or is  *)
(* sent as a new message.                                                    *)
Deliver(m) ==
  /\ At(m, "delivering")
  /\ calls' = [calls EXCEPT ![m] = [Finish(@) EXCEPT !.shown = calls[m].outcome]]
  /\ tails' = Forget(m)
  /\ posts' = [posts EXCEPT ![calls[m].place] = Append(@, m)]
  /\ UNCHANGED <<runtime, disk, loops, sessions, archive, forked, spent, inbox, poller, topicLog, owned, admitted>>

(* CancelledError anywhere else ends the task. *)
Unwind(m) ==
  /\ calls[m].cancelled
  /\ calls[m].pc \in {"queued", "restoring", "probing", "syncing", "placing", "delivering"}
  /\ Ends(m)
  /\ UNCHANGED <<turnVars, sessions, archive, forked, spent, inbox, poller, topicLog, owned, admitted>>

Turn(m) == TurnStep(m) /\ UNCHANGED <<turnVars, zulipVars>>

-----------------------------------------------------------------------------
(* stop() and a crash. *)

Shutdown ==
  /\ poller # "stopped" /\ Extra("shutdown")
  /\ poller' = "stopped"
  /\ calls' = Cancel(UNION {TasksOf(t) : t \in Places})
  /\ tails' = [t \in Places |-> 0]
  /\ UNCHANGED <<turnVars, sessions, archive, forked, inbox, topicLog, owned, admitted>>

(* The tasks are done: the loop is stopped and the Sessions are closed. *)
CloseAll ==
  /\ poller = "stopped" /\ \A m \in Messages : ~Alive(m)
  /\ \E t \in Places : owned[t] # 0
  /\ sessions' = [k \in DOMAIN sessions |-> IF k \in Range(owned) THEN Close(sessions[k]) ELSE sessions[k]]
  /\ owned' = [t \in Places |-> 0]
  /\ loops' = [loops EXCEPT !["reminders"] = NoLoop]
  /\ UNCHANGED <<runtime, disk, calls, archive, forked, spent, posts, inbox, poller, topicLog, tails, admitted>>

Restart ==
  /\ Restarted /\ sessions' = <<>>
  /\ inbox' = <<>> /\ poller' = "running" /\ admitted' = {}
  /\ owned' = [t \in Places |-> 0] /\ tails' = [t \in Places |-> 0]
  /\ UNCHANGED topicLog

ZulipTask(m) ==
  \/ Handle(m) \/ Restore(m) \/ Probe(m) \/ Sync(m) \/ Place(m) \/ Turn(m) \/ Delta(m) \/ Settle(m) \/ Deliver(m)
  \/ Unwind(m) \/ StopTopic(m)

(* Between two awaits a task runs alone: here, until it waits for the lock   *)
(* of the reminders or for the placeholder.                                  *)
ZulipRunsOn == {m \in Messages : At(m, "syncing") /\ \A n \in Messages : calls[n].pc # "stopping"}

ZulipNext ==
  \/ \E m \in ZulipRunsOn : Sync(m)
  \/ /\ ZulipRunsOn = {}
     /\ \/ UserWrites \/ StrangerWrites \/ Poll \/ QueueExpires \/ Register \/ Shutdown \/ CloseAll \/ Restart
        \/ \E m \in Messages : ZulipTask(m) \/ (EditLands(m) /\ UNCHANGED zulipVars)
=============================================================================
