--------------------------------- MODULE Direct ---------------------------------
(***************************************************************************)
(* Direct mode of the Zulip interface (spctr/interfaces/zulip/direct.py):  *)
(* the direct messages of one peer, one Session for all of them, and one   *)
(* loop that takes a batch of messages and answers them in turn before it  *)
(* fetches the next.  The peer stays the one of the start.                 *)
(***************************************************************************)
EXTENDS Zulip

directVars == <<zulipVars, current>>

Admitted == {m \in Messages : calls[m].pc = "queued"}
InHand == {m \in Messages : Alive(m) /\ calls[m].pc # "queued"}

PeerWrites ==
  /\ NextMessage
  /\ \E peer \in Places :
       /\ \A n \in Messages : calls[n].pc # "unsent" => calls[n].place = peer
       /\ calls' = [calls EXCEPT ![Min(Unsent)] = [NoCall EXCEPT !.pc = Written, !.place = peer]]
  /\ inbox' = Arrives(Min(Unsent))
  /\ UNCHANGED <<turnVars, sessions, archive, forked, spent, poller, topicLog, owned, tails, admitted, current>>

(* run: one reload for the batch, which must be answered before the next; a  *)
(* reload that raises ends the loop with the batch unanswered.               *)
PollDirect ==
  /\ poller = "running" /\ inbox # <<>> /\ Edits
  /\ Admitted = {} /\ InHand = {}
  /\ runtime' = Reloaded(runtime, disk')
  /\ sessions' = Notified(sessions, disk')
  /\ poller' = IF ReloadRaises(disk') THEN "dead" ELSE "running"
  /\ calls' = [m \in Messages |-> IF m \notin Range(inbox) THEN calls[m]
                                  ELSE IF ReloadRaises(disk') THEN Ended(calls[m], "lost")
                                  ELSE [calls[m] EXCEPT !.pc = "queued"]]
  /\ inbox' = <<>>
  /\ UNCHANGED <<archive, forked, loops, posts, topicLog, owned, tails, admitted, current>>

InSession(m, k, s) ==
  /\ sessions' = IF k > Len(sessions) THEN Append(sessions, Entered(s, m)) ELSE [sessions EXCEPT ![k] = Entered(s, m)]
  /\ current' = k
  /\ calls' = [calls EXCEPT ![m] = [@ EXCEPT !.pc = "waiting", !.session = k]]

(* _handle_message: the first one opens the Session over the archive.  *)
HandleDirect(m) ==
  /\ InHand = {} /\ Admitted # {} /\ m = Min(Admitted)
  /\ \/ current # 0 /\ InSession(m, current, sessions[current]) /\ UNCHANGED spent
     \/ /\ current = 0
        /\ \E readable \in BOOLEAN :
             /\ IF readable THEN UNCHANGED spent ELSE Extra("unread archive")
             /\ InSession(m, Len(sessions) + 1,
                          SetRunContext(Restored(NewSession(calls[m].place, runtime), readable)))
  /\ UNCHANGED <<turnVars, archive, forked, zulipVars>>

(* A turn that failed has no reply; nor has one whose reply cannot be sent. *)
Reply(m) ==
  /\ calls[m].pc = "left"
  /\ \E sent \in {TRUE, FALSE} :
       /\ sent => calls[m].outcome = "answer"
       /\ IF sent \/ calls[m].outcome # "answer" THEN UNCHANGED spent ELSE Extra("send fails")
       /\ calls' = [calls EXCEPT ![m] = [Finish(@) EXCEPT !.shown = IF sent THEN "answer" ELSE "nothing"]]
       /\ posts' = IF sent THEN [posts EXCEPT ![calls[m].place] = Append(@, m)] ELSE posts
  /\ UNCHANGED <<runtime, disk, loops, sessions, archive, forked, directVars>>

DirectRestart ==
  /\ Restarted /\ sessions' = <<>>
  /\ inbox' = <<>> /\ poller' = "running" /\ current' = 0
  /\ UNCHANGED <<topicLog, owned, tails, admitted>>

(* The loop registers again between two batches only. *)
RegisterDirect == Admitted = {} /\ InHand = {} /\ Register /\ UNCHANGED current

DirectNext ==
  \/ PeerWrites \/ PollDirect \/ DirectRestart \/ (QueueExpires /\ UNCHANGED current) \/ RegisterDirect
  \/ \E m \in Messages : HandleDirect(m) \/ Reply(m) \/ (TurnStep(m) /\ UNCHANGED <<turnVars, directVars>>)
=============================================================================
