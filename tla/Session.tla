-------------------------------- MODULE Session --------------------------------
(***************************************************************************)
(* The Sessions of one agent process (spctr/session.py, spctr/resume.py)   *)
(* and the turns that run through them: one turn at a time under the       *)
(* session's lock, a history seeded into the SR2 of the turn, the turn     *)
(* archive that outlives the process, and the hand-off tool                *)
(* (spctr/tools/builtins/handoff.py) that runs another agent in a turn.    *)
(*                                                                         *)
(* A call is one message on its way through the interface: its pc names    *)
(* the await its task stands at.  The interface modules take a call up to  *)
(* "waiting" (stream_message entered) and on from "left" (it returned or   *)
(* raised).  TurnLoop and Conversation model SR2 inside "streaming".       *)
(***************************************************************************)
EXTENDS Runtime

CONSTANTS
  Places,       \* the topics or channels
  MaxMessages,  \* bound on the messages users send
  MaxEvents,    \* for each interface, the bound on messages and events of Extras together
  Extras        \* what may happen to an interface apart from messages: faults, edits, crashes

ASSUME SessionAssumption == MaxMessages \in Nat /\ IsFiniteSet(Places) /\ \A i \in DOMAIN Extras : MaxEvents[i] \in Nat

VARIABLES
  interface, \* which interface the process runs: it does not change
  sessions,  \* the Session objects of this process, in the order they were made
  calls,     \* one task per message, by the order in which users sent them
  archive,   \* the provenance store: the turn archive of each place's frame
  forked,    \* the places whose archive could not be read when an SR2 continued it
  spent      \* how many events of Extras have happened

Messages == 1..MaxMessages
NoCall == [pc |-> "unsent", place |-> "none", kind |-> "say", session |-> 0, cancelled |-> FALSE,
           outcome |-> "none", shown |-> "nothing", edit |-> FALSE, block |-> 1,
           prev |-> 0, batch |-> {}, slash |-> FALSE]

(* The bounds: another message, or another event of Extras. *)
Unsent == {m \in Messages : calls[m].pc = "unsent"}
MoreToCome == MaxMessages - Cardinality(Unsent) + spent < MaxEvents[interface]
Extra(kind) == kind \in Extras[interface] /\ MoreToCome /\ spent' = spent + 1
Goto(m, pc) == calls' = [calls EXCEPT ![m].pc = pc]
At(m, pc) == calls[m].pc = pc /\ ~calls[m].cancelled
(* Of a task that ended, what the chat shows of it stays. *)
Ended(call, pc) ==
  [NoCall EXCEPT !.pc = pc, !.place = call.place, !.shown = call.shown, !.edit = call.edit /\ pc = "done"]
Finish(call) == Ended(call, "done")

(* A message of the user's: its content is its number. *)
User(m) == [role |-> "user", of |-> {m}]
Assistant(m) == [role |-> "assistant", of |-> {m}]
Interrupted == [role |-> "assistant", of |-> {0}]

-----------------------------------------------------------------------------
(* Sessions. *)

(* Session.__init__: its SR2 has the pipeline of the config in force. *)
Opened(place, pipeline) ==
  [place |-> place, history |-> <<>>, queue |-> <<>>, stale |-> FALSE, ready |-> FALSE,
   pipeline |-> pipeline, turn |-> -1, inFlight |-> {}, closing |-> FALSE,
   log |-> "none", handoff |-> "none", caller |-> 0, notice |-> FALSE]

(* new_session: the Session shares the Runtime's model, tools and stores. *)
NewSession(place, rt) == Opened(place, rt.config.pipeline)

(* set_run_context: the log opens with the first one. *)
SetRunContext(s) == [s EXCEPT !.log = IF @ = "none" THEN "open" ELSE @]

CloseLog(s) == [s EXCEPT !.log = IF @ = "open" THEN "closed" ELSE @]

(* close() is deferred to the end of the last turn in flight. *)
Close(s) ==
  IF s.inFlight = {} THEN CloseLog([s EXCEPT !.closing = TRUE]) ELSE [s EXCEPT !.closing = TRUE]

(* stream_message entered: the turn is in flight and queues for the lock. *)
Entered(s, m) == [s EXCEPT !.inFlight = @ \cup {m}, !.queue = Append(@, m)]

(* ... and left, whichever way: the lock is free for the next one. *)
Left(s, m) ==
  LET out == [s EXCEPT !.queue = RemoveFirst(@, m), !.inFlight = @ \ {m}]
  IN  IF out.closing /\ out.inFlight = {} THEN CloseLog(out) ELSE out

(* A bug: the archive position of the old SR2 is taken for the new one's. *)
RebuiltMutant(s, rt) == [s EXCEPT !.stale = FALSE, !.pipeline = rt.config.pipeline, !.turn = -1]
(* _build_sr2: a new SR2 has yet to find its place in the archive. *)
Rebuilt(s, rt) ==
  [s EXCEPT !.stale = FALSE, !.pipeline = rt.config.pipeline, !.turn = -1, !.ready = FALSE]
RefreshIfStale(s, rt) == IF s.stale THEN Rebuilt(s, rt) ELSE s

(* continue_archive: turns go on from the last one archived. *)
LastTurn(place) == Max({-1} \cup {archive[place][k].turn : k \in DOMAIN archive[place]})
Continued(s, readable) == [s EXCEPT !.ready = TRUE, !.turn = IF readable THEN LastTurn(s.place) ELSE @]

(* Every live session learns of a reload; a new pipeline makes its SR2 stale. *)
Notified(ss, d) == [k \in DOMAIN ss |-> [ss[k] EXCEPT !.stale = @ \/ PipelineChanges(d)]]

(* load_resumable_history: a pair of messages per archived turn; the last    *)
(* turn, if it has no answer, is marked as interrupted.                      *)
ResumableHistory(place) ==
  LET entries == archive[place]
      last == LastTurn(place)
      Of(t, role) == UNION {entries[k].of : k \in {k \in DOMAIN entries : entries[k].turn = t /\ entries[k].role = role}}
      Answer(t) == IF t = last /\ entries[Len(entries)].role # "assistant" THEN Interrupted
                   ELSE [role |-> "assistant", of |-> Of(t, "assistant")]
  IN  [k \in 1..2 * (last + 1) |-> IF k % 2 = 1 THEN [role |-> "user", of |-> Of(k \div 2, "user")]
                                   ELSE Answer(k \div 2 - 1)]

(* restore_history on a new session; a failed read leaves a notice to show. *)
Restored(s, readable) ==
  IF readable THEN [s EXCEPT !.history = ResumableHistory(s.place)] ELSE [s EXCEPT !.notice = TRUE]

-----------------------------------------------------------------------------
(* A turn: _stream_turn. *)

Of(m) == sessions[calls[m].session]
Set(m, s) == sessions' = [sessions EXCEPT ![calls[m].session] = s]
Said(s, m) == [s EXCEPT !.history = Append(@, User(m))]

(* The lock is this turn's; an SR2 whose archive was never continued waits. *)
Acquire(m) ==
  /\ At(m, "waiting") /\ Head(Of(m).queue) = m
  /\ LET s == RefreshIfStale(Of(m), runtime)
     IN  /\ Set(m, IF s.ready THEN Said(s, m) ELSE s)
         /\ Goto(m, IF s.ready THEN "seeded" ELSE "opening")
  /\ UNCHANGED <<archive, spent>>

(* A failed read is logged and the SR2 starts its turns anew. *)
ContinueArchive(m) ==
  /\ At(m, "opening")
  /\ \/ Set(m, Said(Continued(Of(m), TRUE), m)) /\ UNCHANGED <<forked, spent>>
     \/ /\ archive[Of(m).place] # <<>> /\ Extra("unread archive")
        /\ Set(m, Said(Continued(Of(m), FALSE), m))
        /\ forked' = forked \cup {Of(m).place}
  /\ Goto(m, "seeded")
  /\ UNCHANGED archive

Record(s, entry) == archive' = [archive EXCEPT ![s.place] = Append(@, entry)]

(* SR2.turn() begins: the next turn number, the user's entry in the archive. *)
BeginTurn(m) ==
  /\ At(m, "seeded")
  /\ LET turn == Of(m).turn + 1
     IN  /\ Set(m, [Of(m) EXCEPT !.turn = turn, !.notice = FALSE])
         /\ Record(Of(m), [turn |-> turn, role |-> "user", of |-> {m}])
  /\ Goto(m, "streaming")
  /\ UNCHANGED spent

StreamEnds(m) ==
  /\ At(m, "streaming")
  /\ Record(Of(m), [turn |-> Of(m).turn, role |-> "assistant", of |-> {m}])
  /\ Set(m, Left([Of(m) EXCEPT !.history = Append(@, Assistant(m))], m))
  /\ calls' = [calls EXCEPT ![m] = [@ EXCEPT !.pc = "left", !.outcome = "answer"]]
  /\ UNCHANGED spent

(* The model or a tool raised: the user's message stays without an answer. *)
StreamRaises(m) ==
  /\ At(m, "streaming") /\ Extra("model error")
  /\ Set(m, Left(Of(m), m))
  /\ calls' = [calls EXCEPT ![m] = [@ EXCEPT !.pc = "left", !.outcome = "error"]]
  /\ UNCHANGED archive

-----------------------------------------------------------------------------
(* A hand-off in the turn: HandoffTool.__call__. *)

StartHandoff(m) ==
  /\ At(m, "streaming") /\ Extra("handoff")
  /\ Set(m, [Of(m) EXCEPT !.handoff = "running", !.caller = m])
  /\ Goto(m, "handing")
  /\ UNCHANGED archive

(* The target answered, failed, ran into its timeout or was cancelled; it is *)
(* closed before the handle goes.                                            *)
TargetEnds(m) ==
  /\ At(m, "handing")
  /\ Set(m, [Of(m) EXCEPT !.handoff = "closing"])
  /\ Goto(m, "closing")
  /\ UNCHANGED <<archive, spent>>

(* A bug: the handle stays when the target is closed. *)
HandoffOverMutant(s) == s
HandoffOver(s) == [s EXCEPT !.handoff = "none", !.caller = 0]

TargetCloses(m) ==
  /\ At(m, "closing")
  /\ Set(m, HandoffOver(Of(m)))
  /\ Goto(m, "streaming")
  /\ UNCHANGED <<archive, spent>>

(* HandoffHandle.cancel: the target's task is cancelled once. *)
CancelHandoff(s) == [s EXCEPT !.handoff = IF @ = "running" THEN "stopping" ELSE @]

(* A cancelled caller: the target is cancelled with it and closed on the way *)
(* out, after which the caller's own cancellation goes on.                   *)
UnwindHandoff(m) ==
  /\ calls[m].cancelled /\ calls[m].pc = "handing"
  /\ Set(m, [Of(m) EXCEPT !.handoff = "closing"])
  /\ Goto(m, "closing")
  /\ UNCHANGED <<archive, spent>>

(* CancelledError leaves stream_message from any other await of the turn. *)
UnwindTurn(m) ==
  /\ calls[m].cancelled /\ calls[m].pc \in {"waiting", "opening", "seeded", "streaming", "closing"}
  /\ Set(m, Left(IF calls[m].pc = "closing" THEN HandoffOver(Of(m)) ELSE Of(m), m))
  /\ calls' = [calls EXCEPT ![m] = [@ EXCEPT !.pc = "left", !.outcome = "cancelled"]]
  /\ UNCHANGED <<archive, spent>>

TurnStep(m) ==
  \/ ContinueArchive(m)
  \/ /\ \/ Acquire(m) \/ BeginTurn(m) \/ StreamEnds(m) \/ StreamRaises(m) \/ StartHandoff(m)
        \/ TargetEnds(m) \/ TargetCloses(m) \/ UnwindHandoff(m) \/ UnwindTurn(m)
     /\ UNCHANGED forked
=============================================================================
