----------------------------- MODULE TurnContract -----------------------------
(***************************************************************************)
(* What SR2.turn() promises the consumer of its event stream: any number   *)
(* of progress events, then, once the turn is settled (its reply is in the *)
(* session's history and its post-processing is scheduled), the answer, at *)
(* most one error event and exactly one end.  The consumer may see the     *)
(* stream stop anywhere.                                                   *)
(***************************************************************************)
EXTENDS Naturals, Sequences

VARIABLES
  phase,   \* "idle", "open", "settled"
  events   \* the events of the current or last turn

Has(e) == \E i \in DOMAIN events : events[i] = e

Progress == {"retry", "tool_use_emitted", "tool_result_received", "repeat_guard",
             "iteration_complete"}

Init == phase = "idle" /\ events = <<>>

Begin == phase = "idle" /\ phase' = "open" /\ events' = <<>>

(* The previous turn's deferred error is the first event or is not there. *)
DeferredError ==
  /\ phase = "open" /\ events = <<>>
  /\ events' = <<"error">> /\ UNCHANGED phase

(* One empty reply is retried per turn. *)
Work ==
  /\ phase = "open"
  /\ \E new \in UNION {[1..n -> Progress] : n \in 1..3} :
       /\ ~(Has("retry") /\ \E i \in DOMAIN new : new[i] = "retry")
       /\ events' = events \o new
  /\ UNCHANGED phase

Settle == phase = "open" /\ phase' = "settled" /\ UNCHANGED events

GiveAnswer ==
  /\ phase = "settled" /\ ~Has("text")
  /\ events' \in {events \o <<"text">>, events \o <<"final_answer", "text">>}
  /\ UNCHANGED phase

InBandErrors ==
  /\ phase = "settled" /\ events # <<>> /\ events[Len(events)] = "text"
  /\ events' = Append(events, "error") /\ UNCHANGED phase

End ==
  /\ phase = "settled" /\ Has("text")
  /\ events' = Append(events, "end") /\ phase' = "idle"

Stop == phase # "idle" /\ phase' = "idle" /\ UNCHANGED events

Next == Begin \/ DeferredError \/ Work \/ Settle \/ GiveAnswer \/ InBandErrors \/ End \/ Stop

Spec == Init /\ [][Next]_<<phase, events>>

=============================================================================
