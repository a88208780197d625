------------------------------- MODULE ModelCall -------------------------------
(***************************************************************************)
(* One session's calls of the model: RetryingLLM over LoggedLLM over       *)
(* LiveLLM (spctr/live_llm.py) over LiteLLMCallable with its context guard *)
(* (sr2/integrations).  The endpoint may refuse, reject a long request,    *)
(* stream, break off or hang; an operator may point LiveLLM elsewhere at   *)
(* any time; the caller may be cancelled; the process may crash.           *)
(***************************************************************************)
EXTENDS RunLog, FiniteSets, SequencesExt, FiniteSetsExt

CONSTANTS
  Targets,    \* the model configurations LiveLLM may point at
  Config,     \* target -> its settings (Settings)
  Requests,   \* the requests SR2 may make: sequences of messages
  MaxSheds,   \* MAX_CONTEXT_OVERFLOW_RETRIES
  MaxChunks, MaxTools,  \* bounds on the chunks of an attempt and their tool calls
  MaxCalls, MaxRetargets, MaxFaults  \* bounds on calls, retargets, log faults and crashes

Messages == [type : {"user", "assistant", "call", "results"}, n : Nat \ {0}]
Settings == [retries : Nat, callLimit : Nat, stallLimit : Nat, contextLimit : Nat]  \* 0: none
ASSUME ModelCallAssumption ==
  /\ Config \in [Targets -> Settings]
  /\ Requests \subseteq Seq(Messages) \ {<<>>}
  /\ {MaxSheds, MaxChunks, MaxTools, MaxCalls, MaxRetargets, MaxFaults} \subseteq Nat

VARIABLES
  target,    \* LiveLLM's current configuration
  call,      \* the call in flight
  received,  \* history: the events of this call that SR2 has got
  log,       \* the session's log
  spent      \* calls, retargets and faults used of their bounds

vars == <<target, call, received, log, spent>>

-----------------------------------------------------------------------------
(* The request on the wire. *)

(* A message of results becomes one tool message per result. *)
OnWire(message) == IF message.type = "results" THEN [i \in 1..message.n |-> "tool"]
                   ELSE <<message.type>>
Wire(request) == <<"system">> \o FlattenSeq([i \in DOMAIN request |-> OnWire(request[i])])

First(wire) == IF wire[1] = "system" THEN 2 ELSE 1
(* A bug: a call is dropped without its answers. *)
StartsMutant(wire) == First(wire)..Len(wire)
(* Where the kept messages may begin: a call goes with the results that      *)
(* follow it, results left without a call at the head go too, and the last   *)
(* message stays, with its call when it is the end of that call's results.   *)
Starts(wire) ==
  LET heads == {First(wire)} \union {i \in First(wire)..Len(wire) : wire[i] # "tool"}
  IN  heads \union (IF wire[Max(heads)] = "call" THEN {} ELSE {Len(wire)})
From(wire, start) == SubSeq(wire, 1, First(wire) - 1) \o SubSeq(wire, start, Len(wire))

CanShed(wire) == Cardinality(Starts(wire)) > 1
Shed(wire) == From(wire, Min(Starts(wire) \ {First(wire)}))

(* Turns are shed until the request fits or none is left; a message weighs one. *)
Fit(wire, limit) ==
  LET fitting == {s \in Starts(wire) : limit = 0 \/ Len(From(wire, s)) <= limit}
  IN  From(wire, IF fitting = {} THEN Max(Starts(wire)) ELSE Min(fitting))

Paired(wire) ==
  /\ \A i \in DOMAIN wire : wire[i] = "tool" => i > 1 /\ wire[i - 1] \in {"tool", "call"}
  /\ \A i \in DOMAIN wire : wire[i] = "call" => i < Len(wire) /\ wire[i + 1] = "tool"

-----------------------------------------------------------------------------
Idle == [pc |-> "idle", kind |-> "stream", request |-> <<>>, retries |-> 0, attempt |-> 0,
         inner |-> CHOOSE t \in Targets : TRUE, wire |-> <<>>, sheds |-> 0,
         elapsed |-> 0, quiet |-> 0, chunks |-> 0, tools |-> {}, buffered |-> <<>>]

StreamEvent(type) == [type |-> type, by |-> call.inner, attempt |-> call.attempt]
InAttempt == call.pc \in {"connect", "stream"}

Record(event) == log' = Logged(log, event)
Spend(what) == /\ spent[what] < [calls |-> MaxCalls, retargets |-> MaxRetargets,
                                 faults |-> MaxFaults][what]
               /\ spent' = [spent EXCEPT ![what] = @ + 1]

Init ==
  /\ target \in Targets
  /\ call = Idle /\ received = <<>> /\ log = NewLog
  /\ spent = [calls |-> 0, retargets |-> 0, faults |-> 0]

(* A bug: what an attempt that died had sent is kept. *)
RetainedMutant(buffered) == buffered
(* Each attempt fills a buffer of its own. *)
Retained(buffered) == <<>>
(* An attempt binds the target and its limits, and cuts the request to the *)
(* target's context; nothing awaits between its record and the binding.    *)
Attempt(c) ==
  [c EXCEPT !.pc = "connect", !.inner = target, !.sheds = 0, !.elapsed = 0, !.quiet = 0,
            !.chunks = 0, !.tools = {}, !.buffered = Retained(@),
            !.wire = Fit(Wire(c.request), Config[target].contextLimit)]

StartCall ==
  /\ call.pc = "idle" /\ Spend("calls")
  /\ \E request \in Requests, kind \in {"stream", "complete"} :
       call' = Attempt([Idle EXCEPT !.kind = kind, !.request = request,
                                    !.retries = Config[target].retries])
  /\ received' = <<>>
  /\ Record("model.start")
  /\ UNCHANGED target

(* The caller gets the exception; nothing of the attempt reaches it. *)
Raise == call' = Idle

(* The endpoint takes the request. *)
Accepted ==
  /\ call.pc = "connect"
  /\ call' = [call EXCEPT !.pc = "stream"]
  /\ UNCHANGED <<target, received, log, spent>>

(* The endpoint rejects it as too long: one more turn is shed, some times. *)
Overflow ==
  /\ call.pc = "connect"
  /\ IF call.sheds < MaxSheds /\ CanShed(call.wire)
     THEN call' = [call EXCEPT !.wire = Shed(@), !.sheds = @ + 1] /\ UNCHANGED log
     ELSE Raise /\ Record("model.error")
  /\ UNCHANGED <<target, received, spent>>

(* A bug: attempts are not counted. *)
NextAttemptMutant(n) == n
NextAttempt(n) == n + 1
Retries == call.kind = "stream" /\ call.attempt < call.retries

(* A transport error, before or after the first chunk. *)
TransportFails ==
  /\ InAttempt
  /\ IF Retries THEN call' = [call EXCEPT !.pc = "backoff", !.attempt = NextAttempt(@)]
     ELSE Raise
  /\ Record("model.error")
  /\ UNCHANGED <<target, received, spent>>

(* Any other error is not retried. *)
OtherError ==
  /\ InAttempt
  /\ Raise /\ Record("model.error")
  /\ UNCHANGED <<target, received, spent>>

(* The wait is over: the same request is sent again, to the current target. *)
Retry ==
  /\ call.pc = "backoff"
  /\ call' = Attempt(call)
  /\ Record("model.start")
  /\ UNCHANGED <<target, received, spent>>

-----------------------------------------------------------------------------
(* The stream. *)

Bounds(c) == Config[c.inner]
Expired(c) == \/ Bounds(c).callLimit # 0 /\ c.elapsed >= Bounds(c).callLimit
              \/ c.kind = "stream" /\ Bounds(c).stallLimit # 0 /\ c.quiet >= Bounds(c).stallLimit

Arrives == call.pc = "stream" /\ call.kind = "stream" /\ ~Expired(call) /\ call.chunks < MaxChunks

(* Text, reasoning or usage becomes an event at once. *)
Chunk ==
  /\ Arrives
  /\ call' = [call EXCEPT !.chunks = @ + 1, !.quiet = 0, !.buffered = Append(@, StreamEvent("chunk"))]
  /\ UNCHANGED <<target, received, log, spent>>

(* A piece of a tool call is put aside: above, the stream stays silent. *)
ToolDelta ==
  /\ Arrives
  /\ \E index \in 1..MaxTools : call' = [call EXCEPT !.chunks = @ + 1, !.tools = @ \union {index}]
  /\ UNCHANGED <<target, received, log, spent>>

(* The clock runs while nothing arrives. *)
Tick ==
  /\ InAttempt /\ ~Expired(call)
  /\ \/ Bounds(call).callLimit # 0
     \/ call.kind = "stream" /\ Bounds(call).stallLimit # 0
  /\ call' = [call EXCEPT !.elapsed = @ + 1, !.quiet = @ + 1]
  /\ UNCHANGED <<target, received, log, spent>>

(* The guard aborts the attempt, and that is not retried. *)
GuardAborts ==
  /\ InAttempt /\ Expired(call)
  /\ Raise /\ Record("model.error")
  /\ UNCHANGED <<target, received, spent>>

(* The end of the stream: the tool calls in the order of their index, then *)
(* the end event; only now may SR2 get the events.                         *)
StreamEnds ==
  /\ call.pc = "stream" /\ call.kind = "stream" /\ ~Expired(call)
  /\ call' = [call EXCEPT !.pc = "yield",
        !.buffered = @ \o [i \in 1..Cardinality(call.tools) |-> StreamEvent("tool_use")]
                       \o <<StreamEvent("end")>>]
  /\ Record("model.end")
  /\ UNCHANGED <<target, received, spent>>

(* A call that is not streamed returns whole. *)
Completes ==
  /\ call.pc = "stream" /\ call.kind = "complete" /\ ~Expired(call)
  /\ call' = Idle
  /\ received' = <<StreamEvent("end")>>
  /\ Record("model.end")
  /\ UNCHANGED <<target, spent>>

Yield ==
  /\ call.pc = "yield"
  /\ received' = Append(received, Head(call.buffered))
  /\ call' = IF Len(call.buffered) = 1 THEN Idle ELSE [call EXCEPT !.buffered = Tail(@)]
  /\ UNCHANGED <<target, log, spent>>

-----------------------------------------------------------------------------
(* What happens around the call. *)

(* The turn is cancelled.  A stream says so in the log; complete() log it  *)
(* as an error; between attempts and while SR2 reads there is nothing open. *)
Cancel ==
  /\ call.pc # "idle"
  /\ call' = Idle
  /\ IF InAttempt THEN Record(IF call.kind = "stream" THEN "model.cancel" ELSE "model.error")
     ELSE UNCHANGED log
  /\ UNCHANGED <<target, received, spent>>

(* A reload points the shared LiveLLM elsewhere: the call keeps its target. *)
Retarget ==
  /\ Spend("retargets")
  /\ target' \in Targets \ {target}
  /\ UNCHANGED <<call, received, log>>

LogWriteFails ==
  /\ Spend("faults")
  /\ log' = LogFailed(log)
  /\ UNCHANGED <<target, call, received>>

(* The session closes its log between turns, the runtime's end at any time. *)
CloseLog ==
  /\ log.locked
  /\ log' = Closed(log)
  /\ UNCHANGED <<target, call, received, spent>>

(* The process dies; the next one opens a log of its own. *)
Crash ==
  /\ Spend("faults")
  /\ call' = Idle /\ received' = <<>>
  /\ log' = NewLog
  /\ UNCHANGED target

ADayPasses ==
  /\ log' = DayOld(log)
  /\ UNCHANGED <<target, call, received, spent>>

(* Any process's sweep. *)
Sweep ==
  /\ Sweepable(log)
  /\ log' = [log EXCEPT !.exists = FALSE]
  /\ UNCHANGED <<target, call, received, spent>>

Around == Cancel \/ Retarget \/ LogWriteFails \/ CloseLog \/ Crash \/ ADayPasses \/ Sweep

Next ==
  \/ StartCall \/ Accepted \/ Overflow \/ TransportFails \/ OtherError \/ Retry
  \/ Chunk \/ ToolDelta \/ Tick \/ GuardAborts \/ StreamEnds \/ Completes \/ Yield
  \/ Around

Spec == Init /\ [][Next]_vars

(* The clock goes on, timers fire and SR2 reads what it asked for. *)
FairSpec == /\ Spec
            /\ WF_vars(Tick) /\ WF_vars(GuardAborts) /\ WF_vars(Retry) /\ WF_vars(Yield)

-----------------------------------------------------------------------------
TypeOK ==
  /\ target \in Targets /\ call.inner \in Targets
  /\ call.pc \in {"idle", "connect", "stream", "backoff", "yield"}
  /\ call.attempt <= call.retries /\ call.sheds <= MaxSheds
  /\ call.tools \subseteq 1..MaxTools
  /\ log \in Logs

(* What SR2 gets is the beginning of what one finished attempt sent, all of *)
(* one target: neither a retry nor a retarget splices two answers, and      *)
(* nothing of an attempt that died is seen (RetryingLLM, LiveLLM.stream).   *)
AttemptIsWhole ==
  LET seen == received \o (IF call.pc = "yield" THEN call.buffered ELSE <<>>)
  IN  /\ InAttempt \/ call.pc = "backoff" => received = <<>>
      /\ \A i, j \in DOMAIN seen : seen[i].by = seen[j].by /\ seen[i].attempt = seen[j].attempt
      /\ \A i \in DOMAIN seen : seen[i].type = "end" => i = Len(seen)

(* The context guard cuts only whole turns from the front, whatever the     *)
(* order of proactive and reactive cuts: the system prompt and the last     *)
(* message stay, and a request whose calls had their results still has them *)
(* (litellm.py, context_guard.py).                                          *)
RequestStaysPaired ==
  call.pc # "idle" =>
    LET full == Wire(call.request)
    IN  /\ call.wire[1] = "system" /\ Last(call.wire) = Last(full)
        /\ IsSuffix(Tail(call.wire), full)
        /\ Paired(full) => Paired(call.wire)

(* A log that still takes records exists however quiet it was, and pairs    *)
(* the start of every attempt with one ending: the open record is the       *)
(* attempt under way (LoggedLLM, run_log.py).                               *)
LogFollowsCall ==
  Writable(log) => log.exists /\ ~log.unpaired /\ log.open = InAttempt

(* Where the target in force bounds a call, no call goes on for ever, for   *)
(* all the failures and retries of its stream (live_llm.py).                *)
CallsEnd == (call.pc # "idle") ~> (call.pc = "idle")
=============================================================================
