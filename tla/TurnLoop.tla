------------------------------- MODULE TurnLoop -------------------------------
(***************************************************************************)
(* SR2.turn() (sr2/orchestrator.py) as its caller, the LLM, the tools, the *)
(* engine's bus and the deferred post_process task interleave around it.   *)
(* One step stands for the code between two awaits or yields; each of them *)
(* is a place where the caller may cancel or drop the generator (Abort).   *)
(***************************************************************************)
EXTENDS Integers, Sequences, FiniteSets, CircuitBreaker

CONSTANTS
  MaxToolIterations,   \* max_tool_iterations
  FinalAnswerEnabled,  \* final_answer.enabled
  GuardEnabled,        \* repeat_guard.enabled
  HasExecutor,         \* tool_executor is not None
  HookMayRaise,        \* post_process is overridden by a hook that may raise
  CancelAtBarrier,     \* the caller may be cancelled while it awaits _pp_task
  MaxTurns             \* bound on the calls of turn()

ASSUME LoopAssumption ==
  /\ MaxToolIterations \in Nat
  /\ MaxTurns \in Nat
  /\ FinalAnswerEnabled \in BOOLEAN /\ GuardEnabled \in BOOLEAN
  /\ HasExecutor \in BOOLEAN /\ HookMayRaise \in BOOLEAN
  /\ CancelAtBarrier \in BOOLEAN

VARIABLES
  pc,        \* where turn() stands
  loc,       \* its local variables
  out,       \* the StreamEvents the current turn has yielded
  breaker,   \* the LLM circuit breaker
  turnSeq,   \* the engine's turn sequence
  archSeq,   \* the archivist's turn sequence
  buf,       \* events buffered in the session layer, not yet resolved
  hist,      \* the SessionResolver's history
  pp         \* _pp_task: its state, the turn that scheduled it, the turn it read

(* History variables: what happened, read by no guard but Call's bound. *)
VARIABLES
  tally,     \* turns called; LLM calls and tool runs of the turn; failures in a row
  finalized, \* turns whose post_process was scheduled
  processed  \* tasks whose post_process returned or raised

sessionVars == <<turnSeq, archSeq, buf, hist>>
ppVars      == <<pp, finalized, processed>>
llmVars     == <<breaker, tally>>
vars == <<pc, loc, out, sessionVars, ppVars, llmVars>>

PCs == {"idle", "barrier", "joinError", "starting", "opening", "input", "settling",
        "request", "streaming", "executing", "captured", "continuing",
        "finalizing", "closing", "answering", "erroring", "ending"}
EventKinds == {"error", "retry", "tool_use_emitted", "tool_result_received",
               "repeat_guard", "iteration_complete", "final_answer", "text", "end"}
MessageKinds == {"user", "calls", "results", "answer"}
TurnIds == -1..(MaxTurns - 1)
Messages == [kind : MessageKinds, turn : TurnIds, iter : 0..MaxToolIterations]
TaskStates == {"none", "pending", "running", "done", "failed", "cancelled"}
Tasks == [state : TaskStates, turn : TurnIds, read : TurnIds]
NoTask == [state |-> "none", turn |-> -1, read |-> -1]
Tallies == [calls : 0..MaxTurns, llm : Nat, tools : Nat, streak : 0..FailureThreshold]

(* iteration_seq; empty_retry_used; which call of _run_tool_iteration runs; *)
(* the forced answer's reason; the guard's verdict; in_band_errors # [].    *)
Locals == [iter : 0..MaxToolIterations, retried : BOOLEAN,
           mode : {"plain", "retry", "forced"}, reason : {"none", "limit", "repeat"},
           verdict : {"none", "note", "stop"}, inBand : BOOLEAN]
NewLocals == [iter |-> 0, retried |-> FALSE, mode |-> "plain", reason |-> "none",
              verdict |-> "none", inBand |-> FALSE]

Msg(kind) == [kind |-> kind, turn |-> turnSeq, iter |-> loc.iter]
Pair == <<Msg("calls"), Msg("results")>>

Init ==
  /\ pc = "idle" /\ loc = NewLocals /\ out = <<>>
  /\ breaker = NewBreaker
  /\ turnSeq = -1 /\ archSeq = -1 /\ buf = <<>> /\ hist = <<>>
  /\ pp = NoTask
  /\ tally = [calls |-> 0, llm |-> 0, tools |-> 0, streak |-> 0]
  /\ finalized = {} /\ processed = {}

(* turn() is over: it returned, raised, was cancelled or was dropped. *)
Leave == pc' = "idle" /\ loc' = NewLocals

-----------------------------------------------------------------------------
(* Entering turn(): the barrier on the previous turn's deferred task. *)

Call ==
  /\ pc = "idle" /\ tally.calls < MaxTurns
  /\ tally' = [tally EXCEPT !.calls = @ + 1, !.llm = 0, !.tools = 0]
  /\ pc' = IF pp.state = "none" THEN "starting" ELSE "barrier"
  /\ out' = <<>>
  /\ UNCHANGED <<loc, sessionVars, ppVars, breaker>>

Join ==
  /\ pc = "barrier" /\ pp.state = "done"
  /\ pp' = NoTask /\ pc' = "starting"
  /\ UNCHANGED <<loc, out, sessionVars, finalized, processed, llmVars>>

JoinFailed ==
  /\ pc = "barrier" /\ pp.state = "failed"
  /\ out' = Append(out, "error") /\ pc' = "joinError"
  /\ UNCHANGED <<loc, sessionVars, ppVars, llmVars>>

(* The error event was consumed; only now is _pp_task cleared. *)
AfterJoinError ==
  /\ pc = "joinError"
  /\ pp' = NoTask /\ pc' = "starting"
  /\ UNCHANGED <<loc, out, sessionVars, finalized, processed, llmVars>>

(* Awaiting a cancelled task raises CancelledError; _pp_task keeps it. *)
JoinCancelled ==
  /\ pc = "barrier" /\ pp.state = "cancelled"
  /\ Leave
  /\ UNCHANGED <<out, sessionVars, ppVars, llmVars>>

-----------------------------------------------------------------------------
(* engine.start_turn and the user's input. *)

(* A bug: the turn starts without awaiting the deferred task. *)
StartTurnMutant ==
  /\ pc \in {"starting", "barrier"}
  /\ turnSeq' = turnSeq + 1 /\ buf' = <<>> /\ pc' = "opening"
  /\ UNCHANGED <<loc, out, archSeq, hist, ppVars, llmVars>>

(* bus.reset and Layer.begin_turn drop what an aborted turn left buffered. *)
StartTurn ==
  /\ pc = "starting"
  /\ turnSeq' = turnSeq + 1 /\ buf' = <<>> /\ pc' = "opening"
  /\ UNCHANGED <<loc, out, archSeq, hist, ppVars, llmVars>>

(* turn_start has drained; a callback may have put an error on the bus. *)
TurnOpened ==
  /\ pc = "opening"
  /\ archSeq' = turnSeq /\ pc' = "input"
  /\ \E failed \in BOOLEAN : loc' = [loc EXCEPT !.inBand = failed]
  /\ UNCHANGED <<out, turnSeq, buf, hist, ppVars, llmVars>>

(* A turn may be run with no input: nothing is queued then. *)
NoInput ==
  /\ pc = "input" /\ pc' = "request"
  /\ UNCHANGED <<loc, out, sessionVars, ppVars, llmVars>>

QueueInput ==
  /\ pc = "input" /\ pc' = "settling"
  /\ buf' = Append(buf, Msg("user"))
  /\ UNCHANGED <<loc, out, turnSeq, archSeq, hist, ppVars, llmVars>>

(* The session resolver takes every buffered event at once. *)
Drain == hist' = hist \o buf /\ buf' = <<>>

SettleInput ==
  /\ pc = "settling" /\ pc' = "request"
  /\ Drain
  /\ \E failed \in BOOLEAN : loc' = [loc EXCEPT !.inBand = @ \/ failed]
  /\ UNCHANGED <<out, turnSeq, archSeq, ppVars, llmVars>>

-----------------------------------------------------------------------------
(* One LLM call of _run_tool_iteration. *)

(* Both the LLM's stream and the breaker's refusal. *)
Request ==
  /\ pc = "request"
  /\ breaker' = AfterAllow(breaker)
  /\ \/ /\ AllowsRequest(breaker)
        /\ pc' = "streaming" /\ tally' = [tally EXCEPT !.llm = @ + 1]
        /\ UNCHANGED loc
     \/ /\ ~AllowsRequest(breaker)
        /\ Leave /\ UNCHANGED tally
  /\ UNCHANGED <<out, sessionVars, ppVars>>

(* The stream raised, or ran into llm_timeout_seconds. *)
LlmFails ==
  /\ pc = "streaming"
  /\ breaker' = AfterFailure(breaker)
  /\ tally' = [tally EXCEPT !.streak = IF @ < FailureThreshold THEN @ + 1 ELSE @]
  /\ Leave
  /\ UNCHANGED <<out, sessionVars, ppVars>>

Replied ==
  /\ pc = "streaming"
  /\ breaker' = AfterSuccess(breaker)
  /\ tally' = [tally EXCEPT !.streak = 0]

(* A bug: the retry is not remembered. *)
EmptyReplyMutant ==
  /\ Replied
  /\ IF loc.mode = "plain"
     THEN /\ loc' = [loc EXCEPT !.mode = "retry"]
          /\ out' = Append(out, "retry") /\ pc' = "request"
     ELSE pc' = "finalizing" /\ UNCHANGED <<loc, out>>
  /\ UNCHANGED <<sessionVars, ppVars>>

(* No tool call and no text: the turn's one retry, then the placeholder (or, *)
(* on the forced call, the fallback).                                        *)
EmptyReply ==
  /\ Replied
  /\ IF loc.mode = "plain" /\ ~loc.retried
     THEN /\ loc' = [loc EXCEPT !.retried = TRUE, !.mode = "retry"]
          /\ out' = Append(out, "retry") /\ pc' = "request"
     ELSE pc' = "finalizing" /\ UNCHANGED <<loc, out>>
  /\ UNCHANGED <<sessionVars, ppVars>>

TextReply ==
  /\ Replied
  /\ pc' = "finalizing"
  /\ UNCHANGED <<loc, out, sessionVars, ppVars>>

(* Tool calls in the forced call's reply are answered with the fallback. *)
ForcedToolReply ==
  /\ Replied /\ loc.mode = "forced"
  /\ pc' = "finalizing"
  /\ UNCHANGED <<loc, out, sessionVars, ppVars>>

(* A bug: one iteration too many. *)
AtLimitMutant == loc.iter > MaxToolIterations

AtLimit == loc.iter >= MaxToolIterations

(* The limit comes before the executor check; both raise. *)
ToolReplyRaises ==
  /\ Replied /\ loc.mode # "forced"
  /\ IF AtLimit THEN ~FinalAnswerEnabled ELSE ~HasExecutor
  /\ Leave
  /\ UNCHANGED <<out, sessionVars, ppVars>>

(* _forced_final_answer on the limit path: the calls get not_run results, the *)
(* pair goes on the bus, and one tool-less call follows.                      *)
LimitReached ==
  /\ Replied /\ loc.mode # "forced"
  /\ AtLimit /\ FinalAnswerEnabled
  /\ buf' = buf \o Pair
  /\ loc' = [loc EXCEPT !.mode = "forced", !.reason = "limit"]
  /\ pc' = "request"
  /\ UNCHANGED <<out, turnSeq, archSeq, hist, ppVars>>

-----------------------------------------------------------------------------
(* A tool iteration. *)

ToolReply ==
  /\ Replied /\ loc.mode # "forced"
  /\ ~AtLimit /\ HasExecutor
  /\ pc' = "executing"
  /\ UNCHANGED <<loc, out, sessionVars, ppVars>>

(* A repeat guard watches every iteration but the one of a retried call. *)
Verdicts == IF GuardEnabled /\ loc.mode = "plain" THEN {"none", "note", "stop"} ELSE {"none"}

(* gather returned; malformed calls and tool errors have results as well. *)
ToolsExecuted ==
  /\ pc = "executing" /\ pc' = "captured"
  /\ \E v \in Verdicts : loc' = [loc EXCEPT !.verdict = v]
  /\ buf' = buf \o Pair
  /\ tally' = [tally EXCEPT !.tools = @ + 1]
  /\ UNCHANGED <<out, turnSeq, archSeq, hist, ppVars, breaker>>

Shown == <<"tool_use_emitted", "tool_result_received">>

(* The iteration is archived and yielded; the guard has not stopped the run. *)
ShowTools ==
  /\ pc = "captured" /\ loc.verdict # "stop"
  /\ out' = out \o Shown \o (IF loc.verdict = "note" THEN <<"repeat_guard">> ELSE <<>>)
  /\ pc' = "continuing"
  /\ UNCHANGED <<loc, sessionVars, ppVars, llmVars>>

(* A bug: the forced answer queues the executed iteration's pair once more. *)
GuardStopsMutant ==
  /\ pc = "captured" /\ loc.verdict = "stop"
  /\ out' = out \o Shown \o <<"repeat_guard">>
  /\ buf' = buf \o Pair
  /\ loc' = [loc EXCEPT !.mode = "forced", !.reason = "repeat"]
  /\ pc' = "request"
  /\ UNCHANGED <<turnSeq, archSeq, hist, ppVars, llmVars>>

(* The stop: the executed pair is already on the bus; one tool-less call. *)
GuardStops ==
  /\ pc = "captured" /\ loc.verdict = "stop"
  /\ out' = out \o Shown \o <<"repeat_guard">>
  /\ loc' = [loc EXCEPT !.mode = "forced", !.reason = "repeat"]
  /\ pc' = "request"
  /\ UNCHANGED <<sessionVars, ppVars, llmVars>>

(* engine.continue_turn, then iteration_complete. *)
ContinueTurn ==
  /\ pc = "continuing" /\ pc' = "request"
  /\ Drain
  /\ \E failed \in BOOLEAN :
       loc' = [loc EXCEPT !.iter = @ + 1, !.mode = "plain", !.verdict = "none",
                          !.inBand = @ \/ failed]
  /\ out' = Append(out, "iteration_complete")
  /\ UNCHANGED <<turnSeq, archSeq, ppVars, llmVars>>

-----------------------------------------------------------------------------
(* _finalize_turn and the final events. *)

(* assistant_response is queued and end_turn drains it with what was left. *)
EndTurn ==
  /\ pc = "finalizing" /\ pc' = "closing"
  /\ hist' = (hist \o buf) \o <<Msg("answer")>> /\ buf' = <<>>
  /\ UNCHANGED <<loc, out, turnSeq, archSeq, ppVars, llmVars>>

SchedulePostProcess ==
  /\ pc = "closing" /\ pc' = "answering"
  /\ pp' = [state |-> "pending", turn |-> turnSeq, read |-> -1]
  /\ finalized' = finalized \cup {turnSeq}
  /\ UNCHANGED <<loc, out, sessionVars, processed, llmVars>>

FinalText == (IF loc.reason = "none" THEN <<>> ELSE <<"final_answer">>) \o <<"text">>

(* A bug: the final text is yielded before the turn is finalized. *)
AnswerMutant ==
  /\ pc \in {"finalizing", "answering"} /\ "text" \notin {out[i] : i \in DOMAIN out}
  /\ out' = out \o FinalText
  /\ pc' = IF pc = "finalizing" THEN pc ELSE IF loc.inBand THEN "erroring" ELSE "ending"
  /\ UNCHANGED <<loc, sessionVars, ppVars, llmVars>>

Answer ==
  /\ pc = "answering"
  /\ out' = out \o FinalText
  /\ pc' = IF loc.inBand THEN "erroring" ELSE "ending"
  /\ UNCHANGED <<loc, sessionVars, ppVars, llmVars>>

SurfaceErrors ==
  /\ pc = "erroring" /\ pc' = "ending"
  /\ out' = Append(out, "error")
  /\ UNCHANGED <<loc, sessionVars, ppVars, llmVars>>

EndEvent ==
  /\ pc = "ending"
  /\ out' = Append(out, "end")
  /\ Leave
  /\ UNCHANGED <<sessionVars, ppVars, llmVars>>

-----------------------------------------------------------------------------
(* The environment of a turn. *)

(* The caller is cancelled or drops the generator, or the engine, a tool or *)
(* the executor raises, at an await or a yield.                             *)
Abort ==
  /\ pc \notin {"idle", "barrier"}
  /\ Leave
  /\ UNCHANGED <<out, sessionVars, ppVars, llmVars>>

(* Cancelling a caller that awaits a task cancels the task. *)
AbortAtBarrier ==
  /\ CancelAtBarrier /\ pc = "barrier"
  /\ pp' = IF pp.state \in {"pending", "running"} THEN [pp EXCEPT !.state = "cancelled"] ELSE pp
  /\ Leave
  /\ UNCHANGED <<out, sessionVars, finalized, processed, llmVars>>

(* A bug: post-processing needs something the waiting turn holds. *)
PostProcessStartsMutant ==
  /\ pp.state = "pending" /\ pc = "idle"
  /\ pp' = [pp EXCEPT !.state = "running", !.read = archSeq]
  /\ UNCHANGED <<pc, loc, out, sessionVars, finalized, processed, llmVars>>

(* The deferred task's first step reads the archivist's turn sequence. *)
PostProcessStarts ==
  /\ pp.state = "pending"
  /\ pp' = [pp EXCEPT !.state = "running", !.read = archSeq]
  /\ UNCHANGED <<pc, loc, out, sessionVars, finalized, processed, llmVars>>

(* A consolidation failure is swallowed; only an overriding hook can raise. *)
PostProcessEnds ==
  /\ pp.state = "running"
  /\ \E s \in {"done"} \cup (IF HookMayRaise THEN {"failed"} ELSE {}) :
       pp' = [pp EXCEPT !.state = s]
  /\ processed' = processed \cup {[turn |-> pp.turn, read |-> pp.read]}
  /\ UNCHANGED <<pc, loc, out, sessionVars, finalized, llmVars>>

(* aclose() between turns: it joins the task and always clears _pp_task. *)
Close ==
  /\ pc = "idle" /\ pp.state \in {"done", "failed", "cancelled"}
  /\ pp' = NoTask
  /\ UNCHANGED <<pc, loc, out, sessionVars, finalized, processed, llmVars>>

(* recovery_timeout elapses. *)
Cooldown ==
  /\ breaker.state = "open" /\ ~breaker.cooled
  /\ breaker' = Cooled(breaker)
  /\ UNCHANGED <<pc, loc, out, sessionVars, ppVars, tally>>

-----------------------------------------------------------------------------

Enter == Call \/ Join \/ JoinFailed \/ AfterJoinError \/ JoinCancelled
Start == StartTurn \/ TurnOpened \/ NoInput \/ QueueInput \/ SettleInput
CallLlm == Request \/ LlmFails \/ EmptyReply \/ TextReply \/ ForcedToolReply
             \/ ToolReplyRaises \/ LimitReached \/ ToolReply
RunTools == ToolsExecuted \/ ShowTools \/ GuardStops \/ ContinueTurn
Finish == EndTurn \/ SchedulePostProcess \/ Answer \/ SurfaceErrors \/ EndEvent
PostProcess == PostProcessStarts \/ PostProcessEnds
Environment == Abort \/ AbortAtBarrier \/ Close \/ Cooldown

Next == Enter \/ Start \/ CallLlm \/ RunTools \/ Finish \/ PostProcess \/ Environment

Spec == Init /\ [][Next]_vars

(* turn() itself goes on: the LLM call is bounded by its timeout, tools and *)
(* stores return.  Callers need not call, nor abort, nor the clock advance. *)
Advance == (Enter /\ ~Call) \/ Start \/ CallLlm \/ RunTools \/ Finish

FairSpec == Spec /\ WF_vars(Advance) /\ WF_vars(PostProcess)

-----------------------------------------------------------------------------
(* Correctness. *)

TypeOK ==
  /\ pc \in PCs /\ loc \in Locals /\ out \in Seq(EventKinds)
  /\ breaker \in Breakers
  /\ turnSeq \in TurnIds /\ archSeq \in TurnIds
  /\ buf \in Seq(Messages) /\ hist \in Seq(Messages)
  /\ pp \in Tasks
  /\ tally \in Tallies
  /\ finalized \subseteq TurnIds
  /\ processed \subseteq [turn : TurnIds, read : TurnIds]

Settled == pc \in {"answering", "erroring", "ending"}

(* The event stream is the one TurnContract promises: the turn is settled    *)
(* before its answer is yielded, errors come at most once per phase and      *)
(* before the one end, one retry (README "The turn loop", FR14, sr2-80).     *)
Contract == INSTANCE TurnContract WITH
  phase <- IF pc = "idle" THEN "idle" ELSE IF Settled THEN "settled" ELSE "open",
  events <- out

KeepsContract == Contract!Spec

(* The session history stays a conversation whatever was aborted: a message  *)
(* of tool calls is followed at once by its results and no message of a turn *)
(* is there twice, nor after a later turn's.                                 *)
PairedHistory ==
  \A i \in DOMAIN hist :
    /\ hist[i].kind = "calls" =>
         /\ i + 1 \in DOMAIN hist
         /\ hist[i + 1] = [hist[i] EXCEPT !.kind = "results"]
    /\ hist[i].kind = "results" => i > 1 /\ hist[i - 1].kind = "calls"
    /\ \A j \in DOMAIN hist : i < j => hist[i] # hist[j] /\ hist[i].turn <= hist[j].turn

(* An answer the caller was shown, even one it stopped reading after, is the *)
(* last message of the history, and its post-processing has been scheduled   *)
(* (sr2-80: finalize before yielding).                                       *)
AnswerIsCaptured ==
  "text" \in {out[i] : i \in DOMAIN out} =>
    /\ turnSeq \in finalized
    /\ hist[Len(hist)].kind = "answer" /\ hist[Len(hist)].turn = turnSeq

(* max_tool_iterations caps a turn: at most one tool run per iteration, and  *)
(* one call more for the limit, one for the retry and one for the answer.    *)
BoundedTurn ==
  /\ tally.tools <= MaxToolIterations
  /\ tally.llm <= MaxToolIterations + 3

(* The breaker counts failures across turns, retries and aborted calls: it   *)
(* is never closed after FailureThreshold failures with no reply in between. *)
BreakerCountsFailures ==
  /\ CountBelowThreshold(breaker)
  /\ tally.streak >= FailureThreshold => breaker.state # "closed"

(* Each deferred task consolidates the turn that scheduled it, though it     *)
(* reads the archivist's current turn only when it runs.                     *)
ConsolidatesOwnTurn == \A p \in processed : p.read = p.turn

(* A turn begins only after the post_process of every finalized turn ended.  *)
PostProcessBeforeNextTurn ==
  [][turnSeq' # turnSeq => \A t \in finalized : \E p \in processed : p.turn = t]_vars

(* post_process is awaited once after each finalized turn: it has ended, or  *)
(* its task is still to run (FR11 in the docstring of turn()).               *)
EveryTurnProcessed ==
  \A t \in finalized :
    \/ \E p \in processed : p.turn = t
    \/ pp.turn = t /\ pp.state \in {"pending", "running"}

(* Every turn comes to its end, also one that waits at the barrier.          *)
TurnReturns == (pc # "idle") ~> (pc = "idle")

=============================================================================
