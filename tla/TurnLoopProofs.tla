---------------------------- MODULE TurnLoopProofs ----------------------------
(***************************************************************************)
(* Proofs about TurnLoop, for every value of its constants.  Inv is the    *)
(* inductive invariant; each conjunct names the control points at which    *)
(* the code relies on it.  The circuit breaker's own come first.           *)
(***************************************************************************)
EXTENDS TurnLoop, TLAPS

(***************************************************************************)
(* What the breaker's operations preserve, for every threshold.            *)
(***************************************************************************)
(* Every operation yields a breaker again.                                  *)
LEMMA BreakerType ==
  ASSUME NEW b \in Breakers
  PROVE  /\ NewBreaker \in Breakers /\ AfterAllow(b) \in Breakers
         /\ AfterSuccess(b) \in Breakers /\ Cooled(b) \in Breakers
<1>1. NewBreaker \in Breakers
  BY ThresholdAssumption DEF Breakers, CircuitStates, NewBreaker
<1>2. [b EXCEPT !.state = "half_open"] \in Breakers
  BY DEF Breakers, CircuitStates
<1>3. AfterAllow(b) \in Breakers
  BY <1>2 DEF AfterAllow
<1>4. AfterSuccess(b) \in Breakers
  BY <1>1 DEF AfterSuccess
<1>5. Cooled(b) \in Breakers
  BY DEF Breakers, Cooled
<1> QED BY <1>1, <1>3, <1>4, <1>5

(* Counting a failure stays in range as long as a closed breaker is below   *)
(* its threshold.                                                           *)
LEMMA FailureType ==
  ASSUME NEW b \in Breakers, CountBelowThreshold(b)
  PROVE  AfterFailure(b) \in Breakers
<1>1. \A c \in Breakers : Opened(c) \in Breakers
  BY DEF Opened, Breakers, CircuitStates
<1>2. CASE b.state = "open"
  BY <1>2 DEF AfterFailure
<1>3. CASE b.state = "half_open"
  BY <1>1, <1>3 DEF AfterFailure
<1>4. CASE b.state = "closed"
  <2>1. b.failures + 1 \in 0..FailureThreshold
    BY <1>4, ThresholdAssumption DEF Breakers, CountBelowThreshold
  <2>2. Counted(b) \in Breakers
    BY <2>1 DEF Counted, Breakers
  <2>3. AfterFailure(b) \in {Counted(b), Opened(Counted(b))}
    BY <1>4 DEF AfterFailure
  <2> QED BY <1>1, <2>2, <2>3
<1> QED BY <1>2, <1>3, <1>4 DEF Breakers, CircuitStates

(* No operation leaves a breaker closed with its failures used up           *)
(* (record_failure opens it in the step that counts the last one).          *)
THEOREM CountStaysBelow ==
  ASSUME NEW b \in Breakers, CountBelowThreshold(b)
  PROVE  /\ CountBelowThreshold(NewBreaker)
         /\ CountBelowThreshold(AfterAllow(b))
         /\ CountBelowThreshold(AfterSuccess(b))
         /\ CountBelowThreshold(AfterFailure(b))
         /\ CountBelowThreshold(Cooled(b))
<1>1. CountBelowThreshold(NewBreaker) /\ CountBelowThreshold(AfterSuccess(b))
  BY ThresholdAssumption DEF CountBelowThreshold, NewBreaker, AfterSuccess, Breakers
<1>2. CountBelowThreshold(AfterAllow(b)) /\ CountBelowThreshold(Cooled(b))
  BY DEF CountBelowThreshold, AfterAllow, Cooled, Breakers
<1>3. CountBelowThreshold(AfterFailure(b))
  BY ThresholdAssumption
  DEF CountBelowThreshold, AfterFailure, Opened, Counted, Breakers, CircuitStates
<1> QED BY <1>1, <1>2, <1>3

-----------------------------------------------------------------------------

BeforeStart == {"barrier", "joinError", "starting"}
InTurn == PCs \ {"idle", "barrier", "joinError"}
Unfinished == InTurn \ {"answering", "erroring", "ending"}

(* turn_seq runs behind the calls of turn().                                *)
SeqInv ==
  /\ turnSeq < tally.calls
  /\ pc \in BeforeStart => turnSeq + 1 < tally.calls

(* An iteration whose tools run is below the limit.                         *)
IterInv == pc \in {"executing", "captured", "continuing"} => loc.iter < MaxToolIterations

(* A closed breaker's count is the number of failures in a row.             *)
BreakerInv ==
  /\ CountBelowThreshold(breaker)
  /\ breaker.state = "closed" => tally.streak = breaker.failures

TypeInv == TypeOK /\ SeqInv /\ IterInv /\ BreakerInv

(* The tools run and the LLM calls made, at each stage of an iteration.     *)
Retries == IF loc.retried THEN 1 ELSE 0

ToolsInv ==
  /\ tally.tools <= MaxToolIterations
  /\ pc \in PCs \ {"idle", "captured", "continuing"} /\ loc.mode # "forced"
       => tally.tools <= loc.iter
  /\ pc \in {"captured", "continuing"} => tally.tools <= loc.iter + 1

CallsInv ==
  /\ tally.llm <= MaxToolIterations + 3
  /\ pc \in BeforeStart \cup {"opening", "input", "settling", "request"}
       => tally.llm <= loc.iter + Retries + (IF loc.mode = "forced" THEN 1 ELSE 0)
  /\ pc \in {"streaming", "executing", "captured", "continuing"}
       => tally.llm <= loc.iter + Retries + (IF loc.mode = "forced" THEN 2 ELSE 1)
  /\ pc \in {"executing", "captured", "continuing"} => loc.mode # "forced"
  /\ loc.mode = "retry" => loc.retried

(* A turn under way has joined the task of the one before, and the task     *)
(* that waits to run finds the archivist still at the turn that made it.    *)
TaskInv ==
  /\ pc \in Unfinished => pp.state = "none"
  /\ pc \in InTurn \ {"starting", "opening"} => archSeq = turnSeq
  /\ pp.state = "pending" => archSeq = pp.turn
  /\ pp.state = "running" => pp.read = pp.turn
  /\ ConsolidatesOwnTurn

-----------------------------------------------------------------------------

LEMMA TypeInit == Init => TypeInv
BY LoopAssumption, ThresholdAssumption, BreakerType
DEF Init, TypeInv, TypeOK, SeqInv, IterInv, BreakerInv, NewBreaker, CountBelowThreshold,
    NewLocals, Locals, NoTask, Tasks, Tallies, TaskStates, TurnIds, PCs, Breakers, CircuitStates, BeforeStart

(* Which actions touch which variables.                                     *)
LEMMA Movers ==
  ASSUME [Next]_vars
  PROVE
    /\ \/ UNCHANGED out
       \/ Call \/ JoinFailed \/ EmptyReply \/ ShowTools \/ GuardStops \/ ContinueTurn
       \/ Answer \/ SurfaceErrors \/ EndEvent
    /\ \/ UNCHANGED <<breaker, tally>>
       \/ Call \/ Request \/ LlmFails \/ Replied \/ ToolsExecuted \/ Cooldown
    /\ UNCHANGED <<turnSeq, archSeq>> \/ StartTurn \/ TurnOpened
    /\ \/ UNCHANGED <<buf, hist>>
       \/ StartTurn \/ QueueInput \/ SettleInput \/ LimitReached \/ ToolsExecuted
       \/ ContinueTurn \/ EndTurn
    /\ \/ UNCHANGED ppVars
       \/ Join \/ AfterJoinError \/ SchedulePostProcess \/ AbortAtBarrier
       \/ PostProcessStarts \/ PostProcessEnds \/ Close
    /\ \/ UNCHANGED loc
       \/ Leave \/ TurnOpened \/ SettleInput \/ EmptyReply \/ LimitReached \/ ToolsExecuted
       \/ GuardStops \/ ContinueTurn
<1> USE DEF vars, sessionVars, ppVars, llmVars
<1>1. CASE Enter
  BY <1>1 DEF Enter, Call, Join, JoinFailed, AfterJoinError, JoinCancelled
<1>2. CASE Start
  BY <1>2 DEF Start, StartTurn, TurnOpened, NoInput, QueueInput, SettleInput
<1>3. CASE CallLlm
  BY <1>3 DEF CallLlm, Request, LlmFails, EmptyReply, TextReply, ForcedToolReply,
              ToolReplyRaises, LimitReached, ToolReply
<1>4. CASE RunTools
  BY <1>4 DEF RunTools, ToolsExecuted, ShowTools, GuardStops, ContinueTurn
<1>5. CASE Finish
  BY <1>5 DEF Finish, EndTurn, SchedulePostProcess, Answer, SurfaceErrors, EndEvent
<1>6. CASE PostProcess
  BY <1>6 DEF PostProcess, PostProcessStarts, PostProcessEnds
<1>7. CASE Environment
  BY <1>7 DEF Environment, Abort, AbortAtBarrier, Close, Cooldown
<1>8. CASE UNCHANGED vars
  BY <1>8
<1> QED BY <1>1, <1>2, <1>3, <1>4, <1>5, <1>6, <1>7, <1>8 DEF Next

LEMMA SeqFacts ==
  ASSUME NEW S, NEW s \in Seq(S)
  PROVE  /\ \A t \in Seq(S) : s \o t \in Seq(S)
         /\ \A x \in S : Append(s, x) \in Seq(S)
OBVIOUS

LEMMA OutType == ASSUME TypeInv, [Next]_vars PROVE out' \in Seq(EventKinds)
<1>1. out \in Seq(EventKinds)
  BY DEF TypeInv, TypeOK
<1>2. \A k \in {"error", "retry", "iteration_complete", "end"} : Append(out, k) \in Seq(EventKinds)
  BY <1>1, SeqFacts DEF EventKinds
<1>3. Shown \in Seq(EventKinds) /\ <<"repeat_guard">> \in Seq(EventKinds)
  BY DEF Shown, EventKinds
<1>4. out \o Shown \in Seq(EventKinds)
  BY <1>1, <1>3, SeqFacts
<1>5. (out \o Shown) \o <<"repeat_guard">> \in Seq(EventKinds)
  BY <1>3, <1>4, SeqFacts
<1>6. CASE UNCHANGED out
  BY <1>1, <1>6
<1>7. CASE Call
  BY <1>7 DEF Call
<1>8. CASE JoinFailed
  BY <1>2, <1>8 DEF JoinFailed
<1>9. CASE EmptyReply
  <2>1. out' = Append(out, "retry") \/ out' = out
    BY <1>9 DEF EmptyReply
  <2> QED BY <1>1, <1>2, <2>1
<1>10. CASE ShowTools
  <2>1. CASE loc.verdict = "note"
    BY <1>5, <1>10, <2>1 DEF ShowTools
  <2>2. CASE loc.verdict # "note"
    <3>1. out' = (out \o Shown) \o <<>>
      BY <1>10, <2>2 DEF ShowTools
    <3> QED BY <1>4, <3>1
  <2> QED BY <2>1, <2>2
<1>11. CASE GuardStops
  BY <1>5, <1>11 DEF GuardStops
<1>12. CASE ContinueTurn
  BY <1>2, <1>12 DEF ContinueTurn
<1>13. CASE Answer
  <2>1. <<"final_answer">> \in Seq(EventKinds) /\ <<"text">> \in Seq(EventKinds)
    BY DEF EventKinds
  <2>2. FinalText \in Seq(EventKinds)
    BY <2>1 DEF FinalText
  <2> QED BY <1>1, <1>13, <2>2, SeqFacts DEF Answer
<1>14. CASE SurfaceErrors
  BY <1>2, <1>14 DEF SurfaceErrors
<1>15. CASE EndEvent
  BY <1>2, <1>15 DEF EndEvent
<1> QED BY <1>6, <1>7, <1>8, <1>9, <1>10, <1>11, <1>12, <1>13, <1>14, <1>15, Movers

LEMMA MessagesType ==
  ASSUME TypeInv, [Next]_vars
  PROVE  buf' \in Seq(Messages) /\ hist' \in Seq(Messages)
<1>1. buf \in Seq(Messages) /\ hist \in Seq(Messages) /\ <<>> \in Seq(Messages)
  BY DEF TypeInv, TypeOK
<1>2. \A kind \in MessageKinds : Msg(kind) \in Messages
  BY DEF TypeInv, TypeOK, Msg, Messages, Locals
<1>3. Pair \in Seq(Messages) /\ <<Msg("answer")>> \in Seq(Messages) /\ Msg("user") \in Messages
  BY <1>2 DEF Pair, MessageKinds
<1>4. /\ Append(buf, Msg("user")) \in Seq(Messages)
      /\ buf \o Pair \in Seq(Messages) /\ hist \o buf \in Seq(Messages)
  BY <1>1, <1>3, SeqFacts
<1>5. (hist \o buf) \o <<Msg("answer")>> \in Seq(Messages)
  BY <1>3, <1>4, SeqFacts
<1>6. CASE UNCHANGED <<buf, hist>>
  BY <1>1, <1>6
<1>7. CASE StartTurn
  BY <1>1, <1>7 DEF StartTurn
<1>8. CASE QueueInput
  BY <1>1, <1>4, <1>8 DEF QueueInput
<1>9. CASE SettleInput
  BY <1>1, <1>4, <1>9 DEF SettleInput, Drain
<1>10. CASE LimitReached
  BY <1>1, <1>4, <1>10 DEF LimitReached
<1>11. CASE ToolsExecuted
  BY <1>1, <1>4, <1>11 DEF ToolsExecuted
<1>12. CASE ContinueTurn
  BY <1>1, <1>4, <1>12 DEF ContinueTurn, Drain
<1>13. CASE EndTurn
  BY <1>1, <1>5, <1>13 DEF EndTurn
<1> QED BY <1>6, <1>7, <1>8, <1>9, <1>10, <1>11, <1>12, <1>13, Movers

(* The tally is a record of four fields: what each action makes of them.    *)
LEMMA TallyFacts ==
  ASSUME NEW t \in Tallies
  PROVE  /\ [t EXCEPT !.llm = @ + 1] \in Tallies /\ [t EXCEPT !.tools = @ + 1] \in Tallies
         /\ [t EXCEPT !.llm = @ + 1].streak = t.streak
         /\ [t EXCEPT !.tools = @ + 1].streak = t.streak
BY DEF Tallies

LEMMA StreakFacts ==
  ASSUME NEW t \in Tallies, NEW n \in 0..FailureThreshold
  PROVE  [t EXCEPT !.streak = n] \in Tallies /\ [t EXCEPT !.streak = n].streak = n
BY DEF Tallies

LEMMA LlmType ==
  ASSUME TypeInv, [Next]_vars
  PROVE  breaker' \in Breakers /\ tally' \in Tallies /\ BreakerInv'
<1>1. /\ breaker \in Breakers /\ tally \in Tallies /\ CountBelowThreshold(breaker)
      /\ breaker.state = "closed" => tally.streak = breaker.failures
  BY DEF TypeInv, TypeOK, BreakerInv
<1>2. CASE UNCHANGED <<breaker, tally>>
  BY <1>1, <1>2 DEF BreakerInv
<1>3. CASE Call
  <2>1. breaker' = breaker /\ tally'.streak = tally.streak
    BY <1>1, <1>3 DEF Call, Tallies
  <2>2. tally.calls + 1 \in 0..MaxTurns
    BY <1>1, <1>3, LoopAssumption DEF Call, Tallies
  <2>3. tally' \in Tallies
    BY <1>1, <1>3, <2>2 DEF Call, Tallies
  <2> QED BY <1>1, <2>1, <2>3 DEF BreakerInv
<1>4. CASE Request
  <2>1. breaker' \in Breakers /\ CountBelowThreshold(breaker')
    BY <1>1, <1>4, BreakerType, CountStaysBelow DEF Request
  <2>2. breaker'.state = "closed" => breaker' = breaker
    BY <1>1, <1>4 DEF Request, AfterAllow, Breakers
  <2>3. tally' = tally \/ tally' = [tally EXCEPT !.llm = @ + 1]
    BY <1>4 DEF Request
  <2>4. tally' \in Tallies /\ tally'.streak = tally.streak
    BY <1>1, <2>3, TallyFacts
  <2> QED BY <1>1, <2>1, <2>2, <2>4 DEF BreakerInv
<1>5. CASE LlmFails
  <2> DEFINE n == IF tally.streak < FailureThreshold THEN tally.streak + 1 ELSE tally.streak
  <2>1. breaker' \in Breakers /\ CountBelowThreshold(breaker')
    BY <1>1, <1>5, FailureType, CountStaysBelow DEF LlmFails
  <2>2. breaker'.state = "closed" =>
          breaker.state = "closed" /\ breaker'.failures = breaker.failures + 1
    <3>1. CASE breaker.state = "closed"
      <4>1. breaker' \in {Counted(breaker), Opened(Counted(breaker))}
        BY <1>5, <3>1 DEF LlmFails, AfterFailure
      <4>2. Counted(breaker).failures = breaker.failures + 1
        BY <1>1 DEF Counted, Breakers
      <4>3. Opened(Counted(breaker)).state = "open"
        BY <1>1 DEF Opened, Counted, Breakers
      <4> QED BY <3>1, <4>1, <4>2, <4>3
    <3>2. CASE breaker.state = "half_open"
      BY <1>1, <1>5, <3>2 DEF LlmFails, AfterFailure, Opened, Breakers
    <3>3. CASE breaker.state = "open"
      BY <1>5, <3>3 DEF LlmFails, AfterFailure
    <3> QED BY <1>1, <3>1, <3>2, <3>3 DEF Breakers, CircuitStates
  <2>3. n \in 0..FailureThreshold
    BY <1>1, ThresholdAssumption DEF Tallies
  <2>4. tally' = [tally EXCEPT !.streak = n]
    BY <1>5 DEF LlmFails
  <2>5. tally' \in Tallies /\ tally'.streak = n
    BY <1>1, <2>3, <2>4, StreakFacts
  <2>6. breaker.state = "closed" => n = breaker.failures + 1
    BY <1>1, ThresholdAssumption DEF CountBelowThreshold, Tallies, Breakers
  <2> QED BY <2>1, <2>2, <2>5, <2>6 DEF BreakerInv
<1>6. CASE Replied
  <2>1. breaker' \in Breakers /\ CountBelowThreshold(breaker')
    BY <1>1, <1>6, BreakerType, CountStaysBelow DEF Replied
  <2>2. breaker'.state = "closed" => breaker'.failures = 0
    BY <1>6 DEF Replied, AfterSuccess, NewBreaker
  <2>3. 0 \in 0..FailureThreshold /\ tally' = [tally EXCEPT !.streak = 0]
    BY <1>6, ThresholdAssumption DEF Replied
  <2>4. tally' \in Tallies /\ tally'.streak = 0
    BY <1>1, <2>3, StreakFacts
  <2> QED BY <2>1, <2>2, <2>4 DEF BreakerInv
<1>7. CASE ToolsExecuted
  <2>1. tally' \in Tallies /\ tally'.streak = tally.streak /\ breaker' = breaker
    BY <1>1, <1>7, TallyFacts DEF ToolsExecuted
  <2> QED BY <1>1, <2>1 DEF BreakerInv
<1>8. CASE Cooldown
  <2>1. breaker' \in Breakers /\ CountBelowThreshold(breaker') /\ tally' = tally
    BY <1>1, <1>8, BreakerType, CountStaysBelow DEF Cooldown
  <2>2. breaker'.state # "closed"
    BY <1>1, <1>8 DEF Cooldown, Cooled, Breakers
  <2> QED BY <1>1, <2>1, <2>2 DEF BreakerInv
<1> QED BY <1>2, <1>3, <1>4, <1>5, <1>6, <1>7, <1>8, Movers

(* The locals: what each assignment of turn() makes of them.                *)
LEMMA NewLocalsType == NewLocals \in Locals
BY LoopAssumption DEF Locals, NewLocals

LEMMA InBandType ==
  ASSUME NEW l \in Locals, NEW b \in BOOLEAN
  PROVE  [l EXCEPT !.inBand = b] \in Locals /\ [l EXCEPT !.inBand = b].iter = l.iter
BY DEF Locals

LEMMA VerdictType ==
  ASSUME NEW l \in Locals, NEW v \in {"none", "note", "stop"}
  PROVE  [l EXCEPT !.verdict = v] \in Locals /\ [l EXCEPT !.verdict = v].iter = l.iter
BY DEF Locals

LEMMA RetryType ==
  ASSUME NEW l \in Locals
  PROVE  [l EXCEPT !.retried = TRUE, !.mode = "retry"] \in Locals
BY DEF Locals

LEMMA ForcedType ==
  ASSUME NEW l \in Locals
  PROVE  /\ [l EXCEPT !.mode = "forced", !.reason = "limit"] \in Locals
         /\ [l EXCEPT !.mode = "forced", !.reason = "repeat"] \in Locals
BY DEF Locals

LEMMA ControlType ==
  ASSUME TypeInv, [Next]_vars
  PROVE  pc' \in PCs /\ loc' \in Locals /\ IterInv'
<1>1. pc \in PCs /\ loc \in Locals /\ IterInv /\ loc.inBand \in BOOLEAN /\ loc.iter \in 0..MaxToolIterations
  BY DEF TypeInv, TypeOK, Locals
<1>2. pc' \in PCs
  <2> USE <1>1 DEF PCs, Leave
  <2>1. CASE Enter
    BY <2>1 DEF Enter, Call, Join, JoinFailed, AfterJoinError, JoinCancelled
  <2>2. CASE Start
    BY <2>2 DEF Start, StartTurn, TurnOpened, NoInput, QueueInput, SettleInput
  <2>3. CASE CallLlm
    BY <2>3 DEF CallLlm, Request, LlmFails, EmptyReply, TextReply, ForcedToolReply,
                ToolReplyRaises, LimitReached, ToolReply
  <2>4. CASE RunTools
    BY <2>4 DEF RunTools, ToolsExecuted, ShowTools, GuardStops, ContinueTurn
  <2>5. CASE Finish
    BY <2>5 DEF Finish, EndTurn, SchedulePostProcess, Answer, SurfaceErrors, EndEvent
  <2>6. CASE PostProcess \/ Environment \/ UNCHANGED vars
    BY <2>6 DEF PostProcess, PostProcessStarts, PostProcessEnds, Environment, Abort,
                AbortAtBarrier, Close, Cooldown, vars
  <2> QED BY <2>1, <2>2, <2>3, <2>4, <2>5, <2>6 DEF Next
<1>0. loc \in Locals
  BY <1>1
<1>3. loc' \in Locals /\ (ContinueTurn \/ Leave \/ pc' = "request" \/ loc'.iter = loc.iter)
  <2>1. CASE UNCHANGED loc
    BY <1>0, <2>1
  <2>2. CASE Leave
    <3>1. loc' = NewLocals
      BY <2>2 DEF Leave
    <3> QED BY <2>2, <3>1, NewLocalsType
  <2>3. CASE TurnOpened
    <3>1. PICK b \in BOOLEAN : loc' = [loc EXCEPT !.inBand = b]
      BY <2>3 DEF TurnOpened
    <3> QED BY <1>0, <3>1, InBandType
  <2>4. CASE SettleInput
    <3>1. PICK b \in BOOLEAN : loc' = [loc EXCEPT !.inBand = loc.inBand \/ b]
      BY <2>4 DEF SettleInput
    <3>2. (loc.inBand \/ b) \in BOOLEAN
      BY <1>1
    <3> QED BY <1>0, <3>1, <3>2, InBandType
  <2>5. CASE EmptyReply
    <3>1. loc' = loc \/ loc' = [loc EXCEPT !.retried = TRUE, !.mode = "retry"]
      BY <2>5 DEF EmptyReply
    <3>2. loc' = loc \/ pc' = "request"
      BY <2>5 DEF EmptyReply
    <3>3. loc' \in Locals
      BY <1>0, <3>1, RetryType
    <3> QED BY <3>2, <3>3
  <2>6. CASE LimitReached
    <3>1. loc' = [loc EXCEPT !.mode = "forced", !.reason = "limit"] /\ pc' = "request"
      BY <2>6 DEF LimitReached
    <3> QED BY <1>0, <3>1, ForcedType
  <2>7. CASE ToolsExecuted
    <3>1. PICK v \in Verdicts : loc' = [loc EXCEPT !.verdict = v]
      BY <2>7 DEF ToolsExecuted
    <3>2. v \in {"none", "note", "stop"}
      BY DEF Verdicts
    <3> QED BY <1>0, <3>1, <3>2, VerdictType
  <2>8. CASE GuardStops
    <3>1. loc' = [loc EXCEPT !.mode = "forced", !.reason = "repeat"] /\ pc' = "request"
      BY <2>8 DEF GuardStops
    <3> QED BY <1>0, <3>1, ForcedType
  <2>9. CASE ContinueTurn
    <3>1. loc.iter + 1 \in 0..MaxToolIterations
      BY <1>1, <2>9, LoopAssumption DEF ContinueTurn, IterInv
    <3>2. PICK b \in BOOLEAN :
            loc' = [loc EXCEPT !.iter = @ + 1, !.mode = "plain", !.verdict = "none",
                               !.inBand = @ \/ b]
      BY <2>9 DEF ContinueTurn
    <3>3. (loc.inBand \/ b) \in BOOLEAN
      BY <1>1
    <3> DEFINE c == (loc.inBand \/ b)
    <3>4. \A d \in BOOLEAN :
            [loc EXCEPT !.iter = loc.iter + 1, !.mode = "plain", !.verdict = "none",
                        !.inBand = d] \in Locals
      BY <1>1, <3>1 DEF Locals
    <3>5. loc' = [loc EXCEPT !.iter = loc.iter + 1, !.mode = "plain", !.verdict = "none",
                             !.inBand = c]
      BY <3>2
    <3>6. c \in BOOLEAN
      BY <3>3
    <3> HIDE DEF c
    <3> QED BY <2>9, <3>4, <3>5, <3>6
  <2> QED BY <2>1, <2>2, <2>3, <2>4, <2>5, <2>6, <2>7, <2>8, <2>9, Movers
<1>4. pc' \in {"executing", "captured", "continuing"} =>
        \/ pc \in {"executing", "captured", "continuing"} /\ ~Leave
        \/ ToolReply
  <2>1. CASE Enter \/ Start \/ Finish
    BY <2>1 DEF Enter, Call, Join, JoinFailed, AfterJoinError, JoinCancelled, Leave,
                Start, StartTurn, TurnOpened, NoInput, QueueInput, SettleInput,
                Finish, EndTurn, SchedulePostProcess, Answer, SurfaceErrors, EndEvent
  <2>2. CASE CallLlm
    BY <2>2 DEF CallLlm, Request, LlmFails, EmptyReply, TextReply, ForcedToolReply,
                ToolReplyRaises, LimitReached, Leave
  <2>3. CASE RunTools
    BY <2>3 DEF RunTools, ToolsExecuted, ShowTools, GuardStops, ContinueTurn, Leave
  <2>4. CASE PostProcess \/ Environment \/ UNCHANGED vars
    BY <2>4 DEF PostProcess, PostProcessStarts, PostProcessEnds, Environment, Abort,
                AbortAtBarrier, Close, Cooldown, vars, Leave
  <2> QED BY <2>1, <2>2, <2>3, <2>4 DEF Next
<1>5. IterInv'
  <2> SUFFICES ASSUME pc' \in {"executing", "captured", "continuing"}
               PROVE  loc'.iter < MaxToolIterations
    BY DEF IterInv
  <2>1. loc'.iter = loc.iter
    BY <1>3 DEF ContinueTurn, Leave
  <2>2. CASE ToolReply
    BY <1>1, <2>1, <2>2, LoopAssumption DEF ToolReply, AtLimit
  <2>3. CASE ~ToolReply
    BY <1>1, <1>4, <2>1, <2>3 DEF IterInv
  <2> QED BY <2>2, <2>3
<1> QED BY <1>2, <1>3, <1>5

(* A turn that is still to start has not used up the calls of turn().       *)
LEMMA SeqType ==
  ASSUME TypeInv, [Next]_vars
  PROVE  turnSeq' \in TurnIds /\ archSeq' \in TurnIds /\ SeqInv'
<1>1. /\ turnSeq \in TurnIds /\ archSeq \in TurnIds /\ SeqInv /\ MaxTurns \in Nat
      /\ tally.calls \in 0..MaxTurns
  BY LoopAssumption DEF TypeInv, TypeOK, Tallies
<1>2. ~Call => tally'.calls = tally.calls
  <2>1. tally \in Tallies
    BY DEF TypeInv, TypeOK
  <2>2. CASE UNCHANGED <<breaker, tally>> \/ Cooldown
    BY <2>2 DEF Cooldown
  <2>3. CASE Request
    BY <2>1, <2>3 DEF Request, Tallies
  <2>4. CASE LlmFails \/ Replied
    BY <2>1, <2>4 DEF LlmFails, Replied, Tallies
  <2>5. CASE ToolsExecuted
    BY <2>1, <2>5 DEF ToolsExecuted, Tallies
  <2> QED BY <2>2, <2>3, <2>4, <2>5, Movers
<1>3. CASE Call
  <2>1. tally'.calls = tally.calls + 1
    BY <1>3 DEF Call, TypeInv, TypeOK, Tallies
  <2>2. UNCHANGED <<turnSeq, archSeq>>
    BY <1>3 DEF Call, sessionVars
  <2> QED BY <1>1, <2>1, <2>2 DEF SeqInv, TurnIds
<1>4. CASE StartTurn
  <2>1. tally' = tally /\ turnSeq' = turnSeq + 1 /\ archSeq' = archSeq /\ pc' = "opening"
    BY <1>4 DEF StartTurn, llmVars
  <2>2. turnSeq + 1 < tally.calls
    BY <1>1, <1>4 DEF StartTurn, SeqInv, BeforeStart
  <2> QED BY <1>1, <2>1, <2>2 DEF SeqInv, TurnIds, BeforeStart
<1>5. CASE TurnOpened
  <2>1. tally' = tally /\ turnSeq' = turnSeq /\ archSeq' = turnSeq /\ pc' = "input"
    BY <1>5 DEF TurnOpened, llmVars
  <2> QED BY <1>1, <2>1 DEF SeqInv, BeforeStart
<1>6. CASE ~Call /\ UNCHANGED <<turnSeq, archSeq>>
  <2>1. pc' \in BeforeStart => pc \in BeforeStart
    <3> USE <1>6 DEF BeforeStart, Leave
    <3>1. CASE Enter
      BY <3>1 DEF Enter, Join, JoinFailed, AfterJoinError, JoinCancelled
    <3>2. CASE Start
      BY <3>2 DEF Start, StartTurn, TurnOpened, NoInput, QueueInput, SettleInput
    <3>3. CASE CallLlm
      BY <3>3 DEF CallLlm, Request, LlmFails, EmptyReply, TextReply, ForcedToolReply,
                  ToolReplyRaises, LimitReached, ToolReply
    <3>4. CASE RunTools
      BY <3>4 DEF RunTools, ToolsExecuted, ShowTools, GuardStops, ContinueTurn
    <3>5. CASE Finish
      BY <3>5 DEF Finish, EndTurn, SchedulePostProcess, Answer, SurfaceErrors, EndEvent
    <3>6. CASE PostProcess \/ Environment \/ UNCHANGED vars
      BY <3>6 DEF PostProcess, PostProcessStarts, PostProcessEnds, Environment, Abort,
                  AbortAtBarrier, Close, Cooldown, vars
    <3> QED BY <3>1, <3>2, <3>3, <3>4, <3>5, <3>6 DEF Next
  <2> QED BY <1>1, <1>2, <1>6, <2>1 DEF SeqInv
<1> QED BY <1>3, <1>4, <1>5, <1>6, Movers

LEMMA TaskType ==
  ASSUME TypeInv, [Next]_vars
  PROVE  /\ pp' \in Tasks /\ finalized' \subseteq TurnIds
         /\ processed' \subseteq [turn : TurnIds, read : TurnIds]
<1>1. /\ pp \in Tasks /\ finalized \subseteq TurnIds /\ turnSeq \in TurnIds /\ archSeq \in TurnIds
      /\ processed \subseteq [turn : TurnIds, read : TurnIds]
  BY DEF TypeInv, TypeOK
<1>2. -1 \in TurnIds
  BY LoopAssumption DEF TurnIds
<1>3. NoTask \in Tasks
  BY <1>2 DEF NoTask, Tasks, TaskStates
<1>4. \A s \in TaskStates : [pp EXCEPT !.state = s] \in Tasks
  BY <1>1 DEF Tasks
<1>5. CASE UNCHANGED ppVars
  BY <1>1, <1>5 DEF ppVars
<1>6. CASE Join \/ AfterJoinError \/ Close
  BY <1>1, <1>3, <1>6 DEF Join, AfterJoinError, Close
<1>7. CASE SchedulePostProcess
  BY <1>1, <1>2, <1>7 DEF SchedulePostProcess, Tasks, TaskStates
<1>8. CASE AbortAtBarrier
  BY <1>1, <1>4, <1>8 DEF AbortAtBarrier, TaskStates
<1>9. CASE PostProcessStarts
  BY <1>1, <1>9 DEF PostProcessStarts, Tasks, TaskStates
<1>10. CASE PostProcessEnds
  <2>1. pp' \in Tasks
    BY <1>4, <1>10 DEF PostProcessEnds, TaskStates
  <2>2. [turn |-> pp.turn, read |-> pp.read] \in [turn : TurnIds, read : TurnIds]
    BY <1>1 DEF Tasks
  <2> QED BY <1>1, <1>10, <2>1, <2>2 DEF PostProcessEnds
<1> QED BY <1>5, <1>6, <1>7, <1>8, <1>9, <1>10, Movers

LEMMA TypeStep == TypeInv /\ [Next]_vars => TypeInv'
<1> SUFFICES ASSUME TypeInv, [Next]_vars PROVE TypeInv'
  OBVIOUS
<1>1. out' \in Seq(EventKinds) /\ buf' \in Seq(Messages) /\ hist' \in Seq(Messages)
  BY OutType, MessagesType
<1>2. breaker' \in Breakers /\ tally' \in Tallies /\ BreakerInv'
  BY LlmType
<1>3. pc' \in PCs /\ loc' \in Locals /\ IterInv'
  BY ControlType
<1>4. turnSeq' \in TurnIds /\ archSeq' \in TurnIds /\ SeqInv'
  BY SeqType
<1>5. /\ pp' \in Tasks /\ finalized' \subseteq TurnIds
      /\ processed' \subseteq [turn : TurnIds, read : TurnIds]
  BY TaskType
<1> QED BY <1>1, <1>2, <1>3, <1>4, <1>5 DEF TypeInv, TypeOK

(* The inductive invariant holds of every behaviour.                        *)
LEMMA TypeInvariant == Spec => []TypeInv
<1> QED BY TypeInit, TypeStep, PTL DEF Spec

(* The state of turn() keeps its shape; in particular the iteration never   *)
(* passes max_tool_iterations and the breaker's count never its threshold.  *)
THEOREM TypeCorrect == Spec => []TypeOK
<1>1. TypeInv => TypeOK
  BY DEF TypeInv
<1> QED BY <1>1, TypeInvariant, PTL

(* After FailureThreshold LLM failures with no reply in between, in         *)
(* whichever turns, the breaker is not closed (record_failure).             *)
THEOREM BreakerCorrect == Spec => []BreakerCountsFailures
<1>1. TypeInv => BreakerCountsFailures
  <2> SUFFICES ASSUME TypeInv PROVE BreakerCountsFailures
    OBVIOUS
  <2>1. /\ breaker \in Breakers /\ tally.streak \in 0..FailureThreshold
        /\ CountBelowThreshold(breaker)
        /\ breaker.state = "closed" => tally.streak = breaker.failures
    BY DEF TypeInv, TypeOK, BreakerInv, Tallies
  <2>2. tally.streak >= FailureThreshold => breaker.state # "closed"
    BY <2>1, ThresholdAssumption DEF CountBelowThreshold, Breakers
  <2> QED BY <2>1, <2>2 DEF BreakerCountsFailures
<1> QED BY <1>1, TypeInvariant, PTL

-----------------------------------------------------------------------------
(* max_tool_iterations bounds the tool runs and the LLM calls of a turn.    *)

BoundInv == ToolsInv /\ CallsInv

(* The step in the terms the bound is about: the counts and three locals.   *)
LEMMA BoundFacts ==
  ASSUME TypeInv
  PROVE  /\ loc.iter \in 0..MaxToolIterations /\ loc.retried \in BOOLEAN
         /\ loc.mode \in {"plain", "retry", "forced"}
         /\ tally.llm \in Nat /\ tally.tools \in Nat /\ MaxToolIterations \in Nat
         /\ pc \in PCs /\ IterInv
BY LoopAssumption DEF TypeInv, TypeOK, Locals, Tallies

LEMMA RepliedCounts ==
  ASSUME TypeInv, Replied
  PROVE  pc = "streaming" /\ tally'.llm = tally.llm /\ tally'.tools = tally.tools
BY DEF Replied, TypeInv, TypeOK, Tallies

LEMMA BoundStep == TypeInv /\ BoundInv /\ [Next]_vars => BoundInv'
<1> SUFFICES ASSUME TypeInv, BoundInv, [Next]_vars PROVE BoundInv'
  OBVIOUS
<1> USE BoundFacts DEF BoundInv, ToolsInv, CallsInv, Retries, BeforeStart
<1>1. CASE Call
  <2>1. /\ tally'.llm = 0 /\ tally'.tools = 0 /\ loc' = loc
        /\ pc' \in {"starting", "barrier"}
    BY <1>1 DEF Call, TypeInv, TypeOK, Tallies
  <2>2. loc.mode = "retry" => loc.retried
    OBVIOUS
  <2> QED BY <2>1, <2>2
<1>2. CASE Leave /\ tally'.llm = tally.llm /\ tally'.tools = tally.tools
  BY <1>2 DEF Leave, NewLocals
<1>3. CASE Join \/ JoinFailed \/ AfterJoinError
  BY <1>3 DEF Join, JoinFailed, AfterJoinError, llmVars, PCs
<1>4. CASE StartTurn \/ NoInput \/ QueueInput
  BY <1>4 DEF StartTurn, NoInput, QueueInput, llmVars, PCs
<1>5. CASE TurnOpened \/ SettleInput
  <2>1. tally' = tally /\ pc \in {"opening", "settling"} /\ pc' \in {"input", "request"}
    BY <1>5 DEF TurnOpened, SettleInput, llmVars
  <2>2. loc'.iter = loc.iter /\ loc'.retried = loc.retried /\ loc'.mode = loc.mode
    BY <1>5 DEF TurnOpened, SettleInput, TypeInv, TypeOK, Locals
  <2> QED BY <2>1, <2>2 DEF PCs
<1>6. CASE Request
  <2>1. CASE Leave
    BY <1>6, <2>1, <1>2 DEF Request, Leave
  <2>2. CASE ~Leave
    <3>1. pc = "request" /\ pc' = "streaming" /\ loc' = loc
      BY <1>6, <2>2 DEF Request
    <3>2. tally'.llm = tally.llm + 1 /\ tally'.tools = tally.tools
      BY <1>6, <2>2 DEF Request, TypeInv, TypeOK, Tallies
    <3> QED BY <3>1, <3>2 DEF PCs
  <2> QED BY <2>1, <2>2
<1>7. CASE LlmFails
  <2>1. tally'.llm = tally.llm /\ tally'.tools = tally.tools
    BY <1>7 DEF LlmFails, TypeInv, TypeOK, Tallies
  <2> QED BY <1>2, <1>7, <2>1 DEF LlmFails
<1>8. CASE EmptyReply
  <2>1. pc = "streaming" /\ tally'.llm = tally.llm /\ tally'.tools = tally.tools
    BY <1>8, RepliedCounts DEF EmptyReply
  <2>2. CASE loc.mode = "plain" /\ ~loc.retried
    <3>1. /\ pc' = "request" /\ loc'.iter = loc.iter /\ loc'.retried = TRUE
          /\ loc'.mode = "retry"
      BY <1>8, <2>2 DEF EmptyReply, TypeInv, TypeOK, Locals
    <3> QED BY <2>1, <2>2, <3>1 DEF PCs
  <2>3. CASE ~(loc.mode = "plain" /\ ~loc.retried)
    <3>1. pc' = "finalizing" /\ loc' = loc
      BY <1>8, <2>3 DEF EmptyReply
    <3> QED BY <2>1, <3>1 DEF PCs
  <2> QED BY <2>2, <2>3
<1>9. CASE TextReply \/ ForcedToolReply
  <2>1. pc = "streaming" /\ tally'.llm = tally.llm /\ tally'.tools = tally.tools
    BY <1>9, RepliedCounts DEF TextReply, ForcedToolReply
  <2>2. pc' = "finalizing" /\ loc' = loc
    BY <1>9 DEF TextReply, ForcedToolReply
  <2> QED BY <2>1, <2>2 DEF PCs
<1>10. CASE ToolReplyRaises
  BY <1>2, <1>10, RepliedCounts DEF ToolReplyRaises
<1>11. CASE LimitReached
  <2>1. pc = "streaming" /\ tally'.llm = tally.llm /\ tally'.tools = tally.tools
    BY <1>11, RepliedCounts DEF LimitReached
  <2>2. /\ loc.mode # "forced" /\ pc' = "request" /\ loc'.iter = loc.iter
        /\ loc'.retried = loc.retried /\ loc'.mode = "forced"
    BY <1>11 DEF LimitReached, TypeInv, TypeOK, Locals
  <2> QED BY <2>1, <2>2 DEF PCs
<1>12. CASE ToolReply
  <2>1. pc = "streaming" /\ tally'.llm = tally.llm /\ tally'.tools = tally.tools
    BY <1>12, RepliedCounts DEF ToolReply
  <2>2. loc.mode # "forced" /\ pc' = "executing" /\ loc' = loc
    BY <1>12 DEF ToolReply
  <2> QED BY <2>1, <2>2 DEF PCs
<1>13. CASE ToolsExecuted
  <2>1. /\ pc = "executing" /\ pc' = "captured"
        /\ tally'.llm = tally.llm /\ tally'.tools = tally.tools + 1
    BY <1>13 DEF ToolsExecuted, TypeInv, TypeOK, Tallies
  <2>2. loc'.iter = loc.iter /\ loc'.retried = loc.retried /\ loc'.mode = loc.mode
    BY <1>13 DEF ToolsExecuted, TypeInv, TypeOK, Locals
  <2>3. loc.iter < MaxToolIterations
    BY <2>1 DEF IterInv
  <2> QED BY <2>1, <2>2, <2>3 DEF PCs
<1>14. CASE ShowTools
  BY <1>14 DEF ShowTools, llmVars, PCs
<1>15. CASE GuardStops
  <2>1. /\ pc = "captured" /\ pc' = "request" /\ tally' = tally
        /\ loc'.iter = loc.iter /\ loc'.retried = loc.retried /\ loc'.mode = "forced"
    BY <1>15 DEF GuardStops, llmVars, TypeInv, TypeOK, Locals
  <2> QED BY <2>1 DEF PCs
<1>16. CASE ContinueTurn
  <2>1. /\ pc = "continuing" /\ pc' = "request" /\ tally' = tally
        /\ loc'.iter = loc.iter + 1 /\ loc'.retried = loc.retried /\ loc'.mode = "plain"
    BY <1>16 DEF ContinueTurn, llmVars, TypeInv, TypeOK, Locals
  <2> QED BY <2>1 DEF PCs
<1>17. CASE EndTurn \/ SchedulePostProcess \/ Answer \/ SurfaceErrors
  BY <1>17 DEF EndTurn, SchedulePostProcess, Answer, SurfaceErrors, llmVars, PCs
<1>18. CASE JoinCancelled \/ EndEvent \/ Abort \/ AbortAtBarrier
  BY <1>2, <1>18 DEF JoinCancelled, EndEvent, Abort, AbortAtBarrier, llmVars
<1>19. CASE PostProcess \/ Close \/ Cooldown \/ UNCHANGED vars
  BY <1>19 DEF PostProcess, PostProcessStarts, PostProcessEnds, Close, Cooldown, vars, llmVars, PCs
<1> QED
  BY <1>1, <1>3, <1>4, <1>5, <1>6, <1>7, <1>8, <1>9, <1>10, <1>11, <1>12, <1>13, <1>14,
     <1>15, <1>16, <1>17, <1>18, <1>19
  DEF Next, Enter, Start, CallLlm, RunTools, Finish, Environment

LEMMA BoundInvariant == Spec => []BoundInv
<1>1. Init => BoundInv
  BY LoopAssumption DEF Init, BoundInv, ToolsInv, CallsInv, NewLocals, BeforeStart, Retries
<1> QED BY <1>1, BoundStep, TypeInvariant, PTL DEF Spec

(* max_tool_iterations caps a turn whatever the model answers: at most that  *)
(* many tool runs, and three LLM calls more (turn's loop and its retry and   *)
(* forced answer).                                                           *)
THEOREM TurnIsBounded == Spec => []BoundedTurn
<1>1. BoundInv => BoundedTurn
  BY DEF BoundInv, ToolsInv, CallsInv, BoundedTurn
<1> QED BY <1>1, BoundInvariant, PTL

-----------------------------------------------------------------------------
(* The barrier: what joining the deferred task buys.                        *)

LEMMA TaskStep == TypeInv /\ TaskInv /\ [Next]_vars => TaskInv'
<1> SUFFICES ASSUME TypeInv, TaskInv, [Next]_vars PROVE TaskInv'
  OBVIOUS
<1> USE DEF TaskInv, Unfinished, InTurn, PCs, ConsolidatesOwnTurn
<1>1. pp \in Tasks /\ pc \in PCs
  BY DEF TypeInv, TypeOK
<1>2. CASE Call \/ JoinFailed \/ JoinCancelled
  BY <1>2 DEF Call, JoinFailed, JoinCancelled, Leave, sessionVars, ppVars
<1>3. CASE Join \/ AfterJoinError \/ Close
  BY <1>3 DEF Join, AfterJoinError, Close, NoTask, sessionVars
<1>4. CASE StartTurn \/ NoInput \/ QueueInput \/ SettleInput
  BY <1>4 DEF StartTurn, NoInput, QueueInput, SettleInput, sessionVars, ppVars
<1>5. CASE TurnOpened
  BY <1>5 DEF TurnOpened, ppVars
<1>6. CASE CallLlm
  <2>1. UNCHANGED <<turnSeq, archSeq, ppVars>> /\ pc \in {"request", "streaming"}
    BY <1>6 DEF CallLlm, Request, LlmFails, EmptyReply, TextReply, ForcedToolReply, Replied,
                ToolReplyRaises, LimitReached, ToolReply, sessionVars
  <2>2. pc' \in {"idle", "request", "streaming", "finalizing", "executing"}
    BY <1>6 DEF CallLlm, Request, LlmFails, EmptyReply, TextReply, ForcedToolReply,
                ToolReplyRaises, LimitReached, ToolReply, Leave
  <2> QED BY <2>1, <2>2 DEF ppVars
<1>7. CASE RunTools
  BY <1>7 DEF RunTools, ToolsExecuted, ShowTools, GuardStops, ContinueTurn, sessionVars, ppVars
<1>8. CASE EndTurn \/ Answer \/ SurfaceErrors \/ EndEvent
  BY <1>8 DEF EndTurn, Answer, SurfaceErrors, EndEvent, Leave, sessionVars, ppVars
<1>9. CASE SchedulePostProcess
  BY <1>9 DEF SchedulePostProcess, sessionVars
<1>10. CASE AbortAtBarrier
  <2>1. /\ pp'.turn = pp.turn /\ pp'.read = pp.read
        /\ pp'.state \in {pp.state, "cancelled"}
    BY <1>1, <1>10 DEF AbortAtBarrier, Tasks
  <2> QED BY <1>10, <2>1 DEF AbortAtBarrier, Leave, sessionVars
<1>11. CASE PostProcessStarts
  <2>1. /\ pp.state = "pending" /\ pp'.turn = pp.turn /\ pp'.read = archSeq
        /\ pp'.state = "running" /\ UNCHANGED <<pc, archSeq, turnSeq, processed>>
    BY <1>1, <1>11 DEF PostProcessStarts, Tasks, sessionVars
  <2> QED BY <2>1
<1>12. CASE PostProcessEnds
  <2>1. /\ pp.state = "running" /\ pp'.turn = pp.turn /\ pp'.read = pp.read
        /\ pp'.state \in {"done", "failed"} /\ UNCHANGED <<pc, archSeq, turnSeq>>
        /\ processed' = processed \cup {[turn |-> pp.turn, read |-> pp.read]}
    BY <1>1, <1>12 DEF PostProcessEnds, Tasks, sessionVars
  <2> QED BY <2>1
<1>13. CASE Abort
  BY <1>13 DEF Abort, Leave, sessionVars, ppVars
<1>14. CASE Cooldown \/ UNCHANGED vars
  BY <1>14 DEF Cooldown, vars, sessionVars, ppVars
<1> QED
  BY <1>2, <1>3, <1>4, <1>5, <1>6, <1>7, <1>8, <1>9, <1>10, <1>11, <1>12, <1>13, <1>14
  DEF Next, Enter, Start, Finish, PostProcess, Environment

LEMMA TaskInvariant == Spec => []TaskInv
<1>1. Init => TaskInv
  BY DEF Init, TaskInv, Unfinished, InTurn, PCs, NoTask, ConsolidatesOwnTurn
<1> QED BY <1>1, TaskStep, TypeInvariant, PTL DEF Spec

(* A deferred post_process consolidates the turn that scheduled it: until it *)
(* has run no later turn moves the archivist on (the await of _pp_task).     *)
THEOREM OwnTurnConsolidated == Spec => []ConsolidatesOwnTurn
<1>1. TaskInv => ConsolidatesOwnTurn
  BY DEF TaskInv
<1> QED BY <1>1, TaskInvariant, PTL

(* As long as nobody is cancelled at the barrier, a task that ended is        *)
(* remembered until it is joined.                                           *)
JoinInv ==
  /\ pp.state # "cancelled"
  /\ pc = "joinError" => pp.state = "failed"
  /\ pp.state \in {"done", "failed"} => \E p \in processed : p.turn = pp.turn
  /\ EveryTurnProcessed

LEMMA JoinStep ==
  ASSUME ~CancelAtBarrier
  PROVE  TypeInv /\ TaskInv /\ JoinInv /\ [Next]_vars => JoinInv'
<1> SUFFICES ASSUME TypeInv, TaskInv, JoinInv, [Next]_vars PROVE JoinInv'
  OBVIOUS
<1> USE DEF JoinInv, EveryTurnProcessed
<1>1. pp \in Tasks
  BY DEF TypeInv, TypeOK
<1>2. pc' = "joinError" => pc = "joinError" \/ JoinFailed
  <2>1. CASE Enter \/ Start \/ Finish
    BY <2>1 DEF Enter, Call, Join, AfterJoinError, JoinCancelled, Leave,
                Start, StartTurn, TurnOpened, NoInput, QueueInput, SettleInput,
                Finish, EndTurn, SchedulePostProcess, Answer, SurfaceErrors, EndEvent
  <2>2. CASE CallLlm
    BY <2>2 DEF CallLlm, Request, LlmFails, EmptyReply, TextReply, ForcedToolReply,
                ToolReplyRaises, LimitReached, ToolReply, Leave
  <2>3. CASE RunTools
    BY <2>3 DEF RunTools, ToolsExecuted, ShowTools, GuardStops, ContinueTurn
  <2>4. CASE PostProcess \/ Environment \/ UNCHANGED vars
    BY <2>4 DEF PostProcess, PostProcessStarts, PostProcessEnds, Environment, Abort,
                AbortAtBarrier, Close, Cooldown, vars, Leave
  <2> QED BY <2>1, <2>2, <2>3, <2>4 DEF Next
<1>3. CASE UNCHANGED ppVars
  BY <1>2, <1>3 DEF ppVars, JoinFailed
<1>4. CASE Join \/ AfterJoinError \/ Close
  <2>1. pp.state \in {"done", "failed"}
    BY <1>4 DEF Join, AfterJoinError, Close
  <2>2. /\ pp' = NoTask /\ pc' # "joinError"
        /\ UNCHANGED <<finalized, processed>>
    BY <1>4 DEF Join, AfterJoinError, Close
  <2> QED BY <2>1, <2>2 DEF NoTask
<1>5. CASE SchedulePostProcess
  <2>1. pp.state = "none"
    BY <1>5 DEF SchedulePostProcess, TaskInv, Unfinished, InTurn, PCs
  <2> QED BY <1>5, <2>1 DEF SchedulePostProcess
<1>6. CASE PostProcessStarts
  <2>1. /\ pp.state = "pending" /\ pp'.turn = pp.turn /\ pp'.state = "running"
        /\ UNCHANGED <<pc, finalized, processed>>
    BY <1>1, <1>6 DEF PostProcessStarts, Tasks
  <2> QED BY <2>1
<1>7. CASE PostProcessEnds
  <2>1. /\ pp.state = "running" /\ pp'.turn = pp.turn /\ pp'.state \in {"done", "failed"}
        /\ UNCHANGED <<pc, finalized>>
        /\ processed' = processed \cup {[turn |-> pp.turn, read |-> pp.read]}
    BY <1>1, <1>7 DEF PostProcessEnds, Tasks
  <2>2. processed \subseteq processed' /\ \E p \in processed' : p.turn = pp.turn
    <3> DEFINE done == [turn |-> pp.turn, read |-> pp.read]
    <3>1. done \in processed' /\ done.turn = pp.turn
      BY <2>1
    <3> QED BY <2>1, <3>1
  <2>3. EveryTurnProcessed'
    BY <2>1, <2>2
  <2> QED BY <2>1, <2>2, <2>3
<1> QED BY <1>3, <1>4, <1>5, <1>6, <1>7, Movers DEF AbortAtBarrier

LEMMA JoinInvariant == ASSUME ~CancelAtBarrier PROVE Spec => []JoinInv
<1>1. Init => JoinInv
  BY DEF Init, JoinInv, EveryTurnProcessed, NoTask
<1> QED BY <1>1, JoinStep, TypeInvariant, TaskInvariant, PTL DEF Spec

(* When no caller is cancelled while it waits for _pp_task, every finalized *)
(* turn is post-processed or still has its task (FR11); the violation that  *)
(* TLC finds needs such a cancellation.                                     *)
THEOREM TurnsProcessed == ASSUME ~CancelAtBarrier PROVE Spec => []EveryTurnProcessed
<1>1. JoinInv => EveryTurnProcessed
  BY DEF JoinInv
<1> QED BY <1>1, JoinInvariant, PTL

(* Under the same assumption a turn starts only when the post_process of    *)
(* every finalized turn has ended.                                          *)
THEOREM ProcessedBeforeNextTurn ==
  ASSUME ~CancelAtBarrier PROVE Spec => PostProcessBeforeNextTurn
<1>1. TypeInv /\ TaskInv /\ JoinInv /\ [Next]_vars
        => [turnSeq' # turnSeq => \A t \in finalized : \E p \in processed : p.turn = t]_vars
  <2> SUFFICES ASSUME TypeInv, TaskInv, JoinInv, [Next]_vars, turnSeq' # turnSeq
               PROVE  \A t \in finalized : \E p \in processed : p.turn = t
    OBVIOUS
  <2>1. StartTurn
    BY Movers DEF TurnOpened
  <2>2. pp.state = "none"
    BY <2>1 DEF StartTurn, TaskInv, Unfinished, InTurn, PCs
  <2> QED BY <2>2 DEF JoinInv, EveryTurnProcessed
<1> QED BY <1>1, JoinInvariant, TypeInvariant, TaskInvariant, PTL
        DEF Spec, PostProcessBeforeNextTurn

-----------------------------------------------------------------------------
(* The event stream implements TurnContract.                                *)

SaysIn(o, e) == \E i \in DOMAIN o : o[i] = e
Says(e) == SaysIn(out, e)
Unanswered == {"barrier", "joinError", "answering"} \cup Unfinished

(* What the events of a turn under way tell of where it stands.             *)
StreamInv ==
  /\ pc = "barrier" => out = <<>>
  /\ pc \in Unanswered => ~Says("text")
  /\ pc \in Unanswered /\ Says("retry") => loc.retried
  /\ pc \in {"erroring", "ending"} => Says("text")
  /\ pc = "erroring" => out # <<>> /\ out[Len(out)] = "text"

(* The answer is in the history before it is scheduled for post-processing, *)
(* and both are done when it is shown.                                      *)
EndsIn(h, t) == h # <<>> /\ h[Len(h)].kind = "answer" /\ h[Len(h)].turn = t

AnswerInv ==
  /\ pc \in {"closing", "answering", "erroring", "ending"} => EndsIn(hist, turnSeq)
  /\ pc \in {"answering", "erroring", "ending"} => turnSeq \in finalized
  /\ Says("text") => EndsIn(hist, turnSeq) /\ turnSeq \in finalized

(* The history with what is still buffered, and what it holds of the turn   *)
(* under way: one call of each iteration, no second input and no answer.    *)
AllMessages == hist \o buf

PairedIn(h) ==
  \A i \in 1..Len(h) :
    /\ h[i].kind = "calls" =>
         i + 1 \in 1..Len(h) /\ h[i + 1] = [h[i] EXCEPT !.kind = "results"]
    /\ h[i].kind = "results" => i > 1 /\ h[i - 1].kind = "calls"
    /\ \A j \in 1..Len(h) : i < j => h[i] # h[j] /\ h[i].turn <= h[j].turn

CurrentIn(m, p, l, t) ==
  /\ m.turn <= t
  /\ p \in {"opening", "input"} => m.turn < t
  /\ m.turn = t /\ p \in Unfinished \ {"starting", "closing"} => m.kind # "answer"
  /\ m.turn = t /\ p \in Unfinished \ {"starting", "closing"} /\ m.kind \in {"calls", "results"} =>
       /\ m.iter <= l.iter
       /\ p \in {"settling", "request", "streaming", "executing"} /\ l.mode # "forced" => m.iter < l.iter

HistoryInv ==
  /\ PairedIn(hist) /\ PairedIn(AllMessages)
  /\ \A i \in 1..Len(AllMessages) : CurrentIn(AllMessages[i], pc, loc, turnSeq)

LEMMA SaidFacts ==
  ASSUME NEW o \in Seq(EventKinds), NEW t \in Seq(EventKinds), NEW e
  PROVE  SaysIn(o \o t, e) <=> SaysIn(o, e) \/ SaysIn(t, e)
<1>1. /\ o \o t \in Seq(EventKinds) /\ Len(o \o t) = Len(o) + Len(t) /\ Len(o) \in Nat /\ Len(t) \in Nat
      /\ \A i \in 1..Len(o) : (o \o t)[i] = o[i]
      /\ \A i \in 1..Len(t) : (o \o t)[Len(o) + i] = t[i]
      /\ \A i \in 1..(Len(o) + Len(t)) : i \in 1..Len(o) \/ i - Len(o) \in 1..Len(t)
  OBVIOUS
<1>2. ASSUME SaysIn(o \o t, e) PROVE SaysIn(o, e) \/ SaysIn(t, e)
  <2>1. PICK i \in 1..(Len(o) + Len(t)) : (o \o t)[i] = e
    BY <1>1, <1>2 DEF SaysIn
  <2>2. CASE i \in 1..Len(o)
    BY <1>1, <2>1, <2>2 DEF SaysIn
  <2>3. CASE i - Len(o) \in 1..Len(t)
    <3>1. t[i - Len(o)] = e
      BY <1>1, <2>1, <2>3
    <3> QED BY <2>3, <3>1 DEF SaysIn
  <2> QED BY <1>1, <2>1, <2>2, <2>3
<1>3. ASSUME SaysIn(o, e) PROVE SaysIn(o \o t, e)
  BY <1>1, <1>3 DEF SaysIn
<1>4. ASSUME SaysIn(t, e) PROVE SaysIn(o \o t, e)
  <2>1. PICK i \in 1..Len(t) : t[i] = e
    BY <1>4 DEF SaysIn
  <2>2. Len(o) + i \in 1..Len(o \o t) /\ (o \o t)[Len(o) + i] = e
    BY <1>1, <2>1
  <2> QED BY <1>1, <2>2 DEF SaysIn
<1> QED BY <1>2, <1>3, <1>4

(* What each step yields, as one sequence after what was yielded before.    *)
LEMMA Yields ==
  ASSUME TypeInv
  PROVE  /\ JoinFailed => out' = out \o <<"error">>
         /\ EmptyReply => out' = out \o <<"retry">> \/ out' = out
         /\ ShowTools => out' \in {out \o Shown, out \o (Shown \o <<"repeat_guard">>)}
         /\ GuardStops => out' = out \o (Shown \o <<"repeat_guard">>)
         /\ ContinueTurn => out' = out \o <<"iteration_complete">>
         /\ Answer => out' \in {out \o <<"text">>, out \o <<"final_answer", "text">>}
         /\ SurfaceErrors => out' = out \o <<"error">>
         /\ EndEvent => out' = out \o <<"end">>
<1>1. out \in Seq(EventKinds) /\ Shown \in Seq(EventKinds) /\ <<"repeat_guard">> \in Seq(EventKinds)
  BY DEF TypeInv, TypeOK, Shown, EventKinds
<1>2. \A e : Append(out, e) = out \o <<e>>
  BY <1>1
<1>3. (out \o Shown) \o <<"repeat_guard">> = out \o (Shown \o <<"repeat_guard">>)
  BY <1>1
<1>4. (out \o Shown) \o <<>> = out \o Shown
  BY <1>1
<1>5. ShowTools => out' \in {out \o Shown, out \o (Shown \o <<"repeat_guard">>)}
  BY <1>3, <1>4 DEF ShowTools
<1>6. FinalText \in {<<"text">>, <<"final_answer", "text">>}
  <2>1. <<>> \o <<"text">> = <<"text">>
    OBVIOUS
  <2>2. <<"final_answer">> \o <<"text">> = <<"final_answer", "text">>
    <3> DEFINE s == <<"final_answer">>
               t == <<"text">>
               u == <<"final_answer", "text">>
    <3>1. /\ s \in Seq(EventKinds) /\ Len(s) = 1 /\ s[1] = "final_answer"
          /\ t \in Seq(EventKinds) /\ Len(t) = 1 /\ t[1] = "text"
          /\ u \in Seq(EventKinds) /\ Len(u) = 2 /\ u[1] = "final_answer" /\ u[2] = "text"
      BY DEF EventKinds
    <3> HIDE DEF s, t, u
    <3>2. s \o t \in Seq(EventKinds) /\ Len(s \o t) = 2 /\ (s \o t)[1] = u[1] /\ (s \o t)[2] = u[2]
      <4>0. \A x, y \in Seq(EventKinds) : x \o y \in Seq(EventKinds) /\ Len(x \o y) = Len(x) + Len(y)
        OBVIOUS
      <4>1. s \o t \in Seq(EventKinds) /\ Len(s \o t) = 2
        <5>1. s \o t \in Seq(EventKinds) /\ Len(s \o t) = Len(s) + Len(t)
          BY <3>1, <4>0
        <5>2. Len(s) = 1 /\ Len(t) = 1
          BY <3>1
        <5> QED BY <5>1, <5>2
      <4>2. \A i \in 1..Len(s) : (s \o t)[i] = s[i]
        BY <3>1
      <4>3. \A i \in 1..Len(t) : (s \o t)[Len(s) + i] = t[i]
        BY <3>1
      <4>4. (s \o t)[1] = s[1]
        BY <3>1, <4>2
      <4>5. (s \o t)[2] = t[1]
        BY <3>1, <4>3
      <4> QED BY <3>1, <4>1, <4>4, <4>5
    <3>3. s \o t = u
      BY <3>1, <3>2
    <3> QED BY <3>3 DEF s, t, u
  <2> QED BY <2>1, <2>2 DEF FinalText
<1> QED
  BY <1>2, <1>3, <1>5, <1>6 DEF JoinFailed, EmptyReply, GuardStops, ContinueTurn, Answer, SurfaceErrors, EndEvent

(* Where the places that StreamInv speaks of are entered from.              *)
LEMMA PcMoves ==
  ASSUME TypeInv, [Next]_vars
  PROVE  /\ pc' \in Unanswered => Call \/ (pc \in Unanswered /\ (loc.retried => loc'.retried))
         /\ pc' = "barrier" => Call \/ pc = "barrier"
         /\ pc' = "erroring" => Answer \/ pc = "erroring"
         /\ pc' = "ending" => Answer \/ SurfaceErrors \/ pc = "ending"
         /\ pc' = "idle" \/ ~Leave
<1> USE DEF Unanswered, Unfinished, InTurn, PCs, Leave
<1>0. loc \in Locals /\ pc \in PCs
  BY DEF TypeInv, TypeOK
<1>1. CASE Enter
  BY <1>0, <1>1 DEF Enter, Call, Join, JoinFailed, AfterJoinError, JoinCancelled
<1>2. CASE Start
  BY <1>0, <1>2 DEF Start, StartTurn, TurnOpened, NoInput, QueueInput, SettleInput, Locals
<1>3. CASE CallLlm
  BY <1>0, <1>3 DEF CallLlm, Request, LlmFails, Replied, EmptyReply, TextReply, ForcedToolReply,
                    ToolReplyRaises, LimitReached, ToolReply, Locals
<1>4. CASE RunTools
  BY <1>0, <1>4 DEF RunTools, ToolsExecuted, ShowTools, GuardStops, ContinueTurn, Locals
<1>5. CASE Finish
  BY <1>0, <1>5 DEF Finish, EndTurn, SchedulePostProcess, Answer, SurfaceErrors, EndEvent
<1>6. CASE PostProcess \/ Environment \/ UNCHANGED vars
  BY <1>0, <1>6 DEF PostProcess, PostProcessStarts, PostProcessEnds, Environment, Abort,
                    AbortAtBarrier, Close, Cooldown, vars
<1> QED BY <1>1, <1>2, <1>3, <1>4, <1>5, <1>6 DEF Next

LEMMA StreamStep == TypeInv /\ StreamInv /\ [Next]_vars => StreamInv'
<1> SUFFICES ASSUME TypeInv, StreamInv, [Next]_vars PROVE StreamInv'
  OBVIOUS
<1>1. out \in Seq(EventKinds)
  BY DEF TypeInv, TypeOK
<1>2. ASSUME NEW t \in Seq(EventKinds), out' = out \o t
      PROVE  \A e : SaysIn(out', e) <=> Says(e) \/ SaysIn(t, e)
  BY <1>1, <1>2, SaidFacts DEF Says
<1>3. /\ \A e, f : SaysIn(<<e>>, f) <=> e = f
      /\ \A f : SaysIn(Shown, f) => f # "text" /\ f # "retry"
      /\ \A f : SaysIn(Shown \o <<"repeat_guard">>, f) => f # "text" /\ f # "retry"
      /\ SaysIn(<<"final_answer", "text">>, "text")
  BY DEF SaysIn, Shown
<1>4. /\ \A e \in EventKinds : <<e>> \in Seq(EventKinds)
      /\ Shown \in Seq(EventKinds) /\ Shown \o <<"repeat_guard">> \in Seq(EventKinds)
      /\ <<"final_answer", "text">> \in Seq(EventKinds)
  BY DEF Shown, EventKinds
<1>5. CASE UNCHANGED out /\ ~Call /\ ~Answer /\ ~SurfaceErrors
  BY <1>5, PcMoves DEF StreamInv, Says
<1>6. CASE Call
  <2>1. pc' \in {"starting", "barrier"} /\ out' = <<>>
    BY <1>6 DEF Call
  <2>2. \A e : ~SaysIn(out', e)
    BY <2>1 DEF SaysIn
  <2> QED BY <2>1, <2>2 DEF StreamInv, Says
<1>7. CASE JoinFailed
  <2>1. pc = "barrier" /\ pc' = "joinError" /\ loc' = loc
    BY <1>7 DEF JoinFailed
  <2>2. \A e : SaysIn(out', e) <=> Says(e) \/ e = "error"
    BY <1>2, <1>3, <1>4, <1>7, Yields DEF EventKinds
  <2> QED BY <2>1, <2>2 DEF StreamInv, Says, Unanswered
<1>8. CASE EmptyReply /\ out' # out
  <2>1. pc = "streaming" /\ pc' = "request" /\ loc'.retried = TRUE
    BY <1>8 DEF EmptyReply, Replied, TypeInv, TypeOK, Locals
  <2>2. \A e : SaysIn(out', e) <=> Says(e) \/ e = "retry"
    BY <1>2, <1>3, <1>4, <1>8, Yields DEF EventKinds
  <2> QED BY <2>1, <2>2 DEF StreamInv, Says, Unanswered, Unfinished, InTurn, PCs
<1>9. CASE ShowTools \/ GuardStops \/ ContinueTurn
  <2>1. /\ pc \in {"captured", "continuing"} /\ pc' \in {"continuing", "request"}
        /\ loc'.retried = loc.retried
    BY <1>9 DEF ShowTools, GuardStops, ContinueTurn, TypeInv, TypeOK, Locals
  <2>2. \A e \in {"text", "retry"} : SaysIn(out', e) <=> Says(e)
    <3>1. CASE out' = out \o Shown
      BY <1>2, <1>3, <1>4, <3>1
    <3>2. CASE out' = out \o (Shown \o <<"repeat_guard">>)
      BY <1>2, <1>3, <1>4, <3>2
    <3>3. CASE out' = out \o <<"iteration_complete">>
      BY <1>2, <1>3, <1>4, <3>3 DEF EventKinds
    <3> QED BY <1>9, <3>1, <3>2, <3>3, Yields
  <2> QED BY <2>1, <2>2 DEF StreamInv, Says, Unanswered, Unfinished, InTurn, PCs
<1>10. CASE Answer
  <2>1. pc' \in {"erroring", "ending"}
    BY <1>10 DEF Answer
  <2>2. SaysIn(out', "text") /\ out' # <<>> /\ out'[Len(out')] = "text"
    <3>1. CASE out' = out \o <<"text">>
      <4>1. SaysIn(out', "text")
        BY <1>2, <1>3, <1>4, <3>1 DEF EventKinds
      <4> QED BY <1>1, <3>1, <4>1
    <3>2. CASE out' = out \o <<"final_answer", "text">>
      <4>1. SaysIn(out', "text")
        BY <1>2, <1>3, <1>4, <3>2
      <4> QED BY <1>1, <3>2, <4>1
    <3> QED BY <1>10, <3>1, <3>2, Yields
  <2> QED BY <2>1, <2>2 DEF StreamInv, Says, Unanswered, Unfinished, InTurn, PCs
<1>11. CASE SurfaceErrors \/ EndEvent
  <2>1. pc \in {"erroring", "ending"} /\ pc' \in {"ending", "idle"}
    BY <1>11 DEF SurfaceErrors, EndEvent, Leave
  <2>2. Says("text") => SaysIn(out', "text")
    <3>1. CASE out' = out \o <<"error">>
      BY <1>2, <1>4, <3>1 DEF EventKinds
    <3>2. CASE out' = out \o <<"end">>
      BY <1>2, <1>4, <3>2 DEF EventKinds
    <3> QED BY <1>11, <3>1, <3>2, Yields
  <2> QED BY <2>1, <2>2 DEF StreamInv, Says, Unanswered, Unfinished, InTurn, PCs
<1> QED BY <1>5, <1>6, <1>7, <1>8, <1>9, <1>10, <1>11, Movers

LEMMA StreamInvariant == Spec => []StreamInv
<1>1. Init => StreamInv
  BY DEF Init, StreamInv, Unanswered, Unfinished, InTurn, PCs
<1> QED BY <1>1, StreamStep, TypeInvariant, PTL DEF Spec

(* The contract's view of where turn() stands.                              *)
Phase == IF pc = "idle" THEN "idle" ELSE IF Settled THEN "settled" ELSE "open"

LEMMA PhaseFacts ==
  /\ pc \in Unfinished \cup {"barrier", "joinError"} => Phase = "open"
  /\ pc \in {"answering", "erroring", "ending"} => Phase = "settled"
  /\ pc = "idle" => Phase = "idle"
BY DEF Phase, Settled, Unfinished, InTurn, PCs

(* Each of the contract's actions, as the events it adds and the phases.    *)
LEMMA WorkFacts ==
  ASSUME Phase = "open", Phase' = "open", NEW new,
         \/ new = <<"retry">> /\ ~Says("retry")
         \/ new \in {Shown, Shown \o <<"repeat_guard">>, <<"iteration_complete">>},
         out' = out \o new
  PROVE  Contract!Work
<1> DEFINE P == Contract!Progress
<1>1. new \in Seq(P) /\ Len(new) \in 1..3
  <2> DEFINE r == <<"retry">>
             c == <<"iteration_complete">>
             g == <<"repeat_guard">>
             t == Shown \o g
  <2>1. /\ r \in Seq(P) /\ c \in Seq(P) /\ g \in Seq(P) /\ Shown \in Seq(P)
        /\ Len(r) = 1 /\ Len(c) = 1 /\ Len(g) = 1 /\ Len(Shown) = 2
    BY DEF Contract!Progress, Shown
  <2>2. new \in {r, Shown, t, c}
    OBVIOUS
  <2>3. t \in Seq(P) /\ Len(t) = 3
    <3> HIDE DEF P, g
    <3>1. \A s, u \in Seq(P) : s \o u \in Seq(P) /\ Len(s \o u) = Len(s) + Len(u)
      OBVIOUS
    <3>2. t \in Seq(P) /\ Len(t) = Len(Shown) + Len(g)
      BY <2>1, <3>1
    <3> QED BY <2>1, <3>2
  <2> HIDE DEF P, r, c, g, t
  <2> QED BY <2>1, <2>2, <2>3
<1>2. new \in UNION {[1..n -> P] : n \in 1..3}
  <2> HIDE DEF P
  <2>1. \A s \in Seq(P) : s \in [1..Len(s) -> P]
    OBVIOUS
  <2> QED BY <1>1, <2>1
<1>3. ~(Contract!Has("retry") /\ \E i \in DOMAIN new : new[i] = "retry")
  <2>1. CASE ~Says("retry")
    BY <2>1 DEF Contract!Has, Says, SaysIn
  <2>2. CASE new \in {Shown, Shown \o <<"repeat_guard">>, <<"iteration_complete">>}
    <3>1. \A i \in DOMAIN new : new[i] # "retry"
      BY <2>2 DEF Shown
    <3> QED BY <3>1
  <2> QED BY <2>1, <2>2
<1> HIDE DEF P
<1> QED BY <1>2, <1>3 DEF Contract!Work, Phase, P

LEMMA ContractStep == TypeInv /\ StreamInv /\ [Next]_vars => [Contract!Next]_<<Phase, out>>
<1> SUFFICES ASSUME TypeInv, StreamInv, [Next]_vars
             PROVE  Contract!Next \/ (Phase' = Phase /\ out' = out)
  OBVIOUS
<1> USE DEF Contract!Next
<1>1. ASSUME pc' = "idle", pc # "idle", out' = out PROVE Contract!Stop
  BY <1>1 DEF Contract!Stop
<1>2. CASE Leave /\ out' = out
  <2>1. pc' = "idle"
    BY <1>2 DEF Leave
  <2>2. CASE pc = "idle"
    BY <1>2, <2>1, <2>2 DEF Phase
  <2> QED BY <1>1, <1>2, <2>1, <2>2
<1>3. CASE Call
  <2>1. Phase = "idle" /\ Phase' = "open" /\ out' = <<>>
    BY <1>3 DEF Call, Phase, Settled
  <2> QED BY <2>1 DEF Contract!Begin, Phase
<1>4. CASE JoinFailed
  <2>1. Phase = "open" /\ Phase' = "open" /\ out = <<>> /\ out' = <<"error">>
    BY <1>4 DEF JoinFailed, Phase, Settled, StreamInv
  <2> QED BY <2>1 DEF Contract!DeferredError, Phase
<1>5. CASE EmptyReply
  <2>1. pc = "streaming" /\ Phase = "open" /\ Phase' = "open"
    BY <1>5 DEF EmptyReply, Replied, Phase, Settled
  <2>2. CASE out' = out \o <<"retry">> /\ out' # out
    <3>1. ~Says("retry")
      BY <1>5, <2>1, <2>2 DEF EmptyReply, StreamInv, Unanswered, Unfinished, InTurn, PCs
    <3> QED BY <2>1, <2>2, <3>1, WorkFacts
  <2>3. CASE out' = out
    BY <2>1, <2>3
  <2> QED BY <1>5, <2>2, <2>3, Yields
<1>6. CASE ShowTools \/ GuardStops \/ ContinueTurn
  <2>1. Phase = "open" /\ Phase' = "open"
    BY <1>6 DEF ShowTools, GuardStops, ContinueTurn, Phase, Settled
  <2> QED BY <1>6, <2>1, Yields, WorkFacts
<1>7. CASE SchedulePostProcess
  BY <1>7 DEF SchedulePostProcess, Contract!Settle, Settled
<1>8. CASE Answer
  <2>1. Phase = "settled" /\ Phase' = "settled"
    BY <1>8 DEF Answer, Phase, Settled
  <2>2. ~Contract!Has("text")
    BY <1>8 DEF Answer, StreamInv, Unanswered, Says, SaysIn, Contract!Has
  <2> QED BY <1>8, <2>1, <2>2, Yields DEF Contract!GiveAnswer, Phase
<1>9. CASE SurfaceErrors
  <2>1. Phase = "settled" /\ Phase' = "settled" /\ out # <<>> /\ out[Len(out)] = "text"
    BY <1>9 DEF SurfaceErrors, Phase, Settled, StreamInv
  <2> QED BY <1>9, <2>1 DEF SurfaceErrors, Contract!InBandErrors, Phase
<1>10. CASE EndEvent
  <2>1. Phase = "settled" /\ Phase' = "idle" /\ Contract!Has("text")
    BY <1>10 DEF EndEvent, Leave, Phase, Settled, StreamInv, Says, SaysIn, Contract!Has
  <2> QED BY <1>10, <2>1 DEF EndEvent, Contract!End, Phase
<1>11. CASE Join \/ AfterJoinError \/ Start \/ TextReply \/ ForcedToolReply \/ LimitReached
            \/ ToolReply \/ ToolsExecuted \/ EndTurn
  BY <1>11 DEF Join, AfterJoinError, Start, StartTurn, TurnOpened, NoInput, QueueInput, SettleInput,
               Replied, TextReply, ForcedToolReply, LimitReached, ToolReply, ToolsExecuted, EndTurn,
               Phase, Settled
<1>12. CASE Request
  BY <1>2, <1>12 DEF Request, Phase, Settled
<1>13. CASE JoinCancelled \/ LlmFails \/ ToolReplyRaises \/ Abort \/ AbortAtBarrier
  BY <1>2, <1>13 DEF JoinCancelled, LlmFails, ToolReplyRaises, Abort, AbortAtBarrier
<1>14. CASE PostProcess \/ Close \/ Cooldown \/ UNCHANGED vars
  BY <1>14 DEF PostProcess, PostProcessStarts, PostProcessEnds, Close, Cooldown, vars, Phase, Settled
<1> QED
  BY <1>3, <1>4, <1>5, <1>6, <1>7, <1>8, <1>9, <1>10, <1>11, <1>12, <1>13, <1>14
  DEF Next, Enter, CallLlm, RunTools, Finish, Environment

(* The event stream is the one TurnContract promises, whatever the LLM       *)
(* answers and wherever the turn is cut off: the turn is settled before its  *)
(* answer, one retry, one end, errors at the two places they are allowed.    *)
THEOREM StreamKeepsContract == Spec => KeepsContract
<1>1. Init => Contract!Init
  BY DEF Init, Contract!Init
<1> QED BY <1>1, ContractStep, TypeInvariant, StreamInvariant, PTL
        DEF Spec, KeepsContract, Contract!Spec, Phase

-----------------------------------------------------------------------------
(* What has been shown is kept.                                             *)

(* What a step does to the history, its turn and the events shown.          *)
LEMMA AnswerMoves ==
  ASSUME TypeInv, [Next]_vars
  PROVE  \/ Call \/ EndTurn \/ SchedulePostProcess \/ Answer \/ SurfaceErrors \/ EndEvent
         \/ /\ pc' \in {"closing", "answering", "erroring", "ending"} => pc' = pc
            /\ finalized' = finalized
            /\ UNCHANGED <<hist, turnSeq>> \/ (pc \in Unanswered /\ pc' \in Unanswered \ {"closing", "answering"})
            /\ out' = out \/ pc' \in Unanswered
<1> USE DEF Unanswered, Unfinished, InTurn, PCs, Leave, sessionVars, ppVars
<1>1. CASE Enter
  BY <1>1 DEF Enter, Call, Join, JoinFailed, AfterJoinError, JoinCancelled
<1>2. CASE Start
  BY <1>2 DEF Start, StartTurn, TurnOpened, NoInput, QueueInput, SettleInput
<1>3. CASE CallLlm
  BY <1>3 DEF CallLlm, Request, LlmFails, Replied, EmptyReply, TextReply, ForcedToolReply,
              ToolReplyRaises, LimitReached, ToolReply
<1>4. CASE RunTools
  BY <1>4 DEF RunTools, ToolsExecuted, ShowTools, GuardStops, ContinueTurn
<1>5. CASE Finish
  BY <1>5 DEF Finish
<1>6. CASE PostProcess \/ Environment \/ UNCHANGED vars
  BY <1>6 DEF PostProcess, PostProcessStarts, PostProcessEnds, Environment, Abort,
              AbortAtBarrier, Close, Cooldown, vars
<1> QED BY <1>1, <1>2, <1>3, <1>4, <1>5, <1>6 DEF Next

LEMMA AnswerStep == TypeInv /\ StreamInv /\ AnswerInv /\ [Next]_vars => AnswerInv'
<1> SUFFICES ASSUME TypeInv, StreamInv, AnswerInv, [Next]_vars PROVE AnswerInv'
  OBVIOUS
<1>1. pc \in Unanswered => ~Says("text")
  BY DEF StreamInv
<1>2. pc' \in Unanswered => ~SaysIn(out', "text")
  BY StreamStep DEF StreamInv, Says
<1>3. CASE Call
  BY <1>2, <1>3 DEF Call, AnswerInv, Unanswered, Unfinished, InTurn, PCs, Says
<1>4. CASE EndTurn
  <2>1. hist' = (hist \o buf) \o <<Msg("answer")>> /\ turnSeq' = turnSeq /\ pc' = "closing"
    BY <1>4 DEF EndTurn
  <2>2. Msg("answer").kind = "answer" /\ Msg("answer").turn = turnSeq
    BY DEF Msg
  <2>3. /\ hist \o buf \in Seq(Messages) /\ Msg("answer") \in Messages
    BY DEF TypeInv, TypeOK, Msg, Messages, MessageKinds, Locals
  <2>4. \A h \in Seq(Messages), m \in Messages : h \o <<m>> # <<>> /\ (h \o <<m>>)[Len(h \o <<m>>)] = m
    OBVIOUS
  <2>5. EndsIn(hist', turnSeq')
    BY <2>1, <2>2, <2>3, <2>4 DEF EndsIn
  <2> QED BY <1>2, <2>1, <2>5 DEF AnswerInv, Unanswered, Unfinished, InTurn, PCs, Says
<1>5. CASE SchedulePostProcess
  BY <1>2, <1>5 DEF SchedulePostProcess, AnswerInv, sessionVars, Unanswered, Says
<1>6. CASE Answer \/ SurfaceErrors \/ EndEvent
  BY <1>6 DEF Answer, SurfaceErrors, EndEvent, Leave, AnswerInv, sessionVars, ppVars
<1>7. CASE /\ pc' \in {"closing", "answering", "erroring", "ending"} => pc' = pc
           /\ finalized' = finalized
           /\ UNCHANGED <<hist, turnSeq>> \/ (pc \in Unanswered /\ pc' \in Unanswered \ {"closing", "answering"})
           /\ out' = out \/ pc' \in Unanswered
  <2>1. CASE UNCHANGED <<hist, turnSeq>>
    BY <1>2, <1>7, <2>1 DEF AnswerInv, Says
  <2>2. CASE pc \in Unanswered /\ pc' \in Unanswered \ {"closing", "answering"}
    BY <1>2, <2>2 DEF AnswerInv, Says, Unanswered, Unfinished, InTurn, PCs
  <2> QED BY <1>7, <2>1, <2>2
<1> QED BY <1>3, <1>4, <1>5, <1>6, <1>7, AnswerMoves

(* An answer the caller was shown, even one it stopped reading after, is the *)
(* last message of the history, and its post-processing has been scheduled.  *)
THEOREM ShownAnswersAreKept == Spec => []AnswerIsCaptured
<1>1. Init => AnswerInv
  BY DEF Init, AnswerInv, Says, SaysIn
<1>2. AnswerInv => AnswerIsCaptured
  BY DEF AnswerInv, AnswerIsCaptured, EndsIn, Says, SaysIn
<1> QED BY <1>1, <1>2, AnswerStep, TypeInvariant, StreamInvariant, PTL DEF Spec

(* The messages of the turn under way stay what CurrentIn says of them.     *)
LEMMA KeptCurrent ==
  ASSUME TypeInv, [Next]_vars, NEW m \in Messages, CurrentIn(m, pc, loc, turnSeq)
  PROVE  CurrentIn(m, pc', loc', turnSeq')
<1> USE DEF CurrentIn, Unfinished, InTurn, PCs, Leave, sessionVars
<1>1. /\ m.turn \in Int /\ m.iter \in Nat /\ turnSeq \in Int /\ loc.iter \in Nat /\ loc \in Locals
  BY LoopAssumption DEF TypeInv, TypeOK, Messages, Locals, TurnIds
<1>2. CASE Leave /\ turnSeq' = turnSeq
  BY <1>2
<1>3. CASE Enter
  BY <1>2, <1>3 DEF Enter, Call, Join, JoinFailed, AfterJoinError, JoinCancelled
<1>4. CASE StartTurn
  BY <1>1, <1>4 DEF StartTurn
<1>5. CASE TurnOpened \/ NoInput \/ QueueInput
  BY <1>1, <1>5 DEF TurnOpened, NoInput, QueueInput
<1>6. CASE SettleInput
  <2>1. loc'.iter = loc.iter /\ loc'.mode = loc.mode
    BY <1>1, <1>6 DEF SettleInput, Locals
  <2> QED BY <1>1, <1>6, <2>1 DEF SettleInput
<1>7. CASE Request \/ LlmFails \/ TextReply \/ ForcedToolReply \/ ToolReplyRaises \/ ToolReply
  BY <1>2, <1>7 DEF Request, LlmFails, Replied, TextReply, ForcedToolReply, ToolReplyRaises, ToolReply
<1>8. CASE EmptyReply
  <2>1. pc = "streaming" /\ turnSeq' = turnSeq
    BY <1>8 DEF EmptyReply, Replied
  <2>2. CASE loc.mode = "plain" /\ ~loc.retried
    <3>1. pc' = "request" /\ loc'.iter = loc.iter
      BY <1>1, <1>8, <2>2 DEF EmptyReply, Locals
    <3> QED BY <2>1, <2>2, <3>1
  <2>3. CASE ~(loc.mode = "plain" /\ ~loc.retried)
    BY <1>8, <2>1, <2>3 DEF EmptyReply
  <2> QED BY <2>2, <2>3
<1>9. CASE LimitReached \/ GuardStops
  <2>1. /\ pc \in {"streaming", "captured"} /\ pc' = "request" /\ turnSeq' = turnSeq
        /\ loc'.iter = loc.iter /\ loc'.mode = "forced"
    BY <1>1, <1>9 DEF LimitReached, GuardStops, Replied, Locals
  <2> QED BY <2>1
<1>10. CASE ToolsExecuted
  <2>1. pc' = "captured" /\ turnSeq' = turnSeq /\ loc'.iter = loc.iter
    BY <1>1, <1>10 DEF ToolsExecuted, Locals
  <2> QED BY <1>10, <2>1 DEF ToolsExecuted
<1>11. CASE ShowTools \/ EndTurn \/ SchedulePostProcess \/ Answer \/ SurfaceErrors \/ EndEvent
  BY <1>2, <1>11 DEF ShowTools, EndTurn, SchedulePostProcess, Answer, SurfaceErrors, EndEvent
<1>12. CASE ContinueTurn
  <2>1. pc' = "request" /\ turnSeq' = turnSeq /\ loc'.iter = loc.iter + 1
    BY <1>1, <1>12 DEF ContinueTurn, Locals
  <2> QED BY <1>1, <1>12, <2>1 DEF ContinueTurn
<1>13. CASE PostProcess \/ Environment \/ UNCHANGED vars
  BY <1>2, <1>13 DEF PostProcess, PostProcessStarts, PostProcessEnds, Environment, Abort,
               AbortAtBarrier, Close, Cooldown, vars
<1> QED BY <1>3, <1>4, <1>5, <1>6, <1>7, <1>8, <1>9, <1>10, <1>11, <1>12, <1>13
        DEF Next, Start, CallLlm, RunTools, Finish

LEMMA ConcatFacts ==
  ASSUME NEW S
  PROVE  \A s, t \in Seq(S) :
           /\ s \o t \in Seq(S) /\ Len(s \o t) = Len(s) + Len(t) /\ Len(s) \in Nat /\ Len(t) \in Nat
           /\ \A i \in 1..Len(s) : (s \o t)[i] = s[i]
           /\ \A i \in 1..Len(t) : (s \o t)[Len(s) + i] = t[i]
OBVIOUS

LEMMA PairFacts ==
  ASSUME NEW S, NEW h \in Seq(S), NEW c \in S, NEW r \in S
  PROVE  /\ h \o <<c, r>> \in Seq(S) /\ Len(h \o <<c, r>>) = Len(h) + 2
         /\ \A i \in 1..Len(h) : (h \o <<c, r>>)[i] = h[i]
         /\ (h \o <<c, r>>)[Len(h) + 1] = c /\ (h \o <<c, r>>)[Len(h) + 2] = r
<1> DEFINE p == <<c, r>>
<1>1. p \in Seq(S) /\ Len(p) = 2 /\ p[1] = c /\ p[2] = r
  OBVIOUS
<1> HIDE DEF p
<1>2. \A t \in Seq(S) :
        /\ h \o t \in Seq(S) /\ Len(h \o t) = Len(h) + Len(t)
        /\ \A i \in 1..Len(h) : (h \o t)[i] = h[i]
        /\ \A i \in 1..Len(t) : (h \o t)[Len(h) + i] = t[i]
  OBVIOUS
<1>3. /\ h \o p \in Seq(S) /\ Len(h \o p) = Len(h) + Len(p)
      /\ \A i \in 1..Len(h) : (h \o p)[i] = h[i]
      /\ \A i \in 1..Len(p) : (h \o p)[Len(h) + i] = p[i]
  BY <1>1, <1>2, Zenon
<1>4. 1 \in 1..Len(p) /\ 2 \in 1..Len(p)
  BY <1>1
<1>5. (h \o p)[Len(h) + 1] = c
  BY <1>1, <1>3, <1>4, Zenon
<1>6. (h \o p)[Len(h) + 2] = r
  BY <1>1, <1>3, <1>4, Zenon
<1>7. /\ h \o p \in Seq(S) /\ Len(h \o p) = Len(h) + 2
      /\ \A i \in 1..Len(h) : (h \o p)[i] = h[i]
      /\ (h \o p)[Len(h) + 1] = c /\ (h \o p)[Len(h) + 2] = r
  BY <1>1, <1>3, <1>5, <1>6, Zenon
<1> QED BY <1>7 DEF p

(* Adding a message, or a pair of calls and results, to a paired history.   *)
LEMMA AppendPaired ==
  ASSUME NEW h \in Seq(Messages), PairedIn(h), NEW m \in Messages, m.kind \in {"user", "answer"},
         \A i \in 1..Len(h) : h[i] # m /\ h[i].turn <= m.turn
  PROVE  PairedIn(Append(h, m))
<1> DEFINE g == Append(h, m)
           n == Len(h)
<1>1. n \in Nat /\ Len(g) = n + 1 /\ g[n + 1] = m /\ \A i \in 1..n : g[i] = h[i]
  OBVIOUS
<1>2. \A i \in 1..(n + 1) : i \in 1..n \/ i = n + 1
  BY <1>1
<1> HIDE DEF g, n
<1> SUFFICES ASSUME NEW i \in 1..(n + 1)
             PROVE  /\ g[i].kind = "calls" =>
                         i + 1 \in 1..Len(g) /\ g[i + 1] = [g[i] EXCEPT !.kind = "results"]
                    /\ g[i].kind = "results" => i > 1 /\ g[i - 1].kind = "calls"
                    /\ \A j \in 1..Len(g) : i < j => g[i] # g[j] /\ g[i].turn <= g[j].turn
  BY <1>1 DEF PairedIn, g
<1>3. CASE i = n + 1
  BY <1>1, <1>3
<1>4. CASE i \in 1..n
  <2>1. g[i] = h[i]
    BY <1>1, <1>4
  <2>2. g[i].kind = "calls" => i + 1 \in 1..Len(g) /\ g[i + 1] = [g[i] EXCEPT !.kind = "results"]
    <3> SUFFICES ASSUME g[i].kind = "calls"
                 PROVE  i + 1 \in 1..Len(g) /\ g[i + 1] = [g[i] EXCEPT !.kind = "results"]
      OBVIOUS
    <3>1. i + 1 \in 1..n /\ h[i + 1] = [h[i] EXCEPT !.kind = "results"]
      BY <1>4, <2>1 DEF PairedIn, n
    <3>2. g[i + 1] = h[i + 1]
      BY <1>1, <3>1
    <3> QED BY <1>1, <2>1, <3>1, <3>2
  <2>3. g[i].kind = "results" => i > 1 /\ g[i - 1].kind = "calls"
    <3> SUFFICES ASSUME g[i].kind = "results" PROVE i > 1 /\ g[i - 1].kind = "calls"
      OBVIOUS
    <3>1. i > 1 /\ h[i - 1].kind = "calls"
      BY <1>4, <2>1 DEF PairedIn, n
    <3>2. g[i - 1] = h[i - 1]
      BY <1>1, <1>4, <3>1
    <3> QED BY <3>1, <3>2
  <2>4. \A j \in 1..Len(g) : i < j => g[i] # g[j] /\ g[i].turn <= g[j].turn
    <3> SUFFICES ASSUME NEW j \in 1..(n + 1), i < j PROVE g[i] # g[j] /\ g[i].turn <= g[j].turn
      BY <1>1
    <3>1. CASE j = n + 1
      BY <1>1, <1>4, <2>1, <3>1 DEF n
    <3>2. CASE j \in 1..n
      <4>1. h[i] # h[j] /\ h[i].turn <= h[j].turn
        BY <1>4, <3>2 DEF PairedIn, n
      <4> QED BY <1>1, <2>1, <3>2, <4>1
    <3> QED BY <1>2, <3>1, <3>2
  <2> QED BY <2>2, <2>3, <2>4
<1> QED BY <1>2, <1>3, <1>4

LEMMA PairPaired ==
  ASSUME NEW h \in Seq(Messages), PairedIn(h), NEW c \in Messages, NEW r \in Messages,
         c.kind = "calls", r.kind = "results", r = [c EXCEPT !.kind = "results"], r.turn = c.turn,
         \A i \in 1..Len(h) : h[i] # c /\ h[i] # r /\ h[i].turn <= c.turn
  PROVE  PairedIn(h \o <<c, r>>)
<1> DEFINE g == h \o <<c, r>>
           n == Len(h)
<1>1. n \in Nat /\ Len(g) = n + 2 /\ g[n + 1] = c /\ g[n + 2] = r /\ \A i \in 1..n : g[i] = h[i]
  BY PairFacts
<1>2. \A i \in 1..(n + 2) : i \in 1..n \/ i = n + 1 \/ i = n + 2
  BY <1>1
<1>3. c # r
  OBVIOUS
<1>4. c.turn \in Int
  BY LoopAssumption DEF Messages, TurnIds
<1> HIDE DEF g, n
<1> SUFFICES ASSUME NEW i \in 1..(n + 2)
             PROVE  /\ g[i].kind = "calls" =>
                         i + 1 \in 1..Len(g) /\ g[i + 1] = [g[i] EXCEPT !.kind = "results"]
                    /\ g[i].kind = "results" => i > 1 /\ g[i - 1].kind = "calls"
                    /\ \A j \in 1..Len(g) : i < j => g[i] # g[j] /\ g[i].turn <= g[j].turn
  BY <1>1 DEF PairedIn, g
<1>5. CASE i = n + 1
  <2>1. g[i] = c /\ g[i + 1] = r /\ i + 1 \in 1..Len(g)
    BY <1>1, <1>5
  <2>2. \A j \in 1..Len(g) : i < j => g[j] = r
    BY <1>1, <1>2, <1>5
  <2>3. g[i].kind = "calls" /\ g[i + 1] = [g[i] EXCEPT !.kind = "results"]
    BY <2>1
  <2>4. \A j \in 1..Len(g) : i < j => g[i] # g[j] /\ g[i].turn <= g[j].turn
    <3> SUFFICES ASSUME NEW j \in 1..Len(g), i < j PROVE g[i] # g[j] /\ g[i].turn <= g[j].turn
      OBVIOUS
    <3>1. g[i] = c /\ g[j] = r
      BY <2>1, <2>2
    <3> QED BY <1>3, <1>4, <3>1
  <2> QED BY <2>1, <2>3, <2>4
<1>6. CASE i = n + 2
  <2>1. g[i] = r /\ g[i - 1] = c /\ i > 1 /\ \A j \in 1..Len(g) : ~(i < j)
    BY <1>1, <1>6
  <2> QED BY <2>1
<1>7. CASE i \in 1..n
  <2>1. g[i] = h[i]
    BY <1>1, <1>7
  <2>2. g[i].kind = "calls" => i + 1 \in 1..Len(g) /\ g[i + 1] = [g[i] EXCEPT !.kind = "results"]
    <3> SUFFICES ASSUME g[i].kind = "calls"
                 PROVE  i + 1 \in 1..Len(g) /\ g[i + 1] = [g[i] EXCEPT !.kind = "results"]
      OBVIOUS
    <3>1. i + 1 \in 1..n /\ h[i + 1] = [h[i] EXCEPT !.kind = "results"]
      BY <1>7, <2>1 DEF PairedIn, n
    <3>2. g[i + 1] = h[i + 1]
      BY <1>1, <3>1
    <3> QED BY <1>1, <2>1, <3>1, <3>2
  <2>3. g[i].kind = "results" => i > 1 /\ g[i - 1].kind = "calls"
    <3> SUFFICES ASSUME g[i].kind = "results" PROVE i > 1 /\ g[i - 1].kind = "calls"
      OBVIOUS
    <3>1. i > 1 /\ h[i - 1].kind = "calls"
      BY <1>7, <2>1 DEF PairedIn, n
    <3>2. g[i - 1] = h[i - 1]
      BY <1>1, <1>7, <3>1
    <3> QED BY <3>1, <3>2
  <2>4. \A j \in 1..Len(g) : i < j => g[i] # g[j] /\ g[i].turn <= g[j].turn
    <3> SUFFICES ASSUME NEW j \in 1..(n + 2), i < j PROVE g[i] # g[j] /\ g[i].turn <= g[j].turn
      BY <1>1
    <3>1. CASE j = n + 1 \/ j = n + 2
      BY <1>1, <1>7, <2>1, <3>1 DEF n
    <3>2. CASE j \in 1..n
      <4>1. h[i] # h[j] /\ h[i].turn <= h[j].turn
        BY <1>7, <3>2 DEF PairedIn, n
      <4> QED BY <1>1, <2>1, <3>2, <4>1
    <3> QED BY <1>2, <3>1, <3>2
  <2> QED BY <2>2, <2>3, <2>4
<1> QED BY <1>2, <1>5, <1>6, <1>7

LEMMA HistoryStep == TypeInv /\ BoundInv /\ HistoryInv /\ [Next]_vars => HistoryInv'
<1> SUFFICES ASSUME TypeInv, BoundInv, HistoryInv, [Next]_vars PROVE HistoryInv'
  OBVIOUS
<1> DEFINE h == AllMessages
<1>1. /\ hist \in Seq(Messages) /\ buf \in Seq(Messages) /\ h \in Seq(Messages)
      /\ hist' \in Seq(Messages) /\ buf' \in Seq(Messages) /\ AllMessages' \in Seq(Messages)
  BY MessagesType, ConcatFacts DEF TypeInv, TypeOK, AllMessages
<1>2. PairedIn(hist) /\ PairedIn(h)
  BY DEF HistoryInv
<1>3. \A i \in 1..Len(h) : h[i] \in Messages /\ CurrentIn(h[i], pc, loc, turnSeq)
  BY <1>1 DEF HistoryInv
<1>4. \A i \in 1..Len(h) : CurrentIn(h[i], pc', loc', turnSeq')
  BY <1>3, KeptCurrent
<1>5. Len(hist) <= Len(h) /\ \A i \in 1..Len(hist) : hist[i] = h[i] /\ i \in 1..Len(h)
  BY <1>1, ConcatFacts DEF AllMessages
<1>6. \A kind \in MessageKinds :
        /\ Msg(kind) \in Messages /\ Msg(kind).kind = kind
        /\ Msg(kind).turn = turnSeq /\ Msg(kind).iter = loc.iter
  BY DEF TypeInv, TypeOK, Msg, Messages, Locals
<1>7. turnSeq \in Int /\ loc.iter \in Nat /\ \A m \in Messages : m.turn \in Int /\ m.iter \in Nat
  BY LoopAssumption DEF TypeInv, TypeOK, Messages, Locals, TurnIds
<1> HIDE DEF h
<1>8. CASE UNCHANGED <<buf, hist>>
  BY <1>2, <1>4, <1>8 DEF HistoryInv, AllMessages, h
<1>9. CASE StartTurn
  <2>1. hist' = hist /\ AllMessages' = hist
    BY <1>1, <1>9 DEF StartTurn, AllMessages
  <2> QED BY <1>2, <1>4, <1>5, <2>1 DEF HistoryInv
<1>10. CASE SettleInput \/ ContinueTurn
  <2>1. hist' = h /\ AllMessages' = h
    <3>1. hist' = h /\ buf' = <<>>
      BY <1>10 DEF SettleInput, ContinueTurn, Drain, AllMessages, h
    <3>2. h \o <<>> = h
      BY <1>1
    <3> QED BY <3>1, <3>2 DEF AllMessages
  <2> QED BY <1>2, <1>4, <2>1 DEF HistoryInv
<1>11. ASSUME NEW m \in Messages, m.kind \in {"user", "answer"}, m.turn = turnSeq,
             \A i \in 1..Len(h) : h[i] # m, CurrentIn(m, pc', loc', turnSeq'),
             AllMessages' = Append(h, m), hist' \in {hist, Append(h, m)}
      PROVE  HistoryInv'
  <2>1. \A i \in 1..Len(h) : h[i] # m /\ h[i].turn <= m.turn
    BY <1>3, <1>11 DEF CurrentIn
  <2>2. PairedIn(Append(h, m))
    BY <1>1, <1>2, <1>11, <2>1, AppendPaired
  <2>3. \A i \in 1..Len(Append(h, m)) : CurrentIn(Append(h, m)[i], pc', loc', turnSeq')
    <3>1. Len(Append(h, m)) = Len(h) + 1 /\ Append(h, m)[Len(h) + 1] = m /\ Len(h) \in Nat
          /\ \A i \in 1..Len(h) : Append(h, m)[i] = h[i]
      BY <1>1
    <3>2. \A i \in 1..(Len(h) + 1) : i \in 1..Len(h) \/ i = Len(h) + 1
      BY <3>1
    <3> QED BY <1>4, <1>11, <3>1, <3>2
  <2> QED BY <1>2, <1>11, <2>2, <2>3 DEF HistoryInv
<1>12. CASE QueueInput
  <2> DEFINE m == Msg("user")
  <2>1. /\ m \in Messages /\ m.kind = "user" /\ m.turn = turnSeq
    BY <1>6 DEF MessageKinds
  <2>2. AllMessages' = Append(h, m) /\ hist' = hist /\ pc = "input" /\ pc' = "settling" /\ turnSeq' = turnSeq
    <3>1. hist \o Append(buf, m) = Append(hist \o buf, m)
      BY <1>1, <2>1
    <3> QED BY <1>12, <3>1 DEF QueueInput, AllMessages, h
  <2> HIDE DEF m
  <2>3. \A i \in 1..Len(h) : h[i] # m
    BY <1>3, <1>7, <2>1, <2>2 DEF CurrentIn
  <2>4. CurrentIn(m, pc', loc', turnSeq')
    BY <1>7, <2>1, <2>2 DEF CurrentIn
  <2> QED BY <1>11, <2>1, <2>2, <2>3, <2>4
<1>13. CASE EndTurn
  <2> DEFINE m == Msg("answer")
  <2>1. /\ m \in Messages /\ m.kind = "answer" /\ m.turn = turnSeq
    BY <1>6 DEF MessageKinds
  <2>2. /\ AllMessages' = Append(h, m) /\ hist' = Append(h, m)
        /\ pc = "finalizing" /\ pc' = "closing" /\ turnSeq' = turnSeq
    <3>1. (hist \o buf) \o <<m>> = Append(h, m)
      BY <1>1, <2>1 DEF h, AllMessages
    <3>2. Append(h, m) \o <<>> = Append(h, m)
      BY <1>1, <2>1
    <3> QED BY <1>13, <3>1, <3>2 DEF EndTurn, AllMessages
  <2> HIDE DEF m
  <2>3. \A i \in 1..Len(h) : h[i] # m
    BY <1>3, <2>1, <2>2 DEF CurrentIn, Unfinished, InTurn, PCs
  <2>4. CurrentIn(m, pc', loc', turnSeq')
    BY <1>7, <2>1, <2>2 DEF CurrentIn
  <2> QED BY <1>11, <2>1, <2>2, <2>3, <2>4
<1>14. CASE LimitReached \/ ToolsExecuted
  <2> DEFINE c == Msg("calls")
             r == Msg("results")
             g == h \o <<c, r>>
  <2>1. /\ c \in Messages /\ c.kind = "calls" /\ c.turn = turnSeq /\ c.iter = loc.iter
        /\ r \in Messages /\ r.kind = "results" /\ r.turn = turnSeq /\ r.iter = loc.iter
    BY <1>6 DEF MessageKinds
  <2>2. r = [c EXCEPT !.kind = "results"]
    BY DEF Msg
  <2>3. /\ pc \in {"streaming", "executing"} /\ loc.mode # "forced"
        /\ (pc' = "captured" \/ (pc' = "request" /\ loc'.mode = "forced"))
        /\ loc'.iter = loc.iter /\ turnSeq' = turnSeq
    BY <1>14 DEF LimitReached, ToolsExecuted, Replied, BoundInv, CallsInv, TypeInv, TypeOK, Locals
  <2>4. hist' = hist /\ AllMessages' = g
    <3>1. hist \o (buf \o <<c, r>>) = (hist \o buf) \o <<c, r>>
      <4>1. \A x, y, z \in Seq(Messages) : x \o (y \o z) = (x \o y) \o z
        OBVIOUS
      <4> DEFINE pair == <<c, r>>
      <4>2. pair \in Seq(Messages) /\ hist \in Seq(Messages) /\ buf \in Seq(Messages)
        BY <1>1, <2>1
      <4> HIDE DEF pair
      <4>3. hist \o (buf \o pair) = (hist \o buf) \o pair
        BY <4>1, <4>2
      <4> QED BY <4>3 DEF pair
    <3> QED BY <1>14, <3>1 DEF LimitReached, ToolsExecuted, Pair, AllMessages, h
  <2> HIDE DEF c, r
  <2>5. \A i \in 1..Len(h) : h[i] # c /\ h[i] # r /\ h[i].turn <= c.turn
    BY <1>3, <1>7, <2>1, <2>3 DEF CurrentIn, Unfinished, InTurn, PCs
  <2>6. PairedIn(g)
    BY <1>1, <1>2, <2>1, <2>2, <2>5, PairPaired
  <2>7. CurrentIn(c, pc', loc', turnSeq') /\ CurrentIn(r, pc', loc', turnSeq')
    BY <1>7, <2>1, <2>3 DEF CurrentIn
  <2>8. \A i \in 1..Len(g) : CurrentIn(g[i], pc', loc', turnSeq')
    <3>1. Len(g) = Len(h) + 2 /\ Len(h) \in Nat /\ g[Len(h) + 1] = c /\ g[Len(h) + 2] = r
          /\ \A i \in 1..Len(h) : g[i] = h[i]
      BY <1>1, <2>1, PairFacts
    <3> HIDE DEF g
    <3>2. \A i \in 1..(Len(h) + 2) : i \in 1..Len(h) \/ i = Len(h) + 1 \/ i = Len(h) + 2
      BY <3>1
    <3> QED BY <1>4, <2>7, <3>1, <3>2
  <2> HIDE DEF g
  <2> QED BY <1>2, <2>4, <2>6, <2>8 DEF HistoryInv
<1> QED BY <1>8, <1>9, <1>10, <1>12, <1>13, <1>14, Movers

(* The session history stays a conversation, whatever was aborted: calls are *)
(* followed at once by their results, no message is there twice and none     *)
(* comes after one of a later turn.                                          *)
THEOREM HistoryStaysPaired == Spec => []PairedHistory
<1>1. Init => HistoryInv
  <2> SUFFICES ASSUME Init PROVE HistoryInv
    OBVIOUS
  <2>1. hist = <<>> /\ AllMessages = <<>>
    BY DEF Init, AllMessages
  <2> QED BY <2>1 DEF HistoryInv, PairedIn
<1>2. TypeInv /\ HistoryInv => PairedHistory
  <2> SUFFICES ASSUME TypeInv, HistoryInv PROVE PairedHistory
    OBVIOUS
  <2>1. DOMAIN hist = 1..Len(hist)
    BY DEF TypeInv, TypeOK
  <2> QED BY <2>1 DEF HistoryInv, PairedIn, PairedHistory
<1> QED BY <1>1, <1>2, HistoryStep, TypeInvariant, BoundInvariant, PTL DEF Spec

=============================================================================
