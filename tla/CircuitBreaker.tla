---------------------------- MODULE CircuitBreaker ----------------------------
(***************************************************************************)
(* The per-provider circuit breaker of sr2/degradation/circuit_breaker.py  *)
(* as operators on a breaker value.  The monotonic clock is abstracted to  *)
(* one flag, "cooled": recovery_timeout has elapsed since the breaker      *)
(* opened.  FailureThreshold is the constructor's failure_threshold.       *)
(***************************************************************************)
EXTENDS Naturals

CONSTANT FailureThreshold

ASSUME ThresholdAssumption == FailureThreshold \in Nat \ {0}

CircuitStates == {"closed", "open", "half_open"}

Breakers == [state : CircuitStates, failures : 0..FailureThreshold, cooled : BOOLEAN]

NewBreaker == [state |-> "closed", failures |-> 0, cooled |-> FALSE]

(* recovery_timeout elapses while the breaker is open. *)
Cooled(b) == [b EXCEPT !.cooled = TRUE]

(* allow_request: the answer, and the breaker it leaves behind.  A half-open *)
(* breaker admits every request, not one probe.                              *)
AllowsRequest(b) == b.state # "open" \/ b.cooled

AfterAllow(b) ==
  IF b.state = "open" /\ b.cooled THEN [b EXCEPT !.state = "half_open"] ELSE b

AfterSuccess(b) == IF b.state = "open" THEN b ELSE NewBreaker

Opened(b) == [b EXCEPT !.state = "open", !.cooled = FALSE]

Counted(b) == [b EXCEPT !.failures = b.failures + 1]

(* A bug: the threshold is compared before the failure is counted. *)
AfterFailureMutant(b) ==
  CASE b.state = "open"      -> b
    [] b.state = "half_open" -> Opened(b)
    [] b.state = "closed"    -> IF b.failures >= FailureThreshold
                                THEN Opened(b) ELSE Counted(b)

AfterFailure(b) ==
  CASE b.state = "open"      -> b
    [] b.state = "half_open" -> Opened(b)
    [] b.state = "closed"    -> IF b.failures + 1 >= FailureThreshold
                                THEN Opened(Counted(b)) ELSE Counted(b)

(* The count a closed breaker carries is below the threshold: the breaker   *)
(* can never sit closed on a provider that has used up its failures.        *)
CountBelowThreshold(b) == b.state = "closed" => b.failures < FailureThreshold

=============================================================================
