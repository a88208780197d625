---------------------------- MODULE SchedulesProofs ----------------------------
(***************************************************************************)
(* Proofs about Schedules, for every number of schedules and engines, every *)
(* period and every length of the run.                                     *)
(***************************************************************************)
EXTENDS Schedules, TLAPS

(* An engine that looks at a row has one.                                   *)
WorkInv == \A e \in Engines : at[e] \in {"skip", "claim", "run"} => cur[e] \in Rows

TypeInv == TypeOK /\ WorkInv

InPass == {"release", "scan", "skip", "claim", "run"}

(* As long as no engine was let go of while it was starting:                *)
(* - the interface's engine is the only one;                                *)
(* - a pass has its time behind it, and a row in hand is off its list;      *)
(* - a row nobody ran by hand waits for a time after its last occurrence,   *)
(*   which lies behind, and behind the time of the pass under way;          *)
(* - a row of a pass, listed or in hand, is due at the time of the pass.    *)
OnlyOwner == \A e \in Engines : at[e] # "none" => owner = e

PassInv ==
  \A e \in Engines :
    /\ at[e] \in InPass => fire[e] <= clock
    /\ at[e] \in {"skip", "claim", "run"} => cur[e] \notin todo[e]

RowInv ==
  \A s \in Rows \ moved :
    /\ last[s] < next[s] /\ last[s] <= clock
    /\ \A e \in Engines : at[e] \in InPass => last[s] <= fire[e]

InHand(e, s) ==
  \/ at[e] \in InPass \ {"release"} /\ s \in todo[e]
  \/ at[e] \in {"skip", "claim"} /\ s = cur[e]

DueInv ==
  \A e \in Engines, s \in Rows \ moved :
    InHand(e, s) => next[s] <= fire[e] /\ status[s] # "absent"

AloneInv ==
  alone => again \cup early \subseteq moved /\ OnlyOwner /\ PassInv /\ RowInv /\ DueInv

-----------------------------------------------------------------------------
(* The next occurrence is strictly later, and within a period.              *)
LEMMA NextIsLater ==
  ASSUME NEW t \in Nat
  PROVE  NextAfter(t) \in Nat /\ t < NextAfter(t) /\ NextAfter(t) <= t + Period
<1>1. Period \in Nat /\ Period > 0
  BY ScheduleAssumption
<1>2. t \div Period \in Int /\ t % Period \in 0..(Period - 1)
  BY <1>1
<1>3. t = Period * (t \div Period) + (t % Period)
  BY <1>1
<1>4. t \div Period \in Nat
  BY <1>1
<1> DEFINE q == t \div Period
           m == t % Period
<1>5. q \in Nat /\ m \in 0..(Period - 1) /\ t = Period * q + m
  BY <1>2, <1>3, <1>4
<1> HIDE DEF q, m
<1>6. (q + 1) * Period = Period * q + Period /\ Period * q \in Nat
  BY <1>1, <1>5
<1>7. NextAfter(t) = (q + 1) * Period
  BY DEF NextAfter, q
<1> QED BY <1>1, <1>5, <1>6, <1>7

(* An occurrence computed from a time on the clock is before the sentinel.  *)
LEMMA NextIsATime ==
  ASSUME NEW t \in Times
  PROVE  /\ Sentinel \in Nat /\ NextAfter(t) \in 0..Sentinel
         /\ NextAfter(t) # Sentinel /\ t < NextAfter(t)
BY NextIsLater, ScheduleAssumption DEF Times, Sentinel

LEMMA TypeInit == Init => TypeInv
BY ScheduleAssumption DEF Init, TypeInv, TypeOK, WorkInv, Stations, Times, Sentinel

LEMMA TypeStep == TypeInv /\ [Next]_vars => TypeInv'
<1> SUFFICES ASSUME TypeInv, [Next]_vars PROVE TypeInv'
  OBVIOUS
<1> USE ScheduleAssumption, NextIsATime DEF TypeInv, TypeOK, WorkInv
<1>1. ASSUME NEW s \in Rows, ToolStep(s) PROVE TypeInv'
  BY <1>1 DEF ToolStep, Create, Cancel, RunNow, engineVars, manualVars, historyVars, claimVars
<1>2. CASE RunNowEnds \/ RunNowDropped
  BY <1>2 DEF RunNowEnds, RunNowDropped, RunNowOver, engineVars, historyVars, claimVars, Times
<1>3. CASE Tick
  BY <1>3 DEF Tick, engineVars, manualVars, historyVars, claimVars, Times
<1>4. ASSUME NEW e \in Engines, StartEngine(e) PROVE TypeInv'
  BY <1>4 DEF StartEngine, Go, manualVars, historyVars, claimVars, Stations
<1>5. ASSUME NEW e \in Engines, ReadClaimed(e) \/ ReadDue(e) PROVE TypeInv'
  BY <1>5 DEF ReadClaimed, ReadDue, BeginPass, Go, manualVars, historyVars, claimVars, Stations,
              Claimed, Due, Active
<1>6. ASSUME NEW e \in Engines, Release(e) PROVE TypeInv'
  BY <1>6 DEF Release, Advance, manualVars, historyVars, claimVars
<1>7. ASSUME NEW e \in Engines, ReleaseDone(e) \/ PassDone(e) PROVE TypeInv'
  BY <1>7 DEF ReleaseDone, PassDone, EndPass, Go, manualVars, historyVars, claimVars, Stations, Times
<1>8. ASSUME NEW e \in Engines, TakeNext(e) PROVE TypeInv'
  BY <1>8 DEF TakeNext, Go, manualVars, historyVars, claimVars, Stations
<1>9. ASSUME NEW e \in Engines, Skip(e) \/ RunEnds(e) PROVE TypeInv'
  BY <1>9 DEF Skip, RunEnds, Advance, Drop, Go, manualVars, historyVars, claimVars, Stations
<1>10. ASSUME NEW e \in Engines, ClaimFails(e) PROVE TypeInv'
  BY <1>10 DEF ClaimFails, Drop, Go, manualVars, historyVars, claimVars, Stations
<1>11. ASSUME NEW e \in Engines, Claim(e) PROVE TypeInv'
  BY <1>11 DEF Claim, Active, Go, manualVars, Stations, Times, Sentinel
<1>12. ASSUME NEW E \in SUBSET Engines, CutOff(E)
       PROVE  /\ at' \in [Engines -> Stations] /\ polls' \subseteq Engines
              /\ fire' \in [Engines -> Times] /\ todo' \in [Engines -> SUBSET Rows]
              /\ cur' \in [Engines -> Rows \cup {None}] /\ owner' = None /\ WorkInv'
              /\ interrupts' \in 0..MaxInterrupts
              /\ UNCHANGED <<status, next, clock, claimVars, moved>>
  BY <1>12 DEF CutOff, Interrupt, Stations, Times
<1>13. ASSUME NEW e \in Engines, StopEngine(e) \/ StopWhileStarting(e) PROVE TypeInv'
  <2>1. CASE StopEngine(e)
    BY <1>12, <2>1 DEF StopEngine, manualVars, claimVars
  <2>2. CASE StopWhileStarting(e)
    <3>1. interrupts' \in 0..MaxInterrupts
      BY <2>2 DEF StopWhileStarting, Interrupt
    <3>2. /\ owner' = None /\ alone' = FALSE
          /\ UNCHANGED <<status, next, clock, at, polls, fire, todo, cur, manual, since, last, again, early, moved>>
      BY <2>2 DEF StopWhileStarting, manualVars, claimVars
    <3> QED BY <3>1, <3>2
  <2> QED BY <1>13, <2>1, <2>2
<1>14. CASE Crash
  BY <1>12, <1>14 DEF Crash, RunNowOver, claimVars, Times
<1>15. CASE UNCHANGED vars
  BY <1>15 DEF vars, engineVars, manualVars, historyVars, claimVars
<1> QED
  BY <1>1, <1>2, <1>3, <1>4, <1>5, <1>6, <1>7, <1>8, <1>9, <1>10, <1>11, <1>13, <1>14, <1>15
  DEF Next, EngineStep

LEMMA TypeInvariant == Spec => []TypeInv
BY TypeInit, TypeStep, PTL DEF Spec

(* The times in the store are times cron can name or the sentinel.          *)
THEOREM TypeCorrect == Spec => []TypeOK
<1>1. TypeInv => TypeOK
  BY DEF TypeInv
<1> QED BY <1>1, TypeInvariant, PTL

-----------------------------------------------------------------------------
(* A claim is not left behind.                                              *)

LEMMA RunnersStep == TypeInv /\ ClaimsHaveRunners /\ [Next]_vars => ClaimsHaveRunners'
<1> SUFFICES ASSUME TypeInv, ClaimsHaveRunners, [Next]_vars PROVE ClaimsHaveRunners'
  OBVIOUS
<1> USE ScheduleAssumption, NextIsATime DEF TypeInv, TypeOK, WorkInv, ClaimsHaveRunners, Claimed, Active, Runs
<1>1. ASSUME NEW s \in Rows, ToolStep(s) PROVE ClaimsHaveRunners'
  BY <1>1 DEF ToolStep, Create, Cancel, RunNow, engineVars
<1>2. CASE RunNowEnds \/ RunNowDropped \/ Tick
  BY <1>2 DEF RunNowEnds, RunNowDropped, Tick, engineVars
<1>3. ASSUME NEW e \in Engines, StartEngine(e) PROVE ClaimsHaveRunners'
  BY <1>3 DEF StartEngine, Go
<1>4. ASSUME NEW e \in Engines, ReadClaimed(e) PROVE ClaimsHaveRunners'
  BY <1>4 DEF ReadClaimed, BeginPass, Go
<1>5. ASSUME NEW e \in Engines, ReadDue(e) PROVE ClaimsHaveRunners'
  BY <1>5 DEF ReadDue, BeginPass, Go
<1>6. ASSUME NEW e \in Engines, Release(e) PROVE ClaimsHaveRunners'
  BY <1>6 DEF Release, Advance
<1>7. ASSUME NEW e \in Engines, ReleaseDone(e) \/ PassDone(e) PROVE ClaimsHaveRunners'
  BY <1>7 DEF ReleaseDone, PassDone, EndPass, Go
<1>8. ASSUME NEW e \in Engines, TakeNext(e) \/ ClaimFails(e) PROVE ClaimsHaveRunners'
  BY <1>8 DEF TakeNext, ClaimFails, Drop, Go
<1>9. ASSUME NEW e \in Engines, Skip(e) \/ RunEnds(e) PROVE ClaimsHaveRunners'
  BY <1>9 DEF Skip, RunEnds, Advance, Drop, Go
<1>10. ASSUME NEW e \in Engines, Claim(e) PROVE ClaimsHaveRunners'
  BY <1>10 DEF Claim, Go
<1>11. ASSUME NEW e \in Engines, StopEngine(e) \/ StopWhileStarting(e) PROVE ClaimsHaveRunners'
  BY <1>11 DEF StopEngine, StopWhileStarting, CutOff
<1>12. CASE Crash
  BY <1>12 DEF Crash, CutOff
<1>13. CASE UNCHANGED vars
  BY <1>13 DEF vars, engineVars
<1> QED
  BY <1>1, <1>2, <1>3, <1>4, <1>5, <1>6, <1>7, <1>8, <1>9, <1>10, <1>11, <1>12, <1>13
  DEF Next, EngineStep

(* At every moment of reloads, crashes and several engines: a row that a     *)
(* claim took off the clock is being run, or the engine that recovers it is  *)
(* still to come to it (FR30).                                               *)
THEOREM ClaimsAreServed == Spec => []ClaimsHaveRunners
<1>1. Init => ClaimsHaveRunners
  BY DEF Init, ClaimsHaveRunners, Claimed, Active
<1> QED BY <1>1, RunnersStep, TypeInvariant, PTL DEF Spec

-----------------------------------------------------------------------------
(* An occurrence fires once and in time.                                    *)

(* A row is put off to the occurrence after t, its last one being no later.  *)
LEMMA PutOff ==
  ASSUME TypeInv, RowInv, NEW x \in Rows, NEW t \in Times, x \in moved \/ last[x] <= t,
         next' = [next EXCEPT ![x] = NextAfter(t)]
  PROVE  \A s \in Rows \ moved : last[s] < next'[s] /\ last[s] <= clock
<1>1. Sentinel \in Nat /\ NextAfter(t) \in Nat /\ t < NextAfter(t)
  BY NextIsATime
<1> SUFFICES ASSUME NEW s \in Rows \ moved PROVE last[s] < next'[s] /\ last[s] <= clock
  OBVIOUS
<1>2. last[s] \in Nat /\ t \in Nat /\ last[s] < next[s] /\ last[s] <= clock
  BY <1>1 DEF TypeInv, TypeOK, RowInv, Times
<1>3. next'[s] = IF s = x THEN NextAfter(t) ELSE next[s]
  BY DEF TypeInv, TypeOK
<1> QED BY <1>1, <1>2, <1>3

LEMMA AloneStep == TypeInv /\ AloneInv /\ [Next]_vars => AloneInv'
<1> SUFFICES ASSUME TypeInv, AloneInv, [Next]_vars, alone' PROVE AloneInv'
  BY DEF AloneInv
<1> USE ScheduleAssumption, NextIsATime
<1> USE DEF TypeInv, TypeOK, WorkInv, AloneInv, InPass, OnlyOwner, PassInv, RowInv, DueInv, InHand
<1>1. ASSUME NEW s \in Rows, ToolStep(s) PROVE AloneInv'
  <2>1. alone /\ again' \cup early' \subseteq moved'
    BY <1>1 DEF ToolStep, Create, Cancel, RunNow, engineVars, historyVars, claimVars
  <2>2. OnlyOwner'
    BY <1>1, <2>1 DEF ToolStep, Create, Cancel, RunNow, engineVars, historyVars, claimVars
  <2>3. PassInv'
    BY <1>1, <2>1 DEF ToolStep, Create, Cancel, RunNow, engineVars, historyVars, claimVars
  <2>4. RowInv'
    <3>1. UNCHANGED <<at, last, clock, fire, moved>>
      BY <1>1 DEF ToolStep, Create, Cancel, RunNow, engineVars, historyVars, claimVars
    <3>2. CASE next' = next
      BY <2>1, <3>1, <3>2
    <3>3. CASE next' = [next EXCEPT ![s] = NextAfter(clock)]
      <4>1. \A x \in Rows \ moved : last[x] < next'[x] /\ last[x] <= clock
        BY <2>1, <3>3, PutOff
      <4> QED BY <2>1, <3>1, <4>1
    <3> QED BY <1>1, <3>2, <3>3 DEF ToolStep, Create, Cancel, RunNow
  <2>5. DueInv'
    BY <1>1, <2>1 DEF ToolStep, Create, Cancel, RunNow, engineVars, historyVars, claimVars
  <2> QED BY <2>1, <2>2, <2>3, <2>4, <2>5
<1>2. CASE RunNowEnds \/ RunNowDropped
  <2>1. alone /\ again' \cup early' \subseteq moved'
    BY <1>2 DEF RunNowEnds, RunNowDropped, engineVars, historyVars, claimVars
  <2>2. OnlyOwner'
    BY <1>2, <2>1 DEF RunNowEnds, RunNowDropped, engineVars, historyVars, claimVars
  <2>3. PassInv'
    BY <1>2, <2>1 DEF RunNowEnds, RunNowDropped, engineVars, historyVars, claimVars
  <2>4. RowInv'
    BY <1>2, <2>1 DEF RunNowEnds, RunNowDropped, engineVars, historyVars, claimVars
  <2>5. DueInv'
    BY <1>2, <2>1 DEF RunNowEnds, RunNowDropped, engineVars, historyVars, claimVars
  <2> QED BY <2>1, <2>2, <2>3, <2>4, <2>5
<1>3. CASE Tick
  BY <1>3 DEF Tick, engineVars, historyVars, claimVars, Times
<1>4. ASSUME NEW e \in Engines, StartEngine(e) PROVE AloneInv'
  BY <1>4 DEF StartEngine, Go, historyVars, claimVars
<1>5. ASSUME NEW e \in Engines, ReadClaimed(e) PROVE AloneInv'
  <2>1. alone /\ again' \cup early' \subseteq moved'
    BY <1>5 DEF ReadClaimed, BeginPass, Go, historyVars, claimVars
  <2>2. OnlyOwner'
    BY <1>5, <2>1 DEF ReadClaimed, BeginPass, Go, historyVars, claimVars
  <2>3. PassInv'
    <3>1. /\ at'[e] \notin {"skip", "claim", "run"} /\ fire'[e] = clock /\ UNCHANGED <<clock, cur>>
          /\ \A k \in Engines \ {e} : at'[k] = at[k] /\ fire'[k] = fire[k] /\ todo'[k] = todo[k]
      BY <1>5 DEF ReadClaimed, BeginPass, Go
    <3> QED BY <2>1, <3>1 DEF Times
  <2>4. RowInv'
    BY <1>5, <2>1 DEF ReadClaimed, BeginPass, Go, historyVars, claimVars
  <2>5. DueInv'
    BY <1>5, <2>1 DEF ReadClaimed, BeginPass, Go, historyVars, claimVars
  <2> QED BY <2>1, <2>2, <2>3, <2>4, <2>5
<1>6. ASSUME NEW e \in Engines, ReadDue(e) PROVE AloneInv'
  <2>1. alone /\ again' \cup early' \subseteq moved'
    BY <1>6 DEF ReadDue, BeginPass, Go, historyVars, claimVars, Due, Active
  <2>2. OnlyOwner'
    BY <1>6, <2>1 DEF ReadDue, BeginPass, Go, historyVars, claimVars, Due, Active
  <2>3. PassInv'
    <3>1. /\ at'[e] \notin {"skip", "claim", "run"} /\ fire'[e] = clock /\ UNCHANGED <<clock, cur>>
          /\ \A k \in Engines \ {e} : at'[k] = at[k] /\ fire'[k] = fire[k] /\ todo'[k] = todo[k]
      BY <1>6 DEF ReadDue, BeginPass, Go
    <3> QED BY <2>1, <3>1 DEF Times
  <2>4. RowInv'
    BY <1>6, <2>1 DEF ReadDue, BeginPass, Go, historyVars, claimVars, Due, Active
  <2>5. DueInv'
    BY <1>6, <2>1 DEF ReadDue, BeginPass, Go, historyVars, claimVars, Due, Active
  <2> QED BY <2>1, <2>2, <2>3, <2>4, <2>5
<1>7. ASSUME NEW e \in Engines, Release(e) PROVE AloneInv'
  <2>1. alone /\ again' \cup early' \subseteq moved'
    BY <1>7 DEF Release, Advance, historyVars, claimVars
  <2>2. OnlyOwner'
    BY <1>7, <2>1 DEF Release, Advance, historyVars, claimVars
  <2>3. PassInv'
    BY <1>7, <2>1 DEF Release, Advance, historyVars, claimVars
  <2>4. RowInv'
    <3>1. PICK s \in Rows : next' = [next EXCEPT ![s] = NextAfter(fire[e])]
      BY <1>7 DEF Release, Advance
    <3>2. at[e] \in InPass /\ UNCHANGED <<at, last, clock, fire, moved>>
      BY <1>7 DEF Release, historyVars, claimVars
    <3>3. \A x \in Rows \ moved : last[x] < next'[x] /\ last[x] <= clock
      BY <2>1, <3>1, <3>2, PutOff
    <3> QED BY <2>1, <3>2, <3>3
  <2>5. DueInv'
    BY <1>7, <2>1 DEF Release, Advance, historyVars, claimVars
  <2> QED BY <2>1, <2>2, <2>3, <2>4, <2>5
<1>8. ASSUME NEW e \in Engines, ReleaseDone(e) \/ PassDone(e) PROVE AloneInv'
  <2>1. alone /\ again' \cup early' \subseteq moved'
    BY <1>8 DEF ReleaseDone, PassDone, EndPass, Go, historyVars, claimVars
  <2>2. OnlyOwner'
    BY <1>8, <2>1 DEF ReleaseDone, PassDone, EndPass, Go, historyVars, claimVars
  <2>3. PassInv'
    BY <1>8, <2>1 DEF ReleaseDone, PassDone, EndPass, Go, historyVars, claimVars
  <2>4. RowInv'
    BY <1>8, <2>1 DEF ReleaseDone, PassDone, EndPass, Go, historyVars, claimVars
  <2>5. DueInv'
    BY <1>8, <2>1 DEF ReleaseDone, PassDone, EndPass, Go, historyVars, claimVars
  <2> QED BY <2>1, <2>2, <2>3, <2>4, <2>5
<1>9. ASSUME NEW e \in Engines, TakeNext(e) PROVE AloneInv'
  BY <1>9 DEF TakeNext, Go, historyVars, claimVars
<1>10. ASSUME NEW e \in Engines, Skip(e) \/ RunEnds(e) PROVE AloneInv'
  <2>1. alone /\ again' \cup early' \subseteq moved'
    BY <1>10 DEF Skip, RunEnds, Advance, Drop, Go, historyVars, claimVars
  <2>2. OnlyOwner'
    BY <1>10, <2>1 DEF Skip, RunEnds, Advance, Drop, Go, historyVars, claimVars
  <2>3. PassInv'
    BY <1>10, <2>1 DEF Skip, RunEnds, Advance, Drop, Go, historyVars, claimVars
  <2>4. RowInv'
    <3>1. /\ at[e] \in InPass /\ at'[e] \in InPass /\ UNCHANGED <<last, clock, fire, moved>>
          /\ \A k \in Engines \ {e} : at'[k] = at[k]
          /\ next' = [next EXCEPT ![cur[e]] = NextAfter(fire[e])]
      BY <1>10 DEF Skip, RunEnds, Advance, Go, historyVars, claimVars
    <3>2. cur[e] \in moved \/ last[cur[e]] <= fire[e]
      BY <1>10, <2>1 DEF Skip, RunEnds
    <3>3. \A s \in Rows \ moved : last[s] < next'[s] /\ last[s] <= clock
      BY <1>10, <2>1, <3>1, <3>2, PutOff DEF Skip, RunEnds
    <3> QED BY <2>1, <3>1, <3>3
  <2>5. DueInv'
    BY <1>10, <2>1 DEF Skip, RunEnds, Advance, Drop, Go, historyVars, claimVars
  <2> QED BY <2>1, <2>2, <2>3, <2>4, <2>5
<1>11. ASSUME NEW e \in Engines, ClaimFails(e) PROVE AloneInv'
  BY <1>11 DEF ClaimFails, Drop, Go, historyVars, claimVars
<1>12. ASSUME NEW e \in Engines, Claim(e) PROVE AloneInv'
  BY <1>12 DEF Claim, Go, Active, Claimed, Times, Sentinel
<1>13. ASSUME NEW e \in Engines, StopEngine(e) PROVE AloneInv'
  BY <1>13 DEF StopEngine, CutOff, claimVars
<1>14. ASSUME NEW e \in Engines, StopWhileStarting(e) PROVE AloneInv'
  BY <1>14 DEF StopWhileStarting
<1>15. CASE Crash
  BY <1>15 DEF Crash, CutOff, claimVars
<1>16. CASE UNCHANGED vars
  BY <1>16 DEF vars, engineVars, historyVars, claimVars
<1> QED
  BY <1>1, <1>2, <1>3, <1>4, <1>5, <1>6, <1>7, <1>8, <1>9, <1>10, <1>11, <1>12, <1>13, <1>14,
     <1>15, <1>16
  DEF Next, EngineStep

(* While every engine that was let go of had been started: no occurrence is  *)
(* claimed twice, nor before its time, except of rows that run_now wrote.    *)
THEOREM OccurrencesFireOnce == Spec => []FiresOnce
<1>1. Init => AloneInv
  BY ScheduleAssumption DEF Init, AloneInv, OnlyOwner, PassInv, RowInv, DueInv, InHand, InPass, Sentinel
<1>2. AloneInv => FiresOnce
  BY DEF AloneInv, FiresOnce
<1> QED BY <1>1, <1>2, AloneStep, TypeInvariant, PTL DEF Spec

=============================================================================
