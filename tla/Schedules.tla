------------------------------- MODULE Schedules -------------------------------
(***************************************************************************)
(* Recurring schedules: the rows of schedules/store.py, the ScheduleEngine *)
(* of schedules/engine.py that the Discord interface starts and stops, and *)
(* the schedule tool's create, cancel and run_now.  A claim overwrites the *)
(* row's next_run_at with a sentinel; the run's end writes the next time.  *)
(* Every store call is one transaction, between two steps of the loop.     *)
(***************************************************************************)
EXTENDS Integers

CONSTANTS
  Rows,               \* schedules
  Engines,            \* ScheduleEngine objects
  Skips,              \* the schedules whose on_miss is "skip"
  Period,             \* ticks between two occurrences of a cron expression
  None,               \* no engine
  MaxTime,            \* bound on the clock
  MaxInterrupts       \* bound on reloads and crashes

ASSUME ScheduleAssumption ==
  /\ Skips \subseteq Rows /\ None \notin Rows \cup Engines
  /\ Period \in Nat \ {0} /\ MaxTime \in Nat /\ MaxInterrupts \in Nat

VARIABLES
  status,     \* of each row
  next,       \* next_run_at of each row
  clock,
  at,         \* where each engine stands
  polls,      \* engines whose start() is over: their _task is set
  fire,       \* the "now" of the engine's current pass
  todo,       \* rows left of that pass, a snapshot
  cur,        \* the row the engine works on
  owner,      \* the engine the interface holds
  manual,     \* the row a run_now is running, or None (one at a time: a bound)
  since       \* the "now" of that run_now

(* History variables. *)
VARIABLES
  last,       \* the last occurrence of each row that an engine claimed
  again,      \* rows claimed for an occurrence no later than their last
  early,      \* rows claimed before their time
  moved,      \* rows whose next_run_at a run_now wrote
  alone,      \* no engine was let go of while it was starting
  interrupts  \* reloads and crashes so far

engineVars  == <<at, polls, fire, todo, cur, owner>>
claimVars   == <<last, again, early>>
historyVars == <<claimVars, moved, alone, interrupts>>
manualVars  == <<manual, since>>
vars == <<status, next, clock, engineVars, manualVars, historyVars>>

(* The sentinel is later than any time the clock or cron can name. *)
Sentinel == MaxTime + Period + 1

Times == 0..MaxTime
Stations == {"none", "recover", "release", "due", "scan", "skip", "claim", "run"}

(* A bug: the search begins at the minute itself, not at the next one. *)
NextAfterMutant(t) == ((t + Period - 1) \div Period) * Period

(* CronSpec.next_after: the first occurrence strictly after t. *)
NextAfter(t) == (t \div Period + 1) * Period

Init ==
  /\ status = [s \in Rows |-> "absent"] /\ next = [s \in Rows |-> Sentinel]
  /\ clock = 0
  /\ at = [e \in Engines |-> "none"] /\ polls = {}
  /\ fire = [e \in Engines |-> 0] /\ todo = [e \in Engines |-> {}]
  /\ cur = [e \in Engines |-> None] /\ owner = None
  /\ manual = None /\ since = 0
  /\ last = [s \in Rows |-> 0] /\ again = {} /\ early = {} /\ moved = {}
  /\ alone = TRUE /\ interrupts = 0

-----------------------------------------------------------------------------
(* The schedule tool, and time. *)

Create(s) ==
  /\ status[s] = "absent"
  /\ status' = [status EXCEPT ![s] = "active"]
  /\ next' = [next EXCEPT ![s] = NextAfter(clock)]
  /\ UNCHANGED <<clock, engineVars, manualVars, historyVars>>

Cancel(s) ==
  /\ status[s] = "active"
  /\ status' = [status EXCEPT ![s] = "cancelled"]
  /\ UNCHANGED <<next, clock, engineVars, manualVars, historyVars>>

(* run_now asks for no claim and runs beside the engine. *)
RunNow(s) ==
  /\ status[s] = "active" /\ owner # None /\ manual = None
  /\ manual' = s /\ since' = clock
  /\ UNCHANGED <<status, next, clock, engineVars, historyVars>>

RunNowOver == manual' = None /\ since' = 0

(* It writes the occurrence after its start over whatever is there by now. *)
RunNowEnds ==
  /\ manual # None
  /\ next' = [next EXCEPT ![manual] = NextAfter(since)]
  /\ moved' = moved \cup {manual}
  /\ RunNowOver
  /\ UNCHANGED <<status, clock, engineVars, claimVars, alone, interrupts>>

(* The turn that called the tool is cancelled. *)
RunNowDropped ==
  /\ manual # None /\ RunNowOver
  /\ UNCHANGED <<status, next, clock, engineVars, historyVars>>

Tick ==
  /\ clock < MaxTime /\ clock' = clock + 1
  /\ UNCHANGED <<status, next, engineVars, manualVars, historyVars>>

-----------------------------------------------------------------------------
(* ScheduleEngine.start: recover the claims of a crash, catch up, then poll. *)

Go(e, station) == at' = [at EXCEPT ![e] = station]
Drop(e) == cur' = [cur EXCEPT ![e] = None]

(* The interface builds an engine and starts it in a task of its own. *)
StartEngine(e) ==
  /\ owner = None /\ at[e] = "none"
  /\ owner' = e /\ Go(e, "recover")
  /\ UNCHANGED <<status, next, clock, polls, fire, todo, cur, manualVars, historyVars>>

Active == {s \in Rows : status[s] = "active"}

Due == {s \in Active : next[s] <= clock}
Claimed == {s \in Active : next[s] = Sentinel}

(* One pass over a snapshot of rows, with one "now" for all of them. *)
BeginPass(e, rows, station) ==
  /\ todo' = [todo EXCEPT ![e] = rows]
  /\ fire' = [fire EXCEPT ![e] = clock]
  /\ Go(e, station)
  /\ UNCHANGED <<status, next, clock, polls, cur, owner, manualVars, historyVars>>

EndPass(e) == fire' = [fire EXCEPT ![e] = 0] /\ Go(e, "due")

(* A bug: the recovery looks for overdue rows; claimed ones are not. *)
ReadClaimedMutant(e) == at[e] = "recover" /\ BeginPass(e, Claimed \cap Due, "release")

ReadClaimed(e) == at[e] = "recover" /\ BeginPass(e, Claimed, "release")

(* advance_after_run asks neither for a claim nor for a status. *)
Advance(e, s) == next' = [next EXCEPT ![s] = NextAfter(fire[e])]

(* A row found claimed is moved to its next occurrence, not run. *)
Release(e) ==
  /\ at[e] = "release"
  /\ \E s \in todo[e] :
       /\ Advance(e, s)
       /\ todo' = [todo EXCEPT ![e] = @ \ {s}]
  /\ UNCHANGED <<status, clock, at, polls, fire, cur, owner, manualVars, historyVars>>

ReleaseDone(e) ==
  /\ at[e] = "release" /\ todo[e] = {}
  /\ EndPass(e)
  /\ UNCHANGED <<status, next, clock, polls, todo, cur, owner, manualVars, historyVars>>

(* _catch_up and _poll_once read the same list; an empty poll changes nothing. *)
ReadDue(e) ==
  /\ at[e] = "due" /\ (e \in polls => Due # {})
  /\ BeginPass(e, Due, "scan")

(* The next row of the list; its order is abstracted to any order. *)
TakeNext(e) ==
  /\ at[e] = "scan"
  /\ \E s \in todo[e] :
       /\ cur' = [cur EXCEPT ![e] = s]
       /\ todo' = [todo EXCEPT ![e] = @ \ {s}]
       /\ Go(e, IF e \notin polls /\ s \in Skips THEN "skip" ELSE "claim")
  /\ UNCHANGED <<status, next, clock, polls, fire, owner, manualVars, historyVars>>

(* The catch-up of a row that skips what it missed. *)
Skip(e) ==
  /\ at[e] = "skip"
  /\ Advance(e, cur[e]) /\ Drop(e) /\ Go(e, "scan")
  /\ UNCHANGED <<status, clock, polls, fire, todo, owner, manualVars, historyVars>>

ClaimFails(e) ==
  /\ at[e] = "claim" /\ cur[e] \notin Active \ Claimed
  /\ Drop(e) /\ Go(e, "scan")
  /\ UNCHANGED <<status, next, clock, polls, fire, todo, owner, manualVars, historyVars>>

(* The claim takes whatever time the row now has, due or not. *)
Claim(e) ==
  LET s == cur[e] IN
  /\ at[e] = "claim" /\ s \in Active \ Claimed
  /\ next' = [next EXCEPT ![s] = Sentinel]
  /\ Go(e, "run")
  /\ last' = [last EXCEPT ![s] = next[s]]
  /\ again' = IF next[s] <= last[s] THEN again \cup {s} ELSE again
  /\ early' = IF next[s] > clock THEN early \cup {s} ELSE early
  /\ UNCHANGED <<status, clock, polls, fire, todo, cur, owner, manualVars,
                 moved, alone, interrupts>>

(* A bug: a payload that fails leaves its row as it is. *)
RunEndsMutant(e) ==
  /\ at[e] = "run"
  /\ Advance(e, cur[e]) \/ UNCHANGED next
  /\ Drop(e) /\ Go(e, "scan")
  /\ UNCHANGED <<status, clock, polls, fire, todo, owner, manualVars, historyVars>>

(* The payload succeeds, fails, raises or times out: the row advances alike. *)
RunEnds(e) ==
  /\ at[e] = "run"
  /\ Advance(e, cur[e]) /\ Drop(e) /\ Go(e, "scan")
  /\ UNCHANGED <<status, clock, polls, fire, todo, owner, manualVars, historyVars>>

(* The end of a pass; the end of the catch-up is the end of start(). *)
PassDone(e) ==
  /\ at[e] = "scan" /\ todo[e] = {}
  /\ polls' = polls \cup {e} /\ EndPass(e)
  /\ UNCHANGED <<status, next, clock, todo, cur, owner, manualVars, historyVars>>

-----------------------------------------------------------------------------
(* Reloads and crashes. *)

Interrupt == interrupts < MaxInterrupts /\ interrupts' = interrupts + 1

(* Engines E are gone, with the payloads they were running. *)
CutOff(E) ==
  /\ at' = [e \in Engines |-> IF e \in E THEN "none" ELSE at[e]]
  /\ polls' = polls \ E
  /\ todo' = [e \in Engines |-> IF e \in E THEN {} ELSE todo[e]]
  /\ cur' = [e \in Engines |-> IF e \in E THEN None ELSE cur[e]]
  /\ fire' = [e \in Engines |-> IF e \in E THEN 0 ELSE fire[e]]
  /\ owner' = None
  /\ Interrupt
  /\ UNCHANGED <<status, next, clock, claimVars, moved>>

StopEngine(e) ==
  /\ owner = e /\ e \in polls
  /\ CutOff({e})
  /\ UNCHANGED <<manualVars, alone>>

(* stop() finds no task while start() is under way, catch-up runs included: *)
(* the interface lets go of an engine that will poll.                       *)
StopWhileStarting(e) ==
  /\ owner = e /\ e \notin polls
  /\ owner' = None /\ alone' = FALSE
  /\ Interrupt
  /\ UNCHANGED <<status, next, clock, at, polls, fire, todo, cur, manualVars, claimVars, moved>>

(* The process dies; the database stays as it is. *)
Crash ==
  /\ CutOff(Engines)
  /\ RunNowOver
  /\ UNCHANGED alone

-----------------------------------------------------------------------------

ToolStep(s) == Create(s) \/ Cancel(s) \/ RunNow(s)

EngineStep(e) ==
  \/ ReadClaimed(e) \/ Release(e) \/ ReleaseDone(e) \/ ReadDue(e) \/ TakeNext(e)
  \/ Skip(e) \/ ClaimFails(e) \/ Claim(e) \/ RunEnds(e) \/ PassDone(e)

Next ==
  \/ \E s \in Rows : ToolStep(s)
  \/ \E e \in Engines : StartEngine(e) \/ EngineStep(e) \/ StopEngine(e) \/ StopWhileStarting(e)
  \/ RunNowEnds \/ RunNowDropped \/ Tick \/ Crash

Spec == Init /\ [][Next]_vars

(* An interface that holds no engine starts one, and engines go on: every   *)
(* payload has a timeout.                                                   *)
FairSpec ==
  /\ Spec
  /\ \A e \in Engines : WF_vars(EngineStep(e))
  /\ WF_vars(\E e \in Engines : StartEngine(e))

-----------------------------------------------------------------------------
(* Correctness. *)

TypeOK ==
  /\ status \in [Rows -> {"absent", "active", "cancelled"}]
  /\ next \in [Rows -> 0..Sentinel] /\ clock \in Times
  /\ at \in [Engines -> Stations] /\ polls \subseteq Engines
  /\ fire \in [Engines -> Times] /\ todo \in [Engines -> SUBSET Rows]
  /\ cur \in [Engines -> Rows \cup {None}] /\ owner \in Engines \cup {None}
  /\ manual \in Rows \cup {None} /\ since \in Times
  /\ last \in [Rows -> 0..Sentinel]
  /\ again \subseteq Rows /\ early \subseteq Rows /\ moved \subseteq Rows
  /\ alone \in BOOLEAN /\ interrupts \in 0..MaxInterrupts

Runs(e, s) == at[e] = "run" /\ cur[e] = s

(* A claim is not left behind: a row at the sentinel is being run, or the    *)
(* engine that recovers it has not started or not come to it yet (FR30).     *)
ClaimsHaveRunners ==
  \A s \in Claimed :
    \/ \E e \in Engines : Runs(e, s)
    \/ owner = None
    \/ at[owner] = "recover"
    \/ at[owner] = "release" /\ s \in todo[owner]

(* Across crashes, recovery, catch-up and slow payloads an occurrence fires  *)
(* once and not before its time, as long as run_now has not written the row  *)
(* and one engine runs: the claim itself does not ask whether the row is due. *)
FiresOnce == alone => again \cup early \subseteq moved

(* A schedule comes to wait for a time to come, whatever was interrupted.    *)
EventuallyServed ==
  \A s \in Rows :
    (status[s] = "active") ~> (status[s] = "cancelled" \/ next[s] \in (clock + 1)..(Sentinel - 1))

=============================================================================
