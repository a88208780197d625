------------------------------- MODULE Reminders -------------------------------
(***************************************************************************)
(* Reminder delivery: the rows of reminders/store.py, the DeliveryLoops of *)
(* reminders/loop.py that the interfaces start and stop, and the reminder  *)
(* tool's create and cancel.  Every store call is one transaction in a     *)
(* worker thread, so it commits between two steps of the event loop; a     *)
(* call whose caller was cancelled may still commit later (orphans).       *)
(* Time is the flag "ready": COALESCE(next_attempt_at, due_at) <= now.     *)
(***************************************************************************)
EXTENDS Integers, FiniteSets

CONSTANTS
  Rows,               \* reminders
  Loops,              \* DeliveryLoop objects
  Platforms,          \* platforms the agent is on, one interface each
  RowPlatform,        \* the platform a reminder was made on
  LoopPlatform,       \* the platform a loop serves
  None,               \* no loop
  MaxSendAttempts,    \* len(RETRY_DELAYS) + 1
  MaxInterrupts       \* bound on reloads and crashes

ASSUME ReminderAssumption ==
  /\ RowPlatform \in [Rows -> Platforms] /\ LoopPlatform \in [Loops -> Platforms]
  /\ None \notin Loops /\ None \notin Rows /\ IsFiniteSet(Loops)
  /\ MaxSendAttempts \in Nat \ {0} /\ MaxInterrupts \in Nat

VARIABLES
  status,     \* of each row
  attempts,   \* failed sends recorded in each row
  ready,      \* rows whose next attempt has come
  at,         \* where each loop stands
  todo,       \* rows left of the loop's due list, a snapshot
  cur,        \* the row the loop works on
  owner,      \* the loop each platform's interface holds
  orphans     \* transactions of cancelled callers that are still to commit

(* History variables. *)
VARIABLES
  accepted,   \* how often the platform accepted a row's message
  cuts,       \* how often a row's sender was cut off, or lost its claim to a reset
  interrupts, \* reloads and crashes so far
  orderly     \* no store call has raised, no cancelled one may still commit, and
              \* no loop was let go of while its start() was under way

rowVars  == <<status, attempts, ready>>
loopVars == <<at, todo, cur, owner>>
histVars == <<accepted, cuts, interrupts, orderly>>
vars == <<rowVars, loopVars, orphans, histVars>>

Terminal == {"delivered", "failed", "cancelled"}
Statuses == Terminal \cup {"absent", "pending", "sending"}
Ops == {"claim", "deliver", "retry"}
Stations == {"none", "resetting", "polling", "scanning", "claiming", "sending",
             "marking", "retrying", "dead"}

OnPlatform(p) == {r \in Rows : RowPlatform[r] = p}

Init ==
  /\ status = [r \in Rows |-> "absent"] /\ attempts = [r \in Rows |-> 0]
  /\ ready = {}
  /\ at = [l \in Loops |-> "none"] /\ todo = [l \in Loops |-> {}]
  /\ cur = [l \in Loops |-> None] /\ owner = [p \in Platforms |-> None]
  /\ orphans = {}
  /\ accepted = [r \in Rows |-> 0] /\ cuts = [r \in Rows |-> 0] /\ interrupts = 0
  /\ orderly = TRUE

-----------------------------------------------------------------------------
(* The store's transactions on one row; ready is touched by retry alone. *)

(* claim: pending -> sending, or nothing. *)
ClaimRow(r) ==
  /\ status' = IF status[r] = "pending" THEN [status EXCEPT ![r] = "sending"] ELSE status
  /\ UNCHANGED <<attempts, ready>>

(* A bug: only a pending row can be marked. *)
MarkDeliveredMutant(r) ==
  /\ status' = IF status[r] = "pending" THEN [status EXCEPT ![r] = "delivered"] ELSE status
  /\ UNCHANGED <<attempts, ready>>

(* mark_delivered looks at no status. *)
MarkDelivered(r) ==
  /\ status' = [status EXCEPT ![r] = "delivered"]
  /\ UNCHANGED <<attempts, ready>>

(* due_with_retry looks at no status either; the next attempt is scheduled  *)
(* from the last one, so it may be due at once.                             *)
DueWithRetry(r) ==
  /\ attempts' = [attempts EXCEPT ![r] = @ + 1]
  /\ IF attempts[r] + 1 >= MaxSendAttempts
     THEN /\ status' = [status EXCEPT ![r] = "failed"] /\ UNCHANGED ready
     ELSE /\ status' = [status EXCEPT ![r] = "pending"]
          /\ ready' \in {ready, ready \ {r}}

(* A bug: the reset takes every platform's rows. *)
ResetSendingMutant(p) ==
  /\ status' = [r \in Rows |-> IF status[r] = "sending" THEN "pending" ELSE status[r]]
  /\ UNCHANGED <<attempts, ready>>

(* reset_sending_to_pending, for one platform. *)
ResetSending(p) ==
  /\ status' = [r \in Rows |-> IF status[r] = "sending" /\ r \in OnPlatform(p)
                               THEN "pending" ELSE status[r]]
  /\ UNCHANGED <<attempts, ready>>

-----------------------------------------------------------------------------
(* The reminder tool, and time. *)

Create(r) ==
  /\ status[r] = "absent"
  /\ status' = [status EXCEPT ![r] = "pending"]
  /\ UNCHANGED <<attempts, ready, loopVars, orphans, histVars>>

Cancel(r) ==
  /\ status[r] = "pending"
  /\ status' = [status EXCEPT ![r] = "cancelled"]
  /\ UNCHANGED <<attempts, ready, loopVars, orphans, histVars>>

(* The row's due time, or its next attempt's, comes. *)
ComesDue(r) ==
  /\ r \notin ready /\ status[r] # "absent"
  /\ ready' = ready \cup {r}
  /\ UNCHANGED <<status, attempts, loopVars, orphans, histVars>>

-----------------------------------------------------------------------------
(* DeliveryLoop: start, then _poll_once again and again. *)

Go(l, station) == at' = [at EXCEPT ![l] = station]

(* The rows whose sender is among the loops L. *)
SentBy(L) == {cur[l] : l \in {k \in L : at[k] \in {"sending", "marking", "retrying"}}}

(* The interface builds a loop and starts it in a task of its own. *)
BeginStart(l) ==
  /\ owner[LoopPlatform[l]] = None /\ at[l] = "none"
  /\ owner' = [owner EXCEPT ![LoopPlatform[l]] = l]
  /\ Go(l, "resetting")
  /\ UNCHANGED <<todo, cur, rowVars, orphans, histVars>>

(* A bug: interrupted sends are not returned to pending. *)
StartResetsMutant(l) ==
  /\ at[l] = "resetting"
  /\ Go(l, "polling")
  /\ UNCHANGED <<todo, cur, owner, rowVars, orphans, histVars>>

StartResets(l) ==
  /\ at[l] = "resetting"
  /\ ResetSending(LoopPlatform[l])
  /\ Go(l, "polling")
  /\ cuts' = [r \in Rows |-> IF status[r] # status'[r] /\ r \in SentBy(Loops)
                             THEN cuts[r] + 1 ELSE cuts[r]]
  /\ UNCHANGED <<todo, cur, owner, orphans, accepted, interrupts, orderly>>

Due(p) == {r \in OnPlatform(p) : status[r] = "pending" /\ r \in ready}

Poll(l) ==
  /\ at[l] = "polling" /\ Due(LoopPlatform[l]) # {}
  /\ todo' = [todo EXCEPT ![l] = Due(LoopPlatform[l])]
  /\ Go(l, "scanning")
  /\ UNCHANGED <<cur, owner, rowVars, orphans, histVars>>

(* The next row of the list; due order is abstracted to any order. *)
TakeNext(l) ==
  /\ at[l] = "scanning"
  /\ \E r \in todo[l] :
       /\ cur' = [cur EXCEPT ![l] = r]
       /\ todo' = [todo EXCEPT ![l] = @ \ {r}]
  /\ Go(l, "claiming")
  /\ UNCHANGED <<owner, rowVars, orphans, histVars>>

PollDone(l) ==
  /\ at[l] = "scanning" /\ todo[l] = {}
  /\ Go(l, "polling")
  /\ UNCHANGED <<todo, cur, owner, rowVars, orphans, histVars>>

(* A bug: the row is sent whether or not the claim was won. *)
ClaimMutant(l) ==
  /\ at[l] = "claiming"
  /\ ClaimRow(cur[l])
  /\ Go(l, "sending")
  /\ UNCHANGED <<todo, cur, owner, orphans, histVars>>

(* A lost claim goes on with the next row. *)
Claim(l) ==
  /\ at[l] = "claiming"
  /\ ClaimRow(cur[l])
  /\ Go(l, IF status[cur[l]] = "pending" THEN "sending" ELSE "scanning")
  /\ UNCHANGED <<todo, cur, owner, orphans, histVars>>

SendAccepted(l) ==
  /\ at[l] = "sending"
  /\ accepted' = [accepted EXCEPT ![cur[l]] = @ + 1]
  /\ Go(l, "marking")
  /\ UNCHANGED <<todo, cur, owner, rowVars, orphans, cuts, interrupts, orderly>>

(* A bug: the error the adapter reports is not raised. *)
SendRaisesMutant(l) ==
  /\ at[l] = "sending"
  /\ \E took \in {0, 1} : accepted' = [accepted EXCEPT ![cur[l]] = @ + took]
  /\ Go(l, "marking")
  /\ UNCHANGED <<todo, cur, owner, rowVars, orphans, cuts, interrupts, orderly>>

(* The send may fail after the platform took the message. *)
SendRaises(l) ==
  /\ at[l] = "sending"
  /\ \E took \in {0, 1} : accepted' = [accepted EXCEPT ![cur[l]] = @ + took]
  /\ Go(l, "retrying")
  /\ UNCHANGED <<todo, cur, owner, rowVars, orphans, cuts, interrupts, orderly>>

Delivered(l) ==
  /\ at[l] = "marking"
  /\ MarkDelivered(cur[l])
  /\ Go(l, "scanning")
  /\ UNCHANGED <<todo, cur, owner, orphans, histVars>>

RetryLater(l) ==
  /\ at[l] = "retrying"
  /\ DueWithRetry(cur[l])
  /\ Go(l, "scanning")
  /\ UNCHANGED <<todo, cur, owner, orphans, histVars>>

(* Nothing around _run catches a store error: the task ends, still held by   *)
(* the interface.                                                            *)
StoreRaises(l) ==
  /\ at[l] \in {"resetting", "polling", "claiming", "marking", "retrying"}
  /\ Go(l, "dead") /\ orderly' = FALSE
  /\ cuts' = IF at[l] \in {"marking", "retrying"} THEN [cuts EXCEPT ![cur[l]] = @ + 1] ELSE cuts
  /\ UNCHANGED <<todo, cur, owner, rowVars, orphans, accepted, interrupts>>

-----------------------------------------------------------------------------
(* Reloads, crashes, and what they leave behind. *)

InFlight(L) == {l \in L : at[l] = "sending"}

(* Loops L are gone; messages in flight may have been taken all the same. *)
CutOff(L) ==
  /\ at' = [l \in Loops |-> IF l \in L THEN "none" ELSE at[l]]
  /\ todo' = [l \in Loops |-> IF l \in L THEN {} ELSE todo[l]]
  /\ cur' = [l \in Loops |-> IF l \in L THEN None ELSE cur[l]]
  /\ cuts' = [r \in Rows |-> IF r \in SentBy(L) THEN cuts[r] + 1 ELSE cuts[r]]
  /\ \E took \in SUBSET InFlight(L) :
       accepted' = [r \in Rows |-> accepted[r] + Cardinality({l \in took : cur[l] = r})]
  /\ interrupts < MaxInterrupts /\ interrupts' = interrupts + 1

(* The transaction a loop was waiting for when it was cancelled. *)
Pending(l) ==
  CASE at[l] = "claiming" -> {[op |-> "claim", row |-> cur[l]]}
    [] at[l] = "marking"  -> {[op |-> "deliver", row |-> cur[l]]}
    [] at[l] = "retrying" -> {[op |-> "retry", row |-> cur[l]]}
    [] OTHER              -> {}

(* A reload stops the platform's loop, to start another one later; the        *)
(* transaction it waited for may go on in its thread.                         *)
StopLoop(l) ==
  /\ owner[LoopPlatform[l]] = l /\ at[l] # "resetting"
  /\ owner' = [owner EXCEPT ![LoopPlatform[l]] = None]
  /\ CutOff({l})
  /\ orphans' \in {orphans, orphans \cup Pending(l)}
  /\ orderly' = (orderly /\ orphans' = orphans)
  /\ UNCHANGED rowVars

(* stop() finds no task while start() is awaiting the reset: the interface   *)
(* lets go of a loop that will run.                                          *)
StopWhileStarting(l) ==
  /\ owner[LoopPlatform[l]] = l /\ at[l] = "resetting"
  /\ owner' = [owner EXCEPT ![LoopPlatform[l]] = None]
  /\ interrupts < MaxInterrupts /\ interrupts' = interrupts + 1
  /\ orderly' = FALSE
  /\ UNCHANGED <<at, todo, cur, rowVars, orphans, accepted, cuts>>

(* The process dies; the database stays as it is. *)
Crash ==
  /\ owner' = [p \in Platforms |-> None]
  /\ CutOff(Loops)
  /\ orphans' = {}
  /\ UNCHANGED <<rowVars, orderly>>

OrphanCommits(o) ==
  /\ o \in orphans
  /\ CASE o.op = "claim"   -> ClaimRow(o.row)
       [] o.op = "deliver" -> MarkDelivered(o.row)
       [] o.op = "retry"   -> DueWithRetry(o.row)
  /\ orphans' = orphans \ {o}
  /\ UNCHANGED <<loopVars, histVars>>

-----------------------------------------------------------------------------

ToolStep(r) == Create(r) \/ Cancel(r) \/ ComesDue(r)

LoopStep(l) ==
  \/ StartResets(l) \/ Poll(l) \/ TakeNext(l) \/ PollDone(l) \/ Claim(l)
  \/ SendAccepted(l) \/ SendRaises(l) \/ Delivered(l) \/ RetryLater(l)

Next ==
  \/ \E r \in Rows : ToolStep(r)
  \/ \E l \in Loops : BeginStart(l) \/ LoopStep(l) \/ StoreRaises(l)
                        \/ StopLoop(l) \/ StopWhileStarting(l)
  \/ Crash
  \/ \E o \in orphans : OrphanCommits(o)

Spec == Init /\ [][Next]_vars

(* An interface that may hold a loop starts one, loops keep running, sends   *)
(* and transactions end, due times come.  Nobody must create or cancel.      *)
FairSpec ==
  /\ Spec
  /\ \A r \in Rows : WF_vars(ComesDue(r))
  /\ \A l \in Loops : WF_vars(LoopStep(l))
  /\ \A p \in Platforms : WF_vars(\E l \in Loops : LoopPlatform[l] = p /\ BeginStart(l))

-----------------------------------------------------------------------------
(* Correctness. *)

TypeOK ==
  /\ status \in [Rows -> Statuses] /\ attempts \in [Rows -> Nat]
  /\ ready \subseteq Rows
  /\ at \in [Loops -> Stations] /\ todo \in [Loops -> SUBSET Rows]
  /\ cur \in [Loops -> Rows \cup {None}] /\ owner \in [Platforms -> Loops \cup {None}]
  /\ orphans \subseteq [op : Ops, row : Rows]
  /\ accepted \in [Rows -> Nat] /\ cuts \in [Rows -> Nat] /\ interrupts \in 0..MaxInterrupts
  /\ orderly \in BOOLEAN

Sending(l) == at[l] \in {"sending", "marking", "retrying"}

(* A reminder is marked delivered only after the platform took its message,  *)
(* though mark_delivered looks at no status (FR17).                          *)
DeliveredWasSent == \A r \in Rows : status[r] = "delivered" => accepted[r] > 0

(* A message goes out once, and once more only for a sender that was cut off *)
(* or a send that was recorded as failed: at-least-once, and not more.       *)
BoundedDuplicates == \A r \in Rows : accepted[r] <= 1 + cuts[r] + attempts[r]

(* While a loop sends a row the store says so: no other interface's start,   *)
(* no cancel and no other loop has taken the row from it (FR17, FR20).  And  *)
(* the row has an attempt left, whatever restarts lay between (FR18).        *)
SendingIsClaimed ==
  orderly => \A l \in Loops :
    Sending(l) => status[cur[l]] = "sending" /\ attempts[cur[l]] < MaxSendAttempts

(* Delivered, failed and cancelled are final, though the store's updates do  *)
(* not ask for the status they leave.                                        *)
TerminalIsFinal ==
  [][orderly => \A r \in Rows : status[r] \in Terminal => status'[r] = status[r]]_vars

(* A reminder is in the end delivered, failed or cancelled, across reloads   *)
(* and crashes, or something was out of order by then.                       *)
EventuallySettled ==
  \A r \in Rows : (status[r] # "absent") ~> (status[r] \in Terminal \/ ~orderly)

=============================================================================
