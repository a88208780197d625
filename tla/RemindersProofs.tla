---------------------------- MODULE RemindersProofs ----------------------------
(***************************************************************************)
(* Proofs about Reminders, for every number of reminders, loops and        *)
(* platforms and every retry limit.  The first two theorems hold whatever  *)
(* fails and whatever is left behind; the last two are about behaviours    *)
(* for as long as they are orderly.                                        *)
(***************************************************************************)
EXTENDS Reminders, FiniteSetTheorems, TLAPS

(* A loop that is past its snapshot works on a row.                         *)
WorkInv ==
  \A l \in Loops : at[l] \in {"claiming", "sending", "marking", "retrying"} => cur[l] \in Rows

TypeInv == TypeOK /\ WorkInv

(* What is about to be marked delivered has been accepted: by the loop that *)
(* marks it, or by the one whose transaction is still to commit.            *)
AcceptedInv ==
  /\ DeliveredWasSent
  /\ \A l \in Loops : at[l] = "marking" => accepted[cur[l]] > 0
  /\ \A o \in orphans : o.op = "deliver" => accepted[o.row] > 0

(* The loops with a message of r on its way, each of which may be accepted. *)
Senders(r) == {l \in Loops : at[l] = "sending" /\ cur[l] = r}

(* A row that some loop is sending, or has just sent.                       *)
Held(r) == \E l \in Loops : Sending(l) /\ cur[l] = r

(* What r may still cost: a row that waits, or that was claimed by a loop   *)
(* that is gone, has used up what it was allowed; any other may go out once *)
(* more than it was cut off or recorded as failed.                          *)
Allowance(r) ==
  IF status[r] \in {"absent", "pending"} \/ (status[r] = "sending" /\ ~Held(r)) THEN 0 ELSE 1

CreditInv ==
  \A r \in Rows :
    /\ accepted[r] + Cardinality(Senders(r)) <= cuts[r] + attempts[r] + Allowance(r)
    /\ status[r] = "absent" => ~Held(r)

(* While all is orderly: an active loop is the one its interface holds and  *)
(* works on rows of its platform, which it has claimed when it sends.       *)
OwnerInv ==
  /\ orphans = {}
  /\ \A l \in Loops :
       /\ at[l] # "none" => owner[LoopPlatform[l]] = l
       /\ at[l] # "dead"
       /\ todo[l] \subseteq OnPlatform(LoopPlatform[l])
       /\ at[l] \in {"claiming", "sending", "marking", "retrying"} =>
            cur[l] \in OnPlatform(LoopPlatform[l])
       /\ Sending(l) => status[cur[l]] = "sending"
  /\ \A r \in Rows : status[r] \in {"absent", "pending", "sending"} => attempts[r] < MaxSendAttempts

-----------------------------------------------------------------------------
(* Types. *)

LEMMA TypeInit == Init => TypeInv
BY ReminderAssumption
DEF Init, TypeInv, TypeOK, WorkInv, Statuses, Terminal, Stations, Ops

LEMMA RowTransactions ==
  ASSUME TypeOK, NEW r \in Rows, ClaimRow(r) \/ MarkDelivered(r) \/ DueWithRetry(r)
  PROVE  /\ status' \in [Rows -> Statuses] /\ attempts' \in [Rows -> Nat]
         /\ ready' \subseteq Rows
BY DEF TypeOK, ClaimRow, MarkDelivered, DueWithRetry, Statuses, Terminal

LEMMA TypeStep == TypeInv /\ [Next]_vars => TypeInv'
<1> SUFFICES ASSUME TypeInv, [Next]_vars PROVE TypeInv'
  OBVIOUS
<1> USE DEF TypeInv, TypeOK, WorkInv
<1> USE ReminderAssumption
<1>1. ASSUME NEW r \in Rows, ToolStep(r) PROVE TypeInv'
  BY <1>1 DEF ToolStep, Create, Cancel, ComesDue, loopVars, histVars, Statuses, Terminal
<1>2. ASSUME NEW l \in Loops, BeginStart(l) \/ PollDone(l) PROVE TypeInv'
  BY <1>2 DEF BeginStart, PollDone, Go, rowVars, histVars, Stations
<1>3. ASSUME NEW l \in Loops, StartResets(l) PROVE TypeInv'
  BY <1>3 DEF StartResets, ResetSending, Go, Stations, Statuses
<1>4. ASSUME NEW l \in Loops, Poll(l) PROVE TypeInv'
  BY <1>4 DEF Poll, Due, OnPlatform, Go, rowVars, histVars, Stations
<1>5. ASSUME NEW l \in Loops, TakeNext(l) PROVE TypeInv'
  BY <1>5 DEF TakeNext, Go, rowVars, histVars, Stations
<1>6. ASSUME NEW l \in Loops, Claim(l) PROVE TypeInv'
  <2>1. cur[l] \in Rows
    BY <1>6 DEF Claim
  <2>2. status' \in [Rows -> Statuses] /\ attempts' \in [Rows -> Nat] /\ ready' \subseteq Rows
    BY <1>6, <2>1, RowTransactions DEF Claim
  <2> QED BY <1>6, <2>2 DEF Claim, Go, histVars, Stations
<1>7. ASSUME NEW l \in Loops, SendAccepted(l) PROVE TypeInv'
  BY <1>7 DEF SendAccepted, Go, rowVars, Stations
<1>8. ASSUME NEW l \in Loops, SendRaises(l) PROVE TypeInv'
  BY <1>8 DEF SendRaises, Go, rowVars, Stations
<1>9. ASSUME NEW l \in Loops, Delivered(l) \/ RetryLater(l) PROVE TypeInv'
  <2>1. cur[l] \in Rows
    BY <1>9 DEF Delivered, RetryLater
  <2>2. status' \in [Rows -> Statuses] /\ attempts' \in [Rows -> Nat] /\ ready' \subseteq Rows
    BY <1>9, <2>1, RowTransactions DEF Delivered, RetryLater
  <2>3. at' \in [Loops -> Stations] /\ UNCHANGED <<todo, cur, owner, orphans, histVars>> /\ WorkInv'
    BY <1>9 DEF Delivered, RetryLater, Go, histVars, Stations
  <2> QED BY <2>2, <2>3 DEF histVars
<1>10. ASSUME NEW l \in Loops, StoreRaises(l) PROVE TypeInv'
  <2>1. orderly' \in BOOLEAN
    BY <1>10, Zenon DEF StoreRaises
  <2>2. /\ cuts' = IF at[l] \in {"marking", "retrying"} THEN [cuts EXCEPT ![cur[l]] = @ + 1] ELSE cuts
        /\ UNCHANGED <<todo, cur, owner, rowVars, orphans, accepted, interrupts>>
        /\ at' = [at EXCEPT ![l] = "dead"]
    BY <1>10 DEF StoreRaises, Go
  <2> QED BY <2>1, <2>2 DEF rowVars, Stations
<1>11. ASSUME NEW L \in SUBSET Loops, CutOff(L)
       PROVE  /\ at' \in [Loops -> Stations] /\ todo' \in [Loops -> SUBSET Rows]
              /\ cur' \in [Loops -> Rows \cup {None}] /\ WorkInv'
              /\ accepted' \in [Rows -> Nat] /\ cuts' \in [Rows -> Nat]
              /\ interrupts' \in 0..MaxInterrupts
  <2>1. PICK took \in SUBSET InFlight(L) :
          accepted' = [r \in Rows |-> accepted[r] + Cardinality({l \in took : cur[l] = r})]
    BY <1>11 DEF CutOff
  <2>2. \A r \in Rows : Cardinality({l \in took : cur[l] = r}) \in Nat
    <3> TAKE r \in Rows
    <3>1. {l \in took : cur[l] = r} \subseteq Loops
      BY DEF InFlight
    <3> QED BY <3>1, FS_Subset, FS_CardinalityType
  <2>3. accepted' \in [Rows -> Nat]
    BY <2>1, <2>2
  <2> QED BY <1>11, <2>3 DEF CutOff, Stations
<1>12. ASSUME NEW l \in Loops, StopLoop(l) PROVE TypeInv'
  <2>1. \A o \in Pending(l) : o \in [op : Ops, row : Rows]
    BY DEF Pending, Ops
  <2>2. orphans' \subseteq [op : Ops, row : Rows] /\ orderly' \in BOOLEAN
    BY <1>12, <2>1 DEF StopLoop
  <2>3. owner' \in [Platforms -> Loops \cup {None}] /\ UNCHANGED rowVars /\ CutOff({l})
    BY <1>12 DEF StopLoop
  <2> QED BY <1>11, <2>2, <2>3 DEF rowVars
<1>13. ASSUME NEW l \in Loops, StopWhileStarting(l) PROVE TypeInv'
  <2>1. orderly' \in BOOLEAN
    BY <1>13, Zenon DEF StopWhileStarting
  <2>2. /\ owner' = [owner EXCEPT ![LoopPlatform[l]] = None] /\ interrupts' = interrupts + 1
        /\ interrupts < MaxInterrupts
        /\ UNCHANGED <<at, todo, cur, rowVars, orphans, accepted, cuts>>
    BY <1>13 DEF StopWhileStarting
  <2> QED BY <2>1, <2>2 DEF rowVars
<1>14. CASE Crash
  BY <1>11, <1>14 DEF Crash, rowVars
<1>15. ASSUME NEW o \in orphans, OrphanCommits(o) PROVE TypeInv'
  <2>1. o.row \in Rows /\ o.op \in Ops
    OBVIOUS
  <2>2. ClaimRow(o.row) \/ MarkDelivered(o.row) \/ DueWithRetry(o.row)
    BY <1>15, <2>1 DEF OrphanCommits, Ops
  <2>3. status' \in [Rows -> Statuses] /\ attempts' \in [Rows -> Nat] /\ ready' \subseteq Rows
    BY <2>1, <2>2, RowTransactions
  <2> QED BY <1>15, <2>3 DEF OrphanCommits, loopVars, histVars
<1>16. CASE UNCHANGED vars
  BY <1>16 DEF vars, rowVars, loopVars, histVars
<1> QED
  BY <1>1, <1>2, <1>3, <1>4, <1>5, <1>6, <1>7, <1>8, <1>9, <1>10, <1>12, <1>13, <1>14,
     <1>15, <1>16
  DEF Next, LoopStep

LEMMA TypeInvariant == Spec => []TypeInv
BY TypeInit, TypeStep, PTL DEF Spec

(* Rows, loops and late transactions stay in their types: a loop that claims,*)
(* sends or records has a row, and so has the transaction it leaves behind.  *)
THEOREM TypeCorrect == Spec => []TypeOK
<1>1. TypeInv => TypeOK
  BY DEF TypeInv
<1> QED BY <1>1, TypeInvariant, PTL

LEMMA DisjointUnion ==
  ASSUME NEW A, NEW B, IsFiniteSet(A), IsFiniteSet(B), A \cap B = {}
  PROVE  Cardinality(A \cup B) = Cardinality(A) + Cardinality(B)
<1>1. Cardinality(A \cup B) = Cardinality(A) + Cardinality(B) - Cardinality({})
  BY FS_Union
<1>2. Cardinality({}) = 0 /\ Cardinality(A) \in Nat /\ Cardinality(B) \in Nat
  BY FS_EmptySet, FS_CardinalityType
<1> QED BY <1>1, <1>2

(* Where a loop's cut-off, alone or with the others, leaves the counters.   *)
LEMMA CutOffCounts ==
  ASSUME TypeInv, NEW L \in SUBSET Loops, CutOff(L), NEW r \in Rows
  PROVE  /\ accepted'[r] \in Nat /\ accepted'[r] >= accepted[r]
         /\ Cardinality(Senders(r)) \in Nat /\ Cardinality(Senders(r)') \in Nat
         /\ accepted'[r] + Cardinality(Senders(r)') <= accepted[r] + Cardinality(Senders(r))
<1> USE DEF TypeInv, TypeOK
<1>1. PICK took \in SUBSET InFlight(L) :
        accepted' = [x \in Rows |-> accepted[x] + Cardinality({l \in took : cur[l] = x})]
  BY DEF CutOff
<1> DEFINE T == {l \in took : cur[l] = r}
<1>2. T \subseteq Senders(r) /\ Senders(r)' = Senders(r) \ L /\ T \cap Senders(r)' = {}
  BY ReminderAssumption DEF InFlight, Senders, CutOff
<1>3. IsFiniteSet(Senders(r)) /\ IsFiniteSet(T) /\ IsFiniteSet(Senders(r)')
  BY <1>2, ReminderAssumption, FS_Subset DEF Senders
<1>4. Cardinality(T \cup Senders(r)') <= Cardinality(Senders(r))
  BY <1>2, <1>3, FS_Subset
<1>5. Cardinality(T \cup Senders(r)') = Cardinality(T) + Cardinality(Senders(r)')
  BY <1>2, <1>3, DisjointUnion
<1>6. Cardinality(T) \in Nat /\ Cardinality(Senders(r)) \in Nat /\ Cardinality(Senders(r)') \in Nat
  BY <1>3, FS_CardinalityType
<1>7. accepted'[r] = accepted[r] + Cardinality(T) /\ accepted[r] \in Nat
  BY <1>1
<1> HIDE DEF T
<1> QED BY <1>4, <1>5, <1>6, <1>7

-----------------------------------------------------------------------------
(* Nothing is marked delivered that the platform did not take. *)

(* No step takes an acceptance back.                                        *)
LEMMA AcceptedGrows ==
  ASSUME TypeInv, [Next]_vars
  PROVE  \A r \in Rows : accepted[r] \in Nat /\ accepted'[r] \in Nat /\ accepted'[r] >= accepted[r]
<1> USE DEF TypeInv, TypeOK
<1>1. ASSUME NEW l \in Loops, SendAccepted(l) \/ SendRaises(l)
      PROVE  \A r \in Rows : accepted'[r] \in Nat /\ accepted'[r] >= accepted[r]
  BY <1>1 DEF SendAccepted, SendRaises
<1>2. ASSUME NEW L \in SUBSET Loops, CutOff(L)
      PROVE  \A r \in Rows : accepted'[r] \in Nat /\ accepted'[r] >= accepted[r]
  BY <1>2, CutOffCounts
<1>3. UNCHANGED accepted \/ (\E l \in Loops : SendAccepted(l) \/ SendRaises(l))
        \/ (\E L \in SUBSET Loops : CutOff(L))
  <2>1. ASSUME NEW r \in Rows, ToolStep(r) PROVE UNCHANGED accepted
    BY <2>1 DEF ToolStep, Create, Cancel, ComesDue, histVars
  <2>2. ASSUME NEW l \in Loops, BeginStart(l) \/ StoreRaises(l) \/ StopWhileStarting(l)
        PROVE  UNCHANGED accepted
    BY <2>2 DEF BeginStart, StoreRaises, StopWhileStarting, histVars
  <2>3. ASSUME NEW l \in Loops, LoopStep(l), ~(SendAccepted(l) \/ SendRaises(l))
        PROVE  UNCHANGED accepted
    BY <2>3 DEF LoopStep, StartResets, Poll, TakeNext, PollDone, Claim, Delivered, RetryLater, histVars
  <2>4. ASSUME NEW o \in orphans, OrphanCommits(o) PROVE UNCHANGED accepted
    BY <2>4 DEF OrphanCommits, histVars
  <2> QED BY <2>1, <2>2, <2>3, <2>4 DEF Next, StopLoop, Crash, vars, histVars
<1> QED BY <1>1, <1>2, <1>3

LEMMA AcceptedStep == TypeInv /\ AcceptedInv /\ [Next]_vars => AcceptedInv'
<1> SUFFICES ASSUME TypeInv, AcceptedInv, [Next]_vars PROVE AcceptedInv'
  OBVIOUS
<1> USE DEF TypeInv, TypeOK, WorkInv, AcceptedInv, DeliveredWasSent
<1>1. \A r \in Rows : accepted[r] > 0 => accepted'[r] > 0
  BY AcceptedGrows
<1>2. ASSUME NEW r \in Rows, ToolStep(r) PROVE AcceptedInv'
  BY <1>2, <1>1 DEF ToolStep, Create, Cancel, ComesDue, loopVars, histVars
<1>3. ASSUME NEW l \in Loops, BeginStart(l) \/ PollDone(l) \/ Poll(l) \/ TakeNext(l) PROVE AcceptedInv'
  BY <1>3, <1>1 DEF BeginStart, PollDone, Poll, TakeNext, Go, rowVars, histVars
<1>4. ASSUME NEW l \in Loops, StartResets(l) PROVE AcceptedInv'
  BY <1>4, <1>1 DEF StartResets, ResetSending, Go
<1>5. ASSUME NEW l \in Loops, Claim(l) PROVE AcceptedInv'
  BY <1>5, <1>1 DEF Claim, ClaimRow, Go, histVars
<1>6. ASSUME NEW l \in Loops, SendAccepted(l) PROVE AcceptedInv'
  <2>1. accepted'[cur[l]] > 0
    BY <1>6 DEF SendAccepted
  <2> QED BY <1>6, <1>1, <2>1 DEF SendAccepted, Go, rowVars
<1>7. ASSUME NEW l \in Loops, SendRaises(l) \/ StoreRaises(l) \/ StopWhileStarting(l) PROVE AcceptedInv'
  BY <1>7, <1>1 DEF SendRaises, StoreRaises, StopWhileStarting, Go, rowVars
<1>8. ASSUME NEW l \in Loops, Delivered(l) PROVE AcceptedInv'
  BY <1>8, <1>1 DEF Delivered, MarkDelivered, Go, histVars
<1>9. ASSUME NEW l \in Loops, RetryLater(l) PROVE AcceptedInv'
  BY <1>9, <1>1 DEF RetryLater, DueWithRetry, Go, histVars
<1>10. ASSUME NEW l \in Loops, StopLoop(l) PROVE AcceptedInv'
  <2>1. \A o \in Pending(l) : o.op = "deliver" => at[l] = "marking" /\ o.row = cur[l]
    BY DEF Pending
  <2>2. \A o \in orphans' : o \in orphans \/ o \in Pending(l)
    BY <1>10 DEF StopLoop
  <2>3. \A o \in orphans' : o.op = "deliver" => accepted'[o.row] > 0
    BY <2>1, <2>2, <1>1
  <2> QED BY <1>10, <1>1, <2>3 DEF StopLoop, CutOff, rowVars
<1>11. CASE Crash
  BY <1>11, <1>1 DEF Crash, CutOff, rowVars
<1>12. ASSUME NEW o \in orphans, OrphanCommits(o) PROVE AcceptedInv'
  <2>1. o.row \in Rows /\ UNCHANGED <<at, cur, accepted>> /\ orphans' \subseteq orphans
    BY <1>12 DEF OrphanCommits, loopVars, histVars
  <2>2. \/ ClaimRow(o.row) \/ DueWithRetry(o.row)
        \/ MarkDelivered(o.row) /\ o.op = "deliver"
    BY <1>12 DEF OrphanCommits, Ops
  <2> QED BY <2>1, <2>2 DEF ClaimRow, DueWithRetry, MarkDelivered
<1>13. CASE UNCHANGED vars
  BY <1>13 DEF vars, rowVars, loopVars, histVars
<1> QED
  BY <1>2, <1>3, <1>4, <1>5, <1>6, <1>7, <1>8, <1>9, <1>10, <1>11, <1>12, <1>13
  DEF Next, LoopStep

(* Whatever is reloaded, crashes, fails in the store or commits late: a row  *)
(* that the store shows delivered was taken by the platform.                 *)
THEOREM NoneIsDeliveredUnsent == Spec => []DeliveredWasSent
<1>1. Init => AcceptedInv
  BY DEF Init, AcceptedInv, DeliveredWasSent
<1>2. AcceptedInv => DeliveredWasSent
  BY DEF AcceptedInv
<1> QED BY <1>1, <1>2, AcceptedStep, TypeInvariant, PTL DEF Spec

-----------------------------------------------------------------------------
(* At least once, and not more often than failures and cut-offs explain.    *)

Active == {"sending", "marking", "retrying"}

LEMMA SendersFinite ==
  ASSUME NEW r \in Rows
  PROVE  IsFiniteSet(Senders(r)) /\ Cardinality(Senders(r)) \in Nat
BY ReminderAssumption, FS_Subset, FS_CardinalityType DEF Senders

LEMMA HeldIsSentBy == \A r \in Rows : r \in SentBy(Loops) <=> Held(r)
BY DEF SentBy, Held, Sending

(* A step of one loop leaves the rows it neither had nor has alone.         *)
LEMMA OtherRows ==
  ASSUME TypeInv, NEW l \in Loops, \A k \in Loops \ {l} : at'[k] = at[k] /\ cur'[k] = cur[k],
         NEW r \in Rows, ~(at[l] \in Active /\ cur[l] = r), ~(at'[l] \in Active /\ cur'[l] = r)
  PROVE  Senders(r)' = Senders(r) /\ (Held(r)' <=> Held(r))
BY DEF TypeInv, TypeOK, Senders, Held, Sending, Active

(* Between active stations only one's own message leaves the way.           *)
LEMMA OwnRow ==
  ASSUME TypeInv, NEW l \in Loops, \A k \in Loops \ {l} : at'[k] = at[k], UNCHANGED cur,
         at[l] \in Active, NEW r \in Rows, cur[l] = r, at'[l] # "sending"
  PROVE  /\ Senders(r)' = Senders(r) \ {l} /\ Held(r)
         /\ l \in Senders(r) <=> at[l] = "sending"
         /\ at[l] # "sending" => Senders(r)' = Senders(r)
         /\ at'[l] \in Active => Held(r)'
BY DEF TypeInv, TypeOK, Senders, Held, Sending, Active

(* What the transactions do to what a row may still cost.                   *)
LEMMA TransactionCosts ==
  ASSUME TypeInv, NEW r \in Rows, NEW x \in Rows,
         x = r \/ (Held(r)' <=> Held(r)),
         \/ ClaimRow(x) /\ (status[x] = "pending" \/ (Held(r)' <=> Held(r)))
         \/ MarkDelivered(x)
         \/ DueWithRetry(x)
  PROVE  attempts'[r] \in Nat /\ attempts'[r] + Allowance(r)' >= attempts[r] + Allowance(r)
<1> USE DEF TypeInv, TypeOK, Allowance
<1>1. CASE ClaimRow(x) /\ (status[x] = "pending" \/ (Held(r)' <=> Held(r)))
  <2>1. attempts'[r] = attempts[r]
    BY <1>1 DEF ClaimRow
  <2>2. CASE x = r /\ status[r] = "pending"
    <3>1. Allowance(r) = 0 /\ Allowance(r)' \in {0, 1}
      BY <2>2
    <3> QED BY <2>1, <3>1
  <2>3. CASE ~(x = r /\ status[r] = "pending")
    <3>1. status'[r] = status[r]
      BY <1>1, <2>3 DEF ClaimRow
    <3>2. Held(r)' <=> Held(r)
      BY <1>1, <2>3
    <3> QED BY <2>1, <3>1, <3>2
  <2> QED BY <2>2, <2>3
<1>2. CASE MarkDelivered(x)
  BY <1>2 DEF MarkDelivered
<1>3. CASE DueWithRetry(x)
  BY <1>3 DEF DueWithRetry
<1> QED BY <1>1, <1>2, <1>3

LEMMA CreditStep == TypeInv /\ CreditInv /\ [Next]_vars => CreditInv'
<1> SUFFICES ASSUME TypeInv, CreditInv, [Next]_vars, NEW r \in Rows
             PROVE  /\ accepted'[r] + Cardinality(Senders(r)') <= cuts'[r] + attempts'[r] + Allowance(r)'
                    /\ status'[r] = "absent" => ~Held(r)'
  BY DEF CreditInv
<1> DEFINE Goal == /\ accepted'[r] + Cardinality(Senders(r)') <= cuts'[r] + attempts'[r] + Allowance(r)'
                   /\ status'[r] = "absent" => ~Held(r)'
<1>1. /\ accepted[r] + Cardinality(Senders(r)) <= cuts[r] + attempts[r] + Allowance(r)
      /\ status[r] = "absent" => ~Held(r)
      /\ accepted[r] \in Nat /\ cuts[r] \in Nat /\ attempts[r] \in Nat /\ status[r] \in Statuses
      /\ Cardinality(Senders(r)) \in Nat /\ IsFiniteSet(Senders(r))
      /\ at \in [Loops -> Stations] /\ cur \in [Loops -> Rows \cup {None}]
      /\ Allowance(r) \in {0, 1} /\ Allowance(r)' \in {0, 1}
  BY SendersFinite DEF CreditInv, TypeInv, TypeOK, Allowance
<1> USE <1>1
<1>2. ASSUME UNCHANGED <<status, attempts, accepted, cuts>>,
             Senders(r)' = Senders(r), Held(r)' <=> Held(r)
      PROVE  Goal
  BY <1>2 DEF Allowance
<1>3. ASSUME NEW x \in Rows, ToolStep(x) PROVE Goal
  <2>1. Senders(r)' = Senders(r) /\ (Held(r)' <=> Held(r))
    BY <1>3 DEF ToolStep, Create, Cancel, ComesDue, loopVars, Senders, Held, Sending
  <2>2. UNCHANGED <<attempts, accepted, cuts>>
    BY <1>3 DEF ToolStep, Create, Cancel, ComesDue, histVars
  <2>3. Allowance(r)' >= Allowance(r) /\ (status'[r] = "absent" => status[r] = "absent")
    BY <1>3, <2>1 DEF ToolStep, Create, Cancel, ComesDue, TypeInv, TypeOK, Allowance
  <2> QED BY <2>1, <2>2, <2>3
<1>4. ASSUME NEW l \in Loops, BeginStart(l) \/ PollDone(l) \/ Poll(l) \/ TakeNext(l) PROVE Goal
  <2>1. at[l] \notin Active /\ at'[l] \notin Active /\ \A k \in Loops \ {l} : at'[k] = at[k]
    BY <1>4 DEF BeginStart, PollDone, Poll, TakeNext, Go, Active
  <2>2. /\ UNCHANGED <<status, attempts, accepted, cuts>>
        /\ \A k \in Loops \ {l} : cur'[k] = cur[k]
    BY <1>4 DEF BeginStart, PollDone, Poll, TakeNext, rowVars, histVars
  <2> QED BY <1>2, <2>1, <2>2, OtherRows
<1>5. ASSUME NEW l \in Loops, StartResets(l) PROVE Goal
  <2>1. Senders(r)' = Senders(r) /\ (Held(r)' <=> Held(r))
    <3>1. /\ at[l] \notin Active /\ at'[l] \notin Active /\ UNCHANGED cur
          /\ \A k \in Loops \ {l} : at'[k] = at[k]
      BY <1>5 DEF StartResets, Go, Active
    <3> QED BY <3>1, OtherRows
  <2>2. UNCHANGED <<attempts, accepted>> /\ (status'[r] = "absent" => status[r] = "absent")
    BY <1>5 DEF StartResets, ResetSending, TypeInv, TypeOK
  <2>3. cuts'[r] \in Nat /\ cuts'[r] + Allowance(r)' >= cuts[r] + Allowance(r)
    <3>1. cuts'[r] = IF status[r] # status'[r] /\ Held(r) THEN cuts[r] + 1 ELSE cuts[r]
      BY <1>5, HeldIsSentBy DEF StartResets, ResetSending
    <3>2. status'[r] = status[r] \/ (status[r] = "sending" /\ status'[r] = "pending")
      BY <1>5 DEF StartResets, ResetSending
    <3> QED BY <3>1, <3>2, <2>1 DEF Allowance
  <2> QED BY <2>1, <2>2, <2>3
<1>6. ASSUME NEW l \in Loops, Claim(l) PROVE Goal
  <2>1. cur[l] \in Rows /\ at[l] = "claiming" /\ UNCHANGED <<cur, accepted, cuts, attempts>>
    BY <1>6 DEF Claim, ClaimRow, histVars, TypeInv, WorkInv
  <2>2. CASE cur[l] = r /\ status[r] = "pending"
    <3>1. at' = [at EXCEPT ![l] = "sending"] /\ status'[r] = "sending"
      BY <1>6, <2>2 DEF Claim, ClaimRow, Go, TypeInv, TypeOK
    <3>2. Senders(r)' = Senders(r) \cup {l} /\ l \notin Senders(r) /\ Held(r)'
      BY <2>1, <2>2, <3>1 DEF Senders, Held, Sending
    <3>3. Cardinality(Senders(r)') = Cardinality(Senders(r)) + 1
      BY <3>2, FS_AddElement
    <3>4. Allowance(r) = 0 /\ Allowance(r)' = 1
      BY <2>2, <3>1, <3>2 DEF Allowance
    <3> QED BY <2>1, <3>1, <3>3, <3>4
  <2>3. CASE ~(cur[l] = r /\ status[r] = "pending")
    <3>1. /\ at[l] \notin Active /\ (at'[l] \in Active => status[cur[l]] = "pending")
          /\ \A k \in Loops \ {l} : at'[k] = at[k]
      BY <1>6 DEF Claim, Go, Active
    <3>2. Senders(r)' = Senders(r) /\ (Held(r)' <=> Held(r))
      BY <2>1, <2>3, <3>1, OtherRows
    <3>3. status'[r] = status[r]
      BY <1>6, <2>3 DEF Claim, ClaimRow, TypeInv, TypeOK
    <3> QED BY <2>1, <3>2, <3>3 DEF Allowance
  <2> QED BY <2>2, <2>3
<1>7. ASSUME NEW l \in Loops, SendAccepted(l) \/ SendRaises(l) PROVE Goal
  <2>1. /\ at[l] = "sending" /\ UNCHANGED <<cur, cuts, status, attempts>> /\ cur[l] \in Rows
        /\ at'[l] \in {"marking", "retrying"} /\ \A k \in Loops \ {l} : at'[k] = at[k]
        /\ \E took \in {0, 1} : accepted' = [accepted EXCEPT ![cur[l]] = @ + took]
    BY <1>7 DEF SendAccepted, SendRaises, Go, rowVars, TypeInv, WorkInv
  <2>2. CASE cur[l] = r
    <3>1. Senders(r)' = Senders(r) \ {l} /\ l \in Senders(r) /\ Held(r) /\ Held(r)'
      BY <2>1, <2>2, OwnRow DEF Active
    <3>2. Cardinality(Senders(r)') = Cardinality(Senders(r)) - 1
      BY <3>1, FS_RemoveElement
    <3>3. accepted'[r] \in Nat /\ accepted'[r] <= accepted[r] + 1
      BY <2>1, <2>2 DEF TypeInv, TypeOK
    <3> QED BY <2>1, <3>1, <3>2, <3>3 DEF Allowance
  <2>3. CASE cur[l] # r
    <3>1. Senders(r)' = Senders(r) /\ (Held(r)' <=> Held(r))
      BY <2>1, <2>3, OtherRows
    <3>2. accepted'[r] = accepted[r]
      BY <2>1, <2>3 DEF TypeInv, TypeOK
    <3> QED BY <2>1, <3>1, <3>2 DEF Allowance
  <2> QED BY <2>2, <2>3
<1>8. ASSUME NEW l \in Loops, Delivered(l) \/ RetryLater(l) PROVE Goal
  <2>1. /\ at[l] \in {"marking", "retrying"} /\ UNCHANGED <<cur, accepted, cuts>> /\ cur[l] \in Rows
        /\ at'[l] = "scanning" /\ \A k \in Loops \ {l} : at'[k] = at[k]
        /\ MarkDelivered(cur[l]) \/ DueWithRetry(cur[l])
    BY <1>8 DEF Delivered, RetryLater, Go, histVars, TypeInv, WorkInv
  <2>2. Senders(r)' = Senders(r) /\ (cur[l] = r \/ (Held(r)' <=> Held(r)))
    <3>1. CASE cur[l] = r
      BY <2>1, <3>1, OwnRow DEF Active
    <3>2. CASE cur[l] # r
      BY <2>1, <3>2, OtherRows
    <3> QED BY <3>1, <3>2
  <2>3. attempts'[r] \in Nat /\ attempts'[r] + Allowance(r)' >= attempts[r] + Allowance(r)
    BY <2>1, <2>2, TransactionCosts
  <2>4. status'[r] = "absent" => status[r] = "absent" /\ (Held(r)' <=> Held(r))
    BY <2>1, <2>2 DEF MarkDelivered, DueWithRetry, TypeInv, TypeOK
  <2> QED BY <2>1, <2>2, <2>3, <2>4
<1>9. ASSUME NEW l \in Loops, StoreRaises(l) PROVE Goal
  <2>1. /\ UNCHANGED <<cur, accepted, status, attempts>>
        /\ at'[l] = "dead" /\ \A k \in Loops \ {l} : at'[k] = at[k]
    BY <1>9 DEF StoreRaises, Go, rowVars
  <2>2. CASE at[l] \in {"marking", "retrying"} /\ cur[l] = r
    <3>1. Senders(r)' = Senders(r)
      BY <2>1, <2>2, OwnRow DEF Active
    <3>2. cuts'[r] = cuts[r] + 1
      BY <1>9, <2>2 DEF StoreRaises, TypeInv, TypeOK
    <3>3. status[r] # "absent"
      BY <2>2, <1>1 DEF Held, Sending
    <3> QED BY <2>1, <3>1, <3>2, <3>3
  <2>3. CASE ~(at[l] \in {"marking", "retrying"} /\ cur[l] = r)
    <3>1. at[l] # "sending" /\ cuts'[r] = cuts[r]
      BY <1>9, <2>3 DEF StoreRaises, TypeInv, TypeOK
    <3>2. Senders(r)' = Senders(r) /\ (Held(r)' <=> Held(r))
      BY <2>1, <2>3, <3>1, OtherRows DEF Active
    <3> QED BY <2>1, <3>1, <3>2 DEF Allowance
  <2> QED BY <2>2, <2>3
<1>10. ASSUME NEW L \in SUBSET Loops, CutOff(L), UNCHANGED rowVars PROVE Goal
  <2>1. /\ accepted'[r] \in Nat /\ Cardinality(Senders(r)') \in Nat
        /\ accepted'[r] + Cardinality(Senders(r)') <= accepted[r] + Cardinality(Senders(r))
    BY <1>10, CutOffCounts
  <2>2. UNCHANGED <<status, attempts>>
    BY <1>10 DEF rowVars
  <2>3. Held(r)' => Held(r)
    BY <1>10, ReminderAssumption DEF CutOff, Held, Sending
  <2>4. CASE r \in SentBy(L)
    <3>1. cuts'[r] = cuts[r] + 1
      BY <1>10, <2>4 DEF CutOff
    <3> QED BY <2>1, <2>2, <2>3, <3>1
  <2>5. CASE r \notin SentBy(L)
    <3>1. cuts'[r] = cuts[r]
      BY <1>10, <2>5 DEF CutOff
    <3>2. Held(r)' <=> Held(r)
      BY <1>10, <2>5, ReminderAssumption DEF CutOff, Held, Sending, SentBy
    <3> QED BY <2>1, <2>2, <3>1, <3>2 DEF Allowance
  <2> QED BY <2>4, <2>5
<1>11. ASSUME NEW l \in Loops, StopLoop(l) \/ StopWhileStarting(l) PROVE Goal
  <2>1. CASE StopLoop(l)
    BY <1>10, <2>1 DEF StopLoop
  <2>2. CASE StopWhileStarting(l)
    <3>1. Senders(r)' = Senders(r) /\ (Held(r)' <=> Held(r))
      BY <2>2 DEF StopWhileStarting, Senders, Held, Sending
    <3> QED BY <1>2, <2>2, <3>1 DEF StopWhileStarting, rowVars
  <2> QED BY <1>11, <2>1, <2>2
<1>12. CASE Crash
  BY <1>10, <1>12 DEF Crash
<1>13. ASSUME NEW o \in orphans, OrphanCommits(o) PROVE Goal
  <2>1. Senders(r)' = Senders(r) /\ (Held(r)' <=> Held(r)) /\ UNCHANGED <<accepted, cuts>>
    BY <1>13 DEF OrphanCommits, loopVars, histVars, Senders, Held, Sending
  <2>2. o.row \in Rows /\ (ClaimRow(o.row) \/ MarkDelivered(o.row) \/ DueWithRetry(o.row))
    BY <1>13 DEF OrphanCommits, TypeInv, TypeOK, Ops
  <2>3. attempts'[r] \in Nat /\ attempts'[r] + Allowance(r)' >= attempts[r] + Allowance(r)
    BY <2>1, <2>2, TransactionCosts
  <2>4. status'[r] = "absent" => status[r] = "absent"
    BY <2>2 DEF ClaimRow, MarkDelivered, DueWithRetry, TypeInv, TypeOK
  <2> QED BY <2>1, <2>3, <2>4
<1>14. CASE UNCHANGED vars
  <2>1. Senders(r)' = Senders(r) /\ (Held(r)' <=> Held(r))
    BY <1>14 DEF vars, loopVars, Senders, Held, Sending
  <2> QED BY <1>2, <1>14, <2>1 DEF vars, rowVars, histVars
<1> QED
  BY <1>3, <1>4, <1>5, <1>6, <1>7, <1>8, <1>9, <1>11, <1>12, <1>13, <1>14 DEF Next, LoopStep

(* Across retries, reloads, crashes, store errors, late transactions and     *)
(* loops that two interfaces of a platform run at once: a message goes out   *)
(* once, and once more at most for each cut-off sender and recorded failure. *)
THEOREM DuplicatesAreExplained == Spec => []BoundedDuplicates
<1>1. Init => CreditInv
  <2> SUFFICES ASSUME Init, NEW r \in Rows
               PROVE  /\ accepted[r] + Cardinality(Senders(r)) <= cuts[r] + attempts[r] + Allowance(r)
                      /\ status[r] = "absent" => ~Held(r)
    BY DEF CreditInv
  <2>1. Senders(r) = {} /\ ~Held(r)
    BY DEF Init, Senders, Held, Sending
  <2> QED BY <2>1, FS_EmptySet DEF Init, Allowance
<1>2. TypeInv /\ CreditInv => BoundedDuplicates
  <2> SUFFICES ASSUME TypeInv, CreditInv, NEW r \in Rows
               PROVE  accepted[r] <= 1 + cuts[r] + attempts[r]
    BY DEF BoundedDuplicates
  <2> QED BY SendersFinite DEF CreditInv, TypeInv, TypeOK, Allowance
<1> QED BY <1>1, <1>2, CreditStep, TypeInvariant, PTL DEF Spec

-----------------------------------------------------------------------------
(* While all is orderly: the store answers, no cancelled transaction is to  *)
(* commit later, and no reload came while a loop was still starting.        *)

OrderInv == orderly => OwnerInv

(* Order that is lost does not come back.                                   *)
LEMMA OrderStays == [Next]_vars /\ orderly' => orderly
BY DEF Next, ToolStep, Create, Cancel, ComesDue, BeginStart, LoopStep, StartResets, Poll, TakeNext,
       PollDone, Claim, SendAccepted, SendRaises, Delivered, RetryLater, StoreRaises, StopLoop,
       StopWhileStarting, Crash, OrphanCommits, histVars, vars

(* Two active loops of one platform are one loop.                           *)
LEMMA OneLoopPerPlatform ==
  ASSUME OwnerInv, NEW l \in Loops, NEW k \in Loops, at[l] # "none", at[k] # "none",
         LoopPlatform[l] = LoopPlatform[k]
  PROVE  l = k
BY DEF OwnerInv

(* No row is worked on by two active loops: a loop works for its platform.  *)
LEMMA OneLoopPerRow ==
  ASSUME OwnerInv, NEW l \in Loops, NEW k \in Loops,
         at[l] \in {"claiming", "sending", "marking", "retrying"}, Sending(k), cur[l] = cur[k]
  PROVE  l = k
<1>1. LoopPlatform[l] = LoopPlatform[k]
  BY DEF OwnerInv, OnPlatform, Sending
<1> QED BY <1>1, OneLoopPerPlatform DEF Sending

LEMMA OwnerStep == TypeInv /\ OrderInv /\ [Next]_vars => OrderInv'
<1> SUFFICES ASSUME TypeInv, OwnerInv, [Next]_vars, orderly, orderly' PROVE OwnerInv'
  BY OrderStays DEF OrderInv
<1> USE DEF TypeInv, TypeOK, OwnerInv, OnPlatform, Sending, Statuses, Terminal
<1> USE ReminderAssumption
<1>1. ASSUME NEW r \in Rows, ToolStep(r) PROVE OwnerInv'
  BY <1>1 DEF ToolStep, Create, Cancel, ComesDue, loopVars, histVars
<1>2. ASSUME NEW l \in Loops, BeginStart(l) PROVE OwnerInv'
  BY <1>2 DEF BeginStart, Go, rowVars, histVars
<1>3. ASSUME NEW l \in Loops, StartResets(l) PROVE OwnerInv'
  <2>1. \A k \in Loops : Sending(k) => k # l /\ cur[k] \notin OnPlatform(LoopPlatform[l])
    BY <1>3, OneLoopPerPlatform DEF StartResets
  <2>2. \A k \in Loops : Sending(k)' => Sending(k) /\ status'[cur'[k]] = "sending"
    BY <1>3, <2>1 DEF StartResets, ResetSending, Go, WorkInv
  <2>3. \A r \in Rows : status'[r] = status[r] \/ (status[r] = "sending" /\ status'[r] = "pending")
    <3>1. status' = [r \in Rows |-> IF status[r] = "sending" /\ r \in OnPlatform(LoopPlatform[l])
                                    THEN "pending" ELSE status[r]]
      BY <1>3 DEF StartResets, ResetSending
    <3> QED BY <3>1
  <2>4. UNCHANGED <<todo, cur, owner, orphans, attempts>> /\ at' = [at EXCEPT ![l] = "polling"] /\ at[l] = "resetting"
    BY <1>3 DEF StartResets, ResetSending, Go
  <2> QED BY <2>2, <2>3, <2>4
<1>4. ASSUME NEW l \in Loops, Poll(l) \/ PollDone(l) PROVE OwnerInv'
  BY <1>4 DEF Poll, PollDone, Due, Go, rowVars, histVars
<1>5. ASSUME NEW l \in Loops, TakeNext(l) PROVE OwnerInv'
  BY <1>5 DEF TakeNext, Go, rowVars, histVars
<1>6. ASSUME NEW l \in Loops, Claim(l) PROVE OwnerInv'
  BY <1>6 DEF Claim, ClaimRow, Go, histVars, WorkInv
<1>7. ASSUME NEW l \in Loops, SendAccepted(l) \/ SendRaises(l) PROVE OwnerInv'
  BY <1>7 DEF SendAccepted, SendRaises, Go, rowVars
<1>8. ASSUME NEW l \in Loops, Delivered(l) \/ RetryLater(l) PROVE OwnerInv'
  <2>1. /\ at[l] \in {"marking", "retrying"} /\ cur[l] \in Rows /\ at' = [at EXCEPT ![l] = "scanning"]
        /\ UNCHANGED <<todo, cur, owner, orphans>> /\ (MarkDelivered(cur[l]) \/ DueWithRetry(cur[l]))
    BY <1>8 DEF Delivered, RetryLater, Go, WorkInv
  <2>2. \A r \in Rows : r # cur[l] => status'[r] = status[r] /\ attempts'[r] = attempts[r]
    BY <2>1 DEF MarkDelivered, DueWithRetry
  <2>3. status'[cur[l]] = "pending" => attempts'[cur[l]] < MaxSendAttempts
    BY <2>1 DEF MarkDelivered, DueWithRetry
  <2>4. status'[cur[l]] \in {"delivered", "failed", "pending"}
    BY <2>1 DEF MarkDelivered, DueWithRetry
  <2>5. \A k \in Loops : Sending(k)' => Sending(k) /\ cur[k] # cur[l]
    BY <2>1, OneLoopPerRow
  <2> QED BY <2>1, <2>2, <2>3, <2>4, <2>5 DEF WorkInv
<1>9. ASSUME NEW l \in Loops, StopLoop(l) PROVE OwnerInv'
  <2>1. orphans' = {}
    BY <1>9 DEF StopLoop
  <2> QED BY <1>9, <2>1 DEF StopLoop, CutOff, rowVars
<1>10. CASE Crash
  BY <1>10 DEF Crash, CutOff, rowVars
<1>11. ASSUME NEW l \in Loops, StoreRaises(l) \/ StopWhileStarting(l) PROVE OwnerInv'
  BY <1>11 DEF StoreRaises, StopWhileStarting
<1>12. ASSUME NEW o \in orphans PROVE OwnerInv'
  BY <1>12
<1>13. CASE UNCHANGED vars
  BY <1>13 DEF vars, rowVars, loopVars, histVars
<1> QED
  BY <1>1, <1>2, <1>3, <1>4, <1>5, <1>6, <1>7, <1>8, <1>9, <1>10, <1>11, <1>12, <1>13
  DEF Next, LoopStep

LEMMA OwnerInvariant == Spec => []OrderInv
<1>1. Init => OrderInv
  BY ReminderAssumption DEF Init, OrderInv, OwnerInv, Sending
<1> QED BY <1>1, OwnerStep, TypeInvariant, PTL DEF Spec

(* While all is orderly, whatever crashes: nobody takes a row from the loop *)
(* that sends it, and a row is sent only with an attempt left (FR17, 18).   *)
THEOREM SendersHaveClaims == Spec => []SendingIsClaimed
<1>1. TypeInv /\ OrderInv => SendingIsClaimed
  BY DEF OrderInv, OwnerInv, SendingIsClaimed, TypeInv, WorkInv, Sending
<1> QED BY <1>1, OwnerInvariant, TypeInvariant, PTL

(* While all is orderly a delivered, failed or cancelled reminder stays so, *)
(* though mark_delivered and due_with_retry do not look at the status.      *)
THEOREM TerminalStays == Spec => TerminalIsFinal
<1>1. TypeInv /\ OrderInv /\ [Next]_vars
        => [orderly => \A r \in Rows : status[r] \in Terminal => status'[r] = status[r]]_vars
  <2> SUFFICES ASSUME TypeInv, OwnerInv, [Next]_vars, NEW r \in Rows, status[r] \in Terminal
               PROVE  status'[r] = status[r]
    BY DEF OrderInv
  <2> USE DEF TypeInv, TypeOK, Terminal
  <2>1. ASSUME NEW x \in Rows, ToolStep(x) PROVE status'[r] = status[r]
    BY <2>1 DEF ToolStep, Create, Cancel, ComesDue
  <2>2. ASSUME NEW l \in Loops, Delivered(l) \/ RetryLater(l) PROVE status'[r] = status[r]
    <3>1. status[cur[l]] = "sending"
      BY <2>2 DEF Delivered, RetryLater, OwnerInv, Sending
    <3> QED BY <2>2, <3>1 DEF Delivered, RetryLater, MarkDelivered, DueWithRetry
  <2>3. ASSUME NEW l \in Loops, Claim(l) \/ StartResets(l) PROVE status'[r] = status[r]
    BY <2>3 DEF Claim, ClaimRow, StartResets, ResetSending
  <2>4. ASSUME NEW l \in Loops,
               BeginStart(l) \/ Poll(l) \/ TakeNext(l) \/ PollDone(l) \/ SendAccepted(l) \/ SendRaises(l)
                 \/ StoreRaises(l) \/ StopLoop(l) \/ StopWhileStarting(l)
        PROVE  status'[r] = status[r]
    BY <2>4 DEF BeginStart, Poll, TakeNext, PollDone, SendAccepted, SendRaises, StoreRaises,
                StopLoop, StopWhileStarting, rowVars
  <2>5. orphans = {}
    BY DEF OwnerInv
  <2> QED BY <2>1, <2>2, <2>3, <2>4, <2>5 DEF Next, LoopStep, Crash, rowVars, vars
<1> QED BY <1>1, OwnerInvariant, TypeInvariant, PTL DEF Spec, TerminalIsFinal

=============================================================================
