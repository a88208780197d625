------------------------------ MODULE RepeatGuard ------------------------------
(***************************************************************************)
(* The consecutive repeat guard of one turn (sr2/orchestrator.py,          *)
(* _RepeatGuard and its use in _run_tool_iteration).  The LLM sends        *)
(* messages of tool calls; every valid call is executed, then the guard    *)
(* walks the message's calls and may replace results by notes or stop the  *)
(* turn.  A call is its key (tool and arguments); results are compared     *)
(* whole, content and is_error together.                                   *)
(***************************************************************************)
EXTENDS Naturals, Sequences

CONSTANTS
  Keys,               \* tool calls that differ in tool or arguments
  Results,            \* what the executor may return
  BadArgs,            \* the explanation a malformed call gets as its result
  NotesBeforeStop,    \* notes_before_stop
  MaxIdenticalCalls,  \* max_identical_calls
  MixedMessages,      \* malformed and valid calls may share a message
  MaxMessageCalls,    \* bound on the valid calls of a message
  MaxCalls            \* bound on the executed calls of the turn

ASSUME GuardAssumption ==
  /\ NotesBeforeStop \in Nat \ {0}
  /\ MaxIdenticalCalls \in Nat \ {0, 1}
  /\ MixedMessages \in BOOLEAN
  /\ MaxMessageCalls \in Nat /\ MaxCalls \in Nat
  /\ BadArgs \notin Results

VARIABLES
  guard,     \* the _RepeatGuard
  calls,     \* the message's tool_use_blocks, with what each one returned
  contents,  \* tool_result_blocks: malformed calls' first, then the executed ones'
  next,      \* position of the zip
  event,     \* guard_event: the last note or stop of the message
  phase,     \* "model": the LLM is asked; "observing"; "stopped": forced answer
  log,       \* history: every executed call the guard walked, with its real result
  told       \* history: the result the model was given for each of them

vars == <<guard, calls, contents, next, event, phase, log, told>>

NoCall == [key |-> "none", result |-> "none"]
NewGuard == [count |-> 0, prev |-> NoCall, runStart |-> 0, identical |-> 0,
             firstCall |-> 0, repeats |-> 0]

Real(r) == [kind |-> "real", result |-> r, first |-> 0, repeat |-> 0, warned |-> FALSE]
NoteFor(g, warned) ==
  [kind |-> "note", result |-> "none", first |-> g.firstCall, repeat |-> g.repeats,
   warned |-> warned]

-----------------------------------------------------------------------------
(* _RepeatGuard.observe: the counts, then the verdict on the call. *)

Identical(g, key) == g.count > 0 /\ key = g.prev.key
SameResult(g, key, result) == Identical(g, key) /\ result = g.prev.result

(* A bug: the chain is not restarted by a different result. *)
CountedChainMutant(g, key, result) ==
  LET n == g.count + 1
      same == SameResult(g, key, result)
      ident == Identical(g, key)
  IN [count |-> n, prev |-> [key |-> key, result |-> result],
      runStart  |-> IF ident THEN g.runStart ELSE n,
      identical |-> IF ident THEN g.identical + 1 ELSE 1,
      firstCall |-> IF ident THEN g.firstCall ELSE n,
      repeats   |-> IF same THEN g.repeats + 1 ELSE 0]

(* A bug: a different result breaks the run of identical calls as well. *)
CountedMutant(g, key, result) ==
  LET n == g.count + 1 IN
  IF ~SameResult(g, key, result)
  THEN [count |-> n, prev |-> [key |-> key, result |-> result],
        runStart |-> n, identical |-> 1, firstCall |-> n, repeats |-> 0]
  ELSE [g EXCEPT !.count = n, !.identical = @ + 1, !.repeats = @ + 1]

Counted(g, key, result) ==
  LET n == g.count + 1
      same == SameResult(g, key, result)
      ident == Identical(g, key)
  IN [count |-> n, prev |-> [key |-> key, result |-> result],
      runStart  |-> IF ident THEN g.runStart ELSE n,
      identical |-> IF ident THEN g.identical + 1 ELSE 1,
      firstCall |-> IF same THEN g.firstCall ELSE n,
      repeats   |-> IF same THEN g.repeats + 1 ELSE 0]

(* The limits, of a guard that has just counted a call identical to the last. *)
OverLimits(g) == g.repeats > NotesBeforeStop \/ g.identical >= MaxIdenticalCalls

(* A bug: the note is given to every identical call. *)
ContentMutant(g, r) ==
  IF g.identical < 2 THEN r ELSE NoteFor(g, g.repeats = NotesBeforeStop)

(* A same-result repeat gets the note; the warning goes with the last one     *)
(* before the stop.  Any other call keeps its real result.                    *)
Content(g, r) ==
  IF g.repeats = 0 THEN r ELSE NoteFor(g, g.repeats = NotesBeforeStop)

Verdict(g) ==
  CASE g.identical > 1 /\ OverLimits(g)   -> "stop"
    [] g.repeats > 0 /\ ~OverLimits(g)    -> "note"
    [] OTHER                              -> "none"

-----------------------------------------------------------------------------

Init ==
  /\ guard = NewGuard /\ calls = <<>> /\ contents = <<>> /\ next = 1
  /\ event = "none" /\ phase = "model" /\ log = <<>> /\ told = <<>>

Repeat(x, n) == [i \in 1..n |-> x]

(* The LLM's message: its valid calls are executed (gather keeps their order) *)
(* and the results of malformed ones, here at most one, precede theirs.       *)
Execute ==
  /\ phase = "model"
  /\ \E n \in 0..MaxMessageCalls, malformed \in 0..1 :
       /\ n + malformed > 0 /\ Len(log) + n <= MaxCalls
       /\ n = 0 \/ malformed = 0 \/ MixedMessages
       /\ \E msg \in [1..n -> [key : Keys, result : Results]] :
            /\ calls' = msg
            /\ contents' = Repeat(Real(BadArgs), malformed)
                             \o [i \in 1..n |-> Real(msg[i].result)]
  /\ next' = 1 /\ event' = "none" /\ phase' = "observing"
  /\ UNCHANGED <<guard, log, told>>

(* A bug: the note hides the real result from the next comparison as well. *)
ObserveMutant ==
  /\ phase = "observing" /\ next <= Len(calls)
  /\ LET seen == contents[next]
         g == Counted(guard, calls[next].key, seen.result)
         shown == Content(g, seen)
     IN /\ guard' = [g EXCEPT !.prev.result = shown.result]
        /\ contents' = [contents EXCEPT ![next] = shown]
        /\ event' = IF Verdict(g) = "none" THEN event ELSE Verdict(g)
  /\ log' = Append(log, calls[next])
  /\ next' = next + 1
  /\ UNCHANGED <<calls, phase, told>>

(* One pair of zip(tool_use_blocks, tool_result_blocks): the guard is shown   *)
(* the next-th call with the next-th result.                                  *)
Observe ==
  /\ phase = "observing" /\ next <= Len(calls)
  /\ LET seen == contents[next]
         g == Counted(guard, calls[next].key, seen.result)
     IN /\ guard' = g
        /\ contents' = [contents EXCEPT ![next] = Content(g, seen)]
        /\ event' = IF Verdict(g) = "none" THEN event ELSE Verdict(g)
  /\ log' = Append(log, calls[next])
  /\ next' = next + 1
  /\ UNCHANGED <<calls, phase, told>>

(* Only the message's last note or stop is acted upon. *)
MessageDone ==
  /\ phase = "observing" /\ next > Len(calls)
  /\ phase' = IF event = "stop" THEN "stopped" ELSE "model"
  /\ told' = told \o SubSeq(contents, Len(contents) - Len(calls) + 1, Len(contents))
  /\ calls' = <<>> /\ contents' = <<>> /\ next' = 1 /\ event' = "none"
  /\ UNCHANGED <<guard, log>>

Next == Execute \/ Observe \/ MessageDone

Spec == Init /\ [][Next]_vars

-----------------------------------------------------------------------------
(* Correctness. *)

Calls == [key : Keys, result : Results]
Shown == [kind : {"real", "note"}, result : Results \cup {BadArgs, "none"},
          first : Nat, repeat : Nat, warned : BOOLEAN]
Guards == [count : Nat, prev : [key : Keys \cup {"none"}, result : Results \cup {BadArgs, "none"}],
           runStart : Nat, identical : Nat, firstCall : Nat, repeats : Nat]

TypeOK ==
  /\ guard \in Guards
  /\ calls \in Seq(Calls) /\ contents \in Seq(Shown) /\ next \in Nat
  /\ event \in {"none", "note", "stop"}
  /\ phase \in {"model", "observing", "stopped"}
  /\ log \in Seq(Calls) /\ told \in Seq(Shown)

(* Calls a to b of the turn are the same call, or returned the same as well. *)
SameCall(a, b) == \A i \in a..b : log[i].key = log[b].key
SameChain(a, b) == SameCall(a, b) /\ \A i \in a..b : log[i].result = log[b].result

(* The run counters are what one would count over the turn's executed calls: *)
(* the longest run of identical calls that ends the log (FR 13, 14).         *)
RunMatchesLog ==
  LET n == Len(log) IN
  /\ guard.count = n
  /\ n > 0 =>
       /\ guard.prev.key = log[n].key
       /\ guard.runStart \in 1..n /\ SameCall(guard.runStart, n)
       /\ guard.runStart > 1 => log[guard.runStart - 1].key # log[n].key
       /\ guard.identical = n - guard.runStart + 1

(* The chain counters name the longest end of that run whose calls all       *)
(* returned the same (FR 10, 12, 15).                                        *)
ChainMatchesLog ==
  LET n == Len(log) IN
  n > 0 =>
    /\ guard.firstCall \in guard.runStart..n /\ SameChain(guard.firstCall, n)
    /\ guard.firstCall > guard.runStart => log[guard.firstCall - 1].result # log[n].result
    /\ guard.repeats = n - guard.firstCall

(* The LLM is not asked again with the current run at its limits.            *)
StopsAtLimits ==
  phase = "model" /\ Len(log) > 0 =>
    \A a \in 1..Len(log) :
      /\ SameChain(a, Len(log)) => Len(log) - a <= NotesBeforeStop
      /\ SameCall(a, Len(log)) => Len(log) - a + 1 < MaxIdenticalCalls

(* Two counters with different resets: both are what the log says, and no    *)
(* run of the log outlives the limits they stand for.                        *)
CountersMatchLog == RunMatchesLog /\ ChainMatchesLog /\ StopsAtLimits

(* What the comment above the zip in _run_tool_iteration says: the guard is  *)
(* shown each executed call with that call's own result.  A message that     *)
(* mixes malformed and valid calls violates it, as the results of malformed  *)
(* calls come first and the calls of tool_use_blocks are the valid ones.     *)
ObservesOwnResult ==
  \A n \in {Len(log)} \ {0} : guard.prev.result = log[n].result

(* A note never lies to the model: the call it replaces the result of really *)
(* repeats, with the same result, the calls since the one it names; and a    *)
(* result that is passed on is the call's own.                               *)
NotesAreTruthful ==
  \A n \in DOMAIN told :
    IF told[n].kind = "note"
    THEN /\ told[n].first \in 1..(n - 1) /\ SameChain(told[n].first, n)
         /\ told[n].repeat = n - told[n].first
         /\ told[n].warned <=> told[n].repeat = NotesBeforeStop
    ELSE told[n].result = log[n].result

=============================================================================
