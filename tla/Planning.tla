------------------------------- MODULE Planning -------------------------------
(***************************************************************************)
(* Plans on disk, and the sessions that work through them (spctr/planning, *)
(* tools/builtins/complete_step.py): what a turn is shown of the open      *)
(* plan, the frame its blocks are stamped with, the complete_step tool     *)
(* with the verify command it waits for, and the transformer that should   *)
(* burn a completed step.  Several sessions of one process share the plans *)
(* directory; people and other tools edit the files while they work.       *)
(***************************************************************************)
EXTENDS Integers, Sequences, FiniteSets, SequencesExt, FiniteSetsExt

CONSTANTS
  Plans,        \* the plan directories
  Tasks,        \* the task files of each plan, by number
  Unverifiable, \* the tasks whose file has no verify command
  Agents,       \* the sessions
  Areas,        \* the areas of a turn's run context: "" is no project, "unset" no key
  Fallback,     \* the project of the environment or the working directory
  Known,        \* the projects with knowledge files
  Guide,        \* a planning guide is configured
  Sizes,        \* layer -> size of its text, its header and separator included
  MaxChars,     \* max_tokens of the resolver, in the same unit
  MaxTurns, MaxCalls, MaxEdits, MaxFaults  \* bounds

ASSUME PlanningAssumption ==
  /\ IsFiniteSet(Tasks) /\ Tasks \subseteq Nat \ {0}
  /\ Unverifiable \subseteq Tasks /\ "" \notin Known
  /\ Guide \in BOOLEAN /\ MaxChars \in Nat \ {0}
  /\ {MaxTurns, MaxCalls, MaxEdits, MaxFaults} \subseteq Nat

VARIABLES
  plan,      \* plan directory -> status of its _plan.md
  task,      \* plan, number -> status of the task file
  findings,  \* plan -> the tasks with an entry in _findings.md, in order
  wired,     \* a plan resolver is configured: frames are stamped
  registered, \* complete_step is registered
  sess,      \* session -> the state of its turn
  periods,   \* history: plan, number -> times the file became pending
  flipped,   \* history: plan, number -> completions that flipped the file
  entries,   \* history: plan -> the entries that should be in _findings.md
  spent      \* turns, calls, edits and faults used of their bounds

files == <<plan, task, findings>>
setup == <<wired, registered>>
vars == <<files, setup, sess, periods, flipped, entries, spent>>
history == <<periods, flipped, entries>>

Layers == {"planning", "knowledge", "plan", "findings", "task"}
ASSUME SizesAssumption == Sizes \in [Layers -> Nat \ {0}]

NoStep == <<>>
Resting == [pc |-> "idle", provider |-> FALSE, offered |-> <<>>, shown |-> <<>>,
            step |-> NoStep, note |-> FALSE, hangs |-> FALSE, content |-> <<>>, closed |-> {}]

Spend(what) == /\ spent[what] < [turns |-> MaxTurns, calls |-> MaxCalls,
                                 edits |-> MaxEdits, faults |-> MaxFaults][what]
               /\ spent' = [spent EXCEPT ![what] = @ + 1]

-----------------------------------------------------------------------------
(* Frontmatter.  "broken" stands for a file whose block does not parse; an   *)
(* unknown status reads as pending.                                          *)

ParsedStatus(status) == IF status \in {"done", "broken"} THEN status ELSE "pending"

OpenPlans == {p \in Plans : plan[p] = "open"}
Pending(p) == {k \in Tasks : ParsedStatus(task[p][k]) = "pending"}

(* _find_open_plan raises when several plans are open. *)
Ambiguous == Cardinality(OpenPlans) > 1
OpenPlan == CHOOSE p \in OpenPlans : TRUE

(* What current_frame_id() stamps names the task without its number. *)
Frame == IF OpenPlans = {} \/ Pending(OpenPlan) = {} THEN <<>>
         ELSE <<OpenPlan, [slug |-> Min(Pending(OpenPlan))]>>
(* What complete_step() closes names the task by its file. *)
ClosedFrame(p, k) == <<p, [file |-> k]>>

(* The provider a session got still asks the runtime's resolver, which a     *)
(* reload may have taken away.                                               *)
StampRaises(a) == sess[a].provider /\ (~wired \/ Ambiguous)

-----------------------------------------------------------------------------
(* The layers of the prompt.  A lower priority is dropped later; the table   *)
(* has no entry for the findings, which makes them 0.                        *)

Priority == [task |-> 1, plan |-> 2, knowledge |-> 3, planning |-> 3, findings |-> 0]

(* The project whose knowledge a turn gets (project: __auto__). *)
Project(area) == IF area = "unset" THEN Fallback ELSE area

Knowledge(project) == IF project \in Known THEN <<"knowledge">> ELSE <<>>
FindingsLayer(p) == IF findings[p] # <<>> THEN <<"findings">> ELSE <<>>
CurrentTask(p) == IF Pending(p) # {} THEN <<"task">> ELSE <<>>

Offered(area) ==
  IF OpenPlans = {}
  THEN (IF Guide THEN <<"planning">> ELSE <<>>) \o Knowledge(Project(area))
  ELSE Knowledge(Project(area)) \o <<"plan">> \o FindingsLayer(OpenPlan) \o CurrentTask(OpenPlan)

Chars(layers) == MapThenSumSet(LAMBDA i : Sizes[layers[i]], DOMAIN layers)

(* A bug: the most protected layers go first. *)
DropsBeforeMutant(layers, i, j) ==
  \/ Priority[layers[i]] < Priority[layers[j]]
  \/ Priority[layers[i]] = Priority[layers[j]] /\ i < j
(* The order in which layers are dropped. *)
DropsBefore(layers, i, j) ==
  \/ Priority[layers[i]] > Priority[layers[j]]
  \/ Priority[layers[i]] = Priority[layers[j]] /\ i < j

(* allocate(): drop one layer after the other until the rest fits or one is  *)
(* left; a last layer that is still too large is cut.                        *)
Allocate(layers) ==
  LET rank == [i \in DOMAIN layers |-> Cardinality({j \in DOMAIN layers : DropsBefore(layers, j, i)})]
      Rest(n) == [m \in 1..(Len(layers) - n) |->
                    layers[CHOOSE i \in DOMAIN layers :
                             /\ rank[i] >= n
                             /\ Cardinality({j \in 1..i : rank[j] >= n}) = m]]
      Enough(n) == Chars(Rest(n)) <= MaxChars \/ Len(layers) - n <= 1
  IN  Rest(Min({n \in 0..Len(layers) : Enough(n)}))

-----------------------------------------------------------------------------
(* The transformer.  The items of the layer with the conversation are whole  *)
(* messages, which have no meta to look at; other items are blocks.          *)

Item(frame) == [message |-> TRUE, frame |-> frame]

BurnRaises(content, closed) == closed # {} /\ \E i \in DOMAIN content : content[i].message
Breadcrumb == [message |-> FALSE, frame |-> <<>>]
(* The first block of a closed frame becomes a breadcrumb, the others go. *)
Burned(content, closed) ==
  LET of(i) == content[i].frame
      first(i) == \A j \in 1..(i - 1) : of(j) # of(i)
  IN  FlattenSeq([i \in DOMAIN content |->
        IF of(i) \notin closed THEN <<content[i]>>
        ELSE IF first(i) THEN <<Breadcrumb>> ELSE <<>>])

-----------------------------------------------------------------------------
Init ==
  /\ plan \in [Plans -> {"open", "done"}] /\ Cardinality(OpenPlans) = 1
  /\ task = [p \in Plans |-> [k \in Tasks |-> "pending"]]
  /\ findings = [p \in Plans |-> <<>>] /\ entries = findings
  /\ wired \in BOOLEAN /\ registered = wired
  /\ sess = [a \in Agents |-> Resting]
  /\ periods = [p \in Plans |-> [k \in Tasks |-> 1]]
  /\ flipped = [p \in Plans |-> [k \in Tasks |-> 0]]
  /\ spent = [turns |-> 0, calls |-> 0, edits |-> 0, faults |-> 0]

(* The call answers: what it was about is forgotten. *)
Answer(a) == sess' = [sess EXCEPT ![a] = [@ EXCEPT
               !.pc = "result", !.step = NoStep, !.note = FALSE, !.hangs = FALSE]]
(* An exception or a cancellation ends the turn. *)
TurnEnds(a) == sess' = [sess EXCEPT ![a] = Resting]

(* turn_start: the resolver reads the files, or refuses them. *)
StartTurn(a) ==
  /\ sess[a].pc = "idle" /\ Spend("turns")
  /\ IF wired /\ Ambiguous THEN UNCHANGED sess
     ELSE \E area \in Areas :
            LET offered == IF wired THEN Offered(area) ELSE <<>>
            IN  sess' = [sess EXCEPT ![a] = [Resting EXCEPT
                           !.pc = "input", !.provider = wired, !.offered = offered,
                           !.shown = Allocate(offered)]]
  /\ UNCHANGED <<files, setup, history>>

(* The input is stamped with the frame of this moment and becomes a message  *)
(* of the conversation.  The layers shown are recorded until here.           *)
QueueInput(a) ==
  /\ sess[a].pc = "input"
  /\ IF StampRaises(a) THEN TurnEnds(a)
     ELSE sess' = [sess EXCEPT ![a] = [@ EXCEPT !.pc = "ask", !.content = <<Item(Frame)>>,
                                              !.offered = <<>>, !.shown = <<>>]]
  /\ UNCHANGED <<files, setup, history, spent>>

Finish(a) ==
  /\ sess[a].pc = "ask"
  /\ TurnEnds(a)
  /\ UNCHANGED <<files, setup, history, spent>>

(* The model calls complete_step: the call is stamped, the file is read and  *)
(* the start of its verify command is awaited.                               *)
CallTool(a) ==
  /\ sess[a].pc = "ask" /\ registered /\ Spend("calls")
  /\ \E p \in Plans, k \in Tasks, note \in BOOLEAN :
       LET refused == ParsedStatus(task[p][k]) # "pending" \/ k \in Unverifiable
       IN  IF StampRaises(a) THEN TurnEnds(a)
           ELSE IF refused THEN Answer(a)
           ELSE sess' = [sess EXCEPT ![a] = [@ EXCEPT !.pc = "spawn", !.step = <<p, k>>,
                                                     !.note = note]]
  /\ UNCHANGED <<files, setup, history>>

(* The shell runs, in a process group of its own; its end is awaited.        *)
Spawned(a) ==
  /\ sess[a].pc = "spawn"
  /\ \E hangs \in BOOLEAN :
       sess' = [sess EXCEPT ![a] = [@ EXCEPT !.pc = "verify", !.hangs = hangs]]
  /\ UNCHANGED <<files, setup, history, spent>>

SpawnFails(a) ==
  /\ sess[a].pc = "spawn"
  /\ Answer(a)
  /\ UNCHANGED <<files, setup, history, spent>>

(* The command ends, and not in success; its pipes are closed.  Nothing is   *)
(* killed: what it left in the background runs on, and is not followed here. *)
VerifyFails(a) ==
  /\ sess[a].pc = "verify" /\ ~sess[a].hangs
  /\ Answer(a)
  /\ UNCHANGED <<files, setup, history, spent>>

(* A bug: a command is given as long as it takes. *)
ExpiredMutant(a) == sess[a].pc = "verify" /\ ~sess[a].hangs
Expired(a) == sess[a].pc = "verify"

(* After _VERIFY_TIMEOUT the whole group is killed. *)
VerifyTimesOut(a) ==
  /\ Expired(a)
  /\ Answer(a)
  /\ UNCHANGED <<files, setup, history, spent>>

(* The turn is cancelled from outside, wherever it stands.  The group of a   *)
(* command that is waited for is killed; while it is started, asyncio kills  *)
(* the shell alone, and what that has begun by then runs on.                 *)
Cancel(a) ==
  /\ sess[a].pc # "idle" /\ Spend("faults")
  /\ TurnEnds(a)
  /\ UNCHANGED <<files, setup, history>>

(* A bug: a file that is done already is taken for flipped. *)
FlipRaisesMutant(status) == FALSE
(* The replacement leaves a done status as it is, which raises. *)
FlipRaises(status) == status = "done"
(* A file that no longer parses is left alone, and the step goes on. *)
FlippedStatus(status) == IF ParsedStatus(status) = "broken" THEN status ELSE "done"

(* A bug: the file is written with the new entry alone. *)
AppendFindingsMutant(existing, k, readable) == <<k>>
(* What cannot be read counts as empty, and is overwritten. *)
AppendFindings(existing, k, readable) == (IF readable THEN existing ELSE <<>>) \o <<k>>

(* The command succeeded: the status read before it is not read again.  The  *)
(* flip, the findings and the queued event are one step of the event loop;   *)
(* a write that fails leaves a done file without findings or an event.       *)
VerifySucceeds(a) ==
  /\ sess[a].pc = "verify" /\ ~sess[a].hangs
  /\ LET p == sess[a].step[1]
         k == sess[a].step[2]
         old == task[p][k]
     IN  IF FlipRaises(old)
         THEN Answer(a) /\ UNCHANGED <<files, history, spent>>
         ELSE /\ task' = [task EXCEPT ![p][k] = FlippedStatus(old)]
              /\ flipped' = [flipped EXCEPT ![p][k] = @ + (IF old = "broken" THEN 0 ELSE 1)]
              /\ \E fault \in {"none", "unreadable", "write fails"} :
                   /\ fault # "none" => sess[a].note
                   /\ IF fault = "none" THEN UNCHANGED spent ELSE Spend("faults")
                   /\ IF ~sess[a].note \/ fault = "write fails" THEN UNCHANGED <<findings, entries>>
                      ELSE /\ findings' = [findings EXCEPT ![p] =
                                             AppendFindings(@, k, fault = "none")]
                           /\ entries' = [entries EXCEPT ![p] =
                                            IF fault = "none" THEN Append(@, k) ELSE <<k>>]
                   /\ sess' = [sess EXCEPT ![a] = [@ EXCEPT
                                 !.pc = "result", !.step = NoStep, !.note = FALSE,
                                 !.closed = IF fault = "write fails" THEN {}
                                            ELSE {ClosedFrame(p, k)}]]
              /\ UNCHANGED <<plan, periods>>
  /\ UNCHANGED setup

(* The result is stamped, with the frame of the next task when the step is   *)
(* done; the run loop then gives the layer the queued event.                 *)
QueueResult(a) ==
  /\ sess[a].pc = "result"
  /\ IF StampRaises(a) \/ BurnRaises(sess[a].content, sess[a].closed) THEN TurnEnds(a)
     ELSE sess' = [sess EXCEPT ![a] = [@ EXCEPT !.pc = "ask", !.closed = {},
                                              !.content = Burned(sess[a].content, sess[a].closed)]]
  /\ UNCHANGED <<files, setup, history, spent>>

-----------------------------------------------------------------------------
(* The files are edited by hand, and the configuration is reloaded. *)

EditPlan(p) ==
  /\ Spend("edits")
  /\ plan' = [plan EXCEPT ![p] = IF @ = "open" THEN "done" ELSE "open"]
  /\ UNCHANGED <<task, findings, setup, sess, history>>

EditTask(p, k) ==
  /\ Spend("edits")
  /\ \E status \in {"pending", "done", "broken"} \ {task[p][k]} :
       /\ task' = [task EXCEPT ![p][k] = status]
       /\ periods' = [periods EXCEPT ![p][k] = @ + (IF status = "pending" THEN 1 ELSE 0)]
  /\ UNCHANGED <<plan, findings, setup, sess, flipped, entries>>

(* The plan resolver is added or removed; the tool, once there, stays. *)
Reload ==
  /\ Spend("edits")
  /\ wired' = ~wired /\ registered' = (registered \/ wired')
  /\ UNCHANGED <<files, sess, history>>

Work(a) == StartTurn(a) \/ QueueInput(a) \/ Finish(a) \/ CallTool(a) \/ Spawned(a) \/ SpawnFails(a)
             \/ VerifyFails(a) \/ VerifyTimesOut(a) \/ VerifySucceeds(a) \/ QueueResult(a)

Next ==
  \/ \E a \in Agents : Work(a) \/ Cancel(a)
  \/ \E p \in Plans : EditPlan(p) \/ (\E k \in Tasks : EditTask(p, k))
  \/ Reload

Spec == Init /\ [][Next]_vars

(* The system starts a process in bounded time, and wait_for's timer expires *)
(* unless the command ends before.                                           *)
FairSpec == Spec /\ \A a \in Agents : WF_vars(Spawned(a)) /\ WF_vars(VerifyTimesOut(a))
-----------------------------------------------------------------------------
(* The sessions, the files and the counters have the values the code gives them. *)
TypeOK ==
  /\ plan \in [Plans -> {"open", "done"}] /\ wired \in BOOLEAN /\ registered \in BOOLEAN
  /\ task \in [Plans -> [Tasks -> {"pending", "done", "broken"}]]
  /\ \A p \in Plans : {findings[p], entries[p]} \subseteq Seq(Tasks)
  /\ \A a \in Agents : /\ sess[a].pc \in {"idle", "input", "ask", "spawn", "verify", "result"}
                       /\ sess[a].pc \in {"spawn", "verify"} => sess[a].step \in Plans \X Tasks
                       /\ \A S \in {sess[a].offered, sess[a].shown} : S \in Seq(Layers)

(* However many sessions verify the same step at once, and whatever is       *)
(* edited meanwhile, complete_step flips a task at most once for every time  *)
(* it became pending, and _findings.md holds one entry, in order, of every   *)
(* completion that had findings since the file could last be read.           *)
StepsCompleteOnce ==
  \A p \in Plans : /\ findings[p] = entries[p]
                   /\ \A k \in Tasks : flipped[p][k] <= periods[p][k]

(* Some of all, in the order they have there. *)
InOrder(some, all) ==
  \A i, j \in DOMAIN some : i < j =>
    \E k, l \in DOMAIN all : k < l /\ all[k] = some[i] /\ all[l] = some[j]

(* What a turn is shown of the plan fits the resolver's budget unless a      *)
(* single layer exceeds it alone; a layer gave way only to more protected    *)
(* ones, and none gave way needlessly (LayerBudget).                         *)
PromptFits ==
  \A a \in Agents :
    LET offered == ToSet(sess[a].offered)
        shown == sess[a].shown
        dropped == offered \ ToSet(shown)
    IN  /\ Chars(shown) <= MaxChars \/ Len(shown) = 1
        /\ ToSet(shown) \subseteq offered /\ InOrder(shown, sess[a].offered)
        /\ \A x \in ToSet(shown), y \in dropped : Priority[x] <= Priority[y]
        /\ dropped # {} => \E y \in dropped : /\ \A z \in dropped : Priority[y] <= Priority[z]
                                             /\ Chars(Append(shown, y)) > MaxChars

(* A complete_step call comes to an end although its command may hang. *)
InCall(a) == sess[a].pc \in {"spawn", "verify"}
CallsReturn == \A a \in Agents : InCall(a) ~> ~InCall(a)
=============================================================================
