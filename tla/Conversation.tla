----------------------------- MODULE Conversation -----------------------------
(***************************************************************************)
(* Turn after turn of one SR2 session: what each step of turn() does to    *)
(* the pipeline, the turn archive, the memory store and the continuity     *)
(* ledger, with failing stores and LLMs, crashes and restarts.  TurnLoop   *)
(* models the control of one turn in detail and abstracts this data; here  *)
(* a turn is its sequence of pipeline runs.                                *)
(***************************************************************************)
EXTENDS Pipeline, Continuity

CONSTANTS
  Says,       \* the texts a user may send
  Replies,    \* the texts the model may answer with
  Areas,      \* the run contexts a turn may have: sets of condition keys
  MaxCalls,   \* bound on the calls of turn()
  MaxTools,   \* bound on the tool iterations of a turn
  MaxFaults,  \* bound on failing writes, reads and calls, and crashes
  MaxForgets  \* bound on the operator's suppression events

ASSUME ConversationAssumption ==
  /\ Says \subseteq Texts /\ Replies \subseteq Texts
  /\ MaxCalls \in Nat /\ MaxTools \in Nat /\ MaxFaults \in Nat /\ MaxForgets \in Nat

VARIABLES
  pc,        \* where turn() stands
  run,       \* the run loop: the layer and cycle it is at, what follows it
  eng,       \* the pipeline engine's layers, bus and ladder
  turnSeq,   \* the engine's number of the turn
  turn,      \* the turn's input, its context, its tool iterations, its request
  arch,      \* the archivist
  store,     \* the provenance store's turn archive of this session
  ledger,    \* the continuity ledger
  cache,     \* the consolidator's process-wide cache
  memories,  \* the memory store
  pp         \* whether a post_process task is pending

(* History variables. *)
VARIABLES
  log,     \* the messages of the conversation the session resolver should know
  lost,    \* the calls of turn() whose run loop a failure cut off
  written, \* ids of the archive entries of the current turn
  owed,    \* the user's statements a faultless post_process consolidated
  forked,  \* a continuation read failed: turn numbers may repeat
  spent    \* calls, faults and forgets used of their bounds

pipeVars == <<run, eng, turnSeq, turn, memories>>
archVars == <<arch, store, written>>
factVars == <<ledger, cache, owed>>
pastVars == <<log, lost, forked>>
vars == <<pc, pipeVars, archVars, factVars, pp, pastVars, spent>>

NoText == [phrase |-> "claim", about |-> {}, token |-> {}]
NoRequest == [system |-> <<>>, messages |-> <<>>]
NoTurn == [text |-> NoText, area |-> {}, tools |-> 0, request |-> NoRequest]
NoRun == [layer |-> 0, cycle |-> 0, changed |-> FALSE, next |-> "idle"]
RunThen(next) == [layer |-> 1, cycle |-> 1, changed |-> FALSE, next |-> next]
PCs == {"idle", "running", "input", "compile", "ask", "finish"}

(* Bounded faults: a step that may fail says with fault = 1 that it did. *)
Fault(n) == spent.faults + n <= MaxFaults /\ spent' = [spent EXCEPT !.faults = @ + n]

Init ==
  /\ pc = "idle" /\ run = NoRun /\ eng \in {NewEngine(kind) : kind \in Stores} /\ turn = NoTurn
  /\ turnSeq = -1 /\ arch = NewArchivist /\ store = <<>> /\ written = <<>>
  /\ ledger = <<>> /\ cache = <<>> /\ owed = {}
  /\ memories \in {{}, {Text("memory")}} /\ pp = "none"
  /\ log = <<>> /\ lost = {} /\ forked = FALSE
  /\ spent = [calls |-> 0, faults |-> 0, forgets |-> 0]

-----------------------------------------------------------------------------
(* The run loop. *)

(* A failing component or a rejected batch raises out of turn(). *)
TurnRaises == pc' = "idle" /\ run' = NoRun /\ turn' = NoTurn

(* The bus is drained at the head of a cycle. *)
Current == IF run.layer = 1 THEN Drain(eng) ELSE eng

ProcessLayer ==
  /\ pc = "running" /\ run.layer \in LayerIndices
  /\ LET i == run.layer
         before == Current
         takesPart == IsActive(i, turn.area)
         after == IF takesPart THEN Processed(before, i, memories # {}) ELSE before
     IN  /\ ~(takesPart /\ Rejected(after, i))
         /\ eng' = IF takesPart THEN Flush(after, i) ELSE after
         /\ memories' = memories \cup (IF takesPart THEN Extracted(before, i) ELSE {})
         /\ run' = [run EXCEPT !.layer = @ + 1,
                               !.changed = @ \/ (takesPart /\ Changed(before, i, after))]
  /\ UNCHANGED <<pc, turnSeq, turn, archVars, factVars, pp, pastVars, spent>>

(* The store refuses what the layer has buffered, or fails: the content is   *)
(* in place, the batch stays buffered and the layers after it have no turn.  *)
BatchRejected ==
  /\ pc = "running" /\ run.layer \in LayerIndices /\ IsActive(run.layer, turn.area)
  /\ LET before == Current
         after == Processed(before, run.layer, memories # {})
     IN  /\ Buffers(before, run.layer, after)
         /\ Fault(IF Rejected(after, run.layer) THEN 0 ELSE 1)
         /\ eng' = after
  /\ lost' = lost \cup {spent.calls}
  /\ TurnRaises
  /\ UNCHANGED <<turnSeq, memories, archVars, factVars, pp, log, forked>>

ComponentFails ==
  /\ pc = "running" /\ run.layer \in LayerIndices /\ IsActive(run.layer, turn.area)
  /\ Fails(Current, run.layer) /\ Fault(1)
  /\ eng' = Failed(Current, run.layer)
  /\ lost' = lost \cup {spent.calls}
  /\ TurnRaises
  /\ UNCHANGED <<turnSeq, memories, archVars, factVars, pp, log, forked>>

(* A bug: the loop runs until nothing changes, however long that takes. *)
SettledMutant == ~run.changed /\ eng.queue = 0
(* A cycle without changes and an empty bus, or the bound on cycles. *)
Settled == (~run.changed /\ eng.queue = 0) \/ run.cycle >= MaxCycles

EndCycle ==
  /\ pc = "running" /\ run.layer > Len(Layers)
  /\ IF Settled THEN pc' = run.next /\ run' = NoRun
     ELSE /\ run' = [run EXCEPT !.layer = 1, !.changed = FALSE,
                                !.cycle = IF @ = MaxCycles THEN @ ELSE @ + 1]
          /\ pc' = pc
  /\ UNCHANGED <<eng, turnSeq, turn, memories, archVars, factVars, pp, pastVars, spent>>

-----------------------------------------------------------------------------
(* turn(). *)

(* The barrier has joined the deferred task: pp is "none". *)
StartTurn ==
  /\ pc = "idle" /\ pp = "none" /\ spent.calls < MaxCalls
  /\ \E text \in Says, area \in Areas :
       turn' = [NoTurn EXCEPT !.text = text, !.area = area]
  /\ eng' = BeginTurn(eng) /\ turnSeq' = turnSeq + 1
  /\ run' = RunThen("input") /\ pc' = "running"
  /\ spent' = [spent EXCEPT !.calls = @ + 1]
  /\ UNCHANGED <<memories, archVars, factVars, pp, pastVars>>

Said(body) == Message(IF body \in {"input", "results"} THEN "user" ELSE "assistant", body, spent.calls)

Wrote(ids, entries, ok) == IF ok THEN Append(ids, Len(entries) + 1) ELSE ids

(* One write of the archive, which may fail. *)
Archive(a, ids, authority, text, ok) ==
  /\ arch' = AfterArchive(a, store, ok)
  /\ store' = Archived(a, store, authority, text, ok)
  /\ written' = Wrote(ids, store, ok)

(* The user's input is queued and archived: the turn's first entry. *)
QueueInput ==
  /\ pc = "input"
  /\ \E ok \in BOOLEAN :
       /\ Fault(IF ok THEN 0 ELSE 1)
       /\ Archive([arch EXCEPT !.turn = turnSeq], <<>>, "user", turn.text, ok)
  /\ eng' = Queue(eng, Event("user_input", Said("input")))
  /\ log' = Append(log, Said("input"))
  /\ run' = RunThen("compile") /\ pc' = "running"
  /\ UNCHANGED <<turnSeq, turn, memories, factVars, pp, lost, forked>>

CompileRequest ==
  /\ pc = "compile"
  /\ turn' = [turn EXCEPT !.request = Compile(eng, turn.area)]
  /\ pc' = "ask"
  /\ UNCHANGED <<run, eng, turnSeq, memories, archVars, factVars, pp, pastVars, spent>>

(* The model asks for a tool: call and result are queued and archived, each  *)
(* unless its write fails, and the session resolver captures them when the   *)
(* loop runs again.                                                          *)
ToolIteration ==
  /\ pc = "ask" /\ turn.tools < MaxTools
  /\ \E called, answered \in BOOLEAN :
       LET a == AfterArchive(arch, store, called)
           entries == Archived(arch, store, "agent_tentative", NoText, called)
       IN  /\ Fault((IF called THEN 0 ELSE 1) + (IF answered THEN 0 ELSE 1))
           /\ arch' = AfterArchive(a, entries, answered)
           /\ store' = Archived(a, entries, "agent_tentative", NoText, answered)
           /\ written' = Wrote(Wrote(written, store, called), entries, answered)
  /\ eng' = QueueAll(eng, <<Event("tool_use_emitted", Said("calls")),
                            Event("tool_result_received", Said("results"))>>)
  /\ log' = log \o <<Said("calls"), Said("results")>>
  /\ turn' = [turn EXCEPT !.tools = @ + 1]
  /\ run' = RunThen("ask") /\ pc' = "running"
  /\ UNCHANGED <<turnSeq, memories, factVars, pp, lost, forked>>

LlmRaises ==
  /\ pc = "ask" /\ Fault(1)
  /\ TurnRaises
  /\ UNCHANGED <<eng, turnSeq, memories, archVars, factVars, pp, pastVars>>

(* The answer is archived; _finalize_turn queues it and end_turn turn_end. *)
Answer ==
  /\ pc = "ask"
  /\ \E text \in Replies, ok \in BOOLEAN :
       /\ Fault(IF ok THEN 0 ELSE 1)
       /\ Archive(arch, written, "agent_tentative", text, ok)
  /\ eng' = QueueAll(eng, <<Event("assistant_response", Said("answer")),
                            Event("turn_end", Text("none"))>>)
  /\ log' = Append(log, Said("answer"))
  /\ run' = RunThen("finish") /\ pc' = "running"
  /\ UNCHANGED <<turnSeq, turn, memories, factVars, pp, lost, forked>>

(* end_turn compiles again, now stepping down; post_process is scheduled. *)
Finish ==
  /\ pc = "finish"
  /\ eng' = CompileWithDegradation(eng, turn.area)
  /\ pp' = "pending" /\ pc' = "idle" /\ turn' = NoTurn
  /\ UNCHANGED <<run, turnSeq, memories, archVars, factVars, pastVars, spent>>

-----------------------------------------------------------------------------
(* The deferred task consolidates the turn's archive into the ledger. *)

(* A refused or failing append ends the loop over the records. *)
AppendedPrefixes(records) ==
  {n \in 0..Len(records) : \A k \in 1..n : Appendable(ledger, records[k])}

PostProcess ==
  /\ pp = "pending"
  /\ LET ids == ReadTurn(store, arch.turn)
         records == Consolidate(ledger, cache, store, ids)
         most == Max(AppendedPrefixes(records))
     IN  \E n \in {most} \cup (IF spent.faults < MaxFaults THEN 0..most ELSE {}) :
           /\ Fault(IF n < most THEN 1 ELSE 0)
           /\ ledger' = ledger \o SubSeq(records, 1, n)
           /\ cache' = cache \o records
           /\ owed' = owed \cup IF n < most THEN {}
                                ELSE {id \in Range(written) : /\ store[id].authority = "user"
                                                              /\ store[id].text.phrase # "confirmation"}
  /\ pp' = "none"
  /\ UNCHANGED <<pc, pipeVars, archVars, pastVars>>

(* An operator's forget, and its reversal, through the ledger's append. *)
Forget ==
  /\ pc = "idle" /\ pp = "none" /\ spent.forgets < MaxForgets
  /\ \E subject \in SubjectsIn(ledger), event \in {"suppressed", "unsuppressed"} :
       LET current == ViewOf(ledger, subject).current
       IN  ledger' = Append(ledger, RecordOf(event, -(spent.forgets + 1), current.kind,
                              current.text, subject, "user", {}))
  /\ spent' = [spent EXCEPT !.forgets = @ + 1]
  /\ UNCHANGED <<pc, pipeVars, archVars, cache, owed, pp, pastVars>>

-----------------------------------------------------------------------------
(* Restarts. *)

Transcript == SelectSeq(log, LAMBDA m : m.body \in {"input", "answer"})

(* A new SR2 on the stores of the old one: continue_archive restores lineage *)
(* and turn number, or its read fails; seed_session restores the dialogue.   *)
(* After aclose() no task is pending; a crash may come at any time.          *)
Restart ==
  /\ spent.calls > 0 /\ spent.calls < MaxCalls
  /\ \E continued \in BOOLEAN :
       LET crash == pc # "idle" \/ pp # "none"
           faults == (IF crash THEN 1 ELSE 0) + (IF continued THEN 0 ELSE 1)
       IN  /\ Fault(faults)
           /\ arch' = IF continued THEN Continued(NewArchivist, store) ELSE NewArchivist
           /\ turnSeq' = IF continued THEN ContinuedTurn(-1, store) ELSE -1
           /\ forked' = (forked \/ (~continued /\ store # <<>>))
  /\ eng' = Seed(NewEngine(eng.store), Transcript)
  /\ pc' = "idle" /\ run' = NoRun /\ turn' = NoTurn /\ pp' = "none"
  /\ cache' = <<>> /\ log' = Transcript
  /\ UNCHANGED <<memories, store, written, ledger, owed, lost>>

-----------------------------------------------------------------------------
RunStep == ProcessLayer \/ BatchRejected \/ ComponentFails \/ EndCycle
TurnStep == StartTurn \/ QueueInput \/ CompileRequest \/ ToolIteration \/ LlmRaises
            \/ Answer \/ Finish
Next == RunStep \/ TurnStep \/ PostProcess \/ Forget \/ Restart

(* The event loop keeps running a started run loop. *)
Spec == Init /\ [][Next]_vars /\ WF_vars(RunStep)

-----------------------------------------------------------------------------
(* The engine, archive and ledger stay within their data. *)
TypeOK ==
  /\ pc \in PCs /\ pp \in {"none", "pending"} /\ forked \in BOOLEAN
  /\ eng.queue \in Nat /\ eng.level \in DOMAIN Levels /\ turnSeq \in -1..MaxCalls
  /\ arch.prev \in 0..Len(store) /\ arch.turn <= turnSeq
  /\ written \in Seq(DOMAIN store) /\ owed \subseteq DOMAIN store
  /\ \A k \in DOMAIN ledger : ledger[k].text \in Texts

Whole(messages) == SelectSeq(messages, LAMBDA m : m.turn \notin lost)
Dialogue(items) == SelectSeq(items, LAMBDA m : m.type = "message")

(* The request a turn sends carries the newest end of the conversation, each   *)
(* message once and in order and the user's input last, behind at most one     *)
(* summary, and no layer is over its budget: execution counts, contents, the   *)
(* history and the truncation of every earlier turn work together for this     *)
(* (engine.py start_turn, layer.py process_pending, resolvers/session.py).     *)
RequestIsRecent ==
  (pc = "ask" /\ turn.tools = 0) =>
    LET messages == turn.request.messages
        dialogue == Dialogue(messages)
    IN  /\ dialogue # <<>> /\ Last(dialogue) = Said("input")
        /\ IsSuffix(Whole(dialogue), Whole(log))
        /\ \A k \in DOMAIN messages : messages[k] = Summary => k = 1
        /\ \A i \in LayerIndices : ~OverBudget(i, Tokens(messages)) \/ LayerOf(i).target # "messages"

(* The archive of a turn reads back as the entries written in it, in order,    *)
(* and every entry of the session is in the lineage of the newest one, across  *)
(* failed writes and restarts; a failed continuation read gives up both        *)
(* (orchestrator.py archive, continue_archive; provenance.py read_turn_archive). *)
ArchiveReadsBack ==
  ~forked =>
    /\ pp = "pending" => ReadTurn(store, arch.turn) = written
    /\ store # <<>> => Lineage(store, Len(store)) = DOMAIN store

(* What the user stated in a turn whose post_process met no fault is in the    *)
(* ledger, whatever was consolidated before and whoever restarted the session: *)
(* no earlier entry is read in its place and none of its records is refused    *)
(* (orchestrator.py _consolidate_completed_turn, consolidation.py).            *)
StatementsReachTheLedger ==
  ~forked => \A id \in owed : \E k \in DOMAIN ledger : ledger[k].provenance = id

(* The correction ledger[k] names a record of its own subject that the ledger  *)
(* held before it.                                                             *)
ReplacesOwn(k, old) ==
  \E j \in 1..(k - 1) : ledger[j].id = old /\ ledger[j].subject = ledger[k].subject

(* It matched no recorded statement, so that it begins a subject of its own,   *)
(* and names another one, recorded before.                                     *)
NamesSubject(k, old) ==
  /\ ledger[k].subject = <<"correction", {ledger[k].provenance}>>
  /\ \E j \in 1..(k - 1) : ledger[j].subject = old

(* A correction of something recorded replaces a record of its own subject     *)
(* that the ledger already holds, and unless a failed continuation read made   *)
(* turn numbers repeat no record is replaced twice: subjects do not fork,      *)
(* although a turn is matched with the ledger of the turns before it, a cache  *)
(* answers where the ledger does not, and a correction of nothing may name a   *)
(* subject where a record is expected (consolidation.py _match_current_record, *)
(* _subject_current_id; store.py compute_views).                               *)
CorrectionsDoNotFork ==
  \A k \in DOMAIN ledger : \A old \in ledger[k].supersedes :
    \/ NamesSubject(k, old)
    \/ /\ ReplacesOwn(k, old)
       /\ forked \/ \A j \in DOMAIN ledger : old \in ledger[j].supersedes => j = k

(* A profile without rules denies nothing but what is suppressed. *)
Retrievable(records) == FilterAllowed([rules |-> {}, default |-> "allow"], ComputeViews(records))

(* A forgotten subject stays out of retrieval: neither the agent's echo under  *)
(* the same name nor a later statement or correction brings it back, only an   *)
(* unsuppression or a record that supersedes the suppression itself            *)
(* (store.py compute_views, policy.py RetrievalPolicyEngine).                  *)
ForgottenStaysForgotten ==
  [][\A s \in (SubjectsIn(ledger) \ Retrievable(ledger)) \cap Retrievable(ledger') :
       \E k \in (Len(ledger) + 1)..Len(ledger') :
         /\ ledger'[k].subject = s
         /\ \/ ledger'[k].event = "unsuppressed"
            \/ \E old \in ledger'[k].supersedes : old[1] = "suppressed"]_vars

(* Every run loop ends, also when a layer stays over its threshold and its own *)
(* warning calls it again in each cycle (engine.py run_loop).                  *)
LoopSettles == pc = "running" ~> pc # "running"
=============================================================================
