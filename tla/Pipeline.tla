------------------------------- MODULE Pipeline -------------------------------
(***************************************************************************)
(* SR2's pipeline (sr2/pipeline): the event bus, the layers with their     *)
(* resolvers and transformers, the run loop that settles them, and the     *)
(* compilation of a request.  The operators take and return the state of   *)
(* the engine as a record, so that a module that drives turns can say what *)
(* each of its steps does to the pipeline.                                 *)
(***************************************************************************)
EXTENDS Integers, Sequences, FiniteSets, SequencesExt

CONSTANTS
  Layers,       \* the configured layers, in order: a sequence of records (LayerConfigs)
  Levels,       \* the degradation ladder: a sequence of sets of categories, FULL first
  TokenBudget,  \* the pipeline's token_budget
  MaxCycles,    \* max_cycles of the run loop
  KeepLastN,    \* keep_last_n of the summarization transformer
  SummarizeOn,  \* the events the summarization transformer is subscribed to
  Stores        \* the provenance stores: "sqlite" rejects a batch with unknown sources, "memory" takes it

ASSUME PipelineAssumption ==
  /\ Layers # <<>> /\ Levels # <<>>
  /\ TokenBudget \in Nat /\ MaxCycles \in Nat \ {0} /\ KeepLastN \in Nat \ {0}
  /\ Stores \subseteq {"memory", "sqlite"}

(* What an operator of a layer does, by the type named in the configuration. *)
Resolvers == {"static", "memory", "session", "input"}
Transformers == {"summarization", "memory_extraction"}

LayerIndices == 1..Len(Layers)
LayerOf(i) == Layers[i]
Components(i) == Range(LayerOf(i).resolvers) \cup Range(LayerOf(i).transformers)

EventNames == {"turn_start", "user_input", "tool_use_emitted", "tool_result_received",
               "assistant_response", "turn_end", "overflow", "token_threshold",
               "truncation", "summarization_complete"}

(* Events match subscriptions by name; the phase is not compared. *)
Subscriptions == [static |-> {"turn_start"}, memory |-> {"user_input"},
                  session |-> {"user_input", "assistant_response", "tool_use_emitted",
                               "tool_result_received"},
                  input |-> {"user_input"}, summarization |-> SummarizeOn,
                  memory_extraction |-> {"assistant_response"}]

Unlimited == 1000  \* sys.maxsize: more than a turn can fire
MaxExecutions(c) == IF c = "session" THEN Unlimited ELSE 1

(* The events a layer's handle_event is registered for, once per name. *)
Heard(i) == UNION {Subscriptions[c] : c \in Components(i)}

-----------------------------------------------------------------------------
(* Items of content.  A message carries the event it was made from. *)

Message(role, body, turn) == [type |-> "message", role |-> role, body |-> body, turn |-> turn]
Text(body) == [type |-> "text", role |-> "none", body |-> body, turn |-> -1]
Summary == Text("summary")
Tokens(items) == Len(items)  \* every item weighs one token

Event(name, data) == [name |-> name, data |-> data]
Names(events) == {events[k].name : k \in DOMAIN events}

(* The engine between two turns of a new SR2. *)
NewEngine(kind) ==
  [store   |-> kind,                             \* the provenance store
   content |-> [i \in LayerIndices |-> <<>>],    \* Layer._content
   pending |-> [i \in LayerIndices |-> <<>>],    \* Layer._pending_events
   cut     |-> [i \in LayerIndices |-> FALSE],   \* Layer._force_truncated
   dangling |-> [i \in LayerIndices |-> FALSE],  \* _pending_writes names unknown sources
   count   |-> [c \in Resolvers \cup Transformers |-> 0],  \* execution_count
   queue   |-> 0,                                \* events on the bus, not drained yet
   hist    |-> <<>>,                             \* SessionResolver._history
   level   |-> 1]                                \* the ladder's level, 1 is FULL

-----------------------------------------------------------------------------
(* The bus.  Only layers subscribe and their handler is synchronous, so an   *)
(* event reaches them while it is queued; draining only empties the queue.   *)

Queue(e, event) ==
  [e EXCEPT !.queue = @ + 1,
            !.pending = [i \in LayerIndices |->
               IF event.name \in Heard(i) THEN Append(@[i], event) ELSE @[i]]]

QueueAll(e, events) == FoldLeft(Queue, e, events)

Drain(e) == [e EXCEPT !.queue = 0]

-----------------------------------------------------------------------------
(* Components. *)

Add(e, i, items) ==
  [e EXCEPT !.content[i] = IF LayerOf(i).prefix THEN items \o @ ELSE @ \o items]

InputOf(events) == SelectSeq(events, LAMBDA ev : ev.name = "user_input")

(* Prior history first, then the new events are captured; a firing of the   *)
(* tool loop alone gives nothing.                                            *)
ResolveSession(e, i, events) ==
  LET captured == SelectSeq(events, LAMBDA ev : ev.name \in Subscriptions["session"])
      toolLoopOnly == Names(events) \subseteq {"tool_use_emitted", "tool_result_received"}
  IN  [Add(e, i, IF toolLoopOnly THEN <<>> ELSE e.hist)
         EXCEPT !.hist = @ \o [k \in DOMAIN captured |-> captured[k].data]]

(* The first user_input event becomes the current message. *)
ResolveInput(e, i, events) ==
  IF InputOf(events) = <<>> THEN e ELSE Add(e, i, <<Head(InputOf(events)).data>>)

(* memories = TRUE: the store holds something the input's text is found in. *)
ResolveMemory(e, i, events, memories) ==
  IF InputOf(events) # <<>> /\ memories THEN Add(e, i, <<Text("memory")>>) ELSE e

ResolveStatic(e, i) == Add(e, i, <<Text("static")>>)

Resolve(e, i, c, events, memories) ==
  LET fired == [e EXCEPT !.count[c] = @ + 1]
  IN  CASE c = "session" -> ResolveSession(fired, i, events)
        [] c = "input"   -> ResolveInput(fired, i, events)
        [] c = "memory"  -> ResolveMemory(fired, i, events, memories)
        [] c = "static"  -> ResolveStatic(fired, i)

(* keep_last_n: all but the last KeepLastN items become one summary.  The    *)
(* entry of each summarized item names a freshly generated id as its source. *)
NeedsSummary(items) == Len(items) > KeepLastN
Summarize(e, i) ==
  LET items == e.content[i]
  IN  IF ~NeedsSummary(items) THEN e
      ELSE Queue([e EXCEPT !.content[i] = <<Summary>> \o
                             SubSeq(items, Len(items) - KeepLastN + 1, Len(items)),
                           !.dangling[i] = TRUE],
                 Event("summarization_complete", Summary))

(* memory_extraction changes no content; it saves Extracted. *)
Transform(e, i, c) ==
  LET fired == [e EXCEPT !.count[c] = @ + 1]
  IN  IF c = "summarization" THEN Summarize(fired, i) ELSE fired

(* Not exhausted, and subscribed to one of the events. *)
Eligible(e, c, events) ==
  e.count[c] < MaxExecutions(c) /\ Subscriptions[c] \cap Names(events) # {}

Due(e, comps, events) == SelectSeq(comps, LAMBDA c : Eligible(e, c, events))

(* Iterating an event's data: a list gives its blocks, but the data of       *)
(* assistant_response is a response, which gives its fields, no text block.  *)
Blocks(event) == IF event.name = "assistant_response" THEN {} ELSE {event.data}

(* What memory_extraction saves of the events a layer is about to process. *)
Extracted(e, i) ==
  IF "memory_extraction" \in Components(i) /\ Eligible(e, "memory_extraction", e.pending[i])
  THEN UNION {Blocks(event) : event \in {ev \in Range(e.pending[i]) : ev.name = "assistant_response"}}
  ELSE {}

-----------------------------------------------------------------------------
(* A layer's budget. *)

OverThreshold(i, used) ==
  LayerOf(i).threshold # 0 /\ used >= LayerOf(i).threshold
OverBudget(i, used) == LayerOf(i).budget # 0 /\ used > LayerOf(i).budget

CheckBudget(e, i) ==
  LET used == Tokens(e.content[i])
      warned == IF LayerOf(i).budget # 0 /\ OverThreshold(i, used)
                THEN Queue(e, Event("token_threshold", Text("usage"))) ELSE e
  IN  IF OverBudget(i, used) THEN Queue(warned, Event("overflow", Text("usage"))) ELSE warned

(* A bug: the newest items are dropped first. *)
ForceTruncateMutant(e, i) ==
  IF ~OverBudget(i, Tokens(e.content[i])) THEN e
  ELSE [e EXCEPT !.content[i] = SubSeq(@, 1, LayerOf(i).budget), !.cut[i] = TRUE]

(* The oldest items are dropped until the rest fits. *)
ForceTruncate(e, i) ==
  LET items == e.content[i]
  IN  IF ~OverBudget(i, Tokens(items)) THEN e
      ELSE Queue([e EXCEPT !.content[i] =
                             SubSeq(items, Len(items) - LayerOf(i).budget + 1, Len(items)),
                           !.cut[i] = TRUE],
                 Event("truncation", Text("warning")))

(* The store takes the buffered entries as one batch.  A store that checks   *)
(* sources rejects it, and the batch stays buffered for the next cycle.      *)
Rejected(e, i) == e.store = "sqlite" /\ e.dangling[i]
Flush(e, i) == IF Rejected(e, i) THEN e ELSE [e EXCEPT !.dangling[i] = FALSE]

(* process_pending up to its flush: the whole of a layer's turn in a cycle. *)
Resolved(e, i, memories) ==
  FoldLeft(LAMBDA acc, c : Resolve(acc, i, c, e.pending[i], memories),
           [e EXCEPT !.pending[i] = <<>>], Due(e, LayerOf(i).resolvers, e.pending[i]))
Processed(e, i, memories) ==
  IF e.pending[i] = <<>> THEN e
  ELSE LET done == FoldLeft(LAMBDA acc, c : Transform(acc, i, c), Resolved(e, i, memories),
                            Due(e, LayerOf(i).transformers, e.pending[i]))
       IN  ForceTruncate(CheckBudget(done, i), i)

(* There is something to write: content was placed, or a batch came back. *)
Buffers(e, i, after) == after.dangling[i] \/ after.content[i] # e.content[i]

(* process_pending answers whether the bus holds new events; a layer without *)
(* pending events answers no.                                                *)
Changed(e, i, after) == e.pending[i] # <<>> /\ after.queue > 0

(* The summarizer's call fails: the resolvers' work stays, the events are gone. *)
CanFail(e, i) ==
  /\ \E k \in DOMAIN LayerOf(i).transformers : LayerOf(i).transformers[k] = "summarization"
  /\ Eligible(e, "summarization", e.pending[i])
  /\ NeedsSummary(Resolved(e, i, FALSE).content[i])
(* The memory store's search raises before anything is placed. *)
SearchCanFail(e, i) ==
  /\ \E k \in DOMAIN LayerOf(i).resolvers : LayerOf(i).resolvers[k] = "memory"
  /\ Eligible(e, "memory", e.pending[i])
  /\ InputOf(e.pending[i]) # <<>>
Fails(e, i) == CanFail(e, i) \/ SearchCanFail(e, i)
Failed(e, i) ==
  IF CanFail(e, i) THEN [Resolved(e, i, FALSE) EXCEPT !.pending[i] = <<>>]
  ELSE [e EXCEPT !.pending[i] = <<>>, !.count["memory"] = @ + 1]

-----------------------------------------------------------------------------
(* A turn. *)

(* reset_execution_counts and start_turn, up to its run loop: the ladder is  *)
(* back at FULL, the bus is reset and every layer begins empty.              *)
BeginTurn(e) ==
  Queue([NewEngine(e.store) EXCEPT !.hist = e.hist, !.dangling = e.dangling],
        Event("turn_start", Text("none")))

Seed(e, messages) == [e EXCEPT !.hist = messages]

(* A layer with a condition takes part when the run context has a value. *)
IsActive(i, context) == LayerOf(i).condition = "none" \/ LayerOf(i).condition \in context

Kept(e, i) == LayerOf(i).category = "none" \/ LayerOf(i).category \in Levels[e.level]

(* The compiled request: the layers of each target, joined in order. *)
Collected(e, context, target) ==
  FlattenSeq([i \in LayerIndices |->
    IF IsActive(i, context) /\ Kept(e, i) /\ LayerOf(i).target = target
    THEN e.content[i] ELSE <<>>])
Compile(e, context) ==
  [system |-> Collected(e, context, "system"), messages |-> Collected(e, context, "messages")]
RequestTokens(request) == Tokens(request.system) + Tokens(request.messages)

Fits(e, context, level) == RequestTokens(Compile([e EXCEPT !.level = level], context)) <= TokenBudget

(* Step down until the request fits or the bottom is reached. *)
CompileWithDegradation(e, context) ==
  [e EXCEPT !.level =
     CHOOSE l \in e.level..Len(Levels) :
       /\ Fits(e, context, l) \/ l = Len(Levels)
       /\ \A k \in e.level..(l - 1) : ~Fits(e, context, k)]
=============================================================================
