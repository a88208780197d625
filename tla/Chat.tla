--------------------------------- MODULE Chat ---------------------------------
(***************************************************************************)
(* An agent process behind one of its chat interfaces, and what a user of  *)
(* it may rely on.                                                         *)
(***************************************************************************)
EXTENDS Zulip, Direct, Discord, Repl

vars == <<sharedVars, zulipVars, channelVars, current, replVars>>

Init ==
  /\ interface \in DOMAIN Extras
  /\ SharedInit /\ ZulipInit /\ DiscordInit
  /\ interface # "zulip" => topicLog = [t \in Places |-> {}]
  /\ IF interface = "repl" THEN ReplInit
     ELSE sessions = <<>> /\ current = 0 /\ minted = {} /\ default = {}

(* Nothing is left but for users to write and for processes to be started. *)
AllSettled ==
  \A m \in Messages : \/ calls[m].pc \in {"unsent", "done", "lost"}
                      \/ calls[m].pc = "unread" /\ poller # "running"
Settled == AllSettled /\ UNCHANGED vars

Next ==
  \/ interface = "zulip" /\ ZulipNext /\ UNCHANGED <<interface, discordVars, replVars>>
  \/ interface = "direct" /\ DirectNext /\ UNCHANGED <<interface, channelVars, replVars>>
  \/ interface \in {"discord", "threads"} /\ DiscordNext /\ UNCHANGED <<interface, zulipVars, replVars>>
  \/ interface = "repl" /\ ReplNext /\ UNCHANGED <<interface, zulipVars, channelVars>>
  \/ Settled

Spec == Init /\ [][Next]_vars

-----------------------------------------------------------------------------
(* Properties. *)

CallPCs ==
  {"unsent", "unread", "lost", "queued", "restoring", "probing", "syncing", "stopping", "placing",
   "waiting", "opening", "seeded", "streaming", "handing", "closing", "left", "delivering",
   "threading", "routing", "anchoring", "starting", "locking", "finalizing", "done"}

(* The types of the variables, over both interfaces. *)
TypeOK ==
  /\ runtime.declared \cup runtime.registry \subseteq
       UNION {ConfigOf[c].tools : c \in {c \in DOMAIN Trees : ConfigOf[c].loads}} \cup {"load_skill", "complete_step", "reminders", "schedules"}
  /\ Range(runtime.catalog) \subseteq {BuiltIn, Declared} \cup Skills /\ disk.config \in Configs \cup {Startup}
  /\ \A m \in Messages :
       /\ calls[m].pc \in CallPCs /\ calls[m].session \in 0..Len(sessions)
       /\ calls[m].shown \in {"nothing", "thinking", "progress", "answer", "error", "stopped"}
       /\ calls[m].outcome \in {"none", "answer", "error", "cancelled"}
  /\ \A k \in DOMAIN sessions :
       /\ sessions[k].place \in Places /\ sessions[k].inFlight = Range(sessions[k].queue)
       /\ sessions[k].handoff \in {"none", "running", "stopping", "closing"}
       /\ sessions[k].log \in {"none", "open", "closed"} /\ sessions[k].turn \in -1..MaxMessages
  /\ \A p \in Places : owned[p] \in 0..Len(sessions) /\ tails[p] \in 0..MaxMessages
  /\ poller \in {"running", "registering", "dead", "stopped"} /\ current \in 0..Len(sessions)
  /\ \A b \in DOMAIN loops : loops[b].on \in BOOLEAN

InTurn(m) == calls[m].pc \in {"seeded", "streaming", "handing", "closing"}

(* A turn's history is of its own place alone and ends with its own message. *)
OwnHistory(m) ==
  LET h == Of(m).history
  IN  /\ h[Len(h)] = User(m)
      /\ \A k \in DOMAIN h : \A n \in h[k].of \ {0} : calls[n].place = calls[m].place

(* A turn has its Session to itself, and in Discord the agent. *)
OwnSession(m) ==
  /\ Head(Of(m).queue) = m
  /\ interface \in {"discord", "threads"} => \A n \in Messages \ {m} : ~InTurn(n)

(* A hand-off runs in its caller's turn, and only while the caller waits. *)
OwnHandoff(s) == s.handoff # "none" => calls[s.caller].pc \in {"handing", "closing"}

(* "Per-frame conversation state" (session.py): conversations, their turns, *)
(* hand-offs stay apart, whatever is cancelled, retried, reset or reloaded  *)
(* in between.                                                              *)
ConversationsStayApart ==
  /\ \A m \in Messages : InTurn(m) => OwnHistory(m) /\ OwnSession(m)
  /\ \A k \in DOMAIN sessions : OwnHandoff(sessions[k])

(* A turn takes a number no earlier turn of its place has in the archive,   *)
(* across rebuilt SR2s, new Sessions and restarts, as long as no read of    *)
(* the archive fails (Session._refresh_sr2_if_stale, SR2.continue_archive). *)
TurnsAreFresh ==
  \A p \in Places \ forked : \A j, k \in DOMAIN archive[p] :
    (j < k /\ archive[p][j].turn = archive[p][k].turn) =>
      /\ archive[p][j].role = "user" /\ archive[p][k].role = "assistant" /\ archive[p][j].of = archive[p][k].of

Seats(block) == runtime.seat[block] # 0 <=> block \in runtime.registry
Served(block) ==
  LET loop == loops[block] IN loop.on /\ loop.stamp = runtime.stamp[block] => loop.seat = runtime.seat[block]

(* "If the pipeline declares a plan resolver, the agent needs complete_step"  *)
(* (Runtime.__init__, the two are "one feature unit"): the plan the resolver *)
(* shows can be worked off.                                                  *)
PlanHasItsTool == runtime.provider => "complete_step" \in runtime.registry

(* "Pure function of config + filesystem" (runtime.py _rebuild_skills), and  *)
(* what apply_config promises of the rest: the registry has each tool that   *)
(* comes with a catalog, a block or a resolver if that is there, and those   *)
(* of the config in force; a Session's SR2 is of the pipeline in force or    *)
(* marked stale; the model called is the active one; a delivery loop that    *)
(* saw the last change serves the last handle.  All of it over edits, in any *)
(* order, of which some are refused or fail half way.                        *)
RuntimeFollowsConfig ==
  /\ DOMAIN runtime.catalog # {} <=> "load_skill" \in runtime.registry
  /\ \A b \in DOMAIN loops : Seats(b) /\ Served(b)
  /\ runtime.model = runtime.config.model
  /\ runtime.declared = runtime.config.tools /\ runtime.declared \subseteq runtime.registry
  /\ runtime.provider = runtime.config.plan /\ PlanHasItsTool
  /\ \A k \in DOMAIN sessions : sessions[k].stale \/ sessions[k].pipeline = runtime.config.pipeline

(* What is in force is the whole config that one state of the files gave, the *)
(* model apart, never parts of two, also where a block that raises ended an  *)
(* apply_config half way; and of the files the tiers say whose value is in   *)
(* it (load_config), and whose skill has a name (_rebuild_skills).           *)
ConfigIsWhole ==
  \E k \in Configs \cup {Startup} : runtime.config = [ConfigOf[k] EXCEPT !.model = runtime.config.model]
FilesDecide == ConfigIsWhole /\ NearestFileWins /\ StrongestClaimWins

(* A topic's answers come in the order of its messages (_dispatch in Zulip,  *)
(* the loop over a batch in direct mode), except around a "!stop" that the   *)
(* topic got a reply to: a task that swallowed it (SyncStopped) goes on      *)
(* beside the messages that came after it.                                   *)
StoppedBetween(t, n, m) == \E s \in (n + 1)..(m - 1) : calls[s].place = t /\ calls[s].shown = "stopped"
AnswersInOrder ==
  interface \in {"zulip", "direct"} =>
    \A t \in Places : \A j, k \in DOMAIN posts[t] :
      j < k => posts[t][j] < posts[t][k] \/ StoppedBetween(t, posts[t][k], posts[t][j])

(* "A stale progress edit must never land on the answer" (zulip/interface.py *)
(* _run_turn; discord/interface.py _cancel_pending_stream_edit).             *)
AnswersStay ==
  [][\A m \in Messages : calls[m].shown = "answer" => calls'[m].shown # "progress"]_calls
=============================================================================
