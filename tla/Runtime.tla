-------------------------------- MODULE Runtime --------------------------------
(***************************************************************************)
(* The process-wide Runtime and its live configuration                     *)
(* (spctr/config_source.py, spctr/runtime.py): what one reload of the      *)
(* config file and the skill files does to the tool registry, the skill    *)
(* catalog, the two delivery blocks, the model and the pipeline of the     *)
(* sessions.  Every inbound message or batch of messages calls it once.    *)
(***************************************************************************)
EXTENDS Config, SkillFiles, FiniteSetsExt

CONSTANTS
  Configs,  \* what the config files may come to say: numbers of Trees
  Startup,  \* the one of Trees the process starts with
  Skills,   \* those of Library that may come and go
  Models    \* the names in the models map of every config

Switches == {"off", "on", "moved", "broken"}  \* moved: on, set otherwise; broken: on, without a timezone
ConfigRecord(c) ==
  /\ c.reminders \in Switches /\ c.schedules \in Switches
  /\ IsFiniteSet(c.tools)             \* agent.tools that construct
  /\ IsFiniteSet(c.failing)           \* agent.tools whose constructor raises
  /\ IsFiniteSet(c.skills)            \* agent.skills whose files are there
  /\ c.dirs \in Seq(Dirs)             \* agent.skills_dirs
  /\ c.builtins \in BOOLEAN           \* agent.default_skills
  /\ c.plan <=> HasPlanResolver(c.pipeline)
  /\ c.model \in Models               \* active_model

(* A process does not start with a config that does not load, a broken block *)
(* or a tool that cannot be constructed.                                     *)
StartsUp(k) ==
  LET c == ConfigOf[k]
  IN  c.loads /\ "broken" \notin {c.reminders, c.schedules} /\ c.failing = {}

ASSUME RuntimeAssumption ==
  /\ Configs \cup {Startup} \subseteq DOMAIN Trees /\ Skills \subseteq DOMAIN Library
  /\ \A k \in DOMAIN Trees : ConfigOf[k].loads => ConfigRecord(ConfigOf[k])
  /\ StartsUp(Startup)

VARIABLES
  runtime,  \* the Runtime: the fields of StartRuntime below
  disk      \* the config file, the active-model pointer or "none", the skill
            \* files, and what comes of looking into their directories

Accesses == {"open", "unreadable", "missing"}  \* unreadable: listed, but no file can be read
FilesIn(d) == IF d.access = "open" THEN d.files ELSE {}

(* An auto-injected tool is registered exactly when a condition holds. *)
Matched(registry, tool, wanted) == IF wanted THEN registry \cup {tool} ELSE registry \ {tool}

-----------------------------------------------------------------------------
(* Tools, skills and the delivery blocks. *)

(* A directory that is not there and a file that cannot be read are skipped. *)
Catalog(c, d) == CatalogOf(c, FilesIn(d))

(* A bug: load_skill is registered for a filled catalog, never withdrawn. *)
RebuildSkillsMutant(rt, c, d) ==
  [rt EXCEPT !.catalog = Catalog(c, d),
             !.registry = IF DOMAIN Catalog(c, d) # {} THEN @ \cup {"load_skill"} ELSE @]

(* _rebuild_skills refills the catalog, and load_skill follows it. *)
RebuildSkills(rt, c, d) ==
  LET catalog == Catalog(c, d)
  IN  [rt EXCEPT !.catalog = catalog, !.registry = Matched(@, "load_skill", DOMAIN catalog # {})]

SeededSignature(c, d) == SkillsSignature(c.dirs, d.files, d.access # "missing")

(* Every reload looks at the files: where the discovery would raise, the     *)
(* catalog and the signature stay; the signature follows a rebuild only.     *)
RescanSkills(rt, c, d) ==
  LET signature == SkillsSignature(c.dirs, d.files, d.access # "missing")
  IN  IF c.dirs = <<>> THEN [rt EXCEPT !.signature = <<>>]
      ELSE IF signature = rt.signature \/ DiscoveryRaises(c.dirs, d.files, d.access) THEN rt
      ELSE [RebuildSkills(rt, c, d) EXCEPT !.signature = signature]

(* The config's tools are registered and the ones an earlier config declared *)
(* are dropped, a tool that failed to construct among them.                  *)
RegisterConfigTools(rt, c) ==
  [rt EXCEPT !.registry = (@ \cup c.tools) \ (rt.declared \ c.tools), !.declared = c.tools]

(* _reminders_for: the tool and the handle of a block follow its switch;     *)
(* every seat has a new number.  A broken block raises before any of it.     *)
Seated(rt, block, switch) ==
  [rt EXCEPT !.registry = Matched(@, block, switch # "off"),
             !.seat[block] = IF switch # "off" THEN rt.seats[block] + 1 ELSE 0,
             !.seats[block] = IF switch # "off" THEN @ + 1 ELSE @]

SeatSchedules(rt, c) == Seated(rt, "schedules", c.schedules)

(* complete_step is registered with the first plan resolver and stays. *)
InjectCompleteStep(rt, c) ==
  IF c.plan THEN [rt EXCEPT !.registry = @ \cup {"complete_step"}] ELSE rt

WirePlanResolver(rt, c) == [rt EXCEPT !.provider = c.plan]

NewRuntime(c) ==
  [source |-> c, config |-> c, registry |-> {}, declared |-> {},
   catalog |-> NoSkills, signature |-> <<>>, provider |-> FALSE, model |-> c.model,
   seat |-> [b \in {"reminders", "schedules"} |-> 0],
   seats |-> [b \in {"reminders", "schedules"} |-> 0],
   stamp |-> [b \in {"reminders", "schedules"} |-> 0]]

(* __init__, over the files as they are at the start. *)
StartRuntime(c, d) ==
  LET tools  == RegisterConfigTools(NewRuntime(c), c)
      skills == [RebuildSkills(InjectCompleteStep(tools, c), c, d) EXCEPT
                   !.signature = SeededSignature(c, d)]
  IN  SeatSchedules(Seated(WirePlanResolver(skills, c), "reminders", c.reminders), c)

-----------------------------------------------------------------------------
(* reload() and apply_config(). *)

(* _apply_active_model_pointer: the pointer file overrides the active model. *)
Loaded(d) == [ConfigOf[d.config] EXCEPT !.model = IF d.pointer \in Models THEN d.pointer ELSE @]

(* The source keeps the last config that loaded. *)
Reload(rt, d) == IF ConfigOf[d.config].loads THEN [rt EXCEPT !.source = Loaded(d)] ELSE rt

(* A bug: the handle changes without the interface being told. *)
ReseatedMutant(rt, c, block) ==
  IF c[block] = rt.config[block] THEN rt ELSE Seated(rt, block, c[block])
(* A bug: a block's part of the config is in force as soon as it is seated. *)
ReseatedInPartMutant(rt, c, block) ==
  IF c[block] = rt.config[block] THEN rt
  ELSE [Seated(rt, block, c[block]) EXCEPT !.stamp[block] = @ + 1, !.config[block] = c[block]]
(* A changed block is seated again, and stamped for the interface's loop. *)
Reseated(rt, c, block) ==
  IF c[block] = rt.config[block] THEN rt
  ELSE [Seated(rt, block, c[block]) EXCEPT !.stamp[block] = @ + 1]

Raises(rt, c, block) == c[block] # rt.config[block] /\ c[block] = "broken"
ApplyRaises(rt, c) == Raises(rt, c, "reminders") \/ Raises(rt, c, "schedules")

(* A bug: the endpoint stays the one the process started with. *)
RetargetedMutant(rt, c) == rt
(* LiveLLM.retarget: sessions that are open call the new model from now on. *)
Retargeted(rt, c) == [rt EXCEPT !.model = c.model]

(* apply_config: skill files first, then the two blocks, then the rest of a  *)
(* changed config.  A block that raises ends it there: what came before it   *)
(* is done, the config in force stays.                                       *)
ApplyConfig(rt, c, d) ==
  LET scanned   == RescanSkills(rt, c, d)
      reminded  == Reseated(scanned, c, "reminders")
      scheduled == Reseated(reminded, c, "schedules")
      old == rt.config
      called == Retargeted(scheduled, c)
      tools  == IF <<c.tools, c.failing>> = <<old.tools, old.failing>> THEN called
                ELSE RegisterConfigTools(called, c)
      skills == IF <<c.skills, c.dirs, c.builtins>> = <<old.skills, old.dirs, old.builtins>> THEN tools
                ELSE RebuildSkills(tools, c, d)
      piped  == IF c.pipeline = old.pipeline THEN skills
                ELSE InjectCompleteStep(WirePlanResolver(skills, c), c)
  IN  IF Raises(rt, c, "reminders") THEN scanned
      ELSE IF Raises(rt, c, "schedules") THEN reminded
      ELSE [piped EXCEPT !.config = c]

Reloaded(rt, d) == LET read == Reload(rt, d) IN ApplyConfig(read, read.source, d)
ReloadRaises(d) == ApplyRaises(runtime, Reload(runtime, d).source)
PipelineChanges(d) == ~ReloadRaises(d) /\ Reload(runtime, d).source.pipeline # runtime.config.pipeline

(* render_model_command: any model but the active one may be switched to. *)
Selectable(active) == Models \ {active}

RuntimeInit ==
  /\ disk = [config |-> Startup, pointer |-> "none", files |-> Skills, access |-> "open"]
  /\ runtime = StartRuntime(ConfigOf[Startup], disk)

(* The operator edits the config file, a skill file, or what can be read. *)
EditConfig == \E c \in Configs \ {disk.config} : disk' = [disk EXCEPT !.config = c]
EditSkills == \E s \in Skills : disk' = [disk EXCEPT !.files = SymDiff(@, {s})]
ChangeAccess == \E a \in Accesses \ {disk.access} : disk' = [disk EXCEPT !.access = a]
=============================================================================
