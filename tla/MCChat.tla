-------------------------------- MODULE MCChat --------------------------------
(* Model checking Chat: two places, three messages, and files whose configs   *)
(* move every part of the Runtime, break a block, or do not load.             *)
EXTENDS Chat, TLC

Entry(name, set) == [name |-> name, set |-> set]
There(extends, set, tools, layers) ==
  [state |-> "there", extends |-> extends, set |-> set, tools |-> tools, skills |-> <<>>, layers |-> layers]

Files == {"global", "global-spctr", "project", "base", "agent"}

(* What an operator starts with: the agent's file on top of a base it        *)
(* extends and of the user's global file.                                    *)
Global == There("none", [k \in {"active_model", "reminders.timezone"} |->
                           IF k = "active_model" THEN "other" ELSE "UTC"], <<>>, <<>>)
Base == There("none", [k \in {"reminders.enabled", "skills_dirs", "default_skills"} |->
                         CASE k = "reminders.enabled" -> TRUE [] k = "skills_dirs" -> <<"first">> [] OTHER -> FALSE],
              <<Entry("file", [works |-> TRUE])>>, <<Entry("core", <<>>)>>)
Agent == There("base", [k \in {"active_model"} |-> "default"], <<>>, <<>>)
PlainFiles == [f \in Files |-> CASE f = "global" -> Global [] f = "base" -> Base [] f = "agent" -> Agent
                                 [] OTHER -> NoFile]

(* The project's file adds a plan resolver, moves the reminders, turns the   *)
(* schedules on, takes the skill directory away, and replaces what one tool  *)
(* is made from.                                                             *)
Project == There("none", [k \in {"reminders.store_path", "schedules.enabled", "schedules.timezone", "skills_dirs"} |->
                            CASE k = "schedules.enabled" -> TRUE [] k = "skills_dirs" -> <<>> [] OTHER -> "UTC"],
                 <<Entry("shell", [works |-> TRUE])>>, <<Entry("core", [root |-> "plans"])>>)

Files1 == PlainFiles
Files2 == [PlainFiles EXCEPT !["project"] = Project,
                             !["agent"].tools = <<Entry("file", [works |-> FALSE])>>]
Files3 == [PlainFiles EXCEPT !["agent"].set = [k \in {"reminders.enabled", "schedules.enabled"} |->
                                                 k = "schedules.enabled"],
                             !["agent"].skills = <<Entry("alpha", [found |-> TRUE]), Entry("lost", [found |-> FALSE])>>]
Files4 == [PlainFiles EXCEPT !["base"].extends = "agent"]

(* Other files, for what the tiers promise: each of three is absent or one   *)
(* of these, and the agent's own may be the project's.                       *)
Some(extends, v, t) == There(extends, [k \in {"active_model"} |-> v], <<Entry(t, [works |-> v = "other"])>>, <<>>)
Small == <<NoFile, Some("none", "default", "file"), Some("base", "other", "file"), Some("base", "default", "shell"),
           Some("none", "other", "shell"), There("project", <<>>, <<>>, <<>>)>>
Pick(k, n) == Small[((k \div n) % Len(Small)) + 1]
Sampled == [k \in 1..(2 * 6 * 6 * 6) |->
  [file |-> [f \in Files |-> CASE f = "global" -> Pick(k, 1) [] f = "project" -> Pick(k, 6) [] f = "agent" -> Pick(k, 36)
                               [] f = "base" -> Base [] OTHER -> NoFile],
   agent |-> IF k > 6 * 6 * 6 THEN "project" ELSE "agent"]]

(* Two directories: names claimed in both forms, by frontmatter and by path, *)
(* and in both directories, one of them a built-in skill's, and a stray file. *)
MCLibrary ==
  <<[dir |-> "first", bundled |-> FALSE, path |-> "alpha", named |-> "alpha"],
    [dir |-> "first", bundled |-> TRUE, path |-> "beta", named |-> ""],
    [dir |-> "first", bundled |-> FALSE, path |-> "gamma", named |-> "beta"],
    [dir |-> "first", bundled |-> FALSE, path |-> "notes", named |-> ""],
    [dir |-> "first", bundled |-> TRUE, path |-> "omega", named |-> "beta"],
    [dir |-> "second", bundled |-> FALSE, path |-> "one", named |-> "beta"],
    [dir |-> "second", bundled |-> TRUE, path |-> "review", named |-> ""]>>

MCTrees == <<[file |-> Files1, agent |-> "agent"], [file |-> Files2, agent |-> "agent"],
             [file |-> Files3, agent |-> "agent"], [file |-> Files4, agent |-> "agent"]>> \o Sampled

Faults == {"handoff", "crash", "model error", "unread archive", "send fails", "edit config"}
MCExtras ==
  [zulip |-> Faults \cup {"edit skills", "change access", "queue expires", "probe fails", "shutdown", "stranger writes"},
   direct |-> Faults \cup {"queue expires"},
   discord |-> Faults, threads |-> Faults,
   repl |-> (Faults \ {"send fails"}) \cup {"edit skills", "interrupt", "reset", "resume", "change model"}]
MCMaxEvents == [zulip |-> 3, discord |-> 3, threads |-> 2, direct |-> 5, repl |-> 6]
MCPlaces == Permutations(Places)
=============================================================================
