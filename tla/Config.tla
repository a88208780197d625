--------------------------------- MODULE Config ---------------------------------
(***************************************************************************)
(* How the configuration of a process comes out of its files               *)
(* (spctr/config.py, spctr/config_merge.py): four tiers, each of which may *)
(* extend another file, merged from the lowest to the highest.  A nested   *)
(* mapping is the function of its leaves, so that one override merges it.  *)
(***************************************************************************)
EXTENDS Integers, Sequences, FiniteSets, SequencesExt, Functions

CONSTANT Trees  \* a sequence of states of the config files: records [file, agent]

(* A file: whether it is there and parses, the one it extends, its settings, *)
(* and its lists of named entries.                                           *)
FileStates == {"there", "absent", "malformed"}
ASSUME TreesAssumption ==
  \A t \in Range(Trees) :
    /\ t.agent \in DOMAIN t.file /\ IsFiniteSet(DOMAIN t.file)
    /\ \A f \in DOMAIN t.file : t.file[f].state \in FileStates /\ t.file[f].extends \in DOMAIN t.file \cup {"none"}

NoFile ==
  [state |-> "absent", extends |-> "none", set |-> <<>>, tools |-> <<>>, skills |-> <<>>, layers |-> <<>>]

-----------------------------------------------------------------------------
(* Merging. *)

Override(parent, child) ==
  [k \in DOMAIN parent \cup DOMAIN child |-> IF k \in DOMAIN child THEN child[k] ELSE parent[k]]

(* Lists whose entries have names: a parent's entry keeps its place under    *)
(* what the child says of it, the child's new ones follow.  No child can     *)
(* take an entry away.                                                       *)
NamedMerge(parent, child) ==
  LET names == {e.name : e \in Range(parent)}
      Over(e) == SelectSeq(child, LAMBDA c : c.name = e.name)
      Merged(e) == IF Over(e) = <<>> THEN e ELSE [e EXCEPT !.set = Override(@, Last(Over(e)).set)]
  IN  [k \in DOMAIN parent |-> Merged(parent[k])] \o SelectSeq(child, LAMBDA c : c.name \notin names)

(* A bug: the parent's settings win. *)
MergeConfigsMutant(parent, child) ==
  [set    |-> Override(child.set, parent.set),
   tools  |-> NamedMerge(parent.tools, child.tools),
   skills |-> NamedMerge(parent.skills, child.skills),
   layers |-> NamedMerge(parent.layers, child.layers)]

MergeConfigs(parent, child) ==
  [set    |-> Override(parent.set, child.set),
   tools  |-> NamedMerge(parent.tools, child.tools),
   skills |-> NamedMerge(parent.skills, child.skills),
   layers |-> NamedMerge(parent.layers, child.layers)]

Nothing == [set |-> <<>>, tools |-> <<>>, skills |-> <<>>, layers |-> <<>>]

-----------------------------------------------------------------------------
(* Resolution. *)

(* A file and those it extends, one after the other, as far as they can be   *)
(* read; a chain with one file more than there are has come back to itself.  *)
Chain(tree, f) ==
  LET goesOn(c) == tree.file[Last(c)].state = "there" /\ tree.file[Last(c)].extends # "none"
      step[n \in 0..Cardinality(DOMAIN tree.file)] ==
        IF n = 0 THEN <<f>>
        ELSE IF goesOn(step[n - 1]) THEN Append(step[n - 1], tree.file[Last(step[n - 1])].extends)
        ELSE step[n - 1]
  IN  step[Cardinality(DOMAIN tree.file)]

Circular(tree, f) == Len(Chain(tree, f)) > Cardinality(DOMAIN tree.file)
Resolves(tree, f) == ~Circular(tree, f) /\ \A g \in Range(Chain(tree, f)) : tree.file[g].state = "there"

ResolveExtends(tree, f) == FoldRight(LAMBDA g, base : MergeConfigs(base, tree.file[g]), Chain(tree, f), Nothing)

DefaultTiers == <<"global", "global-spctr", "project">>

(* The files that are merged: a tier that is absent is skipped, and the      *)
(* agent's own file keeps its lower place if it is a tier's.                 *)
TierPaths(tree) ==
  SelectSeq(DefaultTiers \o (IF tree.agent \in Range(DefaultTiers) THEN <<>> ELSE <<tree.agent>>),
            LAMBDA f : tree.file[f].state # "absent")

ResolveTiers(tree) ==
  FoldLeft(LAMBDA base, f : MergeConfigs(base, ResolveExtends(tree, f)), Nothing, TierPaths(tree))

Rooted(layer) == "root" \in DOMAIN layer.set

(* resolve_resolver_paths: a path is taken from the agent's own file,        *)
(* whichever file names it.                                                  *)
ResolverPaths(tree, layers) ==
  [k \in DOMAIN layers |-> IF Rooted(layers[k]) THEN [layers[k] EXCEPT !.set.root = <<tree.agent, @>>] ELSE layers[k]]

Setting(m, key, otherwise) == IF key \in DOMAIN m.set THEN m.set[key] ELSE otherwise

(* Any of it may raise: the agent's file is not there, a file cannot be      *)
(* read or extends itself, a path needs what the environment has not got,    *)
(* a value, here the setting "invalid", does not validate.                   *)
Loads(tree) ==
  /\ tree.file[tree.agent].state # "absent"
  /\ \A f \in Range(TierPaths(tree)) : Resolves(tree, f)
  /\ LET m == ResolveTiers(tree)
     IN  /\ \A l \in Range(m.layers) : Rooted(l) => l.set.root # "unset"
         /\ ~Setting(m, "invalid", FALSE)

(* What SpctrConfig makes of the settings of a delivery block. *)
Switch(m, enabled, timezone, store) ==
  CASE ~Setting(m, enabled, FALSE)                                          -> "off"
    [] Setting(m, enabled, FALSE) /\ Setting(m, timezone, "") = ""          -> "broken"
    [] Setting(m, enabled, FALSE) /\ Setting(m, timezone, "") # ""
         /\ Setting(m, store, "") # ""                                      -> "moved"
    [] OTHER                                                                -> "on"

(* _find_plan_resolver_config: a plan resolver in some layer. *)
HasPlanResolver(layers) == \E l \in Range(layers) : Rooted(l)

Typed(tree, m) ==
  [loads |-> TRUE, model |-> Setting(m, "active_model", "default"),
   reminders |-> Switch(m, "reminders.enabled", "reminders.timezone", "reminders.store_path"),
   schedules |-> Switch(m, "schedules.enabled", "schedules.timezone", "schedules.store_path"),
   tools    |-> {t.name : t \in {t \in Range(m.tools) : t.set.works}},
   failing  |-> {t.name : t \in {t \in Range(m.tools) : ~t.set.works}},
   skills   |-> {s.name : s \in {s \in Range(m.skills) : s.set.found}},
   dirs     |-> Setting(m, "skills_dirs", <<>>), builtins |-> Setting(m, "default_skills", TRUE),
   pipeline |-> ResolverPaths(tree, m.layers), plan |-> HasPlanResolver(m.layers)]

(* resolve_config: one pass over the files. *)
ConfigOf == [k \in DOMAIN Trees |->
               IF Loads(Trees[k]) THEN Typed(Trees[k], ResolveTiers(Trees[k])) ELSE [loads |-> FALSE]]

-----------------------------------------------------------------------------
(* What the tiers promise. *)

(* The files by priority: the highest tier first, a file before the one it   *)
(* extends.                                                                  *)
Priority(tree) ==
  FlattenSeq(Reverse([k \in DOMAIN TierPaths(tree) |-> Chain(tree, TierPaths(tree)[k])]))

(* Of the values the files in this order have for a key, the first. *)
FirstOf(order, has(_), value(_)) == value(order[CHOOSE k \in DOMAIN order :
                                      has(order[k]) /\ \A j \in 1..(k - 1) : ~has(order[j])])

EntryIn(list, name) == {e \in Range(list) : e.name = name}

(* The nearest file wins, key by key, under a list's names as well: nothing  *)
(* of a lower tier or of a file that is extended shows through (config.py    *)
(* load_resolved_config_with_provenance, config_merge.py).                   *)
NearestFileWins ==
  \A tree \in {t \in Range(Trees) : Loads(t)} :
    LET m == ResolveTiers(tree)
        order == Priority(tree)
        Has(f, k) == k \in DOMAIN tree.file[f].set
        Tools(f, n, k) == {e \in EntryIn(tree.file[f].tools, n) : k \in DOMAIN e.set}
    IN  /\ DOMAIN m.set = UNION {DOMAIN tree.file[f].set : f \in Range(order)}
        /\ \A k \in DOMAIN m.set :
             m.set[k] = FirstOf(order, LAMBDA f : Has(f, k), LAMBDA f : tree.file[f].set[k])
        /\ {t.name : t \in Range(m.tools)} = UNION {{e.name : e \in Range(tree.file[f].tools)} : f \in Range(order)}
        /\ \A t \in Range(m.tools) : \A k \in DOMAIN t.set :
             t.set[k] = FirstOf(order, LAMBDA f : Tools(f, t.name, k) # {},
                                       LAMBDA f : (CHOOSE e \in Tools(f, t.name, k) : TRUE).set[k])
=============================================================================
