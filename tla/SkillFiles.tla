------------------------------- MODULE SkillFiles -------------------------------
(***************************************************************************)
(* The skill catalog as a function of the config and the files             *)
(* (spctr/skills/core.py, Runtime._bootstrap_skills): built-in skills, the *)
(* files of the configured directories, the skills declared one by one.    *)
(* The description, version, tags and text of a skill stay with its file.  *)
(***************************************************************************)
EXTENDS Integers, Sequences, FiniteSets, SequencesExt, Functions

CONSTANTS
  Library,   \* the skill files there may be, in the order of their paths
  BuiltIns   \* the names of the built-in skills

(* A file: its directory, whether it is <dir>/<name>/SKILL.md or             *)
(* <dir>/<name>.md, the <name> of its path, and the name its frontmatter     *)
(* has: "" for a frontmatter that names nothing, is no mapping, or is none.  *)
ASSUME LibraryAssumption ==
  \A f \in Range(Library) : f.bundled \in BOOLEAN /\ f.path # "" /\ f.named \in STRING

(* Where the claim on a name comes from: a file, by its number, or a tier. *)
BuiltIn == 0
Declared == -1

-----------------------------------------------------------------------------
(* One directory. *)

(* _parse_skill_frontmatter: a flat file needs a frontmatter that names it,  *)
(* a bundled one is otherwise named by its path.                             *)
IsSkill(k) == Library[k].named # "" \/ Library[k].bundled
NameOf(k) == IF Library[k].named # "" THEN Library[k].named ELSE Library[k].path
ParseSkillFile(k) == [name |-> NameOf(k), by |-> k]

InDir(k, dir, files) == k \in files /\ Library[k].dir = dir
Numbers == [k \in DOMAIN Library |-> k]

(* A bug: one walk in path order, flat and bundled files as they come. *)
DiscoverSkillsInDirMutant(dir, files) ==
  LET found == SelectSeq(Numbers, LAMBDA k : InDir(k, dir, files) /\ IsSkill(k))
  IN  [k \in DOMAIN found |-> ParseSkillFile(found[k])]

(* discover_skills_in_dir: the flat files, then the bundled ones, each in    *)
(* the order of their paths.                                                 *)
DiscoverSkillsInDir(dir, files) ==
  LET found(bundled) ==
        SelectSeq(Numbers, LAMBDA k : InDir(k, dir, files) /\ IsSkill(k) /\ Library[k].bundled = bundled)
      candidates == found(FALSE) \o found(TRUE)
  IN  [k \in DOMAIN candidates |-> ParseSkillFile(candidates[k])]

(* discover_skills: the directories one after the other. *)
DiscoverSkills(dirs, files) ==
  FlattenSeq([d \in DOMAIN dirs |-> DiscoverSkillsInDir(dirs[d], files)])

-----------------------------------------------------------------------------
(* The catalog. *)

NoSkills == [name \in {} |-> BuiltIn]

(* SkillRegistry.register: the last claim on a name has it. *)
RegisterSkill(registry, claim) ==
  [name \in DOMAIN registry \cup {claim.name} |-> IF name = claim.name THEN claim.by ELSE registry[name]]

Tier(names, by) == LET order == SetToSeq(names) IN [k \in DOMAIN order |-> [name |-> order[k], by |-> by]]

(* _bootstrap_skills: the built-in skills unless the agent withholds them,   *)
(* then the directories, then the skills declared one by one.                *)
BootstrapSkills(c, files) ==
  (IF c.builtins THEN Tier(BuiltIns, BuiltIn) ELSE <<>>)
    \o DiscoverSkills(c.dirs, files) \o Tier(c.skills, Declared)

CatalogOf(c, files) == FoldLeft(RegisterSkill, NoSkills, BootstrapSkills(c, files))

(* _skills_fs_signature_now: what each directory has, whether it is there;   *)
(* the files are listed and not read.                                        *)
SkillsSignature(dirs, files, there) ==
  [d \in DOMAIN dirs |-> [dir |-> dirs[d], there |-> there,
                          files |-> {k \in files : there /\ Library[k].dir = dirs[d]}]]

(* _discover_skills_strict raises for a directory that is not there and for  *)
(* a file it cannot read, a file that is no skill among them.                *)
DiscoveryRaises(dirs, files, access) ==
  \/ access = "missing"
  \/ access = "unreadable" /\ \E k \in files : Library[k].dir \in Range(dirs)

-----------------------------------------------------------------------------
(* What the order of the tiers is for. *)

LastPlace(dirs, k) == CHOOSE d \in DOMAIN dirs :
  dirs[d] = Library[k].dir /\ \A e \in DOMAIN dirs : e > d => dirs[e] # Library[k].dir

(* Of two files: the one of the later directory, in one directory the        *)
(* bundled one, of one form the one with the later path.                     *)
Stronger(dirs, j, k) ==
  \/ LastPlace(dirs, j) > LastPlace(dirs, k)
  \/ /\ Library[j].dir = Library[k].dir
     /\ \/ Library[j].bundled /\ ~Library[k].bundled
        \/ Library[j].bundled = Library[k].bundled /\ j > k

(* Lists of directories, one of them twice for a change, and of declared     *)
(* skills, up to one of each name.                                           *)
Dirs == {f.dir : f \in Range(Library)}
FileNames == {NameOf(k) : k \in DOMAIN Library}
DeclaredLists == {{}} \cup {{name} : name \in FileNames \cup BuiltIns}

(* "Builtins are the weakest claim on a name and an explicit per-file skill  *)
(* is the strongest" (_bootstrap_skills): the strongest claim has a name,    *)
(* whatever else lies in the directories, and a stray file has none          *)
(* (discover_skills_in_dir).                                                 *)
StrongestClaimWins ==
  \A dirs \in BoundedSeq(Dirs, Cardinality(Dirs) + 1), names \in DeclaredLists, builtins \in BOOLEAN,
     files \in SUBSET DOMAIN Library :
    LET catalog == CatalogOf([dirs |-> dirs, skills |-> names, builtins |-> builtins], files)
        Claims(name) == {k \in files : Library[k].dir \in Range(dirs) /\ IsSkill(k) /\ NameOf(k) = name}
        claimed == {name \in BuiltIns \cup FileNames : Claims(name) # {}}
    IN  /\ DOMAIN catalog = names \cup claimed \cup (IF builtins THEN BuiltIns ELSE {})
        /\ \A name \in DOMAIN catalog :
             CASE name \in names                            -> catalog[name] = Declared
               [] name \notin names /\ Claims(name) # {}    ->
                    /\ catalog[name] \in Claims(name)
                    /\ \A k \in Claims(name) \ {catalog[name]} : Stronger(dirs, catalog[name], k)
               [] OTHER                                     -> catalog[name] = BuiltIn
=============================================================================
