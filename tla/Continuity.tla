------------------------------ MODULE Continuity ------------------------------
(***************************************************************************)
(* Continuity (sr2/continuity): the rules that make records of a turn's    *)
(* archived entries, the ledger they are appended to, the views computed   *)
(* from it and the retrieval policy's gate.                                *)
(* A text is abstracted to what the rules tell apart: the phrase that      *)
(* types it, the set of object words it is about, and the words of the     *)
(* subject it names outright ("subject-..."), if it names one.             *)
(***************************************************************************)
EXTENDS Integers, Sequences, FiniteSets, SequencesExt, FiniteSetsExt, Archive

CONSTANTS
  Words,    \* the object words of statements: a set of numbers, sorted as the code sorts
  KindWord  \* typed kind -> the number of its name, which is a word too

ASSUME WordsAssumption ==
  /\ Words \subseteq Nat /\ Words # {}
  /\ KindWord \in [{"correction", "constraint"} -> Nat]

Kinds == {"project_fact", "correction", "constraint", "episode"}
Phrases == {"claim", "correction", "confirmation", "constraint"}
Texts == [phrase : Phrases, about : SUBSET Words, token : SUBSET Words]

EvidenceAuthorities == {"user", "live_source"}

(* An evidence text is typed by its phrase; an untyped one is a project fact, *)
(* what the agent says an episode.                                            *)
MatchKind(authority, text) ==
  IF authority \in EvidenceAuthorities /\ text.phrase \in {"correction", "constraint"}
  THEN text.phrase ELSE "none"
FallbackKind(authority) ==
  IF authority \in EvidenceAuthorities THEN "project_fact" ELSE "episode"
KindOf(authority, text) ==
  IF MatchKind(authority, text) = "none" THEN FallbackKind(authority) ELSE MatchKind(authority, text)

(* A claim is named for its words; a typed record for its kind and event. *)
SubjectOf(kind, id, text) ==
  IF kind \in {"episode", "project_fact"} THEN <<"claim", text.about>> ELSE <<kind, {id}>>

(* The record's id is derived from the event and the entry it comes from. *)
RecordOf(event, id, kind, text, subject, authority, supersedes) ==
  [id |-> <<event, id>>, event |-> event, subject |-> subject, kind |-> kind,
   text |-> text, authority |-> authority, supersedes |-> supersedes, provenance |-> id]

-----------------------------------------------------------------------------
(* Views. *)

ChainOf(records, subject) == {k \in DOMAIN records : records[k].subject = subject}
SubjectsIn(records) == {records[k].subject : k \in DOMAIN records}

(* A bug: the records a later one supersedes stay in the running. *)
SupersededIdsMutant(records) == {}
(* Named anywhere in the ledger, not only within the chain. *)
SupersededIds(records) == UNION {records[k].supersedes : k \in DOMAIN records}

(* What of a chain counts. *)
Standing(records, subject) == {k \in ChainOf(records, subject) : records[k].id \notin SupersededIds(records)}

(* A bug: what is formed after a suppression brings the subject back. *)
SuppressedByMutant(records, subject, n) ==
  \E k \in Standing(records, subject) :
    /\ k <= n /\ \A j \in Standing(records, subject) : j \in k..n => records[j].event = "suppressed"
(* A chain is suppressed after its n-th record, of the whole ledger, when a *)
(* suppression that counts was not taken back up to there.                  *)
SuppressedBy(records, subject, n) ==
  \E k \in Standing(records, subject) :
    /\ k <= n /\ records[k].event = "suppressed"
    /\ \A j \in Standing(records, subject) : j \in k..n => records[j].event # "unsuppressed"

LiveIn(records, subject) ==
  {k \in Standing(records, subject) : /\ records[k].event \notin {"suppressed", "unsuppressed"}
                                      /\ ~SuppressedBy(records, subject, k)}

(* The latest live record is current; with nothing live the tail of the      *)
(* chain is, and decides.                                                    *)
ViewOf(records, subject) ==
  LET live == LiveIn(records, subject)
      tail == records[Max(ChainOf(records, subject))]
      current == IF live = {} THEN tail ELSE records[Max(live)]
      hidden == SuppressedBy(records, subject, Len(records)) \/ (live # {} /\ tail.event = "suppressed")
      status == IF live # {} /\ tail.event = "superseded" THEN "superseded"
                ELSE IF hidden THEN "suppressed"
                ELSE IF current.event \in {"dormant", "superseded"} THEN current.event
                ELSE "active"
  IN  [current |-> current, status |-> status]

ComputeViews(records) == [s \in SubjectsIn(records) |-> ViewOf(records, s)]

(* A rule of a profile holds for the kinds it names; none names all. *)
RuleMatches(rule, view) == rule.kinds = {} \/ view.current.kind \in rule.kinds
Matches(profile, effect, view) == \E rule \in profile.rules : rule.effect = effect /\ RuleMatches(rule, view)

(* The records are the asking agent's own, so that what is personal in them  *)
(* is not denied to it.                                                      *)
DefaultDecides(profile) == profile.default \in {"allow", "deny_cross_agent_personal"}

(* The policy's gates in order: a deny rule, then suppression, then the *)
(* allow rules and the default.                                         *)
Allowed(profile, view) ==
  /\ ~Matches(profile, "deny", view)
  /\ view.status # "suppressed"
  /\ Matches(profile, "allow", view) \/ DefaultDecides(profile)
FilterAllowed(profile, views) == {s \in DOMAIN views : Allowed(profile, views[s])}

-----------------------------------------------------------------------------
(* Consolidation.  The ledger is read through its views; the process-wide   *)
(* cache of what was consolidated answers for a subject the ledger lacks.   *)

(* The views without a repeated subject: one current record of each. *)
CurrentRecords(ledger) == {ComputeViews(ledger)[s].current : s \in SubjectsIn(ledger)}

Hits(ledger, word) == {r \in CurrentRecords(ledger) : word \in r.text.about}
Unambiguous(ledger, text) ==
  {w \in text.about : Cardinality({r.subject : r \in Hits(ledger, w)}) = 1}

(* A subject's name is those words, or goes on after them. *)
Begins(words, subject) ==
  /\ words # {}
  /\ IF subject[1] \in DOMAIN KindWord THEN words = {KindWord[subject[1]]}
     ELSE words \subseteq subject[2] /\ \A w \in words, v \in subject[2] \ words : w < v

(* One name begins the other. *)
Joins(recorded, subject) ==
  \/ recorded[1] = "claim" /\ Begins(recorded[2], subject)
  \/ subject[1] = "claim" /\ Begins(subject[2], recorded)

(* The current record of that subject which was recorded first. *)
First(ledger, subjects) ==
  IF subjects = {} THEN {}
  ELSE LET k == Min({j \in DOMAIN ledger : ledger[j].subject \in subjects})
       IN  {ViewOf(ledger, ledger[k].subject).current}

(* The subject a text names outright, or the first of its words, in order,   *)
(* that names a single recorded subject.                                     *)
MatchRecord(ledger, text) ==
  LET named == {s \in SubjectsIn(ledger) : Begins(text.token, s)}
  IN  IF named # {} THEN First(ledger, named)
      ELSE IF Unambiguous(ledger, text) = {} THEN {} ELSE Hits(ledger, Min(Unambiguous(ledger, text)))

(* A recorded subject that an unknown one abbreviates or goes on from. *)
MatchSubject(ledger, subject) ==
  First(ledger, {s \in SubjectsIn(ledger) : Joins(s, subject)})

(* The cache keeps the last record of a subject nothing cached supersedes. *)
CachedCurrent(cache, subject) ==
  LET live == Standing(cache, subject)
  IN  IF live = {} THEN {} ELSE {cache[Max(live)].id}

(* For an unknown subject it is not a record's id that is returned but the   *)
(* subject its name joins.                                                   *)
CurrentId(ledger, cache, subject) ==
  IF subject \in SubjectsIn(ledger) THEN {ViewOf(ledger, subject).current.id}
  ELSE IF CachedCurrent(cache, subject) # {} THEN CachedCurrent(cache, subject)
  ELSE {r.subject : r \in MatchSubject(ledger, subject)}

(* A user's confirmation vouches for the recorded claim its words restate. *)
Verification(ledger, id, text) ==
  {RecordOf("verified", id, "project_fact", text, r.subject, "verified", {}) :
     r \in MatchRecord(ledger, text)}

(* A correction joins the subject its words are about, if there is one. *)
CorrectedSubject(ledger, id, text) ==
  IF MatchRecord(ledger, text) = {} THEN SubjectOf("correction", id, text)
  ELSE (CHOOSE r \in MatchRecord(ledger, text) : TRUE).subject

Formed(ledger, cache, id, kind, text, authority) ==
  LET subject == IF kind = "correction" THEN CorrectedSubject(ledger, id, text)
                 ELSE SubjectOf(kind, id, text)
  IN  RecordOf("formed", id, kind, text, subject, authority,
               IF kind = "correction" THEN CurrentId(ledger, cache, subject) ELSE {})

(* One entry yields at most one record: a set of none or one. *)
ConsolidateEntry(ledger, cache, id, entry) ==
  IF entry.authority = "user" /\ entry.text.phrase = "confirmation"
  THEN Verification(ledger, id, entry.text)
  ELSE {Formed(ledger, cache, id, KindOf(entry.authority, entry.text), entry.text, entry.authority)}

(* All entries of a turn are consolidated before the first is appended: the  *)
(* ledger they are matched with does not change, the cache grows with each.  *)
Consolidate(ledger, cache, store, ids) ==
  LET records[n \in 0..Len(ids)] ==
        IF n = 0 THEN <<>>
        ELSE records[n - 1] \o SetToSeq(ConsolidateEntry(ledger, cache \o records[n - 1],
                                                        ids[n], store[ids[n]]))
  IN  records[Len(ids)]

(* append: a record whose id the ledger holds is refused. *)
Appendable(ledger, record) == \A k \in DOMAIN ledger : ledger[k].id # record.id
=============================================================================
