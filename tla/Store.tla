--------------------------------- MODULE Store ---------------------------------
(***************************************************************************)
(* The SQLite provenance store (sr2/pipeline/stores/sqlite.py) under the   *)
(* Sessions of a process.  All of them write through one connection, and a *)
(* connection has one transaction at a time: one step of this module is    *)
(* one statement of one write, and the statements of several writes        *)
(* interleave.  Conversation sees a write as one step of one session.      *)
(***************************************************************************)
EXTENDS Integers, Sequences, FiniteSets, SequencesExt, TLC

CONSTANTS
  Sessions,   \* the frames of the process
  Contents,   \* what resolvers resolve: an entry's id is the hash of its content
  MaxWrites   \* bound on the writes and buffered entries

VARIABLES
  stored,      \* the committed rows and links
  open,        \* what the connection sees: stored, and the statements since
  call,        \* the write each session waits for
  pending,     \* _pending_writes: what each session's layer has yet to store
  lastStored,  \* _last_stored_ids: what its last batch stored
  prev,        \* _prev_id of its archivist, or 0
  made,        \* the ids made so far: a ULID is a number
  rejected     \* ids of writes that were rolled back and not written since

vars == <<stored, open, call, pending, lastStored, prev, made, rejected>>

EmptyDb == [rows |-> <<>>, links |-> {}]
Idle == [pc |-> "idle", kind |-> "archive", entries |-> <<>>, at |-> 0]
MoreWrites == made < MaxWrites

-----------------------------------------------------------------------------
(* Entries, rows and links. *)

(* Entry.__post_init__: an entry with sources is a transformer's, one        *)
(* without is a resolver's.                                                  *)
NewEntry(id, session, layer, sources) ==
  [id |-> id, session |-> session, layer |-> layer, sources |-> sources,
   origin |-> IF sources = <<>> THEN "resolver" ELSE "transformer"]

(* _insert_entry_row: the first row of an id stays. *)
WithRow(db, e) ==
  [db EXCEPT !.rows = IF e.id \in DOMAIN @ THEN @
                            ELSE @ @@ (e.id :> [session |-> e.session, layer |-> e.layer, origin |-> e.origin])]

(* entry_sources: both ends of a link are rows. *)
Linkable(db, link) == {link[1], link[2]} \subseteq DOMAIN db.rows
WithLink(db, link) == [db EXCEPT !.links = @ \cup {link}]

LinksOf(entries) ==
  FlattenSeq([k \in DOMAIN entries |->
    [n \in DOMAIN entries[k].sources |-> <<entries[k].id, entries[k].sources[n]>>]])

(* _row_to_entry builds the Entry, and __post_init__ refuses what the store  *)
(* has without its links; get_session then raises for all it has selected.   *)
ReadsBack(db, id) == db.rows[id].origin = "transformer" <=> \E link \in db.links : link[1] = id
ArchivedIn(db, s) == {id \in DOMAIN db.rows : db.rows[id].session = s /\ db.rows[id].layer = "turn_archive"}
ArchiveReads(db, s) == \A id \in ArchivedIn(db, s) : ReadsBack(db, id)

(* continue_archive: the newest entry of the session's archive, or a fresh   *)
(* lineage if there is none or the read raises.                              *)
LastArchived(db, s) ==
  IF ~ArchiveReads(db, s) \/ ArchivedIn(db, s) = {} THEN 0
  ELSE CHOOSE id \in ArchivedIn(db, s) : \A k \in ArchivedIn(db, s) : k <= id

Init ==
  /\ stored = EmptyDb /\ open = EmptyDb
  /\ call = [s \in Sessions |-> Idle] /\ pending = [s \in Sessions |-> <<>>]
  /\ lastStored = [s \in Sessions |-> <<>>] /\ prev = [s \in Sessions |-> 0]
  /\ made = 0 /\ rejected = {}

-----------------------------------------------------------------------------
(* What a turn writes. *)

Begins(s, kind, entries) ==
  call' = [call EXCEPT ![s] = [pc |-> "rows", kind |-> kind, entries |-> entries, at |-> 1]]

(* _TurnArchivist.archive: each entry names the one before it. *)
ArchiveEntry(s) ==
  /\ call[s].pc = "idle" /\ MoreWrites
  /\ made' = made + 1
  /\ Begins(s, "archive", <<NewEntry(made', s, "turn_archive", IF prev[s] = 0 THEN <<>> ELSE <<prev[s]>>)>>)
  /\ UNCHANGED <<stored, open, pending, lastStored, prev, rejected>>

(* process_pending: a resolved item, a transformer's output, whose sources   *)
(* are what is stored already of this batch or else the last one, or a       *)
(* summary with the generated source of _make_entries.  All of the session   *)
(* "default" but the last.  An id whose entry cannot be read is skipped.     *)
StoredIds(s) ==
  SelectSeq([k \in DOMAIN pending[s] |-> pending[s][k].id], LAMBDA id : id \in DOMAIN open.rows /\ ReadsBack(open, id))
RawSources(s) == IF StoredIds(s) # <<>> THEN StoredIds(s) ELSE lastStored[s]

Buffered(s) ==
  {NewEntry(c, "default", "messages", <<>>) : c \in Contents} \cup {NewEntry(c, "default", "messages", RawSources(s)) : c \in Contents}
    \cup {NewEntry(made + 1, s, "messages", <<made + 2>>)}

ProcessPending(s) ==
  /\ call[s].pc = "idle" /\ MoreWrites
  /\ made' = made + 2
  /\ \E e \in Buffered(s) :
       /\ pending' = [pending EXCEPT ![s] = Append(@, e)]
       /\ Begins(s, "batch", pending'[s])
  /\ UNCHANGED <<stored, open, lastStored, prev, rejected>>

-----------------------------------------------------------------------------
(* write and write_batch, statement by statement. *)

InsertEntryRow(s) ==
  /\ call[s].pc = "rows"
  /\ open' = WithRow(open, call[s].entries[call[s].at])
  /\ call' = [call EXCEPT ![s] = IF @.at < Len(@.entries) THEN [@ EXCEPT !.at = @ + 1]
                                 ELSE [@ EXCEPT !.pc = "links", !.at = 1]]
  /\ UNCHANGED <<stored, pending, lastStored, prev, made, rejected>>

(* _insert_sources: a link to nothing violates the foreign key. *)
InsertSource(s) ==
  /\ call[s].pc = "links"
  /\ LET links == LinksOf(call[s].entries)
     IN  /\ call[s].at <= Len(links)
         /\ IF Linkable(open, links[call[s].at])
            THEN open' = WithLink(open, links[call[s].at]) /\ call' = [call EXCEPT ![s].at = @ + 1]
            ELSE UNCHANGED open /\ call' = [call EXCEPT ![s].pc = "failed"]
  /\ UNCHANGED <<stored, pending, lastStored, prev, made, rejected>>

IdsOf(s) == [k \in DOMAIN call[s].entries |-> call[s].entries[k].id]

Written(s) == call[s].pc = "links" /\ call[s].at > Len(LinksOf(call[s].entries))

Commit(s) ==
  /\ Written(s)
  /\ stored' = open
  /\ rejected' = rejected \ Range(IdsOf(s))
  /\ IF call[s].kind = "archive"
     THEN prev' = [prev EXCEPT ![s] = IdsOf(s)[1]] /\ UNCHANGED <<pending, lastStored>>
     ELSE /\ pending' = [pending EXCEPT ![s] = <<>>] /\ lastStored' = [lastStored EXCEPT ![s] = IdsOf(s)]
          /\ UNCHANGED prev
  /\ call' = [call EXCEPT ![s] = Idle]
  /\ UNCHANGED <<open, made>>

(* The connection rolls back, whoever's statements they are.  The archivist  *)
(* goes on; a batch stays buffered.                                          *)
Rollback(s) ==
  /\ call[s].pc = "failed"
  /\ open' = stored
  /\ rejected' = rejected \cup (Range(IdsOf(s)) \ Contents)
  /\ call' = [call EXCEPT ![s] = Idle]
  /\ UNCHANGED <<stored, pending, lastStored, prev, made>>

(* "except Exception" lets CancelledError pass: no rollback.  A commit that  *)
(* was under way is done all the same, and nobody learns of it.              *)
Cancelled(s) ==
  /\ call[s].pc # "idle"
  /\ call' = [call EXCEPT ![s] = Idle]
  /\ stored' \in {stored} \cup (IF Written(s) THEN {open} ELSE {})
  /\ UNCHANGED <<open, pending, lastStored, prev, made, rejected>>

(* A new Session of the frame, in this process or, over what was committed,  *)
(* in the next one: connect() adds nothing to a database that is there.      *)
Reopened(s) ==
  /\ call[s].pc = "idle"
  /\ prev' = [prev EXCEPT ![s] = LastArchived(open, s)]
  /\ pending' = [pending EXCEPT ![s] = <<>>] /\ lastStored' = [lastStored EXCEPT ![s] = <<>>]
  /\ UNCHANGED <<stored, open, call, made, rejected>>

Restart ==
  /\ open' = stored
  /\ call' = [s \in Sessions |-> Idle] /\ pending' = [s \in Sessions |-> <<>>]
  /\ lastStored' = [s \in Sessions |-> <<>>]
  /\ prev' = [s \in Sessions |-> LastArchived(stored, s)]
  /\ UNCHANGED <<stored, made, rejected>>

Next ==
  \/ Restart
  \/ \E s \in Sessions :
       \/ ArchiveEntry(s) \/ ProcessPending(s) \/ InsertEntryRow(s) \/ InsertSource(s)
       \/ Commit(s) \/ Rollback(s) \/ Cancelled(s) \/ Reopened(s)

Spec == Init /\ [][Next]_vars

-----------------------------------------------------------------------------
(* Properties. *)

(* "A rejected write leaves no entry or entry_sources residue" (write_batch, *)
(* and "nothing from this write survives" in write): the entries of a write  *)
(* that was rolled back are not in the store.  Their ids are their own, so   *)
(* nobody else writes them.                                                  *)
RejectedLeavesNothing == rejected \cap DOMAIN stored.rows = {}
=============================================================================
