-------------------------------- MODULE Archive --------------------------------
(***************************************************************************)
(* The turn archive (sr2/orchestrator.py, _TurnArchivist) and the reads of *)
(* it (sr2/pipeline/provenance.py).  The store of one session is the       *)
(* sequence of its entries in the order they were written; an entry's id   *)
(* is its place in it.                                                     *)
(***************************************************************************)
EXTENDS Integers, Sequences, FiniteSets, SequencesExt, FiniteSetsExt

(* turn_seq and _seq stamp the next entry; _prev_id is 0 before the first. *)
NewArchivist == [turn |-> -1, seq |-> 0, prev |-> 0]

ArchiveEntry(a, authority, text) ==
  [turn |-> a.turn, seq |-> a.seq, source |-> a.prev, authority |-> authority, text |-> text]

(* A failed write is logged and swallowed: number and predecessor stay. *)
AfterArchive(a, store, ok) ==
  IF ok THEN [a EXCEPT !.prev = Len(store) + 1, !.seq = @ + 1] ELSE a

Archived(a, store, authority, text, ok) ==
  IF ok THEN Append(store, ArchiveEntry(a, authority, text)) ELSE store

(* The newest entry by turn and number: where a new instance continues. *)
Before(x, y) == x.turn < y.turn \/ (x.turn = y.turn /\ x.seq < y.seq)
LastEntry(store) == CHOOSE id \in DOMAIN store : \A k \in DOMAIN store : ~Before(store[id], store[k])

(* continue_archive: the lineage goes on from the last entry, the engine's   *)
(* turns from its turn.  The archivist's own number starts again from zero.  *)
Continued(a, store) == IF store = <<>> THEN a ELSE [a EXCEPT !.prev = LastEntry(store)]

(* A bug: the turn numbers of a continued session start again. *)
ContinuedTurnMutant(turn, store) == turn
ContinuedTurn(turn, store) == IF store = <<>> THEN turn ELSE store[LastEntry(store)].turn

(* read_turn_archive: the entries of one turn by their number, stably. *)
ReadTurn(store, turn) ==
  LET wanted == {id \in DOMAIN store : store[id].turn = turn}
      ahead(id) == {k \in wanted : \/ store[k].seq < store[id].seq
                                   \/ store[k].seq = store[id].seq /\ k < id}
  IN  [n \in 1..Cardinality(wanted) |-> CHOOSE id \in wanted : Cardinality(ahead(id)) = n - 1]

(* get_lineage: everything reached over source links. *)
Lineage(store, id) ==
  LET reach[k \in 0..Len(store)] == IF k = 0 THEN {} ELSE {k} \cup reach[store[k].source]
  IN  reach[id]
=============================================================================
