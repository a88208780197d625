-------------------------------- MODULE RunLog --------------------------------
(***************************************************************************)
(* The session logs (spctr/run_log.py): one file per session, written by   *)
(* one process that holds its lock, and swept by every process once its    *)
(* last write is over a day old.  Of what a log says, only the records of  *)
(* model calls are kept: whether one is open, and whether they ever failed *)
(* to pair up.                                                             *)
(***************************************************************************)
EXTENDS Integers, Sequences

Logs == [{"exists", "locked", "stale", "failed", "open", "unpaired"} -> BOOLEAN]
NewLog == [exists |-> TRUE, locked |-> TRUE, stale |-> FALSE, failed |-> FALSE,
           open |-> FALSE, unpaired |-> FALSE]

Writable(log) == log.locked /\ ~log.failed

(* append(): a closed log, or one whose write failed before, takes nothing. *)
Logged(log, event) ==
  IF ~Writable(log) THEN log
  ELSE LET starts == event = "model.start"
       IN  [log EXCEPT !.stale = FALSE, !.open = starts,
                       !.unpaired = @ \/ (log.open = starts)]

(* A write that fails is the last one tried. *)
LogFailed(log) == [log EXCEPT !.failed = TRUE]

(* close(), or the end of the process, gives the lock up; what the records *)
(* of a log nobody writes say is dropped.                                   *)
Closed(log) == [NewLog EXCEPT !.exists = log.exists, !.stale = log.stale, !.locked = FALSE]

DayOld(log) == [log EXCEPT !.stale = TRUE]

(* A bug: the age alone decides. *)
SweepableMutant(log) == log.exists /\ log.stale
(* cleanup_once(): an old file whose lock can be taken. *)
Sweepable(log) == log.exists /\ log.stale /\ ~log.locked
=============================================================================
