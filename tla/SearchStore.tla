---------------------------- MODULE SearchStore ----------------------------
(***************************************************************************)
(* The three implementations of spi.AsyncSearchStore, as functions of one  *)
(* job's row.  Each operation answers [row, err]: the row afterwards and   *)
(* the error returned ("nil" for none).  A row holds the job record and    *)
(* its persisted result ids, as pairs <<position, entity>>.                *)
(*                                                                         *)
(* Memory appends under the store's mutex, the SQL stores insert under a   *)
(* (job, seq) primary key with a counter that restarts with every call.    *)
(* Finish times and messages are left out.                                 *)
(***************************************************************************)
EXTENDS Naturals, FiniteSets

CONSTANT NoJob      \* the row of a job that is not in the table

terminalStatuses == {"SUCCESSFUL", "FAILED", "CANCELLED"}

Status == {"RUNNING"} \cup terminalStatuses

Answer(row, err) == [row |-> row, err |-> err]

(* The write applies when its guard passed, and changes nothing otherwise. *)
Guarded(err, row, new) == Answer(IF err = "nil" THEN new ELSE row, err)

Stamped(row, status, count) == [row EXCEPT !.status = status, !.count = count]

-----------------------------------------------------------------------------
(* plugins/memory: every operation holds the store's mutex. *)

memCreateJob ==
    [status |-> "RUNNING", epoch |-> 1, staleClaims |-> 0, released |-> FALSE,
     results |-> {}, count |-> 0]

memGetJob(row) == Answer(row, IF row = NoJob THEN "ErrNotFound" ELSE "nil")

guardWrite(row, epoch) ==
    CASE row = NoJob -> "ErrNotFound"
      [] row # NoJob /\ row.status \in terminalStatuses -> "ErrAlreadyTerminal"
      [] row # NoJob /\ row.status \notin terminalStatuses /\ row.epoch # epoch
           -> "ErrStaleClaim"
      [] OTHER -> "nil"

memUpdateJobStatus(row, epoch, status, count) ==
    Guarded(guardWrite(row, epoch), row, Stamped(row, status, count))

(* guardAndAppend: a chunk goes to the end of whatever ids are there. *)
memSaveChunk(row, epoch, seq, ids) ==
    Guarded(guardWrite(row, epoch), row,
            [row EXCEPT !.results = @ \cup {<<Cardinality(row.results) + 1, i>> : i \in ids}])

memHeartbeat(row, epoch) == Guarded(guardWrite(row, epoch), row, row)

memRelease(row, epoch) ==
    Guarded(guardWrite(row, epoch), row, [row EXCEPT !.released = TRUE])

memCancel(row) ==
    CASE row = NoJob -> Answer(row, "ErrNotFound")
      [] row # NoJob /\ row.status \in terminalStatuses -> Answer(row, "nil")
      [] OTHER -> Answer([row EXCEPT !.status = "CANCELLED"], "nil")

memClearResults(row) ==
    IF row = NoJob THEN row ELSE [row EXCEPT !.results = {}]

(* The claim of one candidate: the epoch moves on, and a claim that was    *)
(* not released counts as an executor lost.                                *)
memClaim(row) ==
    [row EXCEPT !.epoch = @ + 1, !.released = FALSE,
                !.staleClaims = IF row.released THEN @ ELSE @ + 1]

memGetResultIDs(row) ==
    IF row = NoJob THEN {} ELSE row.results

memDeleteJob(row) == NoJob

(* Only a job with a finish time can be past the TTL; whether it is, is    *)
(* the caller's choice.                                                    *)
memReapExpired(row) == IF row.status = "RUNNING" THEN row ELSE NoJob

-----------------------------------------------------------------------------
(* plugins/sqlite: one conditional UPDATE, and a probe that says why it    *)
(* changed nothing.                                                        *)

InsertFails(row, seq) == \E r \in row.results : r[1] = seq

sqliteCreateJob == memCreateJob

sqliteGetJob(row) == Answer(row, IF row # NoJob THEN "nil" ELSE "ErrNotFound")

fencedUpdate(row, epoch, new) ==
    IF row # NoJob /\ row.epoch = epoch /\ row.status \notin terminalStatuses
    THEN Answer(new, "nil")
    ELSE Answer(row, CASE row = NoJob -> "ErrNotFound"
                       [] row # NoJob /\ row.status \in terminalStatuses -> "ErrAlreadyTerminal"
                       [] OTHER -> "ErrStaleClaim")

sqliteUpdateJobStatus(row, epoch, status, count) ==
    fencedUpdate(row, epoch, Stamped(row, status, count))

(* flush: fence and insert in one transaction; a position already taken is *)
(* a primary-key violation that rolls the chunk back.                      *)
sqliteSaveChunk(row, epoch, seq, ids) ==
    LET fence == fencedUpdate(row, epoch, row)
    IN  CASE fence.err # "nil" -> fence
          [] fence.err = "nil" /\ ids # {} /\ InsertFails(row, seq) -> Answer(row, "constraint")
          [] OTHER -> Answer([row EXCEPT !.results = @ \cup {<<seq, i>> : i \in ids}], "nil")

sqliteHeartbeat(row, epoch) == fencedUpdate(row, epoch, row)

sqliteRelease(row, epoch) == fencedUpdate(row, epoch, [row EXCEPT !.released = TRUE])

sqliteCancel(row) ==
    IF row # NoJob /\ row.status \notin terminalStatuses
    THEN Answer([row EXCEPT !.status = "CANCELLED"], "nil")
    ELSE Answer(row, IF row = NoJob THEN "ErrNotFound" ELSE "nil")

sqliteClearResults(row) ==
    IF row = NoJob THEN row ELSE [row EXCEPT !.results = {}]

(* The CAS on (epoch, RUNNING) of a candidate read earlier: staleness is   *)
(* not looked at again, released is read from the row.                     *)
sqliteClaim(row, seen) ==
    IF row # NoJob /\ row.epoch = seen /\ row.status = "RUNNING"
    THEN [row EXCEPT !.epoch = @ + 1, !.released = FALSE,
                     !.staleClaims = @ + (IF row.released THEN 0 ELSE 1)]
    ELSE row

sqliteGetResultIDs(row) == IF row = NoJob THEN {} ELSE row.results

(* Results and job go in one transaction. *)
sqliteDeleteJob(row) == NoJob

sqliteReapExpired(row) == IF row.status # "RUNNING" THEN NoJob ELSE row

-----------------------------------------------------------------------------
(* plugins/postgres: conditional UPDATEs; a chunk's fence locks the row    *)
(* until the chunk commits.                                                *)

pgCreateJob == memCreateJob

pgGetJob(row) == Answer(row, IF row # NoJob THEN "nil" ELSE "ErrNotFound")

probeFenced(row, epoch) ==
    CASE row = NoJob -> "ErrNotFound"
      [] row # NoJob /\ row.status \in terminalStatuses -> "ErrAlreadyTerminal"
      [] row # NoJob /\ row.status \notin terminalStatuses /\ row.epoch # epoch
           -> "ErrStaleClaim"
      [] OTHER -> "nil"

(* Faulty variant of pgUpdateJobStatus: the WHERE clause lost its status test. *)
pgUpdateAnyStatus(row, epoch, status, count) ==
    IF row # NoJob /\ row.epoch = epoch
    THEN Answer(Stamped(row, status, count), "nil")
    ELSE Answer(row, probeFenced(row, epoch))

(* UPDATE ... WHERE epoch = $8 AND status NOT IN (...), probed on a miss. *)
pgUpdateJobStatus(row, epoch, status, count) ==
    IF row # NoJob /\ row.epoch = epoch /\ row.status \notin terminalStatuses
    THEN Answer(Stamped(row, status, count), "nil")
    ELSE Answer(row, probeFenced(row, epoch))

pgSaveChunk(row, epoch, seq, ids) ==
    LET err == probeFenced(row, epoch)
    IN  CASE err # "nil" -> Answer(row, err)
          [] err = "nil" /\ ids # {} /\ InsertFails(row, seq) -> Answer(row, "constraint")
          [] OTHER -> Answer([row EXCEPT !.results = @ \cup {<<seq, i>> : i \in ids}], "nil")

pgHeartbeat(row, epoch) == Answer(row, probeFenced(row, epoch))

pgRelease(row, epoch) ==
    Guarded(probeFenced(row, epoch), row, [row EXCEPT !.released = TRUE])

pgCancel(row) ==
    IF row # NoJob /\ row.status \notin terminalStatuses
    THEN Answer([row EXCEPT !.status = "CANCELLED"], "nil")
    ELSE Answer(row, IF row = NoJob THEN "ErrNotFound" ELSE "nil")

pgClearResults(row) == IF row = NoJob THEN row ELSE [row EXCEPT !.results = {}]

(* One statement: the CTE locks the candidates, the UPDATE claims them. *)
pgClaim(row) ==
    [row EXCEPT !.epoch = @ + 1, !.released = FALSE,
                !.staleClaims = @ + (IF row.released THEN 0 ELSE 1)]

pgGetResultIDs(row) == IF row = NoJob THEN {} ELSE row.results

(* The results follow by ON DELETE CASCADE. *)
pgDeleteJob(row) == NoJob

pgReapExpired(row) == IF row.status # "RUNNING" THEN NoJob ELSE row
=============================================================================
