------------------------------- MODULE SqliteTx -------------------------------
(***************************************************************************)
(* The SQLite storage plugin (plugins/sqlite): its transactionManager, its *)
(* entityStore inside and outside a transaction and its unique_claims      *)
(* table, for one tenant and one entity model, with crashes.  A            *)
(* transaction is buffered in memory and flushed in one SQLite             *)
(* transaction when it commits.                                            *)
(*                                                                         *)
(* Grain.  A call made under tx.OpMu.RLock is one action.  Commit and the  *)
(* direct writes are cut where other goroutines can run while they hold    *)
(* the commit gate: after the stamp, and (Commit) after the flush.  The    *)
(* process may crash between any two actions; the database stays.          *)
(*                                                                         *)
(* Abstractions.  A document is a member of Val and stands for its state   *)
(* as well; ClaimsOf gives its unique claims (spi.ComputeClaims); every    *)
(* writer brings the keys of the model.  Time counts microseconds.         *)
(* Attribution, change types and creation dates are left out.              *)
(***************************************************************************)
EXTENDS Integers, Sequences, FiniteSets

CONSTANTS
  Tx,            \* transaction IDs: fresh UUIDs, one per Begin
  Direct,        \* writes made outside any transaction
  Entity, Val,
  Claim,         \* (key ID, signature) pairs
  ClaimsOf,      \* ClaimsOf[v]: the claims of document v
  PartialVal,    \* documents that fill only part of a composite key
  Task,          \* scheduled task IDs
  None,
  ClockReadings, \* what clock.Now() may return, in any order
  SubmitTimeTTL, \* submitTimeTTL
  Load           \* bounds: the workloads, one of them per behaviour (Bound)

(* The transactions, direct writes, entities, documents and clock readings *)
(* of a workload, the calls and open savepoints per transaction, and the   *)
(* crashes.                                                                *)
Bound == [tx : SUBSET Tx, direct : SUBSET Direct, entity : SUBSET Entity,
          val : SUBSET Val, task : SUBSET Task, clock : SUBSET ClockReadings,
          calls : Nat, savepoints : Nat, crashes : Nat]

ASSUME ClockAssumption == ClockReadings \subseteq Nat \ {0}
ASSUME BoundAssumption ==
  SubmitTimeTTL \in Nat /\ Load # {} /\ Load \subseteq Bound
ASSUME ValueAssumption ==
  /\ None \notin Val \cup Entity \cup Tx \cup Direct
  /\ Tx \cap Direct = {}
  /\ ClaimsOf \in [Val -> SUBSET Claim] /\ PartialVal \subseteq Val

VARIABLES
  (* transactionManager *)
  gate, committedLog, lastSubmitTime, submitTimes, savepoints,
  (* spi.TransactionState and what the manager stages beside it *)
  snapshotTime, readSet, writeSet, buffer, deletes, supersededSaves,
  scheduledTaskOps,
  (* the database file *)
  entityVersions, entities, uniqueClaims, submitTable, scheduledTasks,
  (* the goroutines inside Commit and the direct writes, and what each     *)
  (* transaction's end returned                                            *)
  pc, stamp, told, target,
  (* bounds *)
  calls, crashes, load

mgrVars   == <<gate, committedLog, lastSubmitTime, submitTimes>>
txVars    == <<readSet, writeSet, buffer, deletes, supersededSaves,
               scheduledTaskOps>>
diskVars  == <<entityVersions, entities, uniqueClaims, submitTable,
               scheduledTasks>>
vars == <<mgrVars, savepoints, snapshotTime, txVars, diskVars, pc, stamp,
          told, target, calls, crashes, load>>

bounds == <<calls, crashes, load>>

Doc == Val \cup {None}
Writer == Tx \cup Direct

(* A row of entity_versions: a tombstone has no document, a direct write   *)
(* no transaction.                                                         *)
VersionRow ==
  [val : Doc, version : Nat, tx : Tx \cup {None}, submitTime : Nat]

(* A row of entities; version 0 stands for no row.  deleted is a column. *)
EntityRow ==
  [val : Doc, version : Nat, tx : Tx \cup {None}, deleted : BOOLEAN]
NoRow == [val |-> None, version |-> 0, tx |-> None, deleted |-> FALSE]

Active == {t \in Tx : pc[t] \in {"open", "marked", "stamped", "flushed"}}

-----------------------------------------------------------------------------
(* Queries *)

(* The latest version stamped at or before a time: MAX(version) over the   *)
(* rows with submit_time <= time.                                          *)
UpTo(e, time) ==
  {i \in DOMAIN entityVersions[e] : entityVersions[e][i].submitTime <= time}
LatestUpTo(e, time) ==
  CHOOSE i \in UpTo(e, time) : \A j \in UpTo(e, time) :
    entityVersions[e][j].version <= entityVersions[e][i].version

getSnapshot(e, time) ==
  IF UpTo(e, time) = {} THEN None
  ELSE entityVersions[e][LatestUpTo(e, time)].val

searchSnapshotBase(time) == {e \in Entity : getSnapshot(e, time) # None}

getPageAsAt(time) == searchSnapshotBase(time)

(* The current state, outside a transaction. *)
Live(e) == entities[e].version > 0 /\ ~entities[e].deleted
getDirect(e) == IF Live(e) THEN entities[e].val ELSE None
getPageDirect == {e \in Entity : Live(e)}
CountDirect == Cardinality({e \in Entity : Live(e)})

committedTxID(e) == IF Live(e) THEN entities[e].tx ELSE None

(* Inside a transaction: its own writes over its snapshot. *)
Buffered(t) == {e \in Entity : buffer[t][e] # None}
GetTx(t, e) ==
  IF e \in deletes[t] THEN None
  ELSE IF buffer[t][e] # None THEN buffer[t][e]
  ELSE getSnapshot(e, snapshotTime[t])

ExistsTx(t, e) ==
  e \notin deletes[t] /\
  (buffer[t][e] # None \/ getSnapshot(e, snapshotTime[t]) # None)

(* openTxOverlay: the committed rows not suppressed, merged with the adds. *)
openTxOverlay(t) ==
  LET suppressed == deletes[t] \cup Buffered(t)
      adds == Buffered(t) \ deletes[t]
  IN  (searchSnapshotBase(snapshotTime[t]) \ suppressed) \cup adds
countTx(t) == Cardinality(openTxOverlay(t))
CountByStateTx(t, states) ==
  [s \in states |-> Cardinality({e \in openTxOverlay(t) : GetTx(t, e) = s})]

GetVersionByTransaction(e, t) ==
  LET own == {i \in DOMAIN entityVersions[e] :
                entityVersions[e][i].tx = t /\ entityVersions[e][i].val # None}
  IN  IF own = {} THEN None
      ELSE entityVersions[e][CHOOSE i \in own : \A j \in own :
             entityVersions[e][i].version <= entityVersions[e][j].version].val

(* The answer of GetSubmitTime; zero stands for an error. *)
GetSubmitTime(t) ==
  IF t \in Active THEN 0
  ELSE IF t \in DOMAIN submitTimes THEN submitTimes[t]
  ELSE IF t \in DOMAIN submitTable THEN submitTable[t] ELSE 0

-----------------------------------------------------------------------------
NoDocs == [e \in Entity |-> None]
NoTarget == [e |-> None, val |-> None, tx |-> None]
NoSaves == [e \in Entity |-> << >>]

Init ==
  /\ gate = None /\ committedLog = {} /\ lastSubmitTime = 0
  /\ submitTimes = [t \in {} |-> 0]
  /\ savepoints = [t \in Tx |-> << >>]
  /\ snapshotTime = [t \in Tx |-> 0]
  /\ readSet = [t \in Tx |-> {}]
  /\ writeSet = [t \in Tx |-> {}]
  /\ buffer = [t \in Tx |-> NoDocs]
  /\ deletes = [t \in Tx |-> {}]
  /\ supersededSaves = [t \in Tx |-> NoSaves]
  /\ scheduledTaskOps = [t \in Tx |-> << >>]
  /\ entityVersions = [e \in Entity |-> << >>]
  /\ entities = [e \in Entity |-> NoRow]
  /\ uniqueClaims = [c \in Claim |-> None]
  /\ submitTable = [t \in {} |-> 0]
  /\ scheduledTasks = [k \in Task |-> None]
  /\ pc = [w \in Writer |-> "none"]
  /\ stamp = [w \in Writer |-> 0]
  /\ told = [t \in Tx |-> "nothing"]
  /\ target = [d \in Direct |-> NoTarget]
  /\ calls = [t \in Tx |-> 0]
  /\ crashes = 0
  /\ load \in Load

-----------------------------------------------------------------------------
(* Begin, under the commit gate: no stamp is outstanding. *)

(* Faulty: the gate waits until one commit is left. *)
GateLast(w) == gate = None /\ \A u \in Tx \ {w} : pc[u] # "marked"

GateFree(w) == gate = None

SnapshotAt(now) == IF now < lastSubmitTime THEN lastSubmitTime ELSE now

Begin(t, now) ==
  /\ pc[t] = "none" /\ GateFree(t)
  /\ pc' = [pc EXCEPT ![t] = "open"]
  /\ snapshotTime' = [snapshotTime EXCEPT ![t] = SnapshotAt(now)]
  /\ lastSubmitTime' = SnapshotAt(now)
  /\ UNCHANGED <<gate, committedLog, submitTimes, savepoints, txVars,
                 diskVars, stamp, told, target>>

-----------------------------------------------------------------------------
(* The entity store inside a transaction.  Commit holds tx.OpMu from its   *)
(* mark to its end, so a call finds the transaction open or fails.         *)

InTx(t) == pc[t] = "open"

Unstaged == <<mgrVars, savepoints, snapshotTime, diskVars, pc, stamp, told,
              target>>

(* stageSuperseded, tx.Buffer, tx.WriteSet and recordUniqueKeys *)
BufferWrite(t, e, v) ==
  /\ supersededSaves' =
       IF buffer[t][e] = None THEN supersededSaves
       ELSE [supersededSaves EXCEPT ![t][e] = Append(@, buffer[t][e])]
  /\ buffer' = [buffer EXCEPT ![t][e] = v]
  /\ writeSet' = [writeSet EXCEPT ![t] = @ \cup {e}]
  /\ UNCHANGED <<Unstaged, readSet, scheduledTaskOps>>

Save(t, e, v) ==
  /\ InTx(t)
  /\ BufferWrite(t, e, v)
  /\ deletes' = [deletes EXCEPT ![t] = @ \ {e}]

(* Against the buffered version, else against the latest committed one. *)
CompareAndSave(t, e, v, expectedTxID) ==
  /\ InTx(t)
  /\ e \notin deletes[t]
  /\ expectedTxID = IF buffer[t][e] # None THEN t ELSE committedTxID(e)
  /\ BufferWrite(t, e, v)
  /\ UNCHANGED deletes

AddReads(t, E) ==
  /\ readSet' = [readSet EXCEPT ![t] = @ \cup E]
  /\ UNCHANGED <<Unstaged, writeSet, buffer, deletes, supersededSaves,
                 scheduledTaskOps>>

(* A read that finds nothing is not recorded. *)
Get(t, e) == InTx(t) /\ GetTx(t, e) # None /\ AddReads(t, {e})

(* GetAsAt records the entity before it looks. *)
GetAsAt(t, e) == InTx(t) /\ AddReads(t, {e})

getPageTx(t, page) ==
  /\ InTx(t)
  /\ page \subseteq openTxOverlay(t)
  /\ AddReads(t, page)

(* A tracking iterator records what it yields, own writes excepted. *)
iterateTx(t, yielded) ==
  /\ InTx(t)
  /\ yielded \subseteq openTxOverlay(t)
  /\ AddReads(t, yielded \ Buffered(t))

StageDeletes(t, E) ==
  /\ deletes' = [deletes EXCEPT ![t] = @ \cup E]
  /\ buffer' = [buffer EXCEPT ![t] =
                  [e \in Entity |-> IF e \in E THEN None ELSE buffer[t][e]]]
  /\ writeSet' = [writeSet EXCEPT ![t] = @ \cup E]
  /\ UNCHANGED <<Unstaged, readSet, supersededSaves, scheduledTaskOps>>

(* Existence is checked in the buffer, then in the snapshot; a delete      *)
(* already staged does not count.                                          *)
Delete(t, e) ==
  /\ InTx(t)
  /\ buffer[t][e] # None \/ getSnapshot(e, snapshotTime[t]) # None
  /\ StageDeletes(t, {e})

DeleteAll(t) ==
  /\ InTx(t)
  /\ StageDeletes(t, searchSnapshotBase(snapshotTime[t]) \cup Buffered(t))

stageScheduledTaskOp(t, k, task) ==
  /\ InTx(t)
  /\ scheduledTaskOps' = [scheduledTaskOps EXCEPT ![t] =
                            Append(@, [id |-> k, task |-> task])]
  /\ UNCHANGED <<Unstaged, readSet, writeSet, buffer, deletes,
                 supersededSaves>>

-----------------------------------------------------------------------------
(* Savepoints: the maps are copied, the append-only lists cut by length.   *)

Savepoint(t) ==
  /\ InTx(t) /\ Len(savepoints[t]) < load.savepoints
  /\ savepoints' = [savepoints EXCEPT ![t] = Append(@,
       [buffer |-> buffer[t], readSet |-> readSet[t],
        writeSet |-> writeSet[t], deletes |-> deletes[t],
        scheduledTaskOpsLen |-> Len(scheduledTaskOps[t]),
        supersededLens |-> [e \in Entity |-> Len(supersededSaves[t][e])]])]
  /\ UNCHANGED <<mgrVars, snapshotTime, txVars, diskVars, pc, stamp, told,
                 target>>

Cut(s, n) == IF n < Len(s) THEN SubSeq(s, 1, n) ELSE s

RollbackToSavepoint(t) ==
  LET snap == savepoints[t][Len(savepoints[t])] IN
  /\ InTx(t) /\ savepoints[t] # << >>
  /\ buffer' = [buffer EXCEPT ![t] = snap.buffer]
  /\ readSet' = [readSet EXCEPT ![t] = snap.readSet]
  /\ writeSet' = [writeSet EXCEPT ![t] = snap.writeSet]
  /\ deletes' = [deletes EXCEPT ![t] = snap.deletes]
  /\ scheduledTaskOps' = [scheduledTaskOps EXCEPT ![t] =
                            Cut(@, snap.scheduledTaskOpsLen)]
  /\ supersededSaves' = [supersededSaves EXCEPT ![t] =
       [e \in Entity |-> Cut(supersededSaves[t][e], snap.supersededLens[e])]]
  /\ savepoints' = [savepoints EXCEPT ![t] = SubSeq(@, 1, Len(@) - 1)]
  /\ UNCHANGED <<mgrVars, snapshotTime, diskVars, pc, stamp, told, target>>

ReleaseSavepoint(t) ==
  /\ InTx(t) /\ savepoints[t] # << >>
  /\ savepoints' = [savepoints EXCEPT ![t] = SubSeq(@, 1, Len(@) - 1)]
  /\ UNCHANGED <<mgrVars, snapshotTime, txVars, diskVars, pc, stamp, told,
                 target>>

-----------------------------------------------------------------------------
(* Commit *)

(* Every way out of a transaction deletes it from the manager's maps and   *)
(* closes its handle, which nothing reads again (the buffer stays, for     *)
(* CommitDurable).                                                         *)
Forget(T) ==
  LET drop(f, x) == [t \in Tx |-> IF t \in T THEN x ELSE f[t]] IN
  /\ savepoints' = drop(savepoints, << >>)
  /\ supersededSaves' = drop(supersededSaves, NoSaves)
  /\ scheduledTaskOps' = drop(scheduledTaskOps, << >>)
  /\ snapshotTime' = drop(snapshotTime, 0)
  /\ readSet' = drop(readSet, {})
  /\ writeSet' = drop(writeSet, {})
  /\ deletes' = drop(deletes, {})
  /\ UNCHANGED buffer

End(t, outcome) ==
  /\ Forget({t})
  /\ pc' = [pc EXCEPT ![t] = "done"]
  /\ told' = [told EXCEPT ![t] = outcome]
  /\ stamp' = [stamp EXCEPT ![t] = 0]
  /\ UNCHANGED target

(* Marked as committing, tx.OpMu taken: no call of t is in flight. *)
CommitMark(t) ==
  /\ pc[t] = "open"
  /\ pc' = [pc EXCEPT ![t] = "marked"]
  /\ UNCHANGED <<mgrVars, savepoints, snapshotTime, txVars, diskVars, stamp,
                 told, target>>

(* Faulty: only writes conflict with writes. *)
ConflictsWrites(t) ==
  \E c \in committedLog :
    c.submitTime >= snapshotTime[t] /\ c.writeSet \cap writeSet[t] # {}

Conflicts(t) ==
  \E c \in committedLog :
    /\ c.submitTime >= snapshotTime[t]
    /\ c.writeSet \cap (readSet[t] \cup writeSet[t]) # {}

CommitConflict(t) ==
  /\ pc[t] = "marked" /\ GateFree(t) /\ Conflicts(t)
  /\ End(t, "conflict")
  /\ UNCHANGED <<mgrVars, diskVars>>

nextSubmitTime(now) ==
  IF now > lastSubmitTime THEN now ELSE lastSubmitTime + 1

Stamp(w, now) ==
  /\ gate' = w
  /\ pc' = [pc EXCEPT ![w] = "stamped"]
  /\ stamp' = [stamp EXCEPT ![w] = nextSubmitTime(now)]
  /\ lastSubmitTime' = nextSubmitTime(now)
  /\ UNCHANGED <<committedLog, submitTimes, savepoints, snapshotTime, txVars,
                 diskVars, told>>

CommitStamp(t, now) ==
  /\ pc[t] = "marked" /\ GateFree(t) /\ ~Conflicts(t)
  /\ Stamp(t, now)
  /\ UNCHANGED target

(* replaceClaims for the buffered entities in the order Go walks the map:  *)
(* each frees its own claims, then takes those of its new document.        *)
Orders(t) ==
  {o \in [1..Cardinality(Buffered(t)) -> Buffered(t)] :
     \A i, j \in DOMAIN o : o[i] = o[j] => i = j}

Holder(t, o, i, c) ==
  LET before == {o[j] : j \in 1..i - 1}
      takers == {f \in before : c \in ClaimsOf[buffer[t][f]]}
  IN  IF takers # {} THEN CHOOSE f \in takers : TRUE
      ELSE IF uniqueClaims[c] \in before \cup deletes[t] THEN None
      ELSE uniqueClaims[c]

replaceClaimsFails(t, o, i) ==
  \/ buffer[t][o[i]] \in PartialVal
  \/ \E c \in ClaimsOf[buffer[t][o[i]]] : Holder(t, o, i, c) \notin {None, o[i]}

ClaimsAfter(t) ==
  [c \in Claim |->
     IF \E e \in Buffered(t) : c \in ClaimsOf[buffer[t][e]]
       THEN CHOOSE e \in Buffered(t) : c \in ClaimsOf[buffer[t][e]]
     ELSE IF uniqueClaims[c] \in Buffered(t) \cup deletes[t] THEN None
     ELSE uniqueClaims[c]]

(* The superseded saves, then the final one, as consecutive versions; or a *)
(* tombstone when there is a row to delete.                                *)
FlushedRows(t, e) ==
  LET vals == IF buffer[t][e] # None
                THEN Append(supersededSaves[t][e], buffer[t][e])
              ELSE IF e \in deletes[t] /\ entities[e].version > 0
                THEN << None >>
              ELSE << >>
  IN  [i \in 1..Len(vals) |->
         [val |-> vals[i], version |-> entities[e].version + i, tx |-> t,
          submitTime |-> stamp[t]]]

FlushedEntity(t, e) ==
  LET rows == FlushedRows(t, e) IN
  IF rows = << >> THEN entities[e]
  ELSE IF buffer[t][e] = None
    THEN [entities[e] EXCEPT !.deleted = TRUE, !.version = @ + 1]
  ELSE [val |-> buffer[t][e], version |-> rows[Len(rows)].version, tx |-> t,
        deleted |-> FALSE]

(* applyScheduledTaskOp for every staged op in order: the last one wins. *)
TasksAfter(t) ==
  LET ops == scheduledTaskOps[t]
      of(k) == {i \in DOMAIN ops : ops[i].id = k}
  IN  [k \in Task |->
         IF of(k) = {} THEN scheduledTasks[k]
         ELSE ops[CHOOSE i \in of(k) : \A j \in of(k) : j <= i].task]

(* One SQLite transaction. *)
flushToSQLite(t) ==
  /\ entityVersions' = [e \in Entity |-> entityVersions[e] \o FlushedRows(t, e)]
  /\ entities' = [e \in Entity |-> FlushedEntity(t, e)]
  /\ uniqueClaims' = ClaimsAfter(t)
  /\ submitTable' = [u \in DOMAIN submitTable \cup {t} |->
                       IF u = t THEN stamp[t] ELSE submitTable[u]]
  /\ scheduledTasks' = TasksAfter(t)

CommitFlush(t) ==
  /\ pc[t] = "stamped"
  /\ \E o \in Orders(t) : \A i \in DOMAIN o : ~replaceClaimsFails(t, o, i)
  /\ flushToSQLite(t)
  /\ pc' = [pc EXCEPT ![t] = "flushed"]
  /\ UNCHANGED <<mgrVars, savepoints, snapshotTime, txVars, stamp, told,
                 target>>

(* A claim is rejected, or the database or the caller's context fails: the *)
(* SQLite transaction is rolled back.                                      *)
FlushErrors(t) ==
  {"error"} \cup
  (IF \E o \in Orders(t) : \E i \in DOMAIN o : replaceClaimsFails(t, o, i)
     THEN {"rejected"} ELSE {})

CommitFlushFails(t) ==
  /\ pc[t] = "stamped"
  /\ \E outcome \in FlushErrors(t) : End(t, outcome)
  /\ gate' = None
  /\ UNCHANGED <<committedLog, lastSubmitTime, submitTimes, diskVars>>

(* Keep what is not older than the oldest snapshot still open. *)
Pruned(log, open) ==
  {c \in log : \E a \in open : c.submitTime >= snapshotTime[a]}

Unexpired(times, now) ==
  [u \in {v \in DOMAIN times : times[v] >= now - SubmitTimeTTL} |-> times[u]]

CommitRecord(t, now) ==
  /\ pc[t] = "flushed"
  /\ committedLog' = Pruned(committedLog \cup
       {[id |-> t, submitTime |-> stamp[t], writeSet |-> writeSet[t]]},
       Active \ {t})
  /\ submitTimes' = Unexpired([u \in DOMAIN submitTimes \cup {t} |->
                      IF u = t THEN stamp[t] ELSE submitTimes[u]], now)
  /\ submitTable' = Unexpired(submitTable, now)
  /\ gate' = None
  /\ End(t, "committed")
  /\ UNCHANGED <<lastSubmitTime, entityVersions, entities, uniqueClaims,
                 scheduledTasks>>

Rollback(t) ==
  /\ pc[t] = "open"
  /\ End(t, "rolledBack")
  /\ UNCHANGED <<mgrVars, diskVars>>

-----------------------------------------------------------------------------
(* Writes outside a transaction hold the gate from the stamp to the SQLite *)
(* commit.  A document of None is a Delete; an expected ID other than None *)
(* is a CompareAndSave, whose check is under the same gate.  The row keeps *)
(* the transaction ID the caller's document carried.                       *)

(* Faulty: the gate is held for the stamp only. *)
GateNotHeld(d, now) ==
  /\ gate' = None
  /\ pc' = [pc EXCEPT ![d] = "stamped"]
  /\ stamp' = [stamp EXCEPT ![d] = nextSubmitTime(now)]
  /\ lastSubmitTime' = nextSubmitTime(now)
  /\ UNCHANGED <<committedLog, submitTimes, savepoints, snapshotTime, txVars,
                 diskVars, told>>

DirectHold(d, now) == Stamp(d, now)

saveDirectly(d, e, v, expectedTxID, now) ==
  /\ pc[d] = "none" /\ GateFree(d)
  /\ expectedTxID # None => v # None /\ committedTxID(e) = expectedTxID
  /\ DirectHold(d, now)
  /\ target' = [target EXCEPT ![d] = [e |-> e, val |-> v, tx |-> expectedTxID]]

DirectEnd(d) ==
  /\ gate' = None
  /\ pc' = [pc EXCEPT ![d] = "done"]
  /\ stamp' = [stamp EXCEPT ![d] = 0]
  /\ target' = [target EXCEPT ![d] = NoTarget]
  /\ UNCHANGED <<committedLog, lastSubmitTime, submitTimes, savepoints,
                 snapshotTime, txVars, submitTable, scheduledTasks, told>>

DirectRow(d) ==
  [val |-> target[d].val, version |-> entities[target[d].e].version + 1,
   tx |-> None, submitTime |-> stamp[d]]

saveDirectlyLocked(d) ==
  LET e == target[d].e
      v == target[d].val
  IN
  /\ pc[d] = "stamped" /\ v # None
  /\ v \notin PartialVal
  /\ \A c \in ClaimsOf[v] : uniqueClaims[c] \in {None, e}
  /\ entityVersions' = [entityVersions EXCEPT ![e] = Append(@, DirectRow(d))]
  /\ entities' = [entities EXCEPT ![e] =
       [val |-> v, version |-> @.version + 1, tx |-> target[d].tx,
        deleted |-> FALSE]]
  /\ uniqueClaims' = [c \in Claim |->
       IF c \in ClaimsOf[v] THEN e
       ELSE IF uniqueClaims[c] = e THEN None ELSE uniqueClaims[c]]
  /\ DirectEnd(d)

releaseClaims(e) ==
  [c \in Claim |-> IF uniqueClaims[c] = e THEN None ELSE uniqueClaims[c]]

DeleteDirectly(d) ==
  LET e == target[d].e IN
  /\ pc[d] = "stamped" /\ target[d].val = None
  /\ Live(e)
  /\ entityVersions' = [entityVersions EXCEPT ![e] = Append(@, DirectRow(d))]
  /\ entities' = [entities EXCEPT ![e].deleted = TRUE, ![e].version = @ + 1]
  /\ uniqueClaims' = releaseClaims(e)
  /\ DirectEnd(d)

(* Not found, a claim taken, or the database or the context fails. *)
DirectFails(d) ==
  /\ pc[d] = "stamped"
  /\ DirectEnd(d)
  /\ UNCHANGED <<entityVersions, entities, uniqueClaims>>

-----------------------------------------------------------------------------
(* The process stops and starts again on the same database file. *)

SubmitMicros ==
  UNION {{entityVersions[e][i].submitTime : i \in DOMAIN entityVersions[e]} :
           e \in Entity}

seedLastSubmitTime ==
  IF SubmitMicros = {} THEN 0
  ELSE CHOOSE m \in SubmitMicros : \A n \in SubmitMicros : n <= m

newStoreFactory ==
  /\ crashes < load.crashes
  /\ crashes' = crashes + 1
  /\ gate' = None /\ committedLog' = {}
  /\ lastSubmitTime' = seedLastSubmitTime
  /\ submitTimes' = [t \in {} |-> 0]
  /\ Forget(Tx)
  /\ stamp' = [w \in Writer |-> 0]
  /\ target' = [d \in Direct |-> NoTarget]
  /\ pc' = [w \in Writer |-> IF w \in Active THEN "lost"
                             ELSE IF pc[w] = "stamped" THEN "done" ELSE pc[w]]
  /\ UNCHANGED <<diskVars, told, calls, load>>

-----------------------------------------------------------------------------
StoreCall(t) ==
  \/ \E e \in load.entity, v \in load.val : Save(t, e, v)
  \/ \E e \in load.entity, v \in load.val, x \in Tx : CompareAndSave(t, e, v, x)
  \/ \E e \in load.entity : Get(t, e) \/ GetAsAt(t, e) \/ Delete(t, e)
  \/ \E page \in SUBSET load.entity : getPageTx(t, page) \/ iterateTx(t, page)
  \/ DeleteAll(t)
  \/ \E k \in load.task, task \in {t, None} : stageScheduledTaskOp(t, k, task)
  \/ Savepoint(t) \/ RollbackToSavepoint(t) \/ ReleaseSavepoint(t)

BoundedCall(t) ==
  /\ calls[t] < load.calls
  /\ calls' = [calls EXCEPT ![t] = @ + 1]
  /\ UNCHANGED <<crashes, load>>
  /\ StoreCall(t)

CommitStep(t) ==
  /\ \/ CommitConflict(t) \/ CommitFlush(t) \/ CommitFlushFails(t)
     \/ \E now \in load.clock : CommitStamp(t, now) \/ CommitRecord(t, now)
  /\ UNCHANGED bounds

DirectStep(d) ==
  /\ saveDirectlyLocked(d) \/ DeleteDirectly(d) \/ DirectFails(d)
  /\ UNCHANGED bounds

Next ==
  \/ \E t \in load.tx : BoundedCall(t) \/ CommitStep(t)
  \/ \E t \in load.tx :
       /\ \/ \E now \in load.clock : Begin(t, now)
          \/ CommitMark(t) \/ Rollback(t)
       /\ UNCHANGED bounds
  \/ \E d \in load.direct, e \in load.entity, v \in load.val \cup {None}, x \in load.tx \cup {None},
        now \in load.clock :
       saveDirectly(d, e, v, x, now) /\ UNCHANGED bounds
  \/ \E d \in load.direct : DirectStep(d)
  \/ newStoreFactory

Spec == Init /\ [][Next]_vars

(* The holder of the gate runs, and the channel serves its waiters. *)
FairSpec == Spec /\ WF_vars(\E t \in Tx : CommitStep(t))
                 /\ WF_vars(\E d \in Direct : DirectStep(d))

-----------------------------------------------------------------------------
(* Properties *)

(* Every variable has its type, the gate has the holder its goroutine says *)
(* it has, and no version, stamp or claim is out of range.                 *)
TypeOK ==
  /\ gate \in Writer \cup {None}
  /\ \A w \in Writer : gate = w <=> pc[w] \in {"stamped", "flushed"}
  /\ committedLog \subseteq
       [id : Tx, submitTime : Nat, writeSet : SUBSET Entity]
  /\ lastSubmitTime \in Nat
  /\ DOMAIN submitTimes \subseteq Tx /\ DOMAIN submitTable \subseteq Tx
  /\ \A t \in Tx : Len(savepoints[t]) <= load.savepoints
  /\ snapshotTime \in [Tx -> Nat]
  /\ readSet \in [Tx -> SUBSET Entity] /\ writeSet \in [Tx -> SUBSET Entity]
  /\ buffer \in [Tx -> [Entity -> Doc]] /\ deletes \in [Tx -> SUBSET Entity]
  /\ supersededSaves \in [Tx -> [Entity -> Seq(Val)]]
  /\ scheduledTaskOps \in [Tx -> Seq([id : Task, task : Tx \cup {None}])]
  /\ entityVersions \in [Entity -> Seq(VersionRow)]
  /\ entities \in [Entity -> EntityRow]
  /\ uniqueClaims \in [Claim -> Entity \cup {None}]
  /\ scheduledTasks \in [Task -> Tx \cup {None}]
  /\ \A t \in Tx : pc[t] \in
       {"none", "open", "marked", "stamped", "flushed", "done", "lost"}
  /\ \A d \in Direct : pc[d] \in {"none", "stamped", "done"}
  /\ stamp \in [Writer -> Nat]
  /\ told \in [Tx -> {"nothing", "committed", "conflict", "rejected", "error",
                      "rolledBack"}]

(* A row's version counts up by one and its stamp rises, across restarts   *)
(* and whatever the clock does, except that one transaction's rows share   *)
(* a stamp: what MAX(version) under submit_time <= ? and                   *)
(* GetVersionMetadata's order rely on.                                     *)
VersionsOrdered ==
  \A e \in Entity : \A i, j \in DOMAIN entityVersions[e] : i < j =>
    LET r == entityVersions[e][i]
        s == entityVersions[e][j]
    IN  /\ s.version - r.version = j - i
        /\ r.submitTime <= s.submitTime
        /\ r.submitTime = s.submitTime => r.tx = s.tx /\ r.tx # None

(* The tables agree after every commit, direct write and crash: entities   *)
(* is the last version, and a live entity holds exactly the claims of its  *)
(* document, so no two live entities share a unique key.                   *)
TablesAgree ==
  /\ \A e \in Entity :
       LET rows == entityVersions[e] IN
       IF rows = << >> THEN entities[e] = NoRow
       ELSE /\ entities[e].version = rows[Len(rows)].version
            /\ getDirect(e) = rows[Len(rows)].val
  /\ \A c \in Claim : uniqueClaims[c] =
       IF \E e \in Entity : getDirect(e) # None /\ c \in ClaimsOf[getDirect(e)]
         THEN CHOOSE e \in Entity :
                getDirect(e) # None /\ c \in ClaimsOf[getDirect(e)]
         ELSE None

(* A commit is in the file whole or not at all, also when the process dies *)
(* inside it: the rows of every buffered entity, the submit time and the   *)
(* armed tasks come together; a Commit that returned success is there, one *)
(* that returned an error is not, and GetSubmitTime tells the two apart    *)
(* even for a Commit the crash cut short.                                  *)
RowsOf(t, e) == {i \in DOMAIN entityVersions[e] : entityVersions[e][i].tx = t}
CommitDurable ==
  \A t \in Tx :
    LET durable == GetSubmitTime(t) # 0 IN
    t \notin Active =>
      /\ \A e \in Entity : RowsOf(t, e) # {} => durable
      /\ durable => \A e \in Buffered(t) :
           RowsOf(t, e) # {} /\ GetVersionByTransaction(e, t) # None
      /\ \A k \in Task : scheduledTasks[k] = t => durable
      /\ told[t] = "committed" => durable
      /\ told[t] \in {"conflict", "rejected", "error", "rolledBack"}
           => ~durable

(* Every way of reading gives one answer.  In a transaction Get, Exists,   *)
(* the overlay of GetPage and Iterate and the counts agree; outside, the   *)
(* current table agrees with a point-in-time page at a later instant.      *)
ReadsAgree ==
  /\ \A t \in Active :
       /\ \A e \in Entity :
            /\ GetTx(t, e) # None <=> ExistsTx(t, e)
            /\ GetTx(t, e) # None <=> e \in openTxOverlay(t)
       /\ countTx(t) = Cardinality({e \in Entity : GetTx(t, e) # None})
       /\ \A v \in Val : CountByStateTx(t, Val)[v] =
            Cardinality({e \in Entity : GetTx(t, e) = v})
  /\ getPageDirect = getPageAsAt(lastSubmitTime)
  /\ CountDirect = Cardinality(getPageAsAt(lastSubmitTime))

(* The tables are ordered and agree, every read of them does, and a commit *)
(* is in them whole or not at all.                                         *)
StoreConsistent ==
  TypeOK /\ VersionsOrdered /\ TablesAgree /\ ReadsAgree /\ CommitDurable

(* A commit waiting for the gate, or inside it, returns or dies with the   *)
(* process: the gate is always given back.                                 *)
CommitReturns ==
  \A t \in Tx : pc[t] = "marked" ~> pc[t] \in {"done", "lost"}

-----------------------------------------------------------------------------
(* The refinement.  A transaction commits in the abstract when its flush   *)
(* is in the file; its snapshot is what its reads by stamp return, and it  *)
(* has missed the entities with a row stamped after it.                    *)
Uncommitted(t) == pc[t] \in {"open", "marked", "stamped"}
Committed(t) ==
  \/ pc[t] = "flushed" \/ told[t] = "committed"
  \/ pc[t] = "lost" /\ t \in DOMAIN submitTable

phase == [t \in Tx |->
  IF pc[t] = "none" THEN "none"
  ELSE IF Uncommitted(t) THEN "open"
  ELSE IF Committed(t) THEN "committed" ELSE "aborted"]
snap == [t \in Tx |-> [e \in Entity |->
  IF Uncommitted(t) THEN getSnapshot(e, snapshotTime[t]) ELSE None]]
missed == [t \in Tx |-> {e \in Entity :
  Uncommitted(t) /\ \E i \in DOMAIN entityVersions[e] :
    /\ entityVersions[e][i].submitTime > snapshotTime[t]
    /\ entityVersions[e][i].tx # None}]

SI == INSTANCE SnapshotIsolation WITH
  DirectWrites <- TRUE,
  db <- [e \in Entity |-> getDirect(e)],
  reads <- [t \in Tx |-> IF Uncommitted(t) THEN readSet[t] ELSE {}]

(* The plugin implements snapshot isolation with first-committer-wins:     *)
(* what an open transaction reads by its stamp is the database frozen when *)
(* it began, and the pruned log catches every commit it missed, whatever   *)
(* the clock returns and across direct writes and crashes.                 *)
ImplementsSI == SI!Spec
=============================================================================
