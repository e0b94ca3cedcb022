-------------------------------- MODULE MemTx --------------------------------
(***************************************************************************)
(* The in-memory storage plugin (plugins/memory): the TransactionManager,  *)
(* the transactional half of the EntityStore, the unique-key claim index   *)
(* and the staged half of the ScheduledTaskStore, for one tenant and one   *)
(* entity model.  Transactions run under snapshot isolation with           *)
(* first-committer-wins.                                                   *)
(*                                                                         *)
(* Grain.  One action is one stretch of code between two points where      *)
(* another goroutine can run: a call made under tx.OpMu.RLock is one       *)
(* action, Commit is cut where TransactionManager.mu is released (between  *)
(* the stamp of the submit time and the record in the committed log a      *)
(* Begin can run), Rollback is cut where it waits for tx.OpMu.             *)
(*                                                                         *)
(* Abstractions.  A document is a member of Val; ClaimsOf gives the unique *)
(* claims spi.ComputeClaims derives from it.  Time is a natural number,    *)
(* one unit for one microsecond.  Attribution, change types and creation   *)
(* dates are left out.                                                     *)
(***************************************************************************)
EXTENDS Integers, Sequences, FiniteSets

CONSTANTS
  Tx,             \* transaction IDs: fresh UUIDs, one per Begin
  Entity,         \* entity IDs
  Val,            \* documents
  Claim,          \* (key ID, signature) pairs
  ClaimsOf,       \* ClaimsOf[v]: the claims of document v
  PartialVal,     \* documents that fill only part of a composite key
  ScheduledFires, \* whether scheduled transitions fire
  Task,           \* scheduled task IDs
  None,           \* no document, no holder, no task
  ClockReadings,  \* what clock.Now() may return, in any order
  SubmitTimeTTL,  \* submitTimeTTL
  MaxCalls,       \* bound: store and savepoint calls per transaction
  MaxSavepoints   \* bound: savepoints open at once in a transaction

ASSUME ClockAssumption == ClockReadings \subseteq Nat \ {0}
ASSUME BoundAssumption ==
  SubmitTimeTTL \in Nat /\ MaxCalls \in Nat /\ MaxSavepoints \in Nat
ASSUME ValueAssumption ==
  /\ None \notin Val /\ None \notin Entity /\ None \notin Tx
  /\ ClaimsOf \in [Val -> SUBSET Claim]
  /\ PartialVal \subseteq Val /\ ScheduledFires \in BOOLEAN

VARIABLES
  (* TransactionManager, under mu *)
  active, committing, committedLog, commitSeq, txSnapshotSeq, lastSubmitTime,
  submitTimes, txUniqueKeys, supersededSaves, scheduledTaskOps, savepoints,
  (* spi.TransactionState, under its OpMu *)
  snapshotTime, readSet, writeSet, buffer, deletes,
  (* StoreFactory, under entityMu *)
  entityData, txIndex, uniqueClaims, claimsByEntity, scheduledTasks,
  (* the goroutines inside Commit and Rollback, and what they returned *)
  pc, stamp, rollbackWaiting, told,
  (* ghosts: every committed transaction, never pruned; what each          *)
  (* transaction has read from the store                                   *)
  history, seen,
  (* calls each transaction has made, for MaxCalls *)
  calls

mgrVars   == <<active, committing, committedLog, commitSeq, txSnapshotSeq,
               lastSubmitTime, submitTimes>>
stageVars == <<txUniqueKeys, supersededSaves, scheduledTaskOps, savepoints>>
txVars    == <<readSet, writeSet, buffer, deletes>>
storeVars == <<entityData, txIndex, uniqueClaims, claimsByEntity,
               scheduledTasks>>
ghostVars == <<history, seen>>
callVars  == <<pc, stamp, rollbackWaiting, told>>
vars == <<mgrVars, stageVars, snapshotTime, txVars, storeVars, callVars,
          ghostVars, calls>>

(* One row of an entity's version history; a tombstone has no document. *)
entityVersion ==
  [val : Val \cup {None}, version : Nat, tx : Tx, submitTime : Nat]

committedTx ==
  [id : Tx, submitTime : Nat, seq : Nat, writeSet : SUBSET Entity]

scheduledTaskOp == [id : Task, task : Tx \cup {None}]

savepointSnapshot ==
  [buffer : [Entity -> Val \cup {None}], readSet : SUBSET Entity,
   writeSet : SUBSET Entity, deletes : SUBSET Entity,
   scheduledTaskOpsLen : Nat, supersededLens : [Entity -> Nat],
   (* ghost: the append-only lists themselves *)
   staged : [ops : Seq(scheduledTaskOp), saves : [Entity -> Seq(Val)]]]

Outcome == {"committed", "conflict", "unique", "partialKey", "rolledBack"}

-----------------------------------------------------------------------------
(* Reading the store *)

(* Index i ends the stretch of rows getSnapshotVersion walks before the    *)
(* first row stamped after the snapshot makes it break.                    *)
IsSnapshotRow(rows, i, time) ==
  /\ \A j \in 1..i : rows[j].submitTime <= time
  /\ i < Len(rows) => rows[i + 1].submitTime > time

SnapshotOf(rows, time) ==
  IF \E i \in DOMAIN rows : IsSnapshotRow(rows, i, time)
    THEN rows[CHOOSE i \in DOMAIN rows : IsSnapshotRow(rows, i, time)].val
    ELSE None

getSnapshotVersion(e, time) == SnapshotOf(entityData[e], time)

(* The latest row that is not a tombstone carries the version counter. *)
IsLastLive(rows, i) ==
  /\ rows[i].val # None
  /\ \A j \in DOMAIN rows : j > i => rows[j].val = None

BaseVersion(rows) ==
  IF \E i \in DOMAIN rows : IsLastLive(rows, i)
    THEN rows[CHOOSE i \in DOMAIN rows : IsLastLive(rows, i)].version
    ELSE 0

LastVal(rows) == IF rows = << >> THEN None ELSE rows[Len(rows)].val
Latest(e) == LastVal(entityData[e])

currentTxIDLocked(e) ==
  IF Latest(e) = None THEN None ELSE entityData[e][Len(entityData[e])].tx

Buffered(t) == {e \in Entity : buffer[t][e] # None}

(* The merged view of DeleteAll and GetPage: snapshot and own writes. *)
SnapshotIDs(t) ==
  {e \in Entity : getSnapshotVersion(e, snapshotTime[t]) # None}
MergedIDs(t) == (SnapshotIDs(t) \ deletes[t]) \cup Buffered(t)

(* What a Get in transaction t returns. *)
TxView(t, e) ==
  IF e \in deletes[t] THEN None
  ELSE IF buffer[t][e] # None THEN buffer[t][e]
  ELSE getSnapshotVersion(e, snapshotTime[t])

-----------------------------------------------------------------------------
Init ==
  /\ active = {} /\ committing = {} /\ committedLog = {}
  /\ commitSeq = 0 /\ lastSubmitTime = 0
  /\ txSnapshotSeq = [t \in Tx |-> 0]
  /\ submitTimes = [t \in {} |-> 0]
  /\ txUniqueKeys = [t \in Tx |-> [e \in Entity |-> FALSE]]
  /\ supersededSaves = [t \in Tx |-> [e \in Entity |-> << >>]]
  /\ scheduledTaskOps = [t \in Tx |-> << >>]
  /\ savepoints = [t \in Tx |-> << >>]
  /\ snapshotTime = [t \in Tx |-> 0]
  /\ readSet = [t \in Tx |-> {}]
  /\ writeSet = [t \in Tx |-> {}]
  /\ deletes = [t \in Tx |-> {}]
  /\ buffer = [t \in Tx |-> [e \in Entity |-> None]]
  /\ entityData = [e \in Entity |-> << >>]
  /\ txIndex = [e \in Entity |-> [t \in Tx |-> 0]]
  /\ uniqueClaims = [c \in Claim |-> None]
  /\ claimsByEntity = [e \in Entity |-> {}]
  /\ scheduledTasks = [k \in Task |-> None]
  /\ pc = [t \in Tx |-> "none"]
  /\ stamp = [t \in Tx |-> 0]
  /\ rollbackWaiting = {}
  /\ told = [t \in Tx |-> {}]
  /\ history = {}
  /\ seen = [t \in Tx |-> {}]
  /\ calls = [t \in Tx |-> 0]

-----------------------------------------------------------------------------
(* Locks.  Commit holds tx.OpMu and entityMu, both for writing, from its   *)
(* first check to its last assignment; pc = "stamped" is the one place     *)
(* inside where another goroutine can run.                                 *)

EntityMuFree == \A u \in Tx : pc[u] # "stamped"
OpMuFree(t) == pc[t] # "stamped"

(* tx.Closed and tx.RolledBack are set by the call that ends t. *)
Closed(t) == told[t] # {}
RolledBack(t) == "rolledBack" \in told[t]

(* The prologue of every EntityStore call made in t. *)
InTx(t) == pc[t] # "none" /\ OpMuFree(t) /\ ~RolledBack(t) /\ ~Closed(t)

-----------------------------------------------------------------------------
(* Begin *)

FloorKept(now) == lastSubmitTime

(* The snapshot is floored to, and reserved as, the submit-time floor. *)
SnapshotAt(now) == IF now < lastSubmitTime THEN lastSubmitTime ELSE now
FloorAfterBegin(now) == SnapshotAt(now)

Begin(t, now) ==
  /\ pc[t] = "none"
  /\ pc' = [pc EXCEPT ![t] = "open"]
  /\ snapshotTime' = [snapshotTime EXCEPT ![t] = SnapshotAt(now)]
  /\ lastSubmitTime' = FloorAfterBegin(now)
  /\ active' = active \cup {t}
  /\ txSnapshotSeq' = [txSnapshotSeq EXCEPT ![t] = commitSeq]
  /\ UNCHANGED <<committing, committedLog, commitSeq, submitTimes, stageVars,
                 txVars, storeVars, stamp, rollbackWaiting, told, ghostVars>>

-----------------------------------------------------------------------------
(* The entity store inside a transaction *)

(* stageSuperseded, tx.Buffer, tx.WriteSet and recordUniqueKeys *)
BufferWrite(t, e, v, keyed) ==
  /\ supersededSaves' =
       IF buffer[t][e] = None THEN supersededSaves
       ELSE [supersededSaves EXCEPT ![t][e] = Append(@, buffer[t][e])]
  /\ buffer' = [buffer EXCEPT ![t][e] = v]
  /\ writeSet' = [writeSet EXCEPT ![t] = @ \cup {e}]
  /\ txUniqueKeys' = [txUniqueKeys EXCEPT ![t][e] = keyed]
  /\ UNCHANGED <<mgrVars, scheduledTaskOps, savepoints, snapshotTime, readSet,
                 storeVars, callVars, ghostVars>>

Save(t, e, v, keyed) ==
  /\ InTx(t)
  /\ BufferWrite(t, e, v, keyed)
  /\ deletes' = [deletes EXCEPT ![t] = @ \ {e}]

(* A mismatch returns ErrConflict and changes nothing. *)
CompareMatches(t, e, expectedTxID) ==
  /\ e \notin deletes[t]
  /\ \/ buffer[t][e] # None /\ expectedTxID = t
     \/ /\ buffer[t][e] = None /\ EntityMuFree
        /\ currentTxIDLocked(e) = expectedTxID

CompareAndSave(t, e, v, keyed, expectedTxID) ==
  /\ InTx(t)
  /\ CompareMatches(t, e, expectedTxID)
  /\ BufferWrite(t, e, v, keyed)
  /\ UNCHANGED deletes

(* FireScheduledTransition re-saves the entity it has read, against the    *)
(* transaction ID it read, on a context that carries no unique keys (the   *)
(* entity service attaches them, the scheduler does not).  A stale ID      *)
(* conflicts here or at Commit.                                            *)
FireSave(t, e) ==
  /\ ScheduledFires
  /\ e \in readSet[t] /\ buffer[t][e] = None /\ TxView(t, e) # None
  /\ CompareAndSave(t, e, TxView(t, e), FALSE, currentTxIDLocked(e))

AddReads(t, E) ==
  /\ readSet' = [readSet EXCEPT ![t] = @ \cup E]
  /\ seen' = [seen EXCEPT ![t] = @ \cup
                {<<e, getSnapshotVersion(e, snapshotTime[t])>> :
                   e \in E \ Buffered(t)}]
  /\ UNCHANGED <<mgrVars, stageVars, snapshotTime, writeSet, buffer, deletes,
                 storeVars, callVars, history>>

(* A read of an entity deleted in t is not recorded; any other read is,    *)
(* found or not.                                                           *)
Get(t, e) ==
  /\ InTx(t)
  /\ e \notin deletes[t]
  /\ buffer[t][e] # None \/ EntityMuFree
  /\ AddReads(t, {e})

GetPage(t, page) ==
  /\ InTx(t) /\ EntityMuFree
  /\ page \subseteq MergedIDs(t)
  /\ AddReads(t, page)

StageDeletes(t, E) ==
  /\ deletes' = [deletes EXCEPT ![t] = @ \cup E]
  /\ buffer' = [buffer EXCEPT ![t] =
                  [e \in Entity |-> IF e \in E THEN None ELSE buffer[t][e]]]
  /\ writeSet' = [writeSet EXCEPT ![t] = @ \cup E]
  /\ UNCHANGED <<mgrVars, stageVars, snapshotTime, readSet, storeVars,
                 callVars, ghostVars>>

(* Existence is checked in the buffer, then against the latest committed   *)
(* row, not against the snapshot.                                          *)
Delete(t, e) ==
  /\ InTx(t)
  /\ buffer[t][e] # None \/ (EntityMuFree /\ Latest(e) # None)
  /\ StageDeletes(t, {e})

DeleteAll(t) ==
  /\ InTx(t) /\ EntityMuFree
  /\ StageDeletes(t, SnapshotIDs(t) \cup Buffered(t))

(* Faulty: the op is applied at once instead of staged. *)
ApplyTaskNow(t, k, task) ==
  /\ pc[t] # "none" /\ OpMuFree(t) /\ ~RolledBack(t)
  /\ scheduledTasks' = [scheduledTasks EXCEPT ![k] = task]
  /\ UNCHANGED <<mgrVars, stageVars, snapshotTime, txVars, entityData,
                 txIndex, uniqueClaims, claimsByEntity, callVars, ghostVars>>

(* scheduledTaskStore.stage checks RolledBack and not Closed. *)
StageTask(t, k, task) ==
  /\ pc[t] # "none" /\ OpMuFree(t) /\ ~RolledBack(t)
  /\ scheduledTaskOps' = [scheduledTaskOps EXCEPT ![t] =
                            Append(@, [id |-> k, task |-> task])]
  /\ UNCHANGED <<mgrVars, txUniqueKeys, supersededSaves, savepoints,
                 snapshotTime, txVars, storeVars, callVars, ghostVars>>

-----------------------------------------------------------------------------
(* Savepoints.  The engine opens one around an ASYNC_NEW_TX processor and  *)
(* closes it when the processor is done, so they nest: a stack.            *)

Savepoint(t) ==
  /\ t \in active /\ InTx(t)
  /\ Len(savepoints[t]) < MaxSavepoints
  /\ savepoints' = [savepoints EXCEPT ![t] = Append(@,
       [buffer |-> buffer[t], readSet |-> readSet[t],
        writeSet |-> writeSet[t], deletes |-> deletes[t],
        scheduledTaskOpsLen |-> Len(scheduledTaskOps[t]),
        supersededLens |-> [e \in Entity |-> Len(supersededSaves[t][e])],
        staged |-> [ops |-> scheduledTaskOps[t],
                    saves |-> supersededSaves[t]]])]
  /\ UNCHANGED <<mgrVars, txUniqueKeys, supersededSaves, scheduledTaskOps,
                 snapshotTime, txVars, storeVars, callVars, ghostVars>>

(* Faulty: nothing is cut off. *)
KeepAll(s, n) == s

Truncate(s, n) == IF n < Len(s) THEN SubSeq(s, 1, n) ELSE s
Pop(s) == SubSeq(s, 1, Len(s) - 1)

RollbackToSavepoint(t) ==
  LET snap == savepoints[t][Len(savepoints[t])] IN
  /\ t \in active /\ InTx(t)
  /\ savepoints[t] # << >>
  /\ buffer' = [buffer EXCEPT ![t] = snap.buffer]
  /\ readSet' = [readSet EXCEPT ![t] = snap.readSet]
  /\ writeSet' = [writeSet EXCEPT ![t] = snap.writeSet]
  /\ deletes' = [deletes EXCEPT ![t] = snap.deletes]
  /\ scheduledTaskOps' = [scheduledTaskOps EXCEPT ![t] =
                            Truncate(@, snap.scheduledTaskOpsLen)]
  /\ supersededSaves' = [supersededSaves EXCEPT ![t] =
       [e \in Entity |-> Truncate(supersededSaves[t][e],
                                  snap.supersededLens[e])]]
  /\ savepoints' = [savepoints EXCEPT ![t] = Pop(@)]
  /\ UNCHANGED <<mgrVars, txUniqueKeys, snapshotTime, storeVars, callVars,
                 ghostVars>>

ReleaseSavepoint(t) ==
  /\ t \in active
  /\ savepoints[t] # << >>
  /\ savepoints' = [savepoints EXCEPT ![t] = Pop(@)]
  /\ UNCHANGED <<mgrVars, txUniqueKeys, supersededSaves, scheduledTaskOps,
                 snapshotTime, txVars, storeVars, callVars, ghostVars>>

-----------------------------------------------------------------------------
(* Commit *)

(* The entries every way out of a transaction deletes from the manager's   *)
(* maps; a missing txSnapshotSeq entry reads as zero.                      *)
Forget(t) ==
  /\ active' = active \ {t}
  /\ committing' = committing \ {t}
  /\ savepoints' = [savepoints EXCEPT ![t] = << >>]
  /\ txUniqueKeys' = [txUniqueKeys EXCEPT ![t] = [e \in Entity |-> FALSE]]
  /\ txSnapshotSeq' = [txSnapshotSeq EXCEPT ![t] = 0]
  /\ supersededSaves' =
       [supersededSaves EXCEPT ![t] = [e \in Entity |-> << >>]]
  /\ scheduledTaskOps' = [scheduledTaskOps EXCEPT ![t] = << >>]

CommitMark(t) ==
  /\ t \in active
  /\ t \notin committing
  /\ committing' = committing \cup {t}
  /\ pc' = [pc EXCEPT ![t] = "marked"]
  /\ UNCHANGED <<active, committedLog, commitSeq, txSnapshotSeq,
                 lastSubmitTime, submitTimes, stageVars, snapshotTime, txVars,
                 storeVars, stamp, rollbackWaiting, told, ghostVars>>

(* Faulty: only writes conflict with writes. *)
WritesOnly(t) == writeSet[t]

(* First-committer-wins: the log against the footprint of t. *)
Footprint(t) == readSet[t] \cup writeSet[t]
Conflicts(t) ==
  \E c \in committedLog :
    c.seq > txSnapshotSeq[t] /\ c.writeSet \cap Footprint(t) # {}

computedClaims(t, e) ==
  IF txUniqueKeys[t][e] THEN ClaimsOf[buffer[t][e]] ELSE {}

PartialKey(t) ==
  \E e \in Buffered(t) : txUniqueKeys[t][e] /\ buffer[t][e] \in PartialVal

(* Faulty: two buffered entities are not compared. *)
ClaimTakenInStore(t) ==
  \E e \in Buffered(t) : \E c \in computedClaims(t, e) :
    uniqueClaims[c] \notin {None, e} \cup deletes[t]

(* A claim of a buffered entity is taken inside the batch, or by an entity *)
(* that t does not delete.                                                 *)
ClaimTaken(t) ==
  \E e \in Buffered(t) : \E c \in computedClaims(t, e) :
    \/ \E f \in Buffered(t) \ {e} : c \in computedClaims(t, f)
    \/ uniqueClaims[c] \notin {None, e} \cup deletes[t]

Abort(t, outcome) ==
  /\ Forget(t)
  /\ pc' = [pc EXCEPT ![t] = "done"]
  /\ told' = [told EXCEPT ![t] = @ \cup {outcome}]
  /\ UNCHANGED <<committedLog, commitSeq, lastSubmitTime, submitTimes,
                 snapshotTime, txVars, storeVars, stamp, rollbackWaiting,
                 ghostVars>>

AtCommit(t) == pc[t] = "marked" /\ EntityMuFree

CommitConflict(t) == AtCommit(t) /\ Conflicts(t) /\ Abort(t, "conflict")

CommitPartialKey(t) ==
  AtCommit(t) /\ ~Conflicts(t) /\ PartialKey(t) /\ Abort(t, "partialKey")

CommitUnique(t) ==
  AtCommit(t) /\ ~Conflicts(t) /\ ClaimTaken(t) /\ Abort(t, "unique")

nextSubmitTime(now) ==
  IF now > lastSubmitTime THEN now ELSE lastSubmitTime + 1

CommitStamp(t, now) ==
  /\ AtCommit(t)
  /\ ~Conflicts(t) /\ ~PartialKey(t) /\ ~ClaimTaken(t)
  /\ pc' = [pc EXCEPT ![t] = "stamped"]
  /\ stamp' = [stamp EXCEPT ![t] = nextSubmitTime(now)]
  /\ lastSubmitTime' = nextSubmitTime(now)
  /\ UNCHANGED <<active, committing, committedLog, commitSeq, txSnapshotSeq,
                 submitTimes, stageVars, snapshotTime, txVars, storeVars,
                 rollbackWaiting, told, ghostVars>>

(* Faulty: every row of a commit has the version of its first. *)
FlushedAtOnce(t, e) ==
  LET base == BaseVersion(entityData[e])
      vals == Append(supersededSaves[t][e], buffer[t][e])
      row(v) == [val |-> v, version |-> base + 1, tx |-> t,
                 submitTime |-> stamp[t]]
  IN  IF buffer[t][e] # None THEN [i \in 1..Len(vals) |-> row(vals[i])]
      ELSE IF e \in deletes[t] THEN << row(None) >> ELSE << >>

(* The rows a commit appends: every superseded save, then the final value, *)
(* or one tombstone.                                                       *)
FlushedRows(t, e) ==
  LET base == BaseVersion(entityData[e])
      vals == Append(supersededSaves[t][e], buffer[t][e])
  IN  IF buffer[t][e] # None
        THEN [i \in 1..Len(vals) |->
               [val |-> vals[i], version |-> base + i, tx |-> t,
                submitTime |-> stamp[t]]]
      ELSE IF e \in deletes[t]
        THEN << [val |-> None, version |-> base + 1, tx |-> t,
                 submitTime |-> stamp[t]] >>
      ELSE << >>

recordTxIndex(t, e) ==
  IF buffer[t][e] # None THEN BaseVersion(entityData[e]) + 1
  ELSE txIndex[e][t]

(* Claims of the deleted entities go first, then each buffered entity      *)
(* swaps its old claims for its new ones.  The order in which Go walks the *)
(* buffer is immaterial: a claim one entity gives up is never one another  *)
(* takes (ClaimTaken).                                                     *)
Released(t) ==
  UNION {claimsByEntity[e] : e \in deletes[t] \cup Buffered(t)}

ClaimsAfter(t) ==
  [c \in Claim |->
     IF \E e \in Buffered(t) : c \in computedClaims(t, e)
       THEN CHOOSE e \in Buffered(t) : c \in computedClaims(t, e)
     ELSE IF c \in Released(t) THEN None ELSE uniqueClaims[c]]

(* applyScheduledTaskOp for every staged op in order: the last one wins. *)
IsLastOp(ops, k, i) ==
  /\ ops[i].id = k
  /\ \A j \in DOMAIN ops : j > i => ops[j].id # k

TasksAfter(t) ==
  LET ops == scheduledTaskOps[t] IN
  [k \in Task |->
     IF \E i \in DOMAIN ops : IsLastOp(ops, k, i)
       THEN ops[CHOOSE i \in DOMAIN ops : IsLastOp(ops, k, i)].task
       ELSE scheduledTasks[k]]

(* Faulty: the newest snapshot still open decides. *)
PrunedToNewest(log, open) ==
  {c \in log : \A a \in open : c.submitTime >= snapshotTime[a]}

(* Keep what is not older than the oldest snapshot still open. *)
Pruned(log, open) ==
  {c \in log : \E a \in open : c.submitTime >= snapshotTime[a]}

CommitApply(t, now) ==
  /\ pc[t] = "stamped"
  /\ entityData' = [e \in Entity |-> entityData[e] \o FlushedRows(t, e)]
  /\ txIndex' = [e \in Entity |->
                   [txIndex[e] EXCEPT ![t] = recordTxIndex(t, e)]]
  /\ uniqueClaims' = ClaimsAfter(t)
  /\ claimsByEntity' = [e \in Entity |->
       IF e \in Buffered(t) THEN computedClaims(t, e)
       ELSE IF e \in deletes[t] THEN {} ELSE claimsByEntity[e]]
  /\ scheduledTasks' = TasksAfter(t)
  /\ commitSeq' = commitSeq + 1
  /\ committedLog' = Pruned(committedLog \cup
       {[id |-> t, submitTime |-> stamp[t], seq |-> commitSeq + 1,
         writeSet |-> writeSet[t]]}, active \ {t})
  /\ submitTimes' =
       LET all == [u \in DOMAIN submitTimes \cup {t} |->
                     IF u = t THEN stamp[t] ELSE submitTimes[u]]
           kept == {u \in DOMAIN all : all[u] >= now - SubmitTimeTTL}
       IN  [u \in kept |-> all[u]]
  /\ Forget(t)
  /\ pc' = [pc EXCEPT ![t] = "done"]
  /\ told' = [told EXCEPT ![t] = @ \cup {"committed"}]
  /\ history' = history \cup
       {[id |-> t, snapshotTime |-> snapshotTime[t], submitTime |-> stamp[t],
         seq |-> commitSeq + 1, readSet |-> readSet[t],
         writeSet |-> writeSet[t]]}
  /\ UNCHANGED <<lastSubmitTime, snapshotTime, txVars, stamp, rollbackWaiting,
                 seen>>

-----------------------------------------------------------------------------
(* Rollback: found active under mu, then waits for tx.OpMu. *)

RollbackCheck(t) ==
  /\ t \in active
  /\ rollbackWaiting' = rollbackWaiting \cup {t}
  /\ UNCHANGED <<mgrVars, stageVars, snapshotTime, txVars, storeVars, pc,
                 stamp, told, ghostVars>>

RollbackApply(t) ==
  /\ t \in rollbackWaiting /\ OpMuFree(t)
  /\ rollbackWaiting' = rollbackWaiting \ {t}
  /\ Forget(t)
  /\ told' = [told EXCEPT ![t] = @ \cup {"rolledBack"}]
  /\ pc' = [pc EXCEPT ![t] = IF @ = "marked" THEN @ ELSE "done"]
  /\ UNCHANGED <<committedLog, commitSeq, lastSubmitTime, submitTimes,
                 snapshotTime, txVars, storeVars, stamp, ghostVars>>

-----------------------------------------------------------------------------
StoreCall(t) ==
  \/ \E e \in Entity, v \in Val : Save(t, e, v, TRUE)
  \/ \E e \in Entity, v \in Val, x \in Tx :
       CompareAndSave(t, e, v, TRUE, x)
  \/ \E e \in Entity : Get(t, e) \/ Delete(t, e) \/ FireSave(t, e)
  \/ \E page \in SUBSET Entity : GetPage(t, page)
  \/ DeleteAll(t)
  \/ \E k \in Task, task \in {t, None} : StageTask(t, k, task)
  \/ Savepoint(t) \/ RollbackToSavepoint(t) \/ ReleaseSavepoint(t)

CommitStep(t) ==
  \/ CommitConflict(t) \/ CommitPartialKey(t) \/ CommitUnique(t)
  \/ \E now \in ClockReadings : CommitStamp(t, now) \/ CommitApply(t, now)

(* An assumption on the callers: of one transaction no Commit and Rollback *)
(* are in flight together.  A transaction has one owner, who ends it once; *)
(* the segment a callback commits while the engine of its owner fails is   *)
(* left out.                                                               *)
OwnerFree(t) == pc[t] = "open" /\ t \notin rollbackWaiting

BoundedCall(t) ==
  /\ calls[t] < MaxCalls
  /\ calls' = [calls EXCEPT ![t] = @ + 1]
  /\ StoreCall(t)

TxNext(t) ==
  \/ BoundedCall(t)
  \/ /\ UNCHANGED calls
     /\ \/ \E now \in ClockReadings : Begin(t, now)
        \/ OwnerFree(t) /\ (CommitMark(t) \/ RollbackCheck(t))
        \/ CommitStep(t)
        \/ RollbackApply(t)

Next == \E t \in Tx : TxNext(t)
Spec == Init /\ [][Next]_vars

-----------------------------------------------------------------------------
(* Properties *)

(* Every variable has its type: the maps of the manager, of each           *)
(* transaction and of the store hold what Begin, the calls and Commit put  *)
(* there, and no time is negative.                                         *)
TypeOK ==
  /\ active \subseteq Tx /\ committing \subseteq Tx
  /\ committedLog \subseteq committedTx
  /\ commitSeq \in Nat /\ lastSubmitTime \in Nat
  /\ txSnapshotSeq \in [Tx -> Nat]
  /\ DOMAIN submitTimes \subseteq Tx
  /\ \A t \in DOMAIN submitTimes : submitTimes[t] \in Nat
  /\ txUniqueKeys \in [Tx -> [Entity -> BOOLEAN]]
  /\ supersededSaves \in [Tx -> [Entity -> Seq(Val)]]
  /\ scheduledTaskOps \in [Tx -> Seq(scheduledTaskOp)]
  /\ savepoints \in [Tx -> Seq(savepointSnapshot)]
  /\ snapshotTime \in [Tx -> Nat]
  /\ readSet \in [Tx -> SUBSET Entity]
  /\ writeSet \in [Tx -> SUBSET Entity]
  /\ deletes \in [Tx -> SUBSET Entity]
  /\ buffer \in [Tx -> [Entity -> Val \cup {None}]]
  /\ entityData \in [Entity -> Seq(entityVersion)]
  /\ txIndex \in [Entity -> [Tx -> Nat]]
  /\ uniqueClaims \in [Claim -> Entity \cup {None}]
  /\ claimsByEntity \in [Entity -> SUBSET Claim]
  /\ scheduledTasks \in [Task -> Tx \cup {None}]
  /\ pc \in [Tx -> {"none", "open", "marked", "stamped", "done"}]
  /\ stamp \in [Tx -> Nat]
  /\ rollbackWaiting \subseteq Tx
  /\ told \in [Tx -> SUBSET Outcome]
  /\ history \subseteq [id : Tx, snapshotTime : Nat, submitTime : Nat,
                        seq : Nat, readSet : SUBSET Entity,
                        writeSet : SUBSET Entity]
  /\ seen \in [Tx -> SUBSET (Entity \X (Val \cup {None}))]
  /\ calls \in [Tx -> Nat]

(* First-committer-wins: of two committed transactions, one submitted      *)
(* between the snapshot and the submit time of the other wrote nothing the *)
(* other read or wrote.                                                    *)
FirstCommitterWins ==
  \A h, g \in history :
    h.snapshotTime < g.submitTime /\ g.submitTime < h.submitTime
      => g.writeSet \cap (h.readSet \cup h.writeSet) = {}

(* No blind spot: a commit an open transaction cannot see is still in the  *)
(* committed log (the prune kept it) and counts as later than the          *)
(* transaction's baseline, so its commit will be checked against it.       *)
LogCoversOpen ==
  \A t \in active, h \in history :
    h.submitTime > snapshotTime[t] =>
      \E c \in committedLog :
        /\ c.id = h.id /\ c.submitTime = h.submitTime
        /\ c.writeSet = h.writeSet /\ c.seq > txSnapshotSeq[t]

(* Repeatable reads: what a transaction has read from the store it would   *)
(* read again, until it ends, whatever commits in between and whatever the *)
(* clock does.                                                             *)
RepeatableReads ==
  \A t \in active : \A r \in seen[t] :
    getSnapshotVersion(r[1], snapshotTime[t]) = r[2]

(* All or nothing: a transaction whose commit returned success has left a  *)
(* row for every entity of its write set; any other has left no row, no    *)
(* submit time and no armed task.                                          *)
RowsOf(t, e) == {i \in DOMAIN entityData[e] : entityData[e][i].tx = t}
AllOrNothing ==
  \A t \in Tx :
    IF told[t] = {"committed"}
      THEN \A e \in Entity : RowsOf(t, e) # {} <=> e \in writeSet[t]
      ELSE /\ \A e \in Entity : RowsOf(t, e) = {}
           /\ t \notin DOMAIN submitTimes
           /\ \A k \in Task : scheduledTasks[k] # t

(* The rows of an entity are in submit-time order, two rows share a time   *)
(* only when one transaction wrote both, and live rows have increasing     *)
(* versions: what getSnapshotVersion's break and the version counter rely  *)
(* on.                                                                     *)
RowsOrdered ==
  \A e \in Entity : \A i, j \in DOMAIN entityData[e] : i < j =>
    LET r == entityData[e][i]
        s == entityData[e][j]
    IN  /\ r.submitTime <= s.submitTime
        /\ r.submitTime = s.submitTime <=> r.tx = s.tx
        /\ r.val # None /\ s.val # None => r.version < s.version

(* GetVersionByTransaction, the search of the version txIndex names,       *)
(* returns the earliest live row the transaction wrote.                    *)
VersionByTransaction ==
  \A e \in Entity, t \in Tx :
    LET rows == entityData[e]
        live == {i \in DOMAIN rows : rows[i].val # None}
        own == {i \in live : rows[i].tx = t}
        hit == {i \in live : rows[i].version = txIndex[e][t]}
    IN  IF txIndex[e][t] = 0 THEN own = {}
        ELSE \E i \in hit \cap own : \A j \in hit \cup own : i <= j

(* The rows of an entity are found by either lookup of the store: by the   *)
(* snapshot time and by the transaction that wrote them.                   *)
VersionsFound == RowsOrdered /\ VersionByTransaction

(* Composite unique keys: when every writer brings the keys, no two live   *)
(* entities hold the same key value.                                       *)
UniqueKeys ==
  \A e, f \in Entity :
    e # f /\ Latest(e) # None /\ Latest(f) # None
      => ClaimsOf[Latest(e)] \cap ClaimsOf[Latest(f)] = {}

(* The two claim maps and the store say the same: an entity holds exactly  *)
(* the claims of its live document, and each claim has one holder.         *)
ClaimMapsAgree ==
  /\ \A e \in Entity : claimsByEntity[e] =
       IF Latest(e) = None THEN {} ELSE ClaimsOf[Latest(e)]
  /\ \A c \in Claim : {e \in Entity : c \in claimsByEntity[e]} =
       {uniqueClaims[c]} \ {None}

(* RollbackToSavepoint restores the whole of what the savepoint saw: the   *)
(* lists it truncates by length come back as they were.                    *)
SavepointRestores ==
  [][\A t \in Tx : RollbackToSavepoint(t) =>
       LET snap == savepoints[t][Len(savepoints[t])]
       IN  /\ scheduledTaskOps'[t] = snap.staged.ops
           /\ supersededSaves'[t] = snap.staged.saves
           /\ \A e \in Entity : e \in writeSet'[t] <=>
                buffer'[t][e] # None \/ e \in deletes'[t]]_vars

-----------------------------------------------------------------------------
(* The inductive invariant behind FirstCommitterWins and RepeatableReads:  *)
(* the submit-time floor is at or above everything stamped or read so far, *)
(* at most one commit is between its stamp and its record, that commit     *)
(* passed the conflict check against a log that has not changed since, and *)
(* a transaction that began after its stamp has read nothing yet.          *)
IsolationInv ==
  /\ \A h \in history : /\ h.submitTime <= lastSubmitTime
                        /\ h.seq <= commitSeq
  /\ \A t \in active : /\ pc[t] \in {"open", "marked", "stamped"}
                       /\ snapshotTime[t] <= lastSubmitTime
                       /\ txSnapshotSeq[t] <= commitSeq
  /\ \A t \in Tx : pc[t] \in {"none"} => seen[t] = {}
  /\ \A t \in rollbackWaiting : pc[t] = "open"
  /\ \A t \in Tx : pc[t] \in {"open", "marked", "stamped"} => t \in active
  /\ \A t \in Tx : pc[t] = "stamped" =>
       /\ snapshotTime[t] < stamp[t] /\ stamp[t] <= lastSubmitTime
       /\ \A h \in history : h.submitTime < stamp[t]
       /\ ~Conflicts(t)
       /\ \A u \in Tx : pc[u] = "stamped" => u = t
       /\ \A u \in active : stamp[t] <= snapshotTime[u] => seen[u] = {}
  /\ LogCoversOpen
  /\ FirstCommitterWins

=============================================================================
