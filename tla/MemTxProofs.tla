----------------------------- MODULE MemTxProofs -----------------------------
(***************************************************************************)
(* Proofs about MemTx, for every number of transactions, entities,         *)
(* documents, clock readings and calls.                                    *)
(***************************************************************************)
EXTENDS MemTx, TLAPS

-----------------------------------------------------------------------------
(* Types *)

(* The parts of the type invariant, for the steps that need one of them. *)
LEMMA TypeTimes ==
  ASSUME TypeOK
  PROVE  /\ active \subseteq Tx
         /\ commitSeq \in Nat /\ lastSubmitTime \in Nat
         /\ txSnapshotSeq \in [Tx -> Nat]
         /\ snapshotTime \in [Tx -> Nat]
         /\ stamp \in [Tx -> Nat]
         /\ pc \in [Tx -> {"none", "open", "marked", "stamped", "done"}]
  BY Zenon DEF TypeOK

LEMMA TypeLogs ==
  ASSUME TypeOK
  PROVE  /\ committedLog \subseteq committedTx
         /\ history \subseteq [id : Tx, snapshotTime : Nat, submitTime : Nat,
                               seq : Nat, readSet : SUBSET Entity,
                               writeSet : SUBSET Entity]
  BY Zenon DEF TypeOK

LEMMA TypeHandles ==
  ASSUME TypeOK
  PROVE  /\ readSet \in [Tx -> SUBSET Entity]
         /\ writeSet \in [Tx -> SUBSET Entity]
         /\ deletes \in [Tx -> SUBSET Entity]
         /\ buffer \in [Tx -> [Entity -> Val \cup {None}]]
         /\ seen \in [Tx -> SUBSET (Entity \X (Val \cup {None}))]
  BY Zenon DEF TypeOK

LEMMA TypeStaged ==
  ASSUME TypeOK
  PROVE  /\ txUniqueKeys \in [Tx -> [Entity -> BOOLEAN]]
         /\ supersededSaves \in [Tx -> [Entity -> Seq(Val)]]
         /\ scheduledTaskOps \in [Tx -> Seq(scheduledTaskOp)]
  BY Zenon DEF TypeOK

LEMMA TypeStore ==
  ASSUME TypeOK
  PROVE  /\ entityData \in [Entity -> Seq(entityVersion)]
         /\ txIndex \in [Entity -> [Tx -> Nat]]
         /\ uniqueClaims \in [Claim -> Entity \cup {None}]
         /\ claimsByEntity \in [Entity -> SUBSET Claim]
  BY Zenon DEF TypeOK

(* The version counter of any row list is a number. *)
LEMMA BaseVersionType ==
  ASSUME NEW rows \in Seq(entityVersion)
  PROVE  BaseVersion(rows) \in Nat
<1>1. CASE \E i \in DOMAIN rows : IsLastLive(rows, i)
  <2> DEFINE i == CHOOSE i \in DOMAIN rows : IsLastLive(rows, i)
  <2>1. i \in DOMAIN rows
    BY <1>1
  <2>2. rows[i] \in entityVersion
    BY <2>1
  <2> QED
    BY <1>1, <2>2 DEF BaseVersion, entityVersion
<1>2. CASE ~ \E i \in DOMAIN rows : IsLastLive(rows, i)
  BY <1>2 DEF BaseVersion
<1> QED
  BY <1>1, <1>2

(* A snapshot read returns a document or nothing. *)
LEMMA SnapshotType ==
  ASSUME NEW rows \in Seq(entityVersion), NEW time
  PROVE  SnapshotOf(rows, time) \in Val \cup {None}
<1>1. CASE \E i \in DOMAIN rows : IsSnapshotRow(rows, i, time)
  <2> DEFINE i == CHOOSE i \in DOMAIN rows : IsSnapshotRow(rows, i, time)
  <2>1. i \in DOMAIN rows
    BY <1>1
  <2>2. rows[i] \in entityVersion
    BY <2>1
  <2> QED
    BY <1>1, <2>2 DEF SnapshotOf, entityVersion
<1>2. CASE ~ \E i \in DOMAIN rows : IsSnapshotRow(rows, i, time)
  BY <1>2 DEF SnapshotOf
<1> QED
  BY <1>1, <1>2

(* So does a read in a transaction. *)
LEMMA TxViewType ==
  ASSUME TypeOK, NEW t \in Tx, NEW e \in Entity
  PROVE  TxView(t, e) \in Val \cup {None}
<1>1. /\ buffer[t][e] \in Val \cup {None}
      /\ entityData[e] \in Seq(entityVersion)
  BY TypeHandles, TypeStore
<1> QED
  BY <1>1, SnapshotType DEF TxView, getSnapshotVersion

(* Truncating a sequence leaves a sequence over the same set. *)
LEMMA TruncateType ==
  ASSUME NEW S, NEW s \in Seq(S), NEW n \in Nat
  PROVE  Truncate(s, n) \in Seq(S)
<1>1. CASE n < Len(s)
  <2>1. SubSeq(s, 1, n) \in Seq(S)
    BY <1>1
  <2> QED
    BY <1>1, <2>1 DEF Truncate
<1> QED
  BY <1>1 DEF Truncate

(* Commit appends rows. *)
LEMMA FlushedRowsType ==
  ASSUME TypeOK, NEW t \in Tx, NEW e \in Entity
  PROVE  FlushedRows(t, e) \in Seq(entityVersion)
<1> DEFINE base == BaseVersion(entityData[e])
           vals == Append(supersededSaves[t][e], buffer[t][e])
<1>1. base \in Nat
  BY BaseVersionType DEF TypeOK
<1>2. stamp[t] \in Nat
  BY DEF TypeOK
<1>3. CASE buffer[t][e] # None
  <2>1. buffer[t][e] \in Val
    BY <1>3 DEF TypeOK
  <2>2. supersededSaves[t][e] \in Seq(Val)
    BY DEF TypeOK
  <2>3. vals \in Seq(Val)
    BY <2>1, <2>2
  <2>4. \A i \in 1..Len(vals) :
          [val |-> vals[i], version |-> base + i, tx |-> t,
           submitTime |-> stamp[t]] \in entityVersion
    BY <1>1, <1>2, <2>3 DEF entityVersion
  <2>5. Len(vals) \in Nat
    BY <2>3
  <2> HIDE DEF vals, base
  <2>6. [i \in 1..Len(vals) |->
          [val |-> vals[i], version |-> base + i, tx |-> t,
           submitTime |-> stamp[t]]] \in Seq(entityVersion)
    BY <2>4, <2>5
  <2> QED
    BY <1>3, <2>6 DEF FlushedRows, base, vals
<1>4. CASE buffer[t][e] = None /\ e \in deletes[t]
  <2>1. [val |-> None, version |-> base + 1, tx |-> t,
         submitTime |-> stamp[t]] \in entityVersion
    BY <1>1, <1>2 DEF entityVersion
  <2> HIDE DEF base
  <2> QED
    BY <1>4, <2>1 DEF FlushedRows, base
<1>5. CASE buffer[t][e] = None /\ e \notin deletes[t]
  BY <1>5 DEF FlushedRows
<1> QED
  BY <1>3, <1>4, <1>5

(* The initial state is well typed. *)
LEMMA TypeInit == Init => TypeOK
  BY ValueAssumption DEF Init, TypeOK

(* Begin, the store calls and the savepoint calls keep the types. *)
LEMMA TypeCalls ==
  ASSUME TypeOK, NEW t \in Tx, BoundedCall(t)
  PROVE  TypeOK'
<1> USE ValueAssumption DEF mgrVars, stageVars, txVars, storeVars, callVars,
        ghostVars
<1>0. calls' \in [Tx -> Nat]
  BY DEF TypeOK, BoundedCall
<1>1. ASSUME NEW e \in Entity, NEW v \in Val, NEW keyed \in BOOLEAN,
             BufferWrite(t, e, v, keyed), deletes' \in [Tx -> SUBSET Entity]
      PROVE  TypeOK'
  <2>1. supersededSaves' \in [Tx -> [Entity -> Seq(Val)]]
    BY <1>1 DEF TypeOK, BufferWrite
  <2>2. txUniqueKeys' \in [Tx -> [Entity -> BOOLEAN]]
    <3>1. txUniqueKeys' = [txUniqueKeys EXCEPT ![t][e] = keyed]
      BY <1>1 DEF BufferWrite
    <3> QED
      BY <1>1, <3>1, Zenon DEF TypeOK
  <2>3. /\ buffer' \in [Tx -> [Entity -> Val \cup {None}]]
        /\ writeSet' \in [Tx -> SUBSET Entity]
    BY Zenon, <1>1 DEF TypeOK, BufferWrite
  <2>4. UNCHANGED <<mgrVars, scheduledTaskOps, savepoints, snapshotTime,
                    readSet, storeVars, callVars, ghostVars>>
    BY <1>1 DEF BufferWrite
  <2> QED
    BY Zenon, <1>0, <1>1, <2>1, <2>2, <2>3, <2>4 DEF TypeOK
<1>2. ASSUME NEW e \in Entity, NEW v \in Val, Save(t, e, v, TRUE)
      PROVE  TypeOK'
  BY Zenon, <1>1, <1>2 DEF TypeOK, Save
<1>3. ASSUME NEW e \in Entity, NEW v \in Val, NEW keyed \in BOOLEAN, NEW x,
             CompareAndSave(t, e, v, keyed, x)
      PROVE  TypeOK'
  <2>1. BufferWrite(t, e, v, keyed)
    BY Zenon, <1>3 DEF CompareAndSave
  <2>2. deletes' \in [Tx -> SUBSET Entity]
    BY <1>3 DEF CompareAndSave, TypeOK
  <2> QED
    BY Zenon, <1>1, <1>3, <2>1, <2>2
<1>4. ASSUME NEW e \in Entity, FireSave(t, e)
      PROVE  TypeOK'
  <2>1. TxView(t, e) \in Val \cup {None}
    BY Zenon, TxViewType
  <2>2. TxView(t, e) \in Val
    BY <1>4, <2>1 DEF FireSave
  <2> QED
    BY Zenon, <1>3, <1>4, <2>2 DEF FireSave
<1>5. ASSUME NEW E \in SUBSET Entity, AddReads(t, E)
      PROVE  TypeOK'
  <2>1. \A e \in Entity : getSnapshotVersion(e, snapshotTime[t])
                            \in Val \cup {None}
    BY Zenon, SnapshotType DEF TypeOK, getSnapshotVersion
  <2>2. seen' \in [Tx -> SUBSET (Entity \X (Val \cup {None}))]
    BY <1>5, <2>1 DEF TypeOK, AddReads
  <2> QED
    BY Zenon, <1>0, <1>5, <2>2 DEF TypeOK, AddReads
<1>6. ASSUME NEW E \in SUBSET Entity, StageDeletes(t, E)
      PROVE  TypeOK'
  <2>1. /\ deletes' \in [Tx -> SUBSET Entity]
        /\ writeSet' \in [Tx -> SUBSET Entity]
        /\ buffer' \in [Tx -> [Entity -> Val \cup {None}]]
    <3>1. /\ deletes \in [Tx -> SUBSET Entity] /\ writeSet \in [Tx -> SUBSET Entity]
          /\ buffer \in [Tx -> [Entity -> Val \cup {None}]]
      BY Zenon, TypeHandles
    <3>2. deletes' \in [Tx -> SUBSET Entity]
      BY Zenon, <1>6, <3>1 DEF StageDeletes
    <3>3. writeSet' \in [Tx -> SUBSET Entity]
      BY Zenon, <1>6, <3>1 DEF StageDeletes
    <3>4. buffer' \in [Tx -> [Entity -> Val \cup {None}]]
      BY Zenon, <1>6, <3>1 DEF StageDeletes
    <3> QED
      BY Zenon, <3>2, <3>3, <3>4
  <2>2. UNCHANGED <<mgrVars, stageVars, snapshotTime, readSet, storeVars,
                    callVars, ghostVars>>
    BY <1>6 DEF StageDeletes
  <2> QED
    BY Zenon, <1>0, <2>1, <2>2 DEF TypeOK
<1>7. ASSUME NEW k \in Task, NEW task \in {t, None}, StageTask(t, k, task)
      PROVE  TypeOK'
  <2>1. [id |-> k, task |-> task] \in scheduledTaskOp
    BY DEF scheduledTaskOp
  <2>2. scheduledTaskOps' \in [Tx -> Seq(scheduledTaskOp)]
    BY <1>7, <2>1, TypeStaged DEF StageTask
  <2> QED
    BY Zenon, <1>0, <1>7, <2>2 DEF TypeOK, StageTask
<1>8. CASE Savepoint(t)
  <2> DEFINE snap == [buffer |-> buffer[t], readSet |-> readSet[t],
        writeSet |-> writeSet[t], deletes |-> deletes[t],
        scheduledTaskOpsLen |-> Len(scheduledTaskOps[t]),
        supersededLens |-> [e \in Entity |-> Len(supersededSaves[t][e])],
        staged |-> [ops |-> scheduledTaskOps[t],
                    saves |-> supersededSaves[t]]]
  <2>1. snap \in savepointSnapshot
    <3>1. /\ buffer[t] \in [Entity -> Val \cup {None}]
          /\ readSet[t] \in SUBSET Entity /\ writeSet[t] \in SUBSET Entity
          /\ deletes[t] \in SUBSET Entity
      BY TypeHandles
    <3>2. /\ scheduledTaskOps[t] \in Seq(scheduledTaskOp)
          /\ supersededSaves[t] \in [Entity -> Seq(Val)]
      BY Zenon, TypeStaged
    <3>3. /\ Len(scheduledTaskOps[t]) \in Nat
          /\ [e \in Entity |-> Len(supersededSaves[t][e])] \in [Entity -> Nat]
      BY <3>2
    <3> QED
      BY Zenon, <3>1, <3>2, <3>3 DEF savepointSnapshot
  <2>2. savepoints' = [savepoints EXCEPT ![t] = Append(@, snap)]
    BY Zenon, <1>8 DEF Savepoint
  <2> HIDE DEF snap
  <2>3. savepoints' \in [Tx -> Seq(savepointSnapshot)]
    BY <2>1, <2>2 DEF TypeOK
  <2> QED
    BY Zenon, <1>0, <1>8, <2>3 DEF TypeOK, Savepoint
<1>9. ASSUME savepoints[t] # << >>
      PROVE  /\ Pop(savepoints[t]) \in Seq(savepointSnapshot)
             /\ savepoints[t][Len(savepoints[t])] \in savepointSnapshot
  BY <1>9 DEF TypeOK, Pop
<1>10. CASE ReleaseSavepoint(t)
  <2>1. savepoints' \in [Tx -> Seq(savepointSnapshot)]
    BY <1>9, <1>10 DEF TypeOK, ReleaseSavepoint
  <2> QED
    BY Zenon, <1>0, <1>10, <2>1 DEF TypeOK, ReleaseSavepoint
<1>11. CASE RollbackToSavepoint(t)
  <2> DEFINE snap == savepoints[t][Len(savepoints[t])]
  <2>1. snap \in savepointSnapshot
    BY Zenon, <1>9, <1>11 DEF RollbackToSavepoint
  <2>2. savepoints' \in [Tx -> Seq(savepointSnapshot)]
    BY Zenon, <1>9, <1>11 DEF TypeOK, RollbackToSavepoint
  <2>3. /\ snap.scheduledTaskOpsLen \in Nat
        /\ \A e \in Entity : snap.supersededLens[e] \in Nat
        /\ snap.buffer \in [Entity -> Val \cup {None}]
        /\ snap.readSet \subseteq Entity
        /\ snap.writeSet \subseteq Entity
        /\ snap.deletes \subseteq Entity
    BY Zenon, <2>1 DEF savepointSnapshot
  <2>4. /\ buffer' = [buffer EXCEPT ![t] = snap.buffer]
        /\ readSet' = [readSet EXCEPT ![t] = snap.readSet]
        /\ writeSet' = [writeSet EXCEPT ![t] = snap.writeSet]
        /\ deletes' = [deletes EXCEPT ![t] = snap.deletes]
        /\ scheduledTaskOps' = [scheduledTaskOps EXCEPT ![t] =
             Truncate(scheduledTaskOps[t], snap.scheduledTaskOpsLen)]
        /\ supersededSaves' = [supersededSaves EXCEPT ![t] =
             [e \in Entity |-> Truncate(supersededSaves[t][e],
                                        snap.supersededLens[e])]]
    BY Zenon, <1>11 DEF RollbackToSavepoint
  <2> HIDE DEF snap
  <2>5. scheduledTaskOps' \in [Tx -> Seq(scheduledTaskOp)]
    <3>1. Truncate(scheduledTaskOps[t], snap.scheduledTaskOpsLen)
            \in Seq(scheduledTaskOp)
      BY Zenon, <2>3, TruncateType DEF TypeOK
    <3> QED
      BY <2>4, <3>1 DEF TypeOK
  <2>6. supersededSaves' \in [Tx -> [Entity -> Seq(Val)]]
    <3>1. \A e \in Entity : Truncate(supersededSaves[t][e],
                                     snap.supersededLens[e]) \in Seq(Val)
      <4> TAKE e \in Entity
      <4>1. supersededSaves[t][e] \in Seq(Val)
        BY DEF TypeOK
      <4> QED
        BY Zenon, <2>3, <4>1, TruncateType
    <3> QED
      BY Zenon, <2>4, <3>1 DEF TypeOK
  <2>7. /\ buffer' \in [Tx -> [Entity -> Val \cup {None}]]
        /\ readSet' \in [Tx -> SUBSET Entity]
        /\ writeSet' \in [Tx -> SUBSET Entity]
        /\ deletes' \in [Tx -> SUBSET Entity]
    BY Zenon, <2>3, <2>4 DEF TypeOK
  <2> QED
    BY Zenon, <1>0, <1>11, <2>2, <2>5, <2>6, <2>7 DEF TypeOK, RollbackToSavepoint
<1>12. ASSUME NEW e \in Entity, Get(t, e)
       PROVE  TypeOK'
  BY Zenon, <1>5, <1>12 DEF Get
<1>13. ASSUME NEW e \in Entity, Delete(t, e)
       PROVE  TypeOK'
  BY Zenon, <1>6, <1>13 DEF Delete
<1>14. ASSUME NEW page \in SUBSET Entity, GetPage(t, page)
       PROVE  TypeOK'
  BY <1>5, <1>14 DEF GetPage
<1>15. CASE DeleteAll(t)
  <2>1. SnapshotIDs(t) \cup Buffered(t) \in SUBSET Entity
    BY DEF SnapshotIDs, Buffered
  <2> QED
    BY <1>6, <1>15, <2>1 DEF DeleteAll
<1> QED
  BY Zenon, <1>2, <1>3, <1>4, <1>7, <1>8, <1>10, <1>11, <1>12, <1>13, <1>14, <1>15
  DEF BoundedCall, StoreCall

(* The staged ops leave each task armed by some transaction or absent. *)
LEMMA TasksAfterType ==
  ASSUME TypeOK, NEW t \in Tx
  PROVE  TasksAfter(t) \in [Task -> Tx \cup {None}]
<1> DEFINE ops == scheduledTaskOps[t]
<1>1. ops \in Seq(scheduledTaskOp)
  BY DEF TypeOK
<1>2. ASSUME NEW i \in DOMAIN ops
      PROVE  ops[i].task \in Tx \cup {None}
  <2>1. ops[i] \in scheduledTaskOp
    BY <1>1
  <2> QED
    BY <2>1 DEF scheduledTaskOp
<1>3. scheduledTasks \in [Task -> Tx \cup {None}]
  BY DEF TypeOK
<1>4. TasksAfter(t) =
        [k \in Task |->
           IF \E i \in DOMAIN ops : IsLastOp(ops, k, i)
             THEN ops[CHOOSE i \in DOMAIN ops : IsLastOp(ops, k, i)].task
             ELSE scheduledTasks[k]]
  BY DEF TasksAfter
<1> HIDE DEF ops
<1>5. \A k \in Task : (\E i \in DOMAIN ops : IsLastOp(ops, k, i)) =>
        (CHOOSE i \in DOMAIN ops : IsLastOp(ops, k, i)) \in DOMAIN ops
  BY Zenon
<1> QED
  BY Zenon, <1>2, <1>3, <1>4, <1>5

(* Begin, Commit and Rollback keep the types. *)
LEMMA TypeEnds ==
  ASSUME TypeOK, NEW t \in Tx, UNCHANGED calls,
         \/ \E now \in ClockReadings : Begin(t, now)
         \/ CommitMark(t) \/ RollbackCheck(t)
         \/ CommitStep(t)
         \/ RollbackApply(t)
  PROVE  TypeOK'
<1> USE ValueAssumption DEF mgrVars, stageVars, txVars, storeVars, callVars,
        ghostVars
<1>1. ASSUME Forget(t)
      PROVE  /\ active' \subseteq Tx /\ committing' \subseteq Tx
             /\ savepoints' \in [Tx -> Seq(savepointSnapshot)]
             /\ txUniqueKeys' \in [Tx -> [Entity -> BOOLEAN]]
             /\ txSnapshotSeq' \in [Tx -> Nat]
             /\ supersededSaves' \in [Tx -> [Entity -> Seq(Val)]]
             /\ scheduledTaskOps' \in [Tx -> Seq(scheduledTaskOp)]
  <2>1. /\ active \subseteq Tx /\ committing \subseteq Tx
        /\ savepoints \in [Tx -> Seq(savepointSnapshot)]
    BY Zenon DEF TypeOK
  <2>2. /\ active' \subseteq Tx /\ committing' \subseteq Tx
        /\ txSnapshotSeq' \in [Tx -> Nat]
    BY Zenon, <1>1, <2>1, TypeTimes DEF Forget
  <2>3. savepoints' \in [Tx -> Seq(savepointSnapshot)]
    BY <1>1, <2>1 DEF Forget
  <2>4. /\ txUniqueKeys' \in [Tx -> [Entity -> BOOLEAN]]
        /\ supersededSaves' \in [Tx -> [Entity -> Seq(Val)]]
        /\ scheduledTaskOps' \in [Tx -> Seq(scheduledTaskOp)]
    BY <1>1, TypeStaged DEF Forget
  <2> QED
    BY <2>2, <2>3, <2>4
<1>2. ASSUME NEW now \in ClockReadings, Begin(t, now)
      PROVE  TypeOK'
  <2>1. SnapshotAt(now) \in Nat
    BY Zenon, ClockAssumption, TypeTimes DEF SnapshotAt
  <2> QED
    BY Zenon, <1>2, <2>1 DEF Begin, FloorAfterBegin, TypeOK
<1>3. CASE CommitMark(t)
  BY Zenon, <1>3 DEF CommitMark, TypeOK
<1>4. CASE RollbackCheck(t)
  BY Zenon, <1>4 DEF RollbackCheck, TypeOK
<1>5. ASSUME NEW outcome \in Outcome, Abort(t, outcome)
      PROVE  TypeOK'
  BY Zenon, <1>1, <1>5 DEF Abort, TypeOK
<1>6. ASSUME NEW now \in ClockReadings, CommitStamp(t, now)
      PROVE  TypeOK'
  <2>1. nextSubmitTime(now) \in Nat
    BY ClockAssumption, TypeTimes DEF nextSubmitTime
  <2> QED
    BY Zenon, <1>6, <2>1 DEF CommitStamp, TypeOK
<1>7. ASSUME NEW now \in ClockReadings, CommitApply(t, now)
      PROVE  TypeOK'
  <2>1. entityData' \in [Entity -> Seq(entityVersion)]
    <3>1. \A e \in Entity : entityData[e] \o FlushedRows(t, e)
                              \in Seq(entityVersion)
      <4> TAKE e \in Entity
      <4>1. /\ entityData[e] \in Seq(entityVersion)
            /\ FlushedRows(t, e) \in Seq(entityVersion)
        BY Zenon, FlushedRowsType DEF TypeOK
      <4> QED
        BY <4>1
    <3> QED
      BY Zenon, <1>7, <3>1 DEF CommitApply
  <2>2. txIndex' \in [Entity -> [Tx -> Nat]]
    <3>1. \A e \in Entity : recordTxIndex(t, e) \in Nat
      BY BaseVersionType, TypeStore DEF recordTxIndex
    <3>2. txIndex' = [e \in Entity |->
                        [txIndex[e] EXCEPT ![t] = recordTxIndex(t, e)]]
      BY Zenon, <1>7 DEF CommitApply
    <3> QED
      BY Zenon, <3>1, <3>2, TypeStore
  <2>3. \A e \in Buffered(t) : computedClaims(t, e) \subseteq Claim
    <3> TAKE e \in Buffered(t)
    <3>1. buffer[t][e] \in Val
      <4>1. e \in Entity /\ buffer[t][e] # None
        BY Zenon DEF Buffered
      <4>2. buffer \in [Tx -> [Entity -> Val \cup {None}]]
        BY Zenon, TypeHandles
      <4> QED
        BY Zenon, <4>1, <4>2
    <3>2. ClaimsOf[buffer[t][e]] \subseteq Claim
      BY <3>1
    <3> QED
      BY <3>2 DEF computedClaims
  <2>4. uniqueClaims' \in [Claim -> Entity \cup {None}]
    <3>1. \A c \in Claim : (\E e \in Buffered(t) : c \in computedClaims(t, e))
            => (CHOOSE e \in Buffered(t) : c \in computedClaims(t, e))
                 \in Entity
      BY Zenon DEF Buffered
    <3>2. \A c \in Claim : ClaimsAfter(t)[c] \in Entity \cup {None}
      BY Zenon, <3>1, TypeStore DEF ClaimsAfter
    <3> QED
      BY Zenon, <1>7, <3>2 DEF CommitApply, ClaimsAfter
  <2>5. claimsByEntity' \in [Entity -> SUBSET Claim]
    BY Zenon, <1>7, <2>3, TypeStore DEF CommitApply
  <2>6. scheduledTasks' \in [Task -> Tx \cup {None}]
    BY Zenon, <1>7, TasksAfterType DEF CommitApply
  <2>7. /\ committedLog' \subseteq committedTx
        /\ commitSeq' \in Nat
    <3> DEFINE c == [id |-> t, submitTime |-> stamp[t],
                     seq |-> commitSeq + 1, writeSet |-> writeSet[t]]
    <3>1. c \in committedTx
      BY TypeTimes, TypeHandles DEF committedTx
    <3>2. /\ committedLog' = Pruned(committedLog \cup {c}, active \ {t})
          /\ commitSeq' = commitSeq + 1
      BY Zenon, <1>7 DEF CommitApply
    <3> HIDE DEF c
    <3> QED
      BY <3>1, <3>2, TypeTimes, TypeLogs DEF Pruned
  <2>8. /\ DOMAIN submitTimes' \subseteq Tx
        /\ \A u \in DOMAIN submitTimes' : submitTimes'[u] \in Nat
    BY Zenon, <1>7 DEF CommitApply, TypeOK
  <2>9. /\ pc' \in [Tx -> {"none", "open", "marked", "stamped", "done"}]
        /\ told' \in [Tx -> SUBSET Outcome]
    BY Zenon, <1>7 DEF CommitApply, TypeOK, Outcome
  <2>10. history' \subseteq [id : Tx, snapshotTime : Nat, submitTime : Nat,
                             seq : Nat, readSet : SUBSET Entity,
                             writeSet : SUBSET Entity]
    <3> DEFINE R == [id : Tx, snapshotTime : Nat, submitTime : Nat, seq : Nat,
                     readSet : SUBSET Entity, writeSet : SUBSET Entity]
               h == [id |-> t, snapshotTime |-> snapshotTime[t],
                     submitTime |-> stamp[t], seq |-> commitSeq + 1,
                     readSet |-> readSet[t], writeSet |-> writeSet[t]]
    <3>1. h \in R
      BY TypeTimes, TypeHandles
    <3>2. history' = history \cup {h} /\ history \subseteq R
      BY Zenon, <1>7, TypeLogs DEF CommitApply
    <3> QED
      BY Zenon, <3>1, <3>2
  <2>11. Forget(t) /\ UNCHANGED <<lastSubmitTime, snapshotTime, txVars, stamp,
                                  rollbackWaiting, seen>>
    BY Zenon, <1>7 DEF CommitApply
  <2> QED
    BY Zenon, <1>1, <2>1, <2>2, <2>4, <2>5, <2>6, <2>7, <2>8, <2>9, <2>10, <2>11
    DEF TypeOK
<1>8. CASE RollbackApply(t)
  BY Zenon, <1>1, <1>8 DEF RollbackApply, TypeOK, Outcome
<1> QED
  BY Zenon, <1>2, <1>3, <1>4, <1>5, <1>6, <1>7, <1>8
  DEF CommitStep, CommitConflict, CommitPartialKey, CommitUnique, Outcome

(* Every variable keeps its type through every transaction-manager and     *)
(* entity-store call.                                                      *)
THEOREM TypeCorrect == Spec => []TypeOK
<1>1. TypeOK /\ [Next]_vars => TypeOK'
  <2> SUFFICES ASSUME TypeOK, [Next]_vars
               PROVE  TypeOK'
    OBVIOUS
  <2>1. ASSUME NEW t \in Tx, TxNext(t)
        PROVE  TypeOK'
    BY Zenon, <2>1, TypeCalls, TypeEnds DEF TxNext
  <2>2. CASE UNCHANGED vars
    BY Zenon, <2>2 DEF vars, mgrVars, stageVars, txVars, storeVars, callVars,
               ghostVars, TypeOK
  <2> QED
    BY <2>1, <2>2 DEF Next
<1> QED
  BY <1>1, TypeInit, PTL DEF Spec

-----------------------------------------------------------------------------
(* What the calls made in a transaction leave alone *)

(* A store or savepoint call leaves the manager, the snapshots, the calls  *)
(* in progress and the store alone.  It leaves the footprint of a          *)
(* transaction alone whose commit holds OpMu, and reads the store only     *)
(* when entityMu is free.                                                  *)
LEMMA CallFrame ==
  ASSUME TypeOK, NEW t \in Tx, BoundedCall(t)
  PROVE  /\ UNCHANGED <<mgrVars, snapshotTime, storeVars, callVars, history>>
         /\ \A u \in Tx : pc[u] = "stamped" =>
              readSet'[u] = readSet[u] /\ writeSet'[u] = writeSet[u]
         /\ \/ seen' = seen
            \/ \E E \in SUBSET Entity :
                 /\ pc[t] # "none" /\ EntityMuFree
                 /\ seen' = [seen EXCEPT ![t] = @ \cup
                      {<<e, getSnapshotVersion(e, snapshotTime[t])>> : e \in E}]
<1> DEFINE Frame ==
      /\ UNCHANGED <<mgrVars, snapshotTime, storeVars, callVars, history>>
      /\ \A u \in Tx : pc[u] = "stamped" =>
           readSet'[u] = readSet[u] /\ writeSet'[u] = writeSet[u]
      /\ \/ seen' = seen
         \/ \E E \in SUBSET Entity :
              /\ pc[t] # "none" /\ EntityMuFree
              /\ seen' = [seen EXCEPT ![t] = @ \cup
                   {<<e, getSnapshotVersion(e, snapshotTime[t])>> : e \in E}]
<1> USE DEF ghostVars, txVars, stageVars
<1>1. ASSUME NEW e \in Entity, NEW v, NEW k, InTx(t), BufferWrite(t, e, v, k)
      PROVE  Frame
  BY Zenon, <1>1 DEF BufferWrite, InTx, OpMuFree, TypeOK
<1>2. ASSUME NEW E \in SUBSET Entity, InTx(t), StageDeletes(t, E)
      PROVE  Frame
  BY Zenon, <1>2 DEF StageDeletes, InTx, OpMuFree, TypeOK
<1>3. ASSUME NEW E \in SUBSET Entity, InTx(t), AddReads(t, E),
             EntityMuFree \/ E \ Buffered(t) = {}
      PROVE  Frame
  <2>1. /\ UNCHANGED <<mgrVars, snapshotTime, storeVars, callVars, history>>
        /\ \A u \in Tx : pc[u] = "stamped" =>
             readSet'[u] = readSet[u] /\ writeSet'[u] = writeSet[u]
    BY <1>3 DEF AddReads, InTx, OpMuFree, TypeOK
  <2>2. CASE EntityMuFree
    <3>1. pc[t] # "none" /\ E \ Buffered(t) \in SUBSET Entity
      BY Zenon, <1>3 DEF InTx
    <3>2. seen' = [seen EXCEPT ![t] = @ \cup
            {<<e, getSnapshotVersion(e, snapshotTime[t])>> :
               e \in E \ Buffered(t)}]
      BY Zenon, <1>3 DEF AddReads
    <3> QED
      BY Zenon, <2>1, <2>2, <3>1, <3>2
  <2>3. CASE E \ Buffered(t) = {}
    <3>1. {<<e, getSnapshotVersion(e, snapshotTime[t])>> :
             e \in E \ Buffered(t)} = {}
      BY <2>3
    <3>2. seen' = [seen EXCEPT ![t] = seen[t] \cup {}]
      BY Zenon, <1>3, <3>1 DEF AddReads
    <3>3. seen' = seen
      BY Zenon, <3>2 DEF TypeOK
    <3> QED
      BY Zenon, <2>1, <3>3
  <2> QED
    BY Zenon, <1>3, <2>2, <2>3
<1>4. ASSUME NEW k \in Task, NEW task, StageTask(t, k, task)
      PROVE  Frame
  BY Zenon, <1>4 DEF StageTask
<1>5. CASE Savepoint(t)
  BY Zenon, <1>5 DEF Savepoint
<1>6. CASE ReleaseSavepoint(t)
  BY Zenon, <1>6 DEF ReleaseSavepoint
<1>7. CASE RollbackToSavepoint(t)
  BY Zenon, <1>7 DEF RollbackToSavepoint, InTx, OpMuFree, TypeOK
<1>8. ASSUME NEW e \in Entity, Get(t, e)
      PROVE  Frame
  BY Zenon, <1>3, <1>8 DEF Get, Buffered
<1>9. ASSUME NEW page \in SUBSET Entity, GetPage(t, page)
      PROVE  Frame
  BY Zenon, <1>3, <1>9 DEF GetPage
<1>10. ASSUME NEW e \in Entity, Delete(t, e)
       PROVE  Frame
  BY Zenon, <1>2, <1>10 DEF Delete
<1>11. CASE DeleteAll(t)
  <2>1. SnapshotIDs(t) \cup Buffered(t) \in SUBSET Entity
    BY Zenon DEF SnapshotIDs, Buffered
  <2> QED
    BY Zenon, <1>2, <1>11, <2>1 DEF DeleteAll
<1>12. ASSUME NEW e \in Entity, NEW v, NEW k, NEW x,
              Save(t, e, v, k) \/ CompareAndSave(t, e, v, k, x)
       PROVE  Frame
  BY Zenon, <1>1, <1>12 DEF Save, CompareAndSave
<1>13. ASSUME NEW e \in Entity, FireSave(t, e)
       PROVE  Frame
  BY Zenon, <1>12, <1>13 DEF FireSave
<1> QED
  BY Zenon, <1>4, <1>5, <1>6, <1>7, <1>8, <1>9, <1>10, <1>11, <1>12, <1>13
  DEF BoundedCall, StoreCall

-----------------------------------------------------------------------------
(* What a transaction has staged *)

Committed(t) == told[t] = {"committed"}

(* A write set names what is buffered or deleted. *)
WritesExact(writes, docs, gone) ==
  \A e \in Entity : e \in writes <=> docs[e] # None \/ e \in gone

(* A transaction is told its outcome when it is done, its write set is     *)
(* exact, in every savepoint too, and it stages tasks only in its own name.*)
HandleInv ==
  /\ \A t \in Tx : pc[t] # "done" => told[t] = {}
  /\ \A t \in Tx : WritesExact(writeSet[t], buffer[t], deletes[t])
  /\ \A t \in Tx : \A i \in DOMAIN savepoints[t] :
       WritesExact(savepoints[t][i].writeSet, savepoints[t][i].buffer,
                   savepoints[t][i].deletes)
  /\ \A t \in Tx : \A i \in DOMAIN scheduledTaskOps[t] :
       scheduledTaskOps[t][i].task \in {t, None}

LEMMA HandleInit == Init => HandleInv
<1> SUFFICES ASSUME Init
             PROVE  HandleInv
  BY Zenon
<1>1. ASSUME NEW t \in Tx
      PROVE  /\ told[t] = {} /\ writeSet[t] = {} /\ deletes[t] = {}
             /\ \A e \in Entity : buffer[t][e] = None
             /\ savepoints[t] = << >> /\ scheduledTaskOps[t] = << >>
  BY DEF Init
<1>2. \A t \in Tx : WritesExact(writeSet[t], buffer[t], deletes[t])
  BY Zenon, <1>1 DEF WritesExact
<1>3. \A t \in Tx : DOMAIN savepoints[t] = {} /\ DOMAIN scheduledTaskOps[t] = {}
  BY <1>1
<1> QED
  BY Zenon, <1>1, <1>2, <1>3 DEF HandleInv

(* Truncating keeps a prefix. *)
LEMMA TruncatePrefix ==
  ASSUME NEW S, NEW s \in Seq(S), NEW n \in Nat
  PROVE  /\ Len(Truncate(s, n)) = IF n < Len(s) THEN n ELSE Len(s)
         /\ \A i \in DOMAIN Truncate(s, n) :
              i \in DOMAIN s /\ Truncate(s, n)[i] = s[i]
<1>1. CASE n < Len(s)
  <2>1. /\ Len(SubSeq(s, 1, n)) = n
        /\ DOMAIN SubSeq(s, 1, n) = 1..n
        /\ \A i \in 1..n : SubSeq(s, 1, n)[i] = s[i]
    BY <1>1
  <2> QED
    BY <1>1, <2>1 DEF Truncate
<1> QED
  BY Zenon, <1>1 DEF Truncate

(* No call touches what a transaction has staged before it has begun, once *)
(* its commit holds OpMu or when it has ended.                             *)
LEMMA HeldFrame ==
  ASSUME TypeOK, NEW t \in Tx, BoundedCall(t),
         NEW u \in Tx, pc[u] \in {"none", "stamped"} \/ told[u] # {}
  PROVE  /\ buffer'[u] = buffer[u] /\ deletes'[u] = deletes[u]
         /\ writeSet'[u] = writeSet[u] /\ readSet'[u] = readSet[u]
         /\ supersededSaves'[u] = supersededSaves[u]
         /\ txUniqueKeys'[u] = txUniqueKeys[u]
         /\ told[u] = {} => scheduledTaskOps'[u] = scheduledTaskOps[u]
<1> DEFINE Held ==
      /\ buffer'[u] = buffer[u] /\ deletes'[u] = deletes[u]
      /\ writeSet'[u] = writeSet[u] /\ readSet'[u] = readSet[u]
      /\ supersededSaves'[u] = supersededSaves[u]
      /\ txUniqueKeys'[u] = txUniqueKeys[u]
      /\ told[u] = {} => scheduledTaskOps'[u] = scheduledTaskOps[u]
<1> USE DEF txVars, stageVars
<1>1. InTx(t) => u # t
  BY Zenon DEF InTx, OpMuFree, Closed
<1>2. ASSUME NEW e \in Entity, NEW v, NEW k, NEW x,
             Save(t, e, v, k) \/ CompareAndSave(t, e, v, k, x)
      PROVE  Held
  <2>1. InTx(t) /\ BufferWrite(t, e, v, k)
    BY Zenon, <1>2 DEF Save, CompareAndSave
  <2>2. deletes'[u] = deletes[u]
    BY Zenon, <1>1, <1>2, <2>1, TypeHandles DEF Save, CompareAndSave
  <2> QED
    BY Zenon, <1>1, <2>1, <2>2, TypeHandles, TypeStaged DEF BufferWrite
<1>3. ASSUME NEW E \in SUBSET Entity, InTx(t), StageDeletes(t, E)
      PROVE  Held
  BY Zenon, <1>1, <1>3, TypeHandles DEF StageDeletes
<1>4. ASSUME NEW E \in SUBSET Entity, InTx(t), AddReads(t, E)
      PROVE  Held
  BY Zenon, <1>1, <1>4, TypeHandles DEF AddReads
<1>5. ASSUME NEW k \in Task, NEW task, StageTask(t, k, task)
      PROVE  Held
  BY Zenon, <1>5, TypeStaged DEF StageTask, OpMuFree
<1>6. CASE Savepoint(t)
  BY Zenon, <1>6 DEF Savepoint
<1>7. CASE ReleaseSavepoint(t)
  BY Zenon, <1>7 DEF ReleaseSavepoint
<1>8. CASE RollbackToSavepoint(t)
  BY <1>1, <1>8, TypeHandles, TypeStaged DEF RollbackToSavepoint
<1>9. ASSUME NEW e \in Entity, FireSave(t, e)
      PROVE  Held
  BY Zenon, <1>2, <1>9 DEF FireSave
<1>10. ASSUME NEW e \in Entity, Get(t, e) \/ Delete(t, e)
       PROVE  Held
  BY Zenon, <1>3, <1>4, <1>10 DEF Get, Delete
<1>11. ASSUME NEW page \in SUBSET Entity, GetPage(t, page)
       PROVE  Held
  BY Zenon, <1>4, <1>11 DEF GetPage
<1>12. CASE DeleteAll(t)
  <2>1. SnapshotIDs(t) \cup Buffered(t) \in SUBSET Entity
    BY Zenon DEF SnapshotIDs, Buffered
  <2> QED
    BY Zenon, <1>3, <1>12, <2>1 DEF DeleteAll
<1> QED
  BY Zenon, <1>2, <1>5, <1>6, <1>7, <1>8, <1>9, <1>10, <1>11, <1>12
  DEF BoundedCall, StoreCall

(* A call keeps write sets exact: what it buffers or deletes it enters, and *)
(* what it restores from a savepoint was exact there.                       *)
LEMMA HandleCalls ==
  ASSUME TypeOK, HandleInv, NEW t \in Tx, BoundedCall(t)
  PROVE  HandleInv'
<1> DEFINE Exact == \A u \in Tx :
             WritesExact(writeSet'[u], buffer'[u], deletes'[u])
           SavedExact == \A u \in Tx : \A i \in DOMAIN savepoints'[u] :
             WritesExact(savepoints'[u][i].writeSet, savepoints'[u][i].buffer,
                         savepoints'[u][i].deletes)
           OwnTasks == \A u \in Tx : \A i \in DOMAIN scheduledTaskOps'[u] :
             scheduledTaskOps'[u][i].task \in {u, None}
<1> USE DEF txVars, stageVars
<1>1. \A u \in Tx : pc'[u] # "done" => told'[u] = {}
  BY Zenon, CallFrame DEF callVars, HandleInv
<1>2. (writeSet' = writeSet /\ buffer' = buffer /\ deletes' = deletes) => Exact
  BY Zenon DEF HandleInv
<1>3. savepoints' = savepoints => SavedExact
  BY Zenon DEF HandleInv
<1>4. scheduledTaskOps' = scheduledTaskOps => OwnTasks
  BY Zenon DEF HandleInv
<1>5. ASSUME NEW e \in Entity, NEW v \in Val, NEW k, NEW x,
             Save(t, e, v, k) \/ CompareAndSave(t, e, v, k, x)
      PROVE  Exact /\ SavedExact /\ OwnTasks
  <2>1. /\ buffer' = [buffer EXCEPT ![t][e] = v]
        /\ writeSet' = [writeSet EXCEPT ![t] = @ \cup {e}]
        /\ UNCHANGED <<scheduledTaskOps, savepoints>>
    BY Zenon, <1>5 DEF Save, CompareAndSave, BufferWrite
  <2>2. \A u \in Tx : u # t => deletes'[u] = deletes[u]
    BY Zenon, <1>5, TypeHandles DEF Save, CompareAndSave
  <2>3. deletes'[t] \ {e} = deletes[t] \ {e}
    BY Zenon, <1>5, TypeHandles DEF Save, CompareAndSave
  <2>4. v # None
    BY Zenon, ValueAssumption
  <2>5. ASSUME NEW u \in Tx, NEW f \in Entity
        PROVE  f \in writeSet'[u] <=> buffer'[u][f] # None \/ f \in deletes'[u]
    <3>1. f \in writeSet[u] <=> buffer[u][f] # None \/ f \in deletes[u]
      BY Zenon DEF HandleInv, WritesExact
    <3>2. CASE u # t
      BY Zenon, <2>1, <2>2, <3>1, <3>2, TypeHandles
    <3>3. CASE u = t /\ f # e
      BY Zenon, <2>1, <2>3, <3>1, <3>3, TypeHandles
    <3>4. CASE u = t /\ f = e
      BY Zenon, <2>1, <2>4, <3>4, TypeHandles
    <3> QED
      BY Zenon, <3>2, <3>3, <3>4
  <2> QED
    BY Zenon, <1>3, <1>4, <2>1, <2>5 DEF WritesExact
<1>6. ASSUME NEW E \in SUBSET Entity, StageDeletes(t, E)
      PROVE  Exact /\ SavedExact /\ OwnTasks
  <2>1. /\ deletes' = [deletes EXCEPT ![t] = @ \cup E]
        /\ buffer' = [buffer EXCEPT ![t] =
                        [e \in Entity |-> IF e \in E THEN None ELSE buffer[t][e]]]
        /\ writeSet' = [writeSet EXCEPT ![t] = @ \cup E]
        /\ UNCHANGED <<scheduledTaskOps, savepoints>>
    BY Zenon, <1>6 DEF StageDeletes
  <2>2. ASSUME NEW u \in Tx, NEW f \in Entity
        PROVE  f \in writeSet'[u] <=> buffer'[u][f] # None \/ f \in deletes'[u]
    <3>1. f \in writeSet[u] <=> buffer[u][f] # None \/ f \in deletes[u]
      BY Zenon DEF HandleInv, WritesExact
    <3> QED
      BY Zenon, <2>1, <3>1, TypeHandles
  <2> QED
    BY Zenon, <1>3, <1>4, <2>1, <2>2 DEF WritesExact
<1>7. ASSUME NEW E \in SUBSET Entity, AddReads(t, E)
      PROVE  Exact /\ SavedExact /\ OwnTasks
  BY Zenon, <1>2, <1>3, <1>4, <1>7 DEF AddReads
<1>8. ASSUME NEW k \in Task, NEW task \in {t, None}, StageTask(t, k, task)
      PROVE  Exact /\ SavedExact /\ OwnTasks
  <2> DEFINE op == [id |-> k, task |-> task]
  <2>1. /\ scheduledTaskOps' = [scheduledTaskOps EXCEPT ![t] = Append(@, op)]
        /\ UNCHANGED <<writeSet, buffer, deletes, savepoints>>
    BY Zenon, <1>8 DEF StageTask
  <2>2. op.task = task
    BY Zenon
  <2> HIDE DEF op
  <2>3. ASSUME NEW u \in Tx, NEW i \in DOMAIN scheduledTaskOps'[u]
        PROVE  scheduledTaskOps'[u][i].task \in {u, None}
    <3>1. CASE u # t
      BY Zenon, <2>1, <2>3, <3>1, TypeStaged DEF HandleInv
    <3>2. CASE u = t
      <4>1. scheduledTaskOps'[t] = Append(scheduledTaskOps[t], op)
        BY Zenon, <2>1, TypeStaged
      <4>2. CASE i \in DOMAIN scheduledTaskOps[t]
        <5>1. scheduledTaskOps'[t][i] = scheduledTaskOps[t][i]
          BY <4>1, <4>2, TypeStaged
        <5> QED
          BY Zenon, <3>2, <4>2, <5>1 DEF HandleInv
      <4>3. CASE i \notin DOMAIN scheduledTaskOps[t]
        <5>1. scheduledTaskOps'[t][i] = op
          BY <2>3, <3>2, <4>1, <4>3, TypeStaged
        <5> QED
          BY Zenon, <1>8, <2>2, <3>2, <5>1
      <4> QED
        BY Zenon, <4>2, <4>3
    <3> QED
      BY Zenon, <3>1, <3>2
  <2> QED
    BY Zenon, <1>2, <1>3, <2>1, <2>3
<1>9. ASSUME Savepoint(t)
      PROVE  Exact /\ SavedExact /\ OwnTasks
  <2> DEFINE snap == [buffer |-> buffer[t], readSet |-> readSet[t],
        writeSet |-> writeSet[t], deletes |-> deletes[t],
        scheduledTaskOpsLen |-> Len(scheduledTaskOps[t]),
        supersededLens |-> [e \in Entity |-> Len(supersededSaves[t][e])],
        staged |-> [ops |-> scheduledTaskOps[t],
                    saves |-> supersededSaves[t]]]
  <2>1. /\ savepoints' = [savepoints EXCEPT ![t] = Append(@, snap)]
        /\ UNCHANGED <<writeSet, buffer, deletes, scheduledTaskOps>>
    BY Zenon, <1>9 DEF Savepoint
  <2>2. WritesExact(snap.writeSet, snap.buffer, snap.deletes)
    BY Zenon DEF HandleInv
  <2> HIDE DEF snap
  <2>3. ASSUME NEW u \in Tx, NEW i \in DOMAIN savepoints'[u]
        PROVE  WritesExact(savepoints'[u][i].writeSet,
                           savepoints'[u][i].buffer, savepoints'[u][i].deletes)
    <3>0. savepoints \in [Tx -> Seq(savepointSnapshot)]
      BY Zenon DEF TypeOK
    <3>1. CASE u # t
      BY Zenon, <2>1, <2>3, <3>0, <3>1 DEF HandleInv
    <3>2. CASE u = t
      <4>1. savepoints'[t] = Append(savepoints[t], snap)
        BY Zenon, <2>1, <3>0
      <4>2. CASE i \in DOMAIN savepoints[t]
        <5>1. savepoints'[t][i] = savepoints[t][i]
          BY <3>0, <4>1, <4>2
        <5> QED
          BY Zenon, <3>2, <4>2, <5>1 DEF HandleInv
      <4>3. CASE i \notin DOMAIN savepoints[t]
        <5>1. savepoints'[t][i] = snap
          BY <2>3, <3>0, <3>2, <4>1, <4>3
        <5> QED
          BY Zenon, <2>2, <3>2, <5>1
      <4> QED
        BY Zenon, <4>2, <4>3
    <3> QED
      BY <3>1, <3>2
  <2> QED
    BY Zenon, <1>2, <1>4, <2>1, <2>3
<1>10. ASSUME savepoints[t] # << >>,
              savepoints' = [savepoints EXCEPT ![t] = Pop(@)]
       PROVE  SavedExact
  <2>0. savepoints \in [Tx -> Seq(savepointSnapshot)]
    BY Zenon DEF TypeOK
  <2> SUFFICES ASSUME NEW u \in Tx, NEW i \in DOMAIN savepoints'[u]
               PROVE  i \in DOMAIN savepoints[u]
                      /\ savepoints'[u][i] = savepoints[u][i]
    BY Zenon DEF HandleInv
  <2>1. savepoints'[t] = Pop(savepoints[t])
        /\ \A w \in Tx : w # t => savepoints'[w] = savepoints[w]
    BY Zenon, <1>10, <2>0
  <2>2. \A j \in DOMAIN Pop(savepoints[t]) :
          j \in DOMAIN savepoints[t]
          /\ Pop(savepoints[t])[j] = savepoints[t][j]
    BY <1>10, <2>0 DEF Pop
  <2> QED
    BY <2>1, <2>2
<1>11. ASSUME ReleaseSavepoint(t)
       PROVE  Exact /\ SavedExact /\ OwnTasks
  BY Zenon, <1>2, <1>4, <1>10, <1>11 DEF ReleaseSavepoint
<1>12. ASSUME RollbackToSavepoint(t)
       PROVE  Exact /\ SavedExact /\ OwnTasks
  <2> DEFINE n == Len(savepoints[t])
             snap == savepoints[t][n]
  <2>0. savepoints \in [Tx -> Seq(savepointSnapshot)]
    BY Zenon DEF TypeOK
  <2>1. /\ savepoints[t] # << >>
        /\ buffer' = [buffer EXCEPT ![t] = snap.buffer]
        /\ writeSet' = [writeSet EXCEPT ![t] = snap.writeSet]
        /\ deletes' = [deletes EXCEPT ![t] = snap.deletes]
        /\ scheduledTaskOps' = [scheduledTaskOps EXCEPT ![t] =
             Truncate(scheduledTaskOps[t], snap.scheduledTaskOpsLen)]
        /\ savepoints' = [savepoints EXCEPT ![t] = Pop(@)]
    BY Zenon, <1>12 DEF RollbackToSavepoint
  <2>2. n \in DOMAIN savepoints[t] /\ snap \in savepointSnapshot
    BY <2>0, <2>1
  <2>3. /\ WritesExact(snap.writeSet, snap.buffer, snap.deletes)
        /\ snap.scheduledTaskOpsLen \in Nat
    BY Zenon, <2>2 DEF HandleInv, savepointSnapshot
  <2> HIDE DEF n, snap
  <2>4. Exact
    <3> SUFFICES ASSUME NEW u \in Tx
                 PROVE  WritesExact(writeSet'[u], buffer'[u], deletes'[u])
      BY Zenon
    <3>1. CASE u = t
      BY Zenon, <2>1, <2>3, <3>1, TypeHandles
    <3>2. CASE u # t
      BY Zenon, <2>1, <3>2, TypeHandles DEF HandleInv
    <3> QED
      BY Zenon, <3>1, <3>2
  <2>5. OwnTasks
    <3>1. \A i \in DOMAIN Truncate(scheduledTaskOps[t],
                                   snap.scheduledTaskOpsLen) :
            /\ i \in DOMAIN scheduledTaskOps[t]
            /\ Truncate(scheduledTaskOps[t], snap.scheduledTaskOpsLen)[i]
                 = scheduledTaskOps[t][i]
      BY Zenon, <2>3, TruncatePrefix, TypeStaged
    <3>2. /\ scheduledTaskOps'[t] =
               Truncate(scheduledTaskOps[t], snap.scheduledTaskOpsLen)
          /\ \A u \in Tx : u # t => scheduledTaskOps'[u] = scheduledTaskOps[u]
      BY <2>1, TypeStaged
    <3> QED
      BY <3>1, <3>2 DEF HandleInv
  <2> QED
    BY Zenon, <1>10, <2>1, <2>4, <2>5
<1>13. Exact /\ SavedExact /\ OwnTasks
  <2>1. ASSUME NEW e \in Entity, FireSave(t, e)
        PROVE  Exact /\ SavedExact /\ OwnTasks
    <3>1. TxView(t, e) \in Val \cup {None}
      BY Zenon, TxViewType
    <3>2. TxView(t, e) \in Val
      BY Zenon, <2>1, <3>1 DEF FireSave
    <3> QED
      BY Zenon, <1>5, <2>1, <3>2 DEF FireSave
  <2>2. ASSUME NEW e \in Entity, Get(t, e) \/ Delete(t, e)
        PROVE  Exact /\ SavedExact /\ OwnTasks
    BY Zenon, <1>6, <1>7, <2>2 DEF Get, Delete
  <2>3. ASSUME NEW page \in SUBSET Entity, GetPage(t, page)
        PROVE  Exact /\ SavedExact /\ OwnTasks
    BY Zenon, <1>7, <2>3 DEF GetPage
  <2>4. CASE DeleteAll(t)
    <3>1. SnapshotIDs(t) \cup Buffered(t) \in SUBSET Entity
      BY Zenon DEF SnapshotIDs, Buffered
    <3> QED
      BY Zenon, <1>6, <2>4, <3>1 DEF DeleteAll
  <2> HIDE DEF Exact, SavedExact, OwnTasks
  <2> QED
    BY Zenon, <1>5, <1>8, <1>9, <1>11, <1>12, <2>1, <2>2, <2>3, <2>4
    DEF BoundedCall, StoreCall
<1> QED
  BY Zenon, <1>1, <1>13 DEF HandleInv

(* Begin and the ways out of a transaction keep it: none of them touches a *)
(* write set, and an outcome is told where pc becomes done.                *)
LEMMA HandleEnds ==
  ASSUME TypeOK, IsolationInv, HandleInv, NEW t \in Tx,
         \/ \E now \in ClockReadings :
              Begin(t, now) \/ CommitStamp(t, now) \/ CommitApply(t, now)
         \/ CommitMark(t) \/ RollbackCheck(t) \/ RollbackApply(t)
         \/ \E outcome \in Outcome : AtCommit(t) /\ Abort(t, outcome)
  PROVE  HandleInv'
<1> DEFINE Kept == UNCHANGED <<scheduledTaskOps, savepoints>>
           Cleared == /\ scheduledTaskOps' =
                           [scheduledTaskOps EXCEPT ![t] = << >>]
                      /\ savepoints' = [savepoints EXCEPT ![t] = << >>]
<1>1. /\ UNCHANGED <<writeSet, buffer, deletes>>
      /\ Kept \/ Cleared
  BY Zenon DEF Begin, CommitStamp, CommitApply, CommitMark, RollbackCheck,
         RollbackApply, Abort, Forget, txVars, stageVars
<1>2. \A u \in Tx : pc'[u] # "done" => told'[u] = {}
  <2> SUFFICES ASSUME NEW u \in Tx, pc'[u] # "done"
               PROVE  told'[u] = {}
    BY Zenon
  <2>1. told \in [Tx -> SUBSET Outcome]
    BY Zenon DEF TypeOK
  <2>2. CASE told' = told
    <3>1. pc[u] # "done"
      BY Zenon, <2>2, TypeTimes
      DEF Begin, CommitStamp, CommitApply, CommitMark, RollbackCheck,
          RollbackApply, Abort, AtCommit, IsolationInv
    <3> QED
      BY Zenon, <2>2, <3>1 DEF HandleInv
  <2>3. CASE \/ \E now : CommitApply(t, now)
             \/ \E outcome \in Outcome : AtCommit(t) /\ Abort(t, outcome)
             \/ RollbackApply(t)
    <3>0. RollbackApply(t) => pc[t] = "open"
      BY DEF RollbackApply, IsolationInv
    <3>1. /\ pc' = [pc EXCEPT ![t] = "done"]
          /\ \A w \in Tx : w # t => told'[w] = told[w]
      BY Zenon, <2>1, <2>3, <3>0 DEF CommitApply, Abort, RollbackApply
    <3>2. u # t /\ pc[u] # "done"
      BY Zenon, <3>1, TypeTimes
    <3> QED
      BY Zenon, <3>1, <3>2 DEF HandleInv
  <2> QED
    BY Zenon, <2>2, <2>3 DEF Begin, CommitStamp, CommitMark, RollbackCheck
<1>3. \A u \in Tx : \A i \in DOMAIN scheduledTaskOps'[u] :
        scheduledTaskOps'[u][i].task \in {u, None}
  <2>1. ASSUME Cleared, NEW u \in Tx, NEW i \in DOMAIN scheduledTaskOps'[u]
        PROVE  u # t /\ scheduledTaskOps'[u] = scheduledTaskOps[u]
    BY <2>1, TypeStaged
  <2> QED
    BY Zenon, <1>1, <2>1 DEF HandleInv
<1>4. \A u \in Tx : \A i \in DOMAIN savepoints'[u] :
        WritesExact(savepoints'[u][i].writeSet, savepoints'[u][i].buffer,
                    savepoints'[u][i].deletes)
  <2>0. savepoints \in [Tx -> Seq(savepointSnapshot)]
    BY Zenon DEF TypeOK
  <2>1. ASSUME Cleared, NEW u \in Tx, NEW i \in DOMAIN savepoints'[u]
        PROVE  u # t /\ savepoints'[u] = savepoints[u]
    BY <2>0, <2>1
  <2> QED
    BY Zenon, <1>1, <2>1 DEF HandleInv
<1> QED
  BY Zenon, <1>1, <1>2, <1>3, <1>4 DEF HandleInv

LEMMA HandleStep ==
  ASSUME TypeOK, IsolationInv, HandleInv, [Next]_vars
  PROVE  HandleInv'
<1>1. ASSUME NEW t \in Tx, TxNext(t)
      PROVE  HandleInv'
  <2>1. CASE BoundedCall(t)
    BY Zenon, <2>1, HandleCalls
  <2>2. CASE CommitConflict(t) \/ CommitPartialKey(t) \/ CommitUnique(t)
    BY Zenon, <2>2, HandleEnds
    DEF CommitConflict, CommitPartialKey, CommitUnique, Outcome
  <2> QED
    BY Zenon, <1>1, <2>1, <2>2, HandleEnds DEF TxNext, CommitStep
<1>2. CASE UNCHANGED vars
  BY Zenon, <1>2 DEF vars, txVars, stageVars, callVars, HandleInv
<1> QED
  BY Zenon, <1>1, <1>2 DEF Next

-----------------------------------------------------------------------------
(* The steps that leave the store alone *)

(* A step that is no CommitApply: no row, index entry, claim, task or      *)
(* submit time changes, nor who has committed; a transaction that is       *)
(* stamped was stamped with the same staged writes before, or is stamped   *)
(* now, above the floor and with no other commit between stamp and record. *)
Quiet ==
  /\ UNCHANGED <<storeVars, submitTimes, history>>
  /\ \A t \in Tx : Committed(t)' <=> Committed(t)
  /\ \A t \in Tx : Committed(t) =>
       writeSet'[t] = writeSet[t] /\ stamp'[t] = stamp[t]
  /\ lastSubmitTime' >= lastSubmitTime
  /\ \A t \in Tx : pc'[t] = "stamped" =>
       \/ pc[t] = "stamped" /\ stamp'[t] = stamp[t]
       \/ pc[t] # "stamped" /\ EntityMuFree /\ stamp'[t] > lastSubmitTime

LEMMA QuietStep ==
  ASSUME TypeOK, IsolationInv, HandleInv, [Next]_vars
  PROVE  Quiet \/ \E t \in Tx, now \in ClockReadings : CommitApply(t, now)
<1>0. /\ told \in [Tx -> SUBSET Outcome] /\ rollbackWaiting \subseteq Tx
      /\ lastSubmitTime >= lastSubmitTime
      /\ \A u \in Tx : Committed(u) => pc[u] = "done"
  <2>1. told \in [Tx -> SUBSET Outcome] /\ rollbackWaiting \subseteq Tx
    BY Zenon DEF TypeOK
  <2> QED
    BY <2>1, TypeTimes DEF HandleInv, Committed
<1> USE DEF storeVars
<1>1. ASSUME NEW t \in Tx, BoundedCall(t)
      PROVE  Quiet
  <2>1. UNCHANGED <<mgrVars, storeVars, callVars, history>>
    BY Zenon, <1>1, CallFrame
  <2>2. ASSUME NEW u \in Tx, Committed(u)
        PROVE  writeSet'[u] = writeSet[u]
    BY Zenon, <1>1, <2>2, HeldFrame DEF Committed
  <2> QED
    BY Zenon, <1>0, <2>1, <2>2 DEF Quiet, Committed, mgrVars, callVars
<1>2. ASSUME NEW t \in Tx, NEW now \in ClockReadings, Begin(t, now)
      PROVE  Quiet
  <2>1. SnapshotAt(now) >= lastSubmitTime
    BY ClockAssumption, TypeTimes DEF SnapshotAt
  <2> QED
    BY Zenon, <1>2, <2>1, TypeTimes
    DEF Begin, FloorAfterBegin, Quiet, Committed, txVars, ghostVars
<1>3. ASSUME NEW t \in Tx, CommitMark(t) \/ RollbackCheck(t)
      PROVE  Quiet
  BY Zenon, <1>0, <1>3, TypeTimes
  DEF CommitMark, RollbackCheck, Quiet, Committed, txVars, ghostVars, mgrVars
<1>4. ASSUME NEW t \in Tx,
             \/ RollbackApply(t)
             \/ \E outcome \in Outcome \ {"committed"} :
                  AtCommit(t) /\ Abort(t, outcome)
      PROVE  Quiet
  <2>1. told[t] = {}
    BY Zenon, <1>4 DEF RollbackApply, AtCommit, IsolationInv, HandleInv
  <2>2. /\ ~Committed(t) /\ ~Committed(t)'
        /\ \A u \in Tx : u # t => told'[u] = told[u]
    BY Zenon, <1>0, <1>4, <2>1 DEF RollbackApply, Abort, Committed
  <2>3. \A u \in Tx : pc'[u] = "stamped" => pc[u] = "stamped"
    BY Zenon, <1>4, TypeTimes DEF RollbackApply, Abort
  <2> QED
    BY Zenon, <1>0, <1>4, <2>2, <2>3
    DEF RollbackApply, Abort, Quiet, Committed, txVars, ghostVars
<1>5. ASSUME NEW t \in Tx, NEW now \in ClockReadings, CommitStamp(t, now)
      PROVE  Quiet
  <2>1. nextSubmitTime(now) \in Nat /\ nextSubmitTime(now) > lastSubmitTime
        /\ nextSubmitTime(now) >= lastSubmitTime
    BY ClockAssumption, TypeTimes DEF nextSubmitTime
  <2>2. pc[t] = "marked" /\ EntityMuFree
    BY Zenon, <1>5 DEF CommitStamp, AtCommit
  <2>3. \A u \in Tx : Committed(u) => u # t
    BY Zenon, <1>0, <2>2
  <2>4. \A u \in Tx : pc'[u] = "stamped" => u = t
    BY Zenon, <1>5, <2>2, TypeTimes DEF CommitStamp, EntityMuFree
  <2> QED
    BY Zenon, <1>5, <2>1, <2>2, <2>3, <2>4, TypeTimes
    DEF CommitStamp, Quiet, Committed, txVars, ghostVars
<1>6. CASE UNCHANGED vars
  BY Zenon, <1>0, <1>6
  DEF vars, mgrVars, txVars, callVars, ghostVars, Quiet, Committed
<1>7. ASSUME NEW t \in Tx,
             CommitConflict(t) \/ CommitPartialKey(t) \/ CommitUnique(t)
      PROVE  Quiet
  <2>1. {"conflict", "partialKey", "unique"} \subseteq Outcome \ {"committed"}
    BY DEF Outcome
  <2> QED
    BY <1>4, <1>7, <2>1 DEF CommitConflict, CommitPartialKey, CommitUnique
<1> QED
  BY Zenon, <1>1, <1>2, <1>3, <1>4, <1>5, <1>6, <1>7 DEF Next, TxNext, CommitStep

=============================================================================
