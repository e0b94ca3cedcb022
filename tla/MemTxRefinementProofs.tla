------------------------ MODULE MemTxRefinementProofs ------------------------
(***************************************************************************)
(* Every behaviour of MemTx, with rows, stamps, a pruned log and locks, is *)
(* a behaviour of SnapshotIsolation, which has none of them.               *)
(***************************************************************************)
EXTENDS MemTxRefinement, MemTxStoreProofs

-----------------------------------------------------------------------------
(* What the mapping needs beyond MemTxInv *)

(* Every commit is on record, a transaction has read nothing before it     *)
(* begins, and one that is done was told so.                               *)
RefineInv ==
  /\ \A t \in Tx : Committed(t) =>
       \E h \in history : h.submitTime = stamp[t] /\ h.writeSet = writeSet[t]
  /\ \A t \in Tx : pc[t] = "none" => readSet[t] = {}
  /\ \A t \in Tx : pc[t] = "done" => told[t] # {}

LEMMA RefineInit == Init => RefineInv
  BY DEF Init, RefineInv, Committed

(* Every step keeps it. *)
LEMMA RefineStep ==
  ASSUME MemTxInv, RefineInv, [Next]_vars
  PROVE  RefineInv'
<1>0. TypeOK /\ IsolationInv /\ HandleInv /\ told \in [Tx -> SUBSET Outcome]
  <2>1. TypeOK /\ IsolationInv /\ HandleInv
    BY DEF MemTxInv
  <2> QED
    BY <2>1, Zenon DEF TypeOK
<1>1. \A t \in Tx : Committed(t)' =>
        \E h \in history' : h.submitTime = stamp'[t]
                            /\ h.writeSet = writeSet'[t]
  <2>1. CASE Quiet
    BY <2>1 DEF Quiet, RefineInv
  <2>2. ASSUME NEW t \in Tx, NEW now, CommitApply(t, now)
        PROVE  \A u \in Tx : Committed(u)' =>
                 \E h \in history' : h.submitTime = stamp'[u]
                                     /\ h.writeSet = writeSet'[u]
    <3> DEFINE rec == [id |-> t, snapshotTime |-> snapshotTime[t],
                       submitTime |-> stamp[t], seq |-> commitSeq + 1,
                       readSet |-> readSet[t], writeSet |-> writeSet[t]]
    <3>1. /\ history' = history \cup {rec}
          /\ UNCHANGED <<stamp, writeSet>>
          /\ told' = [told EXCEPT ![t] = @ \cup {"committed"}]
      BY Zenon, <2>2 DEF CommitApply, txVars
    <3>2. rec.submitTime = stamp[t] /\ rec.writeSet = writeSet[t]
      BY Zenon
    <3> HIDE DEF rec
    <3> QED
      BY Zenon, <1>0, <3>1, <3>2 DEF RefineInv, Committed
  <2> QED
    BY Zenon, <1>0, <2>1, <2>2, QuietStep
<1>2. ASSUME NEW t \in Tx, TxNext(t), NEW u \in Tx
      PROVE  /\ pc'[u] = "none" => readSet'[u] = {}
             /\ pc'[u] = "done" => told'[u] # {}
  <2>1. CASE BoundedCall(t)
    <3>1. UNCHANGED <<pc, told>>
      BY Zenon, <1>0, <2>1, CallFrame DEF callVars
    <3>2. pc[u] = "none" => readSet'[u] = readSet[u]
      BY Zenon, <1>0, <2>1, HeldFrame
    <3> QED
      BY Zenon, <3>1, <3>2 DEF RefineInv
  <2>2. CASE \/ \E now \in ClockReadings : Begin(t, now) \/ CommitStamp(t, now)
             \/ CommitMark(t) \/ RollbackCheck(t)
    <3>1. /\ UNCHANGED <<readSet, told>>
          /\ pc'[u] \in {"none", "done"} => pc'[u] = pc[u]
      BY Zenon, <1>0, <2>2, TypeTimes
      DEF Begin, CommitStamp, CommitMark, RollbackCheck, txVars
    <3> QED
      BY Zenon, <3>1 DEF RefineInv
  <2>3. CASE \/ \E now \in ClockReadings : CommitApply(t, now)
             \/ CommitConflict(t) \/ CommitPartialKey(t) \/ CommitUnique(t)
             \/ RollbackApply(t)
    <3>1. /\ UNCHANGED readSet
          /\ pc'[u] = "none" => pc[u] = "none"
      BY Zenon, <1>0, <2>3, TypeTimes
      DEF CommitApply, CommitConflict, CommitPartialKey, CommitUnique, Abort,
          RollbackApply, txVars
    <3>2. told'[t] # {}
      <4>1. \E o \in Outcome : told' = [told EXCEPT ![t] = @ \cup {o}]
        BY Zenon, <2>3
        DEF CommitApply, CommitConflict, CommitPartialKey, CommitUnique, Abort,
            RollbackApply, Outcome
      <4> QED
        BY <1>0, <4>1
    <3>3. u # t => pc'[u] = pc[u] /\ told'[u] = told[u]
      BY Zenon, <1>0, <2>3, TypeTimes
      DEF CommitApply, CommitConflict, CommitPartialKey, CommitUnique, Abort,
          RollbackApply
    <3> QED
      BY Zenon, <3>1, <3>2, <3>3 DEF RefineInv
  <2> QED
    BY Zenon, <1>2, <2>1, <2>2, <2>3 DEF TxNext, CommitStep
<1>3. CASE UNCHANGED vars
  BY <1>3 DEF vars, txVars, callVars, ghostVars, RefineInv, Committed
<1> QED
  BY Zenon, <1>1, <1>2, <1>3 DEF Next, RefineInv

-----------------------------------------------------------------------------
(* The mapped rows *)

(* They are rows, at or below the floor. *)
LEMMA DataRows ==
  ASSUME MemTxInv, NEW e \in Entity
  PROVE  /\ Data(e) \in Seq(entityVersion)
         /\ \A i \in DOMAIN Data(e) : Data(e)[i].submitTime <= lastSubmitTime
<1>0. TypeOK /\ IsolationInv /\ StoreInv
  BY DEF MemTxInv
<1>1. /\ entityData[e] \in Seq(entityVersion)
      /\ \A i \in DOMAIN entityData[e] :
           entityData[e][i].submitTime <= lastSubmitTime
  <2>1. entityData[e] \in Seq(entityVersion)
    BY Zenon, <1>0, TypeStore
  <2>2. ASSUME NEW i \in DOMAIN entityData[e]
        PROVE  entityData[e][i].submitTime <= lastSubmitTime
    <3>1. entityData[e][i].tx \in Tx
      <4>1. entityData[e][i] \in entityVersion
        BY <2>1
      <4> QED
        BY <4>1 DEF entityVersion
    <3> QED
      BY Zenon, <1>0, <3>1 DEF StoreInv
  <2> QED
    BY <2>1, <2>2
<1>2. CASE Stamped = {}
  BY Zenon, <1>1, <1>2 DEF Data
<1>3. CASE Stamped # {}
  <2> DEFINE t == CHOOSE t \in Stamped : TRUE
             new == FlushedRows(t, e)
  <2>1. t \in Tx /\ pc[t] = "stamped"
    BY <1>3 DEF Stamped
  <2>2. Data(e) = entityData[e] \o new
    BY <1>3 DEF Data
  <2> HIDE DEF t
  <2>3. /\ new \in Seq(entityVersion)
        /\ \A k \in DOMAIN new : new[k].submitTime = stamp[t]
    <3>1. IsFlush(new, BaseVersion(entityData[e]), t, e)
      BY Zenon, <1>0, <2>1, FlushedShape
    <3> HIDE DEF new
    <3> QED
      BY <3>1 DEF IsFlush
  <2>4. stamp[t] <= lastSubmitTime
    BY Zenon, <1>0, <2>1 DEF IsolationInv
  <2> HIDE DEF new
  <2> QED
    BY <1>1, <2>2, <2>3, <2>4, AppendSplit
<1> QED
  BY <1>2, <1>3

(* They stay where neither the store nor the commit in progress changes. *)
LEMMA DataKept ==
  ASSUME entityData' = entityData, Stamped' = Stamped,
         \A u \in Stamped :
           /\ buffer'[u] = buffer[u] /\ deletes'[u] = deletes[u]
           /\ supersededSaves'[u] = supersededSaves[u]
           /\ stamp'[u] = stamp[u]
  PROVE  \A e \in Entity : Data(e)' = Data(e)
<1>1. CASE Stamped = {}
  BY Zenon, <1>1 DEF Data
<1>2. CASE Stamped # {}
  <2>1. PICK t \in Stamped : /\ t = (CHOOSE u \in Stamped : TRUE)
                             /\ t = (CHOOSE u \in Stamped : TRUE)'
    BY Zenon, <1>2
  <2>2. ASSUME NEW e \in Entity
        PROVE  FlushedRows(t, e)' = FlushedRows(t, e)
    BY Zenon DEF FlushedRows
  <2>3. ASSUME NEW e \in Entity
        PROVE  Data(e)' = Data(e)
    <3>1. Data(e) = entityData[e] \o FlushedRows(t, e)
      BY <1>2, <2>1 DEF Data
    <3>2. Data(e)' = entityData'[e] \o FlushedRows(t, e)'
      BY <1>2, <2>1 DEF Data
    <3> QED
      BY Zenon, <2>2, <3>1, <3>2
  <2> QED
    BY <2>3
<1> QED
  BY Zenon, <1>1, <1>2

(* A snapshot time no row is above gives the last row of each entity. *)
LEMMA SnapshotAll ==
  ASSUME NEW rows \in Seq(entityVersion), NEW time \in Nat,
         \A i \in DOMAIN rows : rows[i].submitTime <= time
  PROVE  SnapshotOf(rows, time) = LastVal(rows)
<1>1. CASE rows = << >>
  BY <1>1 DEF SnapshotOf, LastVal
<1>2. CASE rows # << >>
  <2>1. Len(rows) \in DOMAIN rows /\ DOMAIN rows = 1..Len(rows)
        /\ Len(rows) \in Nat
    BY <1>2
  <2>2. IsSnapshotRow(rows, Len(rows), time)
    BY <2>1 DEF IsSnapshotRow
  <2>3. (CHOOSE i \in DOMAIN rows : IsSnapshotRow(rows, i, time)) = Len(rows)
    BY <2>1, <2>2, SnapshotRowUnique
  <2> QED
    BY Zenon, <1>2, <2>1, <2>2, <2>3 DEF SnapshotOf, LastVal
<1> QED
  BY Zenon, <1>1, <1>2

(* The mapped database holds documents. *)
LEMMA DbType ==
  ASSUME MemTxInv
  PROVE  db \in [Entity -> Val \cup {None}]
<1> SUFFICES ASSUME NEW e \in Entity
             PROVE  LastVal(Data(e)) \in Val \cup {None}
  BY DEF db
<1>1. Data(e) \in Seq(entityVersion)
  BY DataRows
<1>2. CASE Data(e) = << >>
  BY <1>2 DEF LastVal
<1>3. CASE Data(e) # << >>
  <2>1. Data(e)[Len(Data(e))] \in entityVersion
    BY <1>1, <1>3
  <2> QED
    BY <1>3, <2>1 DEF LastVal, entityVersion
<1> QED
  BY <1>2, <1>3

-----------------------------------------------------------------------------
(* Each step maps to a step or a stutter *)

(* The mapped variables are functions of the transactions. *)
LEMMA MapFunctions ==
  /\ phase = [t \in Tx |-> phase[t]] /\ phase' = [t \in Tx |-> phase'[t]]
  /\ snap = [t \in Tx |-> snap[t]] /\ snap' = [t \in Tx |-> snap'[t]]
  /\ missed = [t \in Tx |-> missed[t]] /\ missed' = [t \in Tx |-> missed'[t]]
  /\ reads = [t \in Tx |-> reads[t]] /\ reads' = [t \in Tx |-> reads'[t]]
<1>1. phase = [t \in Tx |-> phase[t]] /\ phase' = [t \in Tx |-> phase'[t]]
  BY DEF phase
<1>2. snap = [t \in Tx |-> snap[t]] /\ snap' = [t \in Tx |-> snap'[t]]
  BY Zenon DEF snap
<1>3. missed = [t \in Tx |-> missed[t]] /\ missed' = [t \in Tx |-> missed'[t]]
  BY Zenon DEF missed
<1>4. reads = [t \in Tx |-> reads[t]] /\ reads' = [t \in Tx |-> reads'[t]]
  BY Zenon DEF reads
<1> QED
  BY <1>1, <1>2, <1>3, <1>4

(* Without new rows a transaction that stays open, or stays not open, sees *)
(* and misses what it did.                                                 *)
LEMMA ViewKept ==
  ASSUME \A e \in Entity : Data(e)' = Data(e), NEW u \in Tx,
         Uncommitted(u)' <=> Uncommitted(u),
         Uncommitted(u) => snapshotTime'[u] = snapshotTime[u]
  PROVE  snap'[u] = snap[u] /\ missed'[u] = missed[u]
<1>1. CASE Uncommitted(u)
  BY Zenon, <1>1 DEF snap, missed
<1>2. CASE ~Uncommitted(u)
  BY Zenon, <1>2 DEF snap, missed
<1> QED
  BY Zenon, <1>1, <1>2

(* A step that adds no row and ends or begins nothing stutters or reads. *)
LEMMA ReadOrStutter ==
  ASSUME \A e \in Entity : Data(e)' = Data(e),
         UNCHANGED snapshotTime, phase' = phase,
         readSet' \in [Tx -> SUBSET Entity],
         \A u \in Tx : Uncommitted(u)' <=> Uncommitted(u),
         NEW t \in Tx, \A u \in Tx \ {t} : readSet'[u] = readSet[u],
         Uncommitted(t) \/ readSet'[t] = readSet[t]
  PROVE  [SI!Next]_(SI!vars)
<1>1. /\ db' = db
      /\ \A u \in Tx : snap'[u] = snap[u] /\ missed'[u] = missed[u]
  BY Zenon, ViewKept DEF db
<1>2. snap' = snap /\ missed' = missed
  BY Zenon, <1>1, MapFunctions
<1>3. CASE Uncommitted(t)
  <2>1. reads' = [reads EXCEPT ![t] = readSet'[t]]
    BY Zenon, <1>3 DEF reads
  <2>2. phase[t] = "open"
    BY <1>3 DEF phase, Uncommitted
  <2> QED
    BY Zenon, <1>1, <1>2, <2>1, <2>2 DEF SI!Next, SI!Read
<1>4. CASE readSet'[t] = readSet[t]
  <2>1. reads' = reads
    BY Zenon, <1>4 DEF reads
  <2> QED
    BY <1>1, <1>2, <2>1 DEF SI!vars
<1> QED
  BY Zenon, <1>3, <1>4

LEMMA CallRefines ==
  ASSUME MemTxInv, RefineInv, TypeOK', NEW t \in Tx, BoundedCall(t)
  PROVE  [SI!Next]_(SI!vars)
<1>0. TypeOK /\ HandleInv /\ IsolationInv
  BY Zenon DEF MemTxInv
<1>1. UNCHANGED <<snapshotTime, entityData, pc, told, stamp>>
  BY Zenon, <1>0, CallFrame DEF storeVars, callVars
<1>2. Stamped' = Stamped /\ phase' = phase
      /\ \A u \in Tx : Uncommitted(u)' <=> Uncommitted(u)
  BY Zenon, <1>1 DEF Stamped, phase, Uncommitted
<1>3. \A e \in Entity : Data(e)' = Data(e)
  <2>1. \A u \in Stamped : /\ buffer'[u] = buffer[u]
                           /\ deletes'[u] = deletes[u]
                           /\ supersededSaves'[u] = supersededSaves[u]
                           /\ stamp'[u] = stamp[u]
    BY Zenon, <1>0, <1>1, HeldFrame DEF Stamped
  <2> QED
    BY Zenon, <1>1, <1>2, <2>1, DataKept
<1>4. \A u \in Tx \ {t} : readSet'[u] = readSet[u]
  BY Zenon, <1>0, TypeHandles
  DEF BoundedCall, StoreCall, Save, CompareAndSave, FireSave, BufferWrite, Get,
      GetPage, AddReads, Delete, DeleteAll, StageDeletes, StageTask, Savepoint,
      RollbackToSavepoint, ReleaseSavepoint, txVars
<1>5. Uncommitted(t) \/ readSet'[t] = readSet[t]
  <2>1. ~Uncommitted(t) => pc[t] \in {"none", "stamped"} \/ told[t] # {}
    BY Zenon, <1>0, TypeTimes DEF Uncommitted, RefineInv
  <2> QED
    BY Zenon, <1>0, <2>1, HeldFrame
<1>6. readSet' \in [Tx -> SUBSET Entity]
  BY Zenon DEF TypeOK
<1> QED
  BY Zenon, <1>1, <1>2, <1>3, <1>4, <1>5, <1>6, ReadOrStutter

(* A new transaction sees the whole database and has missed nothing. *)
LEMMA BeginRefines ==
  ASSUME MemTxInv, RefineInv, NEW t \in Tx, NEW now \in ClockReadings,
         Begin(t, now)
  PROVE  SI!Begin(t)
<1>0. TypeOK
  BY Zenon DEF MemTxInv
<1>1. /\ pc[t] = "none" /\ pc' = [pc EXCEPT ![t] = "open"]
      /\ snapshotTime' = [snapshotTime EXCEPT ![t] = SnapshotAt(now)]
      /\ UNCHANGED <<entityData, told, stamp, readSet, buffer, deletes,
                     supersededSaves>>
  BY Zenon DEF Begin, txVars, stageVars, storeVars
<1>2. SnapshotAt(now) \in Nat /\ SnapshotAt(now) >= lastSubmitTime
  BY <1>0, ClockAssumption, TypeTimes DEF SnapshotAt
<1>3. /\ Stamped' = Stamped
      /\ \A u \in Tx : u # t =>
           /\ pc'[u] = pc[u] /\ snapshotTime'[u] = snapshotTime[u]
           /\ Uncommitted(u)' <=> Uncommitted(u)
      /\ ~Uncommitted(t) /\ Uncommitted(t)'
      /\ snapshotTime'[t] = SnapshotAt(now)
  BY Zenon, <1>0, <1>1, TypeTimes DEF Stamped, Uncommitted
<1>4. \A e \in Entity : Data(e)' = Data(e)
  BY Zenon, <1>1, <1>3, DataKept
<1>5. phase[t] = "none" /\ phase' = [phase EXCEPT ![t] = "open"]
  <2>1. phase[t] = "none"
    BY Zenon, <1>1 DEF phase
  <2>2. phase'[t] = "open"
    BY Zenon, <1>0, <1>1, <1>3, TypeTimes DEF phase
  <2>3. \A u \in Tx : u # t => phase'[u] = phase[u]
    BY Zenon, <1>1, <1>3 DEF phase
  <2> QED
    BY Zenon, <2>1, <2>2, <2>3, MapFunctions
<1>6. db' = db
  BY Zenon, <1>4 DEF db
<1>7. \A u \in Tx : u # t => snap'[u] = snap[u] /\ missed'[u] = missed[u]
  BY Zenon, <1>3, <1>4, ViewKept
<1>8. ASSUME NEW e \in Entity
      PROVE  /\ SnapshotOf(Data(e), SnapshotAt(now)) = LastVal(Data(e))
             /\ \A i \in DOMAIN Data(e) :
                  ~(Data(e)[i].submitTime > SnapshotAt(now))
  <2>1. Data(e) \in Seq(entityVersion)
    BY Zenon, DataRows
  <2>2. \A i \in DOMAIN Data(e) :
          Data(e)[i].submitTime \in Nat
          /\ Data(e)[i].submitTime <= lastSubmitTime
    <3>1. \A i \in DOMAIN Data(e) : Data(e)[i] \in entityVersion
      BY <2>1
    <3> QED
      BY Zenon, <3>1, DataRows DEF entityVersion
  <2>3. \A i \in DOMAIN Data(e) :
          /\ Data(e)[i].submitTime <= SnapshotAt(now)
          /\ ~(Data(e)[i].submitTime > SnapshotAt(now))
    BY <1>0, <1>2, <2>2, TypeTimes
  <2> QED
    BY Zenon, <1>2, <2>1, <2>3, SnapshotAll
<1>9. snap'[t] = db
  BY Zenon, <1>3, <1>4, <1>8 DEF snap, db
<1>10. missed'[t] = missed[t]
  <2>1. missed[t] = {}
    BY Zenon, <1>3 DEF missed
  <2>2. missed'[t] = {}
    BY <1>3, <1>4, <1>8 DEF missed
  <2> QED
    BY Zenon, <2>1, <2>2
<1>11. snap' = [snap EXCEPT ![t] = db] /\ missed' = missed
  BY Zenon, <1>7, <1>9, <1>10, MapFunctions
<1>12. reads' = reads
  <2>1. readSet[t] = {}
    BY Zenon, <1>1 DEF RefineInv
  <2> QED
    BY Zenon, <1>1, <1>3, <2>1 DEF reads
<1> QED
  BY Zenon, <1>5, <1>6, <1>11, <1>12 DEF SI!Begin

(* A transaction that ends without a commit leaves nothing. *)
LEMMA AbortRefines ==
  ASSUME MemTxInv, NEW t \in Tx,
         \/ RollbackApply(t)
         \/ \E outcome \in Outcome \ {"committed"} :
              AtCommit(t) /\ Abort(t, outcome)
  PROVE  SI!Abort({t})
<1>0. /\ TypeOK /\ IsolationInv /\ HandleInv
      /\ told \in [Tx -> SUBSET Outcome]
  <2>1. TypeOK /\ IsolationInv /\ HandleInv
    BY Zenon DEF MemTxInv
  <2> QED
    BY <2>1, Zenon DEF TypeOK
<1>1. pc[t] \in {"open", "marked"} /\ told[t] = {}
  BY Zenon, <1>0 DEF RollbackApply, AtCommit, IsolationInv, HandleInv
<1>2. RollbackApply(t) => pc[t] = "open"
  BY Zenon, <1>0 DEF RollbackApply, IsolationInv
<1>3. /\ pc' = [pc EXCEPT ![t] = "done"]
      /\ \E o \in Outcome \ {"committed"} : told' = [told EXCEPT ![t] = {o}]
      /\ supersededSaves' =
           [supersededSaves EXCEPT ![t] = [e \in Entity |-> << >>]]
      /\ UNCHANGED <<entityData, stamp, snapshotTime, readSet, buffer, deletes>>
  <2>1. CASE RollbackApply(t)
    <3>1. "rolledBack" \in Outcome \ {"committed"}
      BY DEF Outcome
    <3>2. told' = [told EXCEPT ![t] = {"rolledBack"}]
      BY <1>1, <2>1 DEF RollbackApply
    <3> QED
      BY Zenon, <1>2, <2>1, <3>1, <3>2
      DEF RollbackApply, Forget, storeVars, txVars
  <2>2. ASSUME NEW o \in Outcome \ {"committed"}, AtCommit(t), Abort(t, o)
        PROVE  /\ pc' = [pc EXCEPT ![t] = "done"]
               /\ told' = [told EXCEPT ![t] = {o}]
               /\ supersededSaves' =
                    [supersededSaves EXCEPT ![t] = [e \in Entity |-> << >>]]
               /\ UNCHANGED <<entityData, stamp, snapshotTime, readSet, buffer,
                              deletes>>
    BY <1>1, <2>2 DEF Abort, Forget, storeVars, txVars
  <2> QED
    BY Zenon, <2>1, <2>2
<1>4. /\ Stamped' = Stamped /\ t \notin Stamped
      /\ \A u \in Tx : u # t =>
           /\ pc'[u] = pc[u] /\ told'[u] = told[u]
           /\ Uncommitted(u)' <=> Uncommitted(u)
      /\ Uncommitted(t) /\ ~Uncommitted(t)'
      /\ pc'[t] = "done" /\ told'[t] # {"committed"}
  BY Zenon, <1>0, <1>1, <1>3, TypeTimes DEF Stamped, Uncommitted
<1>5. \A e \in Entity : Data(e)' = Data(e)
  <2>1. \A u \in Stamped : supersededSaves'[u] = supersededSaves[u]
    BY Zenon, <1>0, <1>3, <1>4, TypeStaged DEF Stamped
  <2> QED
    BY Zenon, <1>3, <1>4, <2>1, DataKept
<1>6. /\ phase[t] = "open" /\ phase'[t] = "aborted"
      /\ \A u \in Tx : u # t => phase'[u] = phase[u]
  BY Zenon, <1>1, <1>4 DEF phase
<1>7. /\ snap'[t] = SI!NoSnap /\ missed'[t] = {} /\ reads'[t] = {}
  BY Zenon, <1>4 DEF snap, missed, reads, SI!NoSnap
<1>8. \A u \in Tx : u # t => /\ snap'[u] = snap[u] /\ missed'[u] = missed[u]
                             /\ reads'[u] = reads[u]
  <2>1. \A u \in Tx : u # t => snap'[u] = snap[u] /\ missed'[u] = missed[u]
    BY Zenon, <1>3, <1>4, <1>5, ViewKept
  <2>2. \A u \in Tx : u # t => reads'[u] = reads[u]
    BY Zenon, <1>3, <1>4 DEF reads
  <2> QED
    BY Zenon, <2>1, <2>2
<1>9. db' = db
  BY Zenon, <1>5 DEF db
<1>10. {t} # {} /\ {t} \subseteq SI!Open
  BY Zenon, <1>6 DEF SI!Open
<1> QED
  BY Zenon, <1>6, <1>7, <1>8, <1>9, <1>10, MapFunctions DEF SI!Abort, SI!Ended

(* Applying the rows of a stamped commit changes nothing anyone can see. *)
LEMMA ApplyRefines ==
  ASSUME MemTxInv, NEW t \in Tx, NEW now, CommitApply(t, now)
  PROVE  UNCHANGED SI!vars
<1>0. /\ TypeOK /\ IsolationInv /\ HandleInv
      /\ told \in [Tx -> SUBSET Outcome]
  <2>1. TypeOK /\ IsolationInv /\ HandleInv
    BY Zenon DEF MemTxInv
  <2> QED
    BY <2>1, Zenon DEF TypeOK
<1>1. /\ pc[t] = "stamped" /\ pc' = [pc EXCEPT ![t] = "done"]
      /\ told' = [told EXCEPT ![t] = @ \cup {"committed"}]
      /\ entityData' = [e \in Entity |-> entityData[e] \o FlushedRows(t, e)]
      /\ UNCHANGED <<snapshotTime, readSet>>
  BY Zenon DEF CommitApply, txVars
<1>2. told[t] = {} /\ \A u \in Tx : pc[u] = "stamped" => u = t
  BY Zenon, <1>0, <1>1 DEF HandleInv, IsolationInv
<1>3. /\ Stamped = {t} /\ Stamped' = {}
      /\ \A u \in Tx : u # t => pc'[u] = pc[u] /\ told'[u] = told[u]
      /\ pc'[t] = "done" /\ told'[t] = {"committed"}
  BY Zenon, <1>0, <1>1, <1>2, TypeTimes DEF Stamped
<1>4. \A e \in Entity : Data(e)' = Data(e)
  <2>1. (CHOOSE u \in Stamped : TRUE) = t
    BY Zenon, <1>3
  <2> QED
    BY Zenon, <1>1, <1>3, <2>1 DEF Data
<1>5. \A u \in Tx : Uncommitted(u)' <=> Uncommitted(u)
  BY Zenon, <1>1, <1>3 DEF Uncommitted
<1>6. \A u \in Tx : /\ snap'[u] = snap[u] /\ missed'[u] = missed[u]
                    /\ phase'[u] = phase[u] /\ reads'[u] = reads[u]
  <2>1. \A u \in Tx : snap'[u] = snap[u] /\ missed'[u] = missed[u]
    BY Zenon, <1>1, <1>4, <1>5, ViewKept
  <2>2. \A u \in Tx : reads'[u] = reads[u]
    BY Zenon, <1>1, <1>5 DEF reads
  <2>3. phase'[t] = "committed" /\ phase[t] = "committed"
    BY Zenon, <1>1, <1>3 DEF phase, Uncommitted
  <2>4. \A u \in Tx : u # t => phase'[u] = phase[u]
    BY Zenon, <1>3, <1>5 DEF phase
  <2> QED
    BY Zenon, <2>1, <2>2, <2>3, <2>4
<1>7. db' = db
  BY Zenon, <1>4 DEF db
<1> QED
  BY Zenon, <1>6, <1>7, MapFunctions DEF SI!vars

(* What FlushedShape and DbType say of a state they say of the next one. *)
LEMMA NextShapes ==
  /\ TypeOK' => \A t \in Tx, e \in Entity :
       /\ FlushedRows(t, e)' \in Seq(entityVersion)
       /\ \A k \in DOMAIN FlushedRows(t, e)' :
            FlushedRows(t, e)'[k].submitTime = stamp'[t]
       /\ DOMAIN FlushedRows(t, e)' # {}
            <=> buffer'[t][e] # None \/ e \in deletes'[t]
  /\ MemTxInv' => db' \in [Entity -> Val \cup {None}]
<1>1. TypeOK => \A t \in Tx, e \in Entity :
        /\ FlushedRows(t, e) \in Seq(entityVersion)
        /\ \A k \in DOMAIN FlushedRows(t, e) :
             FlushedRows(t, e)[k].submitTime = stamp[t]
        /\ DOMAIN FlushedRows(t, e) # {}
             <=> buffer[t][e] # None \/ e \in deletes[t]
  BY FlushedShape DEF IsFlush
<1>2. TypeOK' => (\A t \in Tx, e \in Entity :
        /\ FlushedRows(t, e) \in Seq(entityVersion)
        /\ \A k \in DOMAIN FlushedRows(t, e) :
             FlushedRows(t, e)[k].submitTime = stamp[t]
        /\ DOMAIN FlushedRows(t, e) # {}
             <=> buffer[t][e] # None \/ e \in deletes[t])'
  BY <1>1, PTL
<1>3. MemTxInv => db \in [Entity -> Val \cup {None}]
  BY DbType
<1>4. MemTxInv' => (db \in [Entity -> Val \cup {None}])'
  BY <1>3, PTL
<1> QED
  BY Zenon, <1>2, <1>4

(* A conflict-free footprint meets nothing committed since the snapshot:   *)
(* every row above it belongs to a commit the log still holds.             *)
LEMMA NothingMissed ==
  ASSUME MemTxInv, RefineInv, NEW t \in Tx, Uncommitted(t), EntityMuFree,
         ~Conflicts(t)
  PROVE  Footprint(t) \cap missed[t] = {}
<1>0. TypeOK /\ IsolationInv /\ StoreInv
  BY Zenon DEF MemTxInv
<1> SUFFICES ASSUME NEW e \in missed[t], e \in Footprint(t)
             PROVE  FALSE
  BY Zenon
<1>1. e \in Entity /\ Data(e) = entityData[e]
  BY Zenon DEF missed, Data, Stamped, EntityMuFree
<1>2. PICK i \in DOMAIN entityData[e] :
        entityData[e][i].submitTime > snapshotTime[t]
  BY Zenon, <1>1 DEF missed
<1> DEFINE u == entityData[e][i].tx
<1>3. u \in Tx
  <2>1. entityData[e][i] \in entityVersion
    BY <1>0, <1>1, TypeStore
  <2> QED
    BY Zenon, <2>1 DEF entityVersion
<1>4. Committed(u) /\ entityData[e][i].submitTime = stamp[u]
  BY Zenon, <1>0, <1>1 DEF StoreInv
<1>5. e \in writeSet[u]
  <2>1. i \in RowsOf(u, e)
    BY Zenon DEF RowsOf
  <2> QED
    BY Zenon, <1>0, <1>1, <1>3, <1>4, <2>1 DEF StoreInv, AllOrNothing, Committed
<1> HIDE DEF u
<1>6. PICK h \in history : h.submitTime = stamp[u] /\ h.writeSet = writeSet[u]
  BY Zenon, <1>3, <1>4 DEF RefineInv
<1>7. t \in active
  BY Zenon, <1>0 DEF IsolationInv, Uncommitted
<1>8. PICK c \in committedLog :
        c.writeSet = h.writeSet /\ c.seq > txSnapshotSeq[t]
  BY <1>0, <1>2, <1>4, <1>6, <1>7 DEF IsolationInv, LogCoversOpen
<1> QED
  BY Zenon, <1>5, <1>6, <1>8 DEF Conflicts

(* The stamp is the commit: the database takes the buffered documents and  *)
(* the deletes, every other open transaction misses the write set.         *)
LEMMA StampRefines ==
  ASSUME MemTxInv, RefineInv, MemTxInv', NEW t \in Tx,
         NEW now \in ClockReadings, CommitStamp(t, now)
  PROVE  SI!Commit(t)
<1>0. TypeOK /\ IsolationInv /\ HandleInv /\ TypeOK'
  BY DEF MemTxInv
<1>1. /\ pc[t] = "marked" /\ EntityMuFree /\ ~Conflicts(t)
      /\ pc' = [pc EXCEPT ![t] = "stamped"]
      /\ stamp' = [stamp EXCEPT ![t] = nextSubmitTime(now)]
      /\ UNCHANGED <<entityData, told, snapshotTime, readSet, writeSet, buffer,
                     deletes>>
  BY DEF CommitStamp, AtCommit, txVars, storeVars
<1>2. nextSubmitTime(now) \in Nat /\ nextSubmitTime(now) > lastSubmitTime
  BY <1>0, ClockAssumption, TypeTimes DEF nextSubmitTime
<1>3. /\ Stamped = {} /\ Stamped' = {t}
      /\ \A u \in Tx : u # t =>
           pc'[u] = pc[u] /\ (Uncommitted(u)' <=> Uncommitted(u))
      /\ Uncommitted(t) /\ ~Uncommitted(t)' /\ pc'[t] = "stamped"
      /\ stamp'[t] = nextSubmitTime(now)
  BY <1>0, <1>1, TypeTimes DEF Stamped, Uncommitted, EntityMuFree
<1> DEFINE W == writeSet[t]
           new(e) == FlushedRows(t, e)'
<1>4. \A e \in Entity : /\ Data(e) = entityData[e]
                        /\ Data(e)' = entityData[e] \o new(e)
                        /\ entityData[e] \in Seq(entityVersion)
  <2>1. (CHOOSE u \in Stamped : TRUE)' = t
    BY Zenon, <1>3
  <2>2. \A e \in Entity : Data(e)' = entityData'[e] \o new(e)
    BY Zenon, <1>3, <2>1 DEF Data
  <2> QED
    BY Zenon, <1>0, <1>1, <1>3, <2>2, TypeStore DEF Data
<1>5. \A e \in Entity : /\ new(e) \in Seq(entityVersion)
                        /\ \A k \in DOMAIN new(e) :
                             new(e)[k].submitTime = nextSubmitTime(now)
                        /\ DOMAIN new(e) # {} <=> e \in W
  <2>1. \A e \in Entity : /\ new(e) \in Seq(entityVersion)
                          /\ \A k \in DOMAIN new(e) : new(e)[k].submitTime = stamp'[t]
                          /\ DOMAIN new(e) # {} <=> buffer'[t][e] # None \/ e \in deletes'[t]
    BY Zenon, <1>0, NextShapes
  <2>2. \A e \in Entity : e \in W <=> buffer[t][e] # None \/ e \in deletes[t]
    BY Zenon, <1>0 DEF HandleInv, WritesExact
  <2>3. buffer' = buffer /\ deletes' = deletes /\ stamp'[t] = nextSubmitTime(now)
    BY Zenon, <1>1, <1>3
  <2> HIDE DEF new, W
  <2> QED
    BY ONLY Zenon, <2>1, <2>2, <2>3
<1> HIDE DEF new
<1>6. \A u \in Tx : Uncommitted(u) => /\ snapshotTime[u] \in Nat
                                      /\ snapshotTime[u] < nextSubmitTime(now)
  <2> SUFFICES ASSUME NEW u \in Tx, Uncommitted(u)
               PROVE  snapshotTime[u] \in Nat
                      /\ snapshotTime[u] < nextSubmitTime(now)
    BY Zenon
  <2>1. snapshotTime[u] \in Nat /\ lastSubmitTime \in Nat
    BY Zenon, <1>0, TypeTimes
  <2>2. snapshotTime[u] <= lastSubmitTime
    BY Zenon, <1>0 DEF IsolationInv, Uncommitted
  <2> QED
    BY <1>2, <2>1, <2>2
<1>7. ASSUME NEW e \in Entity \ W
      PROVE  Data(e)' = Data(e)
  <2>1. new(e) = << >>
    BY <1>5
  <2> QED
    BY <1>4, <2>1
<1>8. /\ \A e \in Entity \ W : db'[e] = db[e]
      /\ \A e \in W : db'[e] \in SI!Doc
      /\ DOMAIN db' = Entity
  <2>1. \A e \in Entity \ W : db'[e] = db[e]
    BY Zenon, <1>7 DEF db
  <2>2. W \subseteq Entity
    BY Zenon, <1>0, TypeHandles
  <2> QED
    BY Zenon, <2>1, <2>2, NextShapes DEF SI!Doc
<1>9. ASSUME NEW u \in Tx, u # t, Uncommitted(u)
      PROVE  snap'[u] = snap[u] /\ missed'[u] = missed[u] \cup W
  <2>1. ASSUME NEW e \in Entity
        PROVE  SnapshotOf(Data(e)', snapshotTime[u])
                 = SnapshotOf(Data(e), snapshotTime[u])
    <3>1. \A k \in DOMAIN new(e) : new(e)[k].submitTime > snapshotTime[u]
      BY <1>2, <1>5, <1>6, <1>9
    <3>2. SnapshotOf(entityData[e] \o new(e), snapshotTime[u])
            = SnapshotOf(entityData[e], snapshotTime[u])
      BY Zenon, <1>4, <1>5, <1>6, <1>9, <3>1, SnapshotAppend
    <3> QED
      BY Zenon, <1>4, <3>2
  <2>2. snap'[u] = snap[u]
    BY <1>1, <1>3, <1>9, <2>1 DEF snap
  <2>3. ASSUME NEW e \in Entity
        PROVE  e \in missed'[u] <=> e \in missed[u] \cup W
    <3> DEFINE old == entityData[e]
               all == old \o new(e)
    <3>1. /\ \A i \in DOMAIN old : i \in DOMAIN all /\ all[i] = old[i]
          /\ \A i \in DOMAIN all : i \notin DOMAIN old =>
               i - Len(old) \in DOMAIN new(e)
               /\ all[i] = new(e)[i - Len(old)]
          /\ \A k \in DOMAIN new(e) : /\ Len(old) + k \in DOMAIN all
                                      /\ all[Len(old) + k] = new(e)[k]
      <4>1. old \in Seq(entityVersion) /\ new(e) \in Seq(entityVersion)
        BY Zenon, <1>4, <1>5
      <4> QED BY ONLY <4>1, AppendSplit
    <3>2. e \in missed'[u] <=>
            \E i \in DOMAIN all : all[i].submitTime > snapshotTime[u]
      BY Zenon, <1>1, <1>3, <1>4, <1>9 DEF missed
    <3>3. e \in missed[u] <=>
            \E i \in DOMAIN old : old[i].submitTime > snapshotTime[u]
      BY Zenon, <1>4, <1>9 DEF missed
    <3> HIDE DEF old, all
    <3>4. CASE e \in W
      <4>1. PICK k \in DOMAIN new(e) : TRUE
        BY Zenon, <1>5, <3>4
      <4>2. all[Len(old) + k].submitTime > snapshotTime[u]
        BY <1>2, <1>5, <1>6, <1>9, <3>1
      <4> QED
        BY Zenon, <3>1, <3>2, <3>4, <4>2
    <3>5. CASE e \notin W
      <4>1. DOMAIN new(e) = {}
        BY Zenon, <1>5, <3>5
      <4> QED
        BY Zenon, <3>1, <3>2, <3>3, <3>5, <4>1
    <3> QED
      BY Zenon, <3>4, <3>5
  <2>4. missed'[u] \subseteq Entity /\ missed[u] \subseteq Entity
        /\ W \subseteq Entity
    BY Zenon, <1>0, TypeHandles DEF missed
  <2> QED
    BY Zenon, <2>2, <2>3, <2>4
<1>10. ASSUME NEW u \in Tx, u # t, ~Uncommitted(u)
       PROVE  snap'[u] = snap[u] /\ missed'[u] = missed[u]
  BY Zenon, <1>3, <1>10 DEF snap, missed
<1>11. /\ phase[t] = "open" /\ phase'[t] = "committed"
       /\ \A u \in Tx : u # t => phase'[u] = phase[u]
       /\ \A u \in Tx : u \in SI!Open <=> Uncommitted(u)
  <2>1. phase[t] = "open" /\ phase'[t] = "committed"
    BY Zenon, <1>1, <1>3 DEF phase, Uncommitted
  <2>2. \A u \in Tx : u # t => phase'[u] = phase[u]
    BY Zenon, <1>1, <1>3 DEF phase
  <2>3. \A u \in Tx : phase[u] = "open" <=> Uncommitted(u)
    BY Zenon DEF phase, Uncommitted
  <2> QED
    BY Zenon, <2>1, <2>2, <2>3 DEF SI!Open
<1>12. /\ snap'[t] = SI!NoSnap /\ missed'[t] = {} /\ reads'[t] = {}
       /\ \A u \in Tx : u # t => reads'[u] = reads[u]
  BY Zenon, <1>1, <1>3 DEF snap, missed, reads, SI!NoSnap
<1>13. (W \cup reads[t]) \cap missed[t] = {}
  <2>1. W \cup reads[t] = Footprint(t)
    BY Zenon, <1>3 DEF reads, Footprint
  <2> QED
    BY Zenon, <1>1, <1>3, <2>1, NothingMissed
<1>14. missed' = [u \in Tx |-> IF u \in SI!Open \ {t} THEN missed[u] \cup W
                               ELSE IF u = t THEN {} ELSE missed[u]]
  BY Zenon, <1>9, <1>10, <1>11, <1>12, MapFunctions
<1>15. SI!Ended({t}, "committed")
  BY Zenon, <1>9, <1>10, <1>11, <1>12, MapFunctions DEF SI!Ended
<1>16. W \in SUBSET Entity
  BY Zenon, <1>0, TypeHandles
<1> HIDE DEF W
<1> QED
  BY Zenon, <1>8, <1>11, <1>13, <1>14, <1>15, <1>16 DEF SI!Commit

(* The empty store maps to an initial state. *)
LEMMA InitRefines == Init => SI!Init
<1> SUFFICES ASSUME Init
             PROVE  SI!Init
  BY Zenon
<1>1. \A t \in Tx : pc[t] = "none" /\ ~Uncommitted(t)
  BY Zenon DEF Init, Uncommitted
<1>2. db \in [Entity -> Val \cup {None}]
  <2>1. \A e \in Entity : Data(e) = << >>
    BY Zenon, <1>1 DEF Init, Data, Stamped
  <2> QED
    BY Zenon, <2>1 DEF db, LastVal
<1>3. /\ phase = [t \in Tx |-> "none"] /\ snap = [t \in Tx |-> SI!NoSnap]
      /\ missed = [t \in Tx |-> {}] /\ reads = [t \in Tx |-> {}]
  BY Zenon, <1>1 DEF phase, snap, missed, reads, SI!NoSnap
<1> QED
  BY Zenon, <1>2, <1>3 DEF SI!Init, SI!Doc

LEMMA StepRefines ==
  ASSUME MemTxInv, RefineInv, MemTxInv', [Next]_vars
  PROVE  [SI!Next]_(SI!vars)
<1>0. TypeOK /\ TypeOK'
  BY Zenon DEF MemTxInv
<1>1. ASSUME NEW t \in Tx, TxNext(t)
      PROVE  [SI!Next]_(SI!vars)
  <2>1. CASE BoundedCall(t)
    BY Zenon, <1>0, <2>1, CallRefines
  <2>2. CASE \E now \in ClockReadings : Begin(t, now)
    BY Zenon, <2>2, BeginRefines DEF SI!Next
  <2>3. CASE OwnerFree(t) /\ (CommitMark(t) \/ RollbackCheck(t))
    <3>1. /\ UNCHANGED <<snapshotTime, readSet, entityData, told, stamp,
                         buffer, deletes, supersededSaves>>
          /\ Stamped' = Stamped /\ phase' = phase
          /\ \A u \in Tx : Uncommitted(u)' <=> Uncommitted(u)
      <4>1. /\ UNCHANGED <<snapshotTime, readSet, entityData, told, stamp,
                           buffer, deletes, supersededSaves>>
            /\ \/ pc' = pc
               \/ pc[t] = "open" /\ pc' = [pc EXCEPT ![t] = "marked"]
        BY Zenon, <2>3 DEF CommitMark, RollbackCheck, OwnerFree, txVars, stageVars,
                    storeVars
      <4>2. \A u \in Tx : /\ pc'[u] = "stamped" <=> pc[u] = "stamped"
                          /\ pc'[u] = "none" <=> pc[u] = "none"
                          /\ Uncommitted(u)' <=> Uncommitted(u)
        BY Zenon, <1>0, <4>1, TypeTimes DEF Uncommitted
      <4> QED
        BY Zenon, <4>1, <4>2 DEF Stamped, phase
    <3>2. \A e \in Entity : Data(e)' = Data(e)
      BY Zenon, <3>1, DataKept
    <3>3. readSet' \in [Tx -> SUBSET Entity]
      BY Zenon, <1>0, <3>1, TypeHandles
    <3> QED
      BY Zenon, <3>1, <3>2, <3>3, ReadOrStutter
  <2>4. CASE \/ CommitConflict(t) \/ CommitPartialKey(t) \/ CommitUnique(t)
             \/ RollbackApply(t)
    <3>1. {"conflict", "partialKey", "unique"} \subseteq
            Outcome \ {"committed"}
      BY Zenon DEF Outcome
    <3>2. SI!Abort({t})
      BY Zenon, <2>4, <3>1, AbortRefines
      DEF CommitConflict, CommitPartialKey, CommitUnique
    <3> QED
      BY Zenon, <3>2 DEF SI!Next
  <2>5. CASE \E now \in ClockReadings : CommitStamp(t, now)
    BY <2>5, StampRefines DEF SI!Next
  <2>6. CASE \E now \in ClockReadings : CommitApply(t, now)
    BY <2>6, ApplyRefines
  <2> QED
    BY Zenon, <1>1, <2>1, <2>2, <2>3, <2>4, <2>5, <2>6 DEF TxNext, CommitStep
<1>2. CASE UNCHANGED vars
  <2>1. UNCHANGED <<pc, told, snapshotTime, readSet, entityData, stamp,
                    buffer, deletes, supersededSaves>>
    BY <1>2 DEF vars, txVars, stageVars, storeVars, callVars
  <2>2. \A e \in Entity : Data(e)' = Data(e)
    BY Zenon, <2>1, DataKept DEF Stamped
  <2>3. UNCHANGED <<db, phase, snap, missed, reads>>
    <3>1. \A u \in Tx : Uncommitted(u)' <=> Uncommitted(u)
      BY Zenon, <2>1 DEF Uncommitted
    <3>2. UNCHANGED <<snap, missed>>
      BY Zenon, <2>1, <2>2, <3>1, ViewKept, MapFunctions
    <3> QED
      BY Zenon, <2>1, <2>2, <3>1, <3>2 DEF db, phase, reads
  <2> QED
    BY <2>3 DEF SI!vars
<1> QED
  BY Zenon, <1>1, <1>2 DEF Next

(* The in-memory plugin implements snapshot isolation with                 *)
(* first-committer-wins, for any number of transactions and entities and   *)
(* any clock: each call of the manager and the store is a step of the      *)
(* abstract specification or invisible to it.                              *)
THEOREM MemTxImplementsSI == Spec => ImplementsSI
<1>1. Init => RefineInv /\ SI!Init
  BY Zenon, RefineInit, InitRefines
<1>2. MemTxInv /\ RefineInv /\ [Next]_vars => RefineInv'
  BY Zenon, RefineStep
<1>3. MemTxInv /\ RefineInv /\ MemTxInv' /\ [Next]_vars => [SI!Next]_(SI!vars)
  BY StepRefines
<1> QED
  BY <1>1, <1>2, <1>3, MemTxInvHolds, PTL DEF Spec, ImplementsSI, SI!Spec

=============================================================================
