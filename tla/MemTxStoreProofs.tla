-------------------------- MODULE MemTxStoreProofs ---------------------------
(***************************************************************************)
(* Proofs about what the commits of MemTx leave in the store: rows in      *)
(* order, an index that finds them, and all of a transaction or nothing,   *)
(* for every number of transactions and entities and every clock.          *)
(***************************************************************************)
EXTENDS MemTxIsolationProofs

-----------------------------------------------------------------------------
(* Rows *)

(* What RowsOrdered says of one entity. *)
OrderedRows(rows) ==
  \A i, j \in DOMAIN rows : i < j =>
    /\ rows[i].submitTime <= rows[j].submitTime
    /\ rows[i].submitTime = rows[j].submitTime <=> rows[i].tx = rows[j].tx
    /\ rows[i].val # None /\ rows[j].val # None
         => rows[i].version < rows[j].version

(* Where some row is live one of them is the last. *)
LastLiveExists(rows) ==
  (\E i \in DOMAIN rows : rows[i].val # None)
    => \E i \in DOMAIN rows : IsLastLive(rows, i)

(* The inductive invariant behind RowsOrdered, VersionByTransaction and    *)
(* AllOrNothing: every row belongs to a committed transaction and carries  *)
(* its stamp, stamps of committed transactions are below the stamp of a    *)
(* commit in progress, and only a committed transaction is indexed.        *)
StoreInv ==
  /\ \A e \in Entity : \A i \in DOMAIN entityData[e] :
       /\ Committed(entityData[e][i].tx)
       /\ entityData[e][i].submitTime = stamp[entityData[e][i].tx]
       /\ entityData[e][i].version >= 1
  /\ \A e \in Entity : LastLiveExists(entityData[e])
  /\ \A e \in Entity : OrderedRows(entityData[e])
  /\ \A t \in Tx : Committed(t) =>
       /\ stamp[t] <= lastSubmitTime
       /\ \A u \in Tx : pc[u] = "stamped" => stamp[t] < stamp[u]
  /\ \A e \in Entity, t \in Tx : ~Committed(t) => txIndex[e][t] = 0
  /\ VersionByTransaction
  /\ AllOrNothing

(* An index entry of VersionByTransaction against the rows of its entity. *)
FoundBy(rows, t, index) ==
  LET live == {i \in DOMAIN rows : rows[i].val # None}
      own == {i \in live : rows[i].tx = t}
      hit == {i \in live : rows[i].version = index}
  IN  IF index = 0 THEN own = {}
      ELSE \E i \in hit \cap own : \A j \in hit \cup own : i <= j

LEMMA FoundIs ==
  VersionByTransaction
    <=> \A e \in Entity, t \in Tx : FoundBy(entityData[e], t, txIndex[e][t])
  BY Zenon DEF VersionByTransaction, FoundBy

LEMMA FoundIsNext ==
  VersionByTransaction'
    <=> \A e \in Entity, t \in Tx : FoundBy(entityData'[e], t, txIndex'[e][t])
  BY Zenon DEF VersionByTransaction, FoundBy

(* What a positive entry finds. *)
LEMMA FoundFirst ==
  ASSUME NEW rows, NEW t, NEW index, FoundBy(rows, t, index), index # 0
  PROVE  \E i \in {i \in DOMAIN rows : rows[i].val # None} :
           /\ rows[i].version = index /\ rows[i].tx = t
           /\ \A j \in {j \in DOMAIN rows : rows[j].val # None} :
                rows[j].version = index \/ rows[j].tx = t => i <= j
  BY DEF FoundBy

(* Where the rows of a concatenation come from. *)
LEMMA AppendSplit ==
  ASSUME NEW S, NEW rows \in Seq(S), NEW new \in Seq(S)
  PROVE  /\ rows \o new \in Seq(S)
         /\ Len(rows) \in Nat /\ DOMAIN rows = 1..Len(rows)
         /\ DOMAIN (rows \o new) = 1..(Len(rows) + Len(new))
         /\ \A i \in DOMAIN rows : /\ i \in DOMAIN (rows \o new)
                                   /\ (rows \o new)[i] = rows[i]
         /\ \A i \in DOMAIN (rows \o new) : i \notin DOMAIN rows =>
              /\ i - Len(rows) \in DOMAIN new
              /\ (rows \o new)[i] = new[i - Len(rows)]
              /\ i > Len(rows)
         /\ \A k \in DOMAIN new : /\ Len(rows) + k \in DOMAIN (rows \o new)
                                  /\ (rows \o new)[Len(rows) + k] = new[k]
                                  /\ Len(rows) + k \notin DOMAIN rows
  OBVIOUS

(* The version counter is at or above every live row. *)
LEMMA BaseVersionTop ==
  ASSUME NEW rows \in Seq(entityVersion), OrderedRows(rows),
         LastLiveExists(rows), NEW i \in DOMAIN rows, rows[i].val # None
  PROVE  rows[i].version <= BaseVersion(rows)
<1> DEFINE last == CHOOSE j \in DOMAIN rows : IsLastLive(rows, j)
<1>1. \E j \in DOMAIN rows : IsLastLive(rows, j)
  BY DEF LastLiveExists
<1>2. last \in DOMAIN rows /\ IsLastLive(rows, last)
  BY <1>1
<1>3. BaseVersion(rows) = rows[last].version
  BY <1>1 DEF BaseVersion
<1> HIDE DEF last
<1>4. /\ rows[i].version \in Nat /\ rows[last].version \in Nat
      /\ i \in Nat /\ last \in Nat
  <2>1. rows[i] \in entityVersion /\ rows[last] \in entityVersion
    BY <1>2
  <2> QED
    BY <1>2, <2>1 DEF entityVersion
<1>5. rows[last].val # None /\ ~(i > last)
  BY <1>2 DEF IsLastLive
<1>6. CASE i = last
  BY <1>3, <1>4, <1>6
<1>7. CASE i < last
  BY <1>2, <1>3, <1>4, <1>5, <1>7 DEF OrderedRows
<1> QED
  BY <1>4, <1>5, <1>6, <1>7

(* The rows a commit appends to an entity: its own, with its stamp and     *)
(* consecutive versions above the counter, live when a document is         *)
(* buffered and tombstones otherwise, and some exactly when the entity is  *)
(* written.                                                                *)
IsFlush(new, base, t, e) ==
  /\ new \in Seq(entityVersion) /\ base \in Nat
  /\ \A k \in DOMAIN new :
       /\ k \in Nat /\ k >= 1
       /\ new[k].tx = t /\ new[k].submitTime = stamp[t]
       /\ new[k].version = base + k
       /\ new[k].val # None <=> buffer[t][e] # None
  /\ DOMAIN new # {} <=> buffer[t][e] # None \/ e \in deletes[t]
  /\ DOMAIN new # {} => /\ 1 \in DOMAIN new
                        /\ Len(new) \in DOMAIN new
                        /\ new[Len(new)].val = buffer[t][e]

LEMMA FlushedShape ==
  ASSUME TypeOK, NEW t \in Tx, NEW e \in Entity
  PROVE  IsFlush(FlushedRows(t, e), BaseVersion(entityData[e]), t, e)
<1> DEFINE new == FlushedRows(t, e)
           base == BaseVersion(entityData[e])
           vals == Append(supersededSaves[t][e], buffer[t][e])
<1>1. new \in Seq(entityVersion)
  BY FlushedRowsType
<1>2. base \in Nat
  BY BaseVersionType, TypeStore
<1>3. CASE buffer[t][e] # None
  <2>1. supersededSaves[t][e] \in Seq(Val) /\ buffer[t][e] \in Val
    BY <1>3, TypeStaged, TypeHandles
  <2>2. /\ vals \in Seq(Val) /\ Len(vals) \in Nat /\ Len(vals) >= 1
        /\ DOMAIN vals = 1..Len(vals)
        /\ \A k \in 1..Len(vals) : vals[k] \in Val
        /\ vals[Len(vals)] = buffer[t][e]
    BY <2>1
  <2> HIDE DEF vals, base
  <2>3. new = [k \in 1..Len(vals) |->
                 [val |-> vals[k], version |-> base + k, tx |-> t,
                  submitTime |-> stamp[t]]]
    BY <1>3 DEF FlushedRows, vals, base
  <2> HIDE DEF new
  <2>4. DOMAIN new = 1..Len(vals) /\ Len(new) = Len(vals)
    BY <1>1, <2>2, <2>3
  <2>5. ASSUME NEW k \in DOMAIN new
        PROVE  /\ k \in Nat /\ k >= 1
               /\ new[k].tx = t /\ new[k].submitTime = stamp[t]
               /\ new[k].version = base + k /\ new[k].val = vals[k]
               /\ vals[k] # None
    BY <2>2, <2>3, <2>4, <2>5, ValueAssumption
  <2> QED
    <3>1. IsFlush(new, base, t, e)
      BY <1>1, <1>2, <1>3, <2>2, <2>4, <2>5 DEF IsFlush
    <3> QED
      BY ONLY <3>1 DEF new, base
<1>4. CASE buffer[t][e] = None /\ e \in deletes[t]
  <2> HIDE DEF base
  <2>1. new = << [val |-> None, version |-> base + 1, tx |-> t,
                  submitTime |-> stamp[t]] >>
    BY <1>4 DEF FlushedRows, base
  <2> HIDE DEF new
  <2>2. DOMAIN new = {1} /\ Len(new) = 1
    BY <2>1
  <2>3. /\ new[1].tx = t /\ new[1].submitTime = stamp[t]
        /\ new[1].version = base + 1 /\ new[1].val = None
    BY <2>1
  <2> QED
    <3>1. IsFlush(new, base, t, e)
      BY <1>1, <1>2, <1>4, <2>2, <2>3 DEF IsFlush
    <3> QED
      BY ONLY <3>1 DEF new, base
<1>5. CASE buffer[t][e] = None /\ e \notin deletes[t]
  <2>1. new = << >>
    BY Zenon, <1>5 DEF FlushedRows
  <2> QED
    BY <1>1, <1>2, <1>5, <2>1 DEF IsFlush
<1> QED
  BY ONLY <1>3, <1>4, <1>5

(* Rows of a later transaction with versions above the counter keep the    *)
(* order.                                                                  *)
LEMMA AppendOrdered ==
  ASSUME NEW rows \in Seq(entityVersion), NEW new \in Seq(entityVersion),
         OrderedRows(rows), LastLiveExists(rows), NEW t, NEW time \in Nat,
         \A i \in DOMAIN rows : rows[i].submitTime < time /\ rows[i].tx # t,
         \A k \in DOMAIN new :
           /\ new[k].tx = t /\ new[k].submitTime = time
           /\ new[k].version = BaseVersion(rows) + k
  PROVE  OrderedRows(rows \o new)
<1> DEFINE all == rows \o new
           n == Len(rows)
<1>1. /\ BaseVersion(rows) \in Nat
      /\ \A i \in DOMAIN rows : rows[i].submitTime \in Nat
                                /\ rows[i].version \in Nat
      /\ DOMAIN new = 1..Len(new) /\ Len(new) \in Nat
  <2>1. \A i \in DOMAIN rows : rows[i] \in entityVersion
    OBVIOUS
  <2>2. BaseVersion(rows) \in Nat
    BY Zenon, BaseVersionType
  <2> QED
    BY <2>1, <2>2 DEF entityVersion
<1> SUFFICES ASSUME NEW i \in DOMAIN all, NEW j \in DOMAIN all, i < j
             PROVE  /\ all[i].submitTime <= all[j].submitTime
                    /\ all[i].submitTime = all[j].submitTime
                         <=> all[i].tx = all[j].tx
                    /\ all[i].val # None /\ all[j].val # None
                         => all[i].version < all[j].version
  BY Zenon DEF OrderedRows
<1>2. CASE i \in DOMAIN rows /\ j \in DOMAIN rows
  BY <1>2, AppendSplit DEF OrderedRows
<1>3. CASE i \in DOMAIN rows /\ j \notin DOMAIN rows
  <2>1. all[i] = rows[i]
    BY <1>3, AppendSplit
  <2>2. PICK k \in DOMAIN new : all[j] = new[k]
    BY <1>3, AppendSplit
  <2>3. rows[i].val # None => rows[i].version <= BaseVersion(rows)
    BY <1>3, BaseVersionTop
  <2>4. rows[i].submitTime < time /\ rows[i].tx # t
    BY <1>3
  <2>5. /\ new[k].tx = t /\ new[k].submitTime = time
        /\ new[k].version = BaseVersion(rows) + k
    OBVIOUS
  <2>6. rows[i].submitTime \in Nat /\ rows[i].version \in Nat
        /\ k \in Nat /\ k >= 1 /\ BaseVersion(rows) \in Nat
    BY <1>1, <1>3
  <2>7. /\ rows[i].submitTime <= time /\ rows[i].submitTime # time
        /\ rows[i].val # None => rows[i].version < BaseVersion(rows) + k
    BY ONLY <2>3, <2>4, <2>6, time \in Nat
  <2> QED
    BY Zenon, <2>1, <2>2, <2>4, <2>5, <2>7
<1>4. CASE i \notin DOMAIN rows /\ j \notin DOMAIN rows
  <2>1. /\ i - n \in DOMAIN new /\ all[i] = new[i - n]
        /\ j - n \in DOMAIN new /\ all[j] = new[j - n]
        /\ i \in Nat /\ j \in Nat /\ n \in Nat
    BY <1>4, AppendSplit
  <2>2. /\ all[i].tx = t /\ all[i].submitTime = time
        /\ all[i].version = BaseVersion(rows) + (i - n)
        /\ all[j].tx = t /\ all[j].submitTime = time
        /\ all[j].version = BaseVersion(rows) + (j - n)
    BY <2>1
  <2> QED
    BY <1>1, <2>1, <2>2
<1>5. CASE i \notin DOMAIN rows /\ j \in DOMAIN rows
  <2>1. /\ j <= n /\ i > n /\ i \in Nat /\ j \in Nat /\ n \in Nat
    BY <1>5, AppendSplit
  <2> QED
    BY <2>1
<1> QED
  BY Zenon, <1>2, <1>3, <1>4, <1>5

(* Rows that are all live, or all tombstones, leave a last live row. *)
LEMMA AppendLastLive ==
  ASSUME NEW rows \in Seq(entityVersion), NEW new \in Seq(entityVersion),
         LastLiveExists(rows),
         \/ new # << >> /\ \A k \in DOMAIN new : new[k].val # None
         \/ \A k \in DOMAIN new : new[k].val = None
  PROVE  LastLiveExists(rows \o new)
<1> DEFINE all == rows \o new
           n == Len(rows)
<1>1. CASE new # << >> /\ \A k \in DOMAIN new : new[k].val # None
  <2>1. /\ Len(new) \in DOMAIN new /\ n \in Nat /\ Len(new) \in Nat
        /\ DOMAIN all = 1..(n + Len(new))
    BY <1>1, AppendSplit
  <2>2. n + Len(new) \in DOMAIN all /\ all[n + Len(new)].val # None
    BY <1>1, <2>1, AppendSplit
  <2>3. IsLastLive(all, n + Len(new))
    BY <2>1, <2>2 DEF IsLastLive
  <2> QED
    BY Zenon, <2>2, <2>3 DEF LastLiveExists
<1>2. CASE \A k \in DOMAIN new : new[k].val = None
  <2> SUFFICES ASSUME NEW i \in DOMAIN all, all[i].val # None
               PROVE  \E j \in DOMAIN all : IsLastLive(all, j)
    BY Zenon DEF LastLiveExists
  <2>1. i \in DOMAIN rows /\ rows[i].val # None
    BY <1>2, AppendSplit
  <2>2. PICK j \in DOMAIN rows : IsLastLive(rows, j)
    BY Zenon, <2>1 DEF LastLiveExists
  <2>3. j \in DOMAIN all /\ all[j] = rows[j]
    BY AppendSplit
  <2>4. ASSUME NEW k \in DOMAIN all, k > j
        PROVE  all[k].val = None
    <3>1. CASE k \in DOMAIN rows
      BY <2>2, <2>4, <3>1, AppendSplit DEF IsLastLive
    <3>2. CASE k \notin DOMAIN rows
      BY <1>2, <3>2, AppendSplit
    <3> QED
      BY Zenon, <3>1, <3>2
  <2> QED
    BY Zenon, <2>2, <2>3, <2>4 DEF IsLastLive
<1> QED
  BY Zenon, <1>1, <1>2

-----------------------------------------------------------------------------
(* The store through every step *)

LEMMA StoreInit == Init => StoreInv
<1> SUFFICES ASSUME Init
             PROVE  StoreInv
  OBVIOUS
<1>1. /\ entityData = [e \in Entity |-> << >>]
      /\ txIndex = [e \in Entity |-> [t \in Tx |-> 0]]
      /\ scheduledTasks = [k \in Task |-> None]
      /\ submitTimes = [t \in {} |-> 0]
      /\ told = [t \in Tx |-> {}]
  BY DEF Init
<1>2. \A t \in Tx : ~Committed(t)
  BY <1>1 DEF Committed
<1>3. \A e \in Entity : DOMAIN entityData[e] = {}
  BY <1>1
<1>4. VersionByTransaction
  BY Zenon, <1>1, <1>3 DEF VersionByTransaction
<1>5. AllOrNothing
  <2>1. \A t \in Tx : t \notin DOMAIN submitTimes
                      /\ \A k \in Task : scheduledTasks[k] # t
    BY Zenon, <1>1, ValueAssumption
  <2> QED
    BY Zenon, <1>2, <1>3, <2>1 DEF AllOrNothing, RowsOf, Committed
<1> QED
  BY Zenon, <1>1, <1>2, <1>3, <1>4, <1>5 DEF StoreInv, LastLiveExists, OrderedRows

LEMMA StoreQuiet ==
  ASSUME TypeOK, TypeOK', StoreInv, Quiet
  PROVE  StoreInv'
<1>1. /\ UNCHANGED <<entityData, txIndex, scheduledTasks, submitTimes>>
      /\ \A t \in Tx : Committed(t)' <=> Committed(t)
      /\ \A t \in Tx : Committed(t) =>
           writeSet'[t] = writeSet[t] /\ stamp'[t] = stamp[t]
  BY Zenon DEF Quiet, storeVars
<1>2. ASSUME NEW e \in Entity, NEW i \in DOMAIN entityData'[e]
      PROVE  /\ told'[entityData'[e][i].tx] = {"committed"}
             /\ entityData'[e][i].submitTime = stamp'[entityData'[e][i].tx]
             /\ entityData'[e][i].version >= 1
  <2>1. entityData[e][i].tx \in Tx
    <3>1. entityData[e][i] \in entityVersion
      BY <1>1, <1>2, TypeStore
    <3> QED
      BY <3>1 DEF entityVersion
  <2>2. entityData'[e] = entityData[e] /\ i \in DOMAIN entityData[e]
    BY Zenon, <1>1, <1>2
  <2>3. /\ Committed(entityData[e][i].tx)
        /\ entityData[e][i].submitTime = stamp[entityData[e][i].tx]
        /\ entityData[e][i].version >= 1
    BY Zenon, <2>2 DEF StoreInv
  <2>4. /\ Committed(entityData[e][i].tx)'
        /\ stamp'[entityData[e][i].tx] = stamp[entityData[e][i].tx]
    BY Zenon, <1>1, <2>1, <2>3
  <2> QED
    BY Zenon, <2>2, <2>3, <2>4 DEF Committed
<1>3. ASSUME NEW t \in Tx, Committed(t)'
      PROVE  /\ stamp'[t] <= lastSubmitTime'
             /\ \A u \in Tx : pc'[u] = "stamped" => stamp'[t] < stamp'[u]
  <2>1. /\ Committed(t) /\ stamp'[t] = stamp[t]
        /\ stamp[t] <= lastSubmitTime
    BY Zenon, <1>1, <1>3 DEF StoreInv
  <2>2. /\ stamp[t] \in Nat /\ lastSubmitTime \in Nat
        /\ lastSubmitTime' \in Nat /\ \A u \in Tx : stamp'[u] \in Nat
    BY Zenon DEF TypeOK
  <2>3. stamp'[t] <= lastSubmitTime'
    BY <2>1, <2>2 DEF Quiet
  <2>4. ASSUME NEW u \in Tx, pc'[u] = "stamped"
        PROVE  stamp'[t] < stamp'[u]
    <3>1. CASE pc[u] = "stamped" /\ stamp'[u] = stamp[u]
      BY Zenon, <2>1, <3>1 DEF StoreInv
    <3>2. CASE stamp'[u] > lastSubmitTime
      BY <2>1, <2>2, <3>2
    <3> QED
      BY Zenon, <2>4, <3>1, <3>2 DEF Quiet
  <2> QED
    BY <2>3, <2>4
<1>4. VersionByTransaction'
  <2>1. VersionByTransaction
    BY DEF StoreInv
  <2>2. entityData' = entityData /\ txIndex' = txIndex
    BY Zenon, <1>1
  <2> QED
    BY ONLY Zenon, <2>1, <2>2, FoundIs, FoundIsNext
<1>5. AllOrNothing'
  <2>1. AllOrNothing
    BY Zenon DEF StoreInv
  <2>2. \A t, e : RowsOf(t, e)' = RowsOf(t, e)
    BY Zenon, <1>1 DEF RowsOf
  <2>3. \A t \in Tx : (told'[t] = {"committed"}) <=> (told[t] = {"committed"})
    BY Zenon, <1>1 DEF Committed
  <2>4. \A t \in Tx : told[t] = {"committed"} => writeSet'[t] = writeSet[t]
    BY Zenon, <1>1 DEF Committed
  <2>5. scheduledTasks' = scheduledTasks /\ submitTimes' = submitTimes
    BY Zenon, <1>1
  <2> QED
    BY ONLY Zenon, <2>1, <2>2, <2>3, <2>4, <2>5 DEF AllOrNothing
<1>6. /\ \A e \in Entity : LastLiveExists(entityData'[e])
      /\ \A e \in Entity : OrderedRows(entityData'[e])
      /\ \A e \in Entity, t \in Tx : ~Committed(t)' => txIndex'[e][t] = 0
  BY Zenon, <1>1 DEF StoreInv
<1> QED
  BY Zenon, <1>2, <1>3, <1>4, <1>5, <1>6 DEF StoreInv, Committed

(* What CommitApply does to the rows of one entity. *)
LEMMA AppliedRows ==
  ASSUME TypeOK, StoreInv, NEW t \in Tx, pc[t] = "stamped", told[t] = {},
         NEW e \in Entity
  PROVE  LET rows == entityData[e]
             all == rows \o FlushedRows(t, e)
         IN  /\ rows \in Seq(entityVersion)
             /\ \A i \in DOMAIN rows : /\ rows[i].tx \in Tx \ {t}
                                       /\ rows[i].submitTime < stamp[t]
             /\ OrderedRows(all) /\ LastLiveExists(all)
<1> DEFINE rows == entityData[e]
           new == FlushedRows(t, e)
<1>1. rows \in Seq(entityVersion) /\ stamp[t] \in Nat
  BY Zenon, TypeStore, TypeTimes
<1>2. ASSUME NEW i \in DOMAIN rows
      PROVE  rows[i].tx \in Tx \ {t} /\ rows[i].submitTime < stamp[t]
  <2>1. rows[i].tx \in Tx
    <3>1. rows[i] \in entityVersion
      BY <1>1
    <3> QED
      BY Zenon, <3>1 DEF entityVersion
  <2>2. Committed(rows[i].tx) /\ rows[i].submitTime = stamp[rows[i].tx]
    BY Zenon DEF StoreInv
  <2>3. rows[i].tx # t
    BY Zenon, <2>2 DEF Committed
  <2>4. stamp[rows[i].tx] < stamp[t]
    BY Zenon, <2>1, <2>2 DEF StoreInv
  <2> QED
    BY Zenon, <2>1, <2>2, <2>3, <2>4
<1>3. OrderedRows(rows) /\ LastLiveExists(rows)
  BY Zenon DEF StoreInv
<1>4. /\ new \in Seq(entityVersion)
      /\ \A k \in DOMAIN new :
           /\ new[k].tx = t /\ new[k].submitTime = stamp[t]
           /\ new[k].version = BaseVersion(rows) + k
           /\ new[k].val # None <=> buffer[t][e] # None
  <2>1. IsFlush(new, BaseVersion(rows), t, e)
    BY FlushedShape
  <2> HIDE DEF new, rows
  <2> QED
    BY ONLY Zenon, <2>1 DEF IsFlush
<1> HIDE DEF rows, new
<1>5. OrderedRows(rows \o new)
  BY Zenon, <1>1, <1>2, <1>3, <1>4, AppendOrdered
<1>6. \/ new # << >> /\ \A k \in DOMAIN new : new[k].val # None
      \/ \A k \in DOMAIN new : new[k].val = None
  <2>1. new = << >> => \A k \in DOMAIN new : new[k].val = None
    OBVIOUS
  <2> QED
    BY <1>4, <2>1
<1>7. LastLiveExists(rows \o new)
  BY <1>1, <1>3, <1>4, <1>6, AppendLastLive
<1> QED
  BY Zenon, <1>1, <1>2, <1>5, <1>7 DEF rows, new

(* CommitApply leaves an index that finds the first version each committed *)
(* transaction wrote.                                                      *)
LEMMA IndexApply ==
  ASSUME TypeOK, StoreInv, NEW t \in Tx, NEW now, CommitApply(t, now),
         told[t] = {}
  PROVE  VersionByTransaction'
<1>1. /\ pc[t] = "stamped" /\ ~Committed(t)
      /\ entityData' = [e \in Entity |-> entityData[e] \o FlushedRows(t, e)]
      /\ txIndex' = [e \in Entity |->
                       [txIndex[e] EXCEPT ![t] = recordTxIndex(t, e)]]
  BY Zenon DEF CommitApply, Committed
<1> SUFFICES ASSUME NEW e \in Entity, NEW u \in Tx
             PROVE  LET rows == entityData'[e]
                        live == {i \in DOMAIN rows : rows[i].val # None}
                        own == {i \in live : rows[i].tx = u}
                        hit == {i \in live :
                                  rows[i].version = txIndex'[e][u]}
                    IN  IF txIndex'[e][u] = 0 THEN own = {}
                        ELSE \E i \in hit \cap own :
                               \A j \in hit \cup own : i <= j
  BY Zenon DEF VersionByTransaction
<1> DEFINE old == entityData[e]
           new == FlushedRows(t, e)
           all == old \o new
           base == BaseVersion(old)
           n == Len(old)
           index == txIndex'[e][u]
           LiveIn(rows) == {i \in DOMAIN rows : rows[i].val # None}
<1>2. entityData'[e] = all
  BY Zenon, <1>1
<1>3. /\ old \in Seq(entityVersion)
      /\ \A i \in DOMAIN old : old[i].tx \in Tx \ {t}
      /\ OrderedRows(all) /\ LastLiveExists(all)
      /\ OrderedRows(old) /\ LastLiveExists(old)
  BY Zenon, <1>1, AppliedRows DEF StoreInv
<1>4. /\ new \in Seq(entityVersion) /\ base \in Nat
      /\ \A k \in DOMAIN new :
           /\ k \in Nat /\ k >= 1 /\ new[k].tx = t
           /\ new[k].version = base + k
           /\ new[k].val # None <=> buffer[t][e] # None
      /\ buffer[t][e] # None => 1 \in DOMAIN new
  <2>1. IsFlush(new, base, t, e)
    BY FlushedShape
  <2> HIDE DEF new, base
  <2> QED
    BY ONLY <2>1 DEF IsFlush
<1>5. /\ \A w \in Tx : w # t => txIndex'[e][w] = txIndex[e][w]
      /\ txIndex'[e][t] =
           IF buffer[t][e] # None THEN base + 1 ELSE txIndex[e][t]
  <2>1. txIndex[e] \in [Tx -> Nat]
    BY Zenon, TypeStore
  <2>2. txIndex'[e] = [txIndex[e] EXCEPT ![t] = recordTxIndex(t, e)]
    BY <1>1
  <2>3. recordTxIndex(t, e) =
          IF buffer[t][e] # None THEN base + 1 ELSE txIndex[e][t]
    BY Zenon DEF recordTxIndex
  <2> QED
    BY ONLY <2>1, <2>2, <2>3, t \in Tx
<1>6. \A w \in Tx : txIndex[e][w] \in Nat
  BY Zenon, TypeStore
<1>7. /\ DOMAIN old = 1..n /\ n \in Nat /\ DOMAIN all \subseteq Nat
      /\ \A i \in DOMAIN old : i \in DOMAIN all /\ all[i] = old[i]
      /\ \A i \in DOMAIN all : i \notin DOMAIN old =>
           i - n \in DOMAIN new /\ all[i] = new[i - n] /\ i > n
      /\ \A k \in DOMAIN new : /\ n + k \in DOMAIN all
                               /\ all[n + k] = new[k]
  <2>1. old \in Seq(entityVersion) /\ new \in Seq(entityVersion)
    BY Zenon, <1>3, <1>4
  <2> HIDE DEF old, new
  <2>2. DOMAIN all = 1..(n + Len(new)) /\ n \in Nat /\ DOMAIN old = 1..n
    BY ONLY Zenon, <2>1, AppendSplit
  <2>3. \A i \in DOMAIN old : i \in DOMAIN all /\ all[i] = old[i]
    BY ONLY Zenon, <2>1, AppendSplit
  <2>4. \A i \in DOMAIN all : i \notin DOMAIN old =>
          i - n \in DOMAIN new /\ all[i] = new[i - n] /\ i > n
    BY ONLY <2>1, AppendSplit
  <2>5. \A k \in DOMAIN new : n + k \in DOMAIN all /\ all[n + k] = new[k]
    BY ONLY <2>1, AppendSplit
  <2>6. Len(new) \in Nat
    BY ONLY <2>1
  <2>7. DOMAIN all \subseteq Nat
    BY ONLY <2>2, <2>6
  <2> QED
    BY ONLY Zenon, <2>2, <2>3, <2>4, <2>5, <2>7
<1>8. \A i \in LiveIn(old) : old[i].version \in Nat /\ old[i].version <= base
  <2> TAKE i \in LiveIn(old)
  <2>1. old[i] \in entityVersion
    BY <1>3
  <2> QED
    BY Zenon, <1>3, <2>1, BaseVersionTop DEF entityVersion
<1> HIDE DEF old, new, all, base, n, index
<1>9. CASE u = t
  <2>1. CASE buffer[t][e] # None
    <3>1. index = base + 1 /\ index # 0
      <4>1. base \in Nat
        BY Zenon, <1>4
      <4>2. txIndex'[e][t] = base + 1
        BY Zenon, <1>5, <2>1
      <4> QED
        BY ONLY <1>9, <4>1, <4>2 DEF index
    <3>2. /\ n + 1 \in DOMAIN all /\ all[n + 1].val # None
          /\ all[n + 1].tx = t /\ all[n + 1].version = base + 1
      BY Zenon, <1>4, <1>7, <2>1
    <3>3. ASSUME NEW j \in LiveIn(all),
                 all[j].version = base + 1 \/ all[j].tx = t
          PROVE  n + 1 <= j
      <4>1. CASE j \in DOMAIN old
        <5>1. all[j] = old[j] /\ j \in LiveIn(old)
          BY Zenon, <1>7, <4>1
        <5>2. old[j].version # base + 1
          BY <1>4, <1>8, <5>1
        <5>3. old[j].tx # t
          BY Zenon, <1>3, <4>1
        <5> QED
          BY Zenon, <3>3, <5>1, <5>2, <5>3
      <4>2. CASE j \notin DOMAIN old
        <5>1. j > n /\ j \in Nat /\ n \in Nat
          BY Zenon, <1>7, <4>2
        <5> QED
          BY <5>1
      <4> QED
        BY Zenon, <4>1, <4>2
    <3> QED
      BY Zenon, <1>2, <1>9, <3>1, <3>2, <3>3 DEF index
  <2>2. CASE buffer[t][e] = None
    <3>1. index = 0
      BY Zenon, <1>1, <1>5, <1>9, <2>2 DEF index, StoreInv
    <3>2. ASSUME NEW j \in LiveIn(all)
          PROVE  all[j].tx # t
      <4>1. CASE j \in DOMAIN old
        BY Zenon, <1>3, <1>7, <4>1
      <4>2. CASE j \notin DOMAIN old
        BY <1>4, <1>7, <2>2, <4>2
      <4> QED
        BY Zenon, <4>1, <4>2
    <3> QED
      BY Zenon, <1>2, <1>9, <3>1, <3>2 DEF index
  <2> QED
    BY Zenon, <2>1, <2>2
<1>10. CASE u # t
  <2>1. index = txIndex[e][u] /\ index \in Nat
    BY Zenon, <1>5, <1>6, <1>10 DEF index
  <2>2. ASSUME NEW j \in LiveIn(all), all[j].tx = u
        PROVE  j \in LiveIn(old) /\ old[j].tx = u
    BY <1>4, <1>7, <1>10, <2>2
  <2>3. CASE index = 0
    <3>1. \A j \in LiveIn(old) : old[j].tx # u
      <4>1. VersionByTransaction /\ txIndex[e][u] = 0
        BY Zenon, <2>1, <2>3 DEF StoreInv
      <4>2. \A j \in DOMAIN entityData[e] : entityData[e][j].val # None
                                            => entityData[e][j].tx # u
        BY <4>1 DEF VersionByTransaction
      <4> QED
        BY Zenon, <4>2 DEF old
    <3> QED
      BY Zenon, <1>2, <2>2, <2>3, <3>1 DEF index
  <2>4. CASE index # 0
    <3>1. PICK i \in LiveIn(old) :
            /\ old[i].version = index /\ old[i].tx = u
            /\ \A j \in LiveIn(old) :
                 old[j].version = index \/ old[j].tx = u => i <= j
      <4>1. VersionByTransaction
        BY Zenon DEF StoreInv
      <4>2. FoundBy(entityData[e], u, txIndex[e][u])
        BY ONLY Zenon, <4>1, FoundIs, e \in Entity, u \in Tx
      <4>3. FoundBy(old, u, index)
        BY ONLY Zenon, <4>2, <2>1 DEF old
      <4> QED
        BY ONLY <4>3, <2>4, FoundFirst
    <3>2. index <= base
      BY Zenon, <1>8, <3>1
    <3>3. i \in LiveIn(all) /\ all[i] = old[i]
      BY Zenon, <1>7, <3>1
    <3>4. ASSUME NEW j \in LiveIn(all),
                 all[j].version = index \/ all[j].tx = u
          PROVE  i <= j
      <4>1. CASE j \in DOMAIN old
        BY Zenon, <1>7, <3>1, <3>4, <4>1
      <4>2. CASE j \notin DOMAIN old
        <5>1. all[j].tx = t /\ all[j].version > base
          <6>1. PICK k \in DOMAIN new : all[j] = new[k]
            BY Zenon, <1>7, <4>2
          <6> QED
            BY <1>4, <6>1
        <5> QED
          BY <1>4, <1>10, <2>1, <3>2, <3>4, <5>1
      <4> QED
        BY Zenon, <4>1, <4>2
    <3> QED
      BY Zenon, <1>2, <2>4, <3>1, <3>3, <3>4 DEF index
  <2> QED
    BY Zenon, <2>3, <2>4
<1> QED
  BY <1>9, <1>10

(* The scheduled tasks a commit arms carry its own name or none. *)
LEMMA TasksOwn ==
  ASSUME TypeOK, HandleInv, NEW t \in Tx, NEW k \in Task
  PROVE  TasksAfter(t)[k] \in {t, None, scheduledTasks[k]}
<1> DEFINE ops == scheduledTaskOps[t]
           last == CHOOSE i \in DOMAIN ops : IsLastOp(ops, k, i)
<1>1. CASE \E i \in DOMAIN ops : IsLastOp(ops, k, i)
  <2>1. last \in DOMAIN ops
    BY Zenon, <1>1
  <2>2. TasksAfter(t)[k] = ops[last].task
    BY Zenon, <1>1 DEF TasksAfter
  <2> QED
    BY Zenon, <2>1, <2>2 DEF HandleInv
<1>2. CASE ~ \E i \in DOMAIN ops : IsLastOp(ops, k, i)
  BY Zenon, <1>2 DEF TasksAfter
<1> QED
  BY <1>1, <1>2

(* CommitApply leaves a row for every entity of the write set of its       *)
(* transaction, and nothing of anyone else's.                              *)
LEMMA AllApply ==
  ASSUME TypeOK, HandleInv, StoreInv, NEW t \in Tx, NEW now,
         CommitApply(t, now), told[t] = {}
  PROVE  AllOrNothing'
<1>1. /\ pc[t] = "stamped"
      /\ entityData' = [e \in Entity |-> entityData[e] \o FlushedRows(t, e)]
      /\ told' = [told EXCEPT ![t] = @ \cup {"committed"}]
      /\ scheduledTasks' = TasksAfter(t)
      /\ DOMAIN submitTimes' \subseteq DOMAIN submitTimes \cup {t}
      /\ writeSet' = writeSet
  BY Zenon DEF CommitApply, txVars
<1>2. /\ told'[t] = {"committed"}
      /\ \A u \in Tx : u # t => told'[u] = told[u]
  <2>1. told \in [Tx -> SUBSET Outcome]
    BY Zenon DEF TypeOK
  <2> QED
    BY Zenon, <1>1, <2>1
<1>3. ASSUME NEW e \in Entity
      PROVE  /\ RowsOf(t, e)' # {} <=> e \in writeSet[t]
             /\ \A u \in Tx : u # t => RowsOf(u, e)' = RowsOf(u, e)
  <2> DEFINE old == entityData[e]
             new == FlushedRows(t, e)
             all == old \o new
  <2>1. entityData'[e] = all
    BY Zenon, <1>1
  <2>2. /\ old \in Seq(entityVersion)
        /\ \A i \in DOMAIN old : old[i].tx \in Tx \ {t}
    BY Zenon, <1>1, AppliedRows
  <2>3. /\ new \in Seq(entityVersion)
        /\ \A k \in DOMAIN new : new[k].tx = t
        /\ DOMAIN new # {} <=> e \in writeSet[t]
    <3>1. e \in writeSet[t] <=> buffer[t][e] # None \/ e \in deletes[t]
      BY Zenon DEF HandleInv, WritesExact
    <3>2. /\ new \in Seq(entityVersion)
          /\ \A k \in DOMAIN new : new[k].tx = t
          /\ DOMAIN new # {} <=> buffer[t][e] # None \/ e \in deletes[t]
      <4>1. IsFlush(new, BaseVersion(old), t, e)
        BY Zenon, FlushedShape
      <4> HIDE DEF new, old
      <4> QED
        BY ONLY Zenon, <4>1 DEF IsFlush
    <3> QED
      BY ONLY Zenon, <3>1, <3>2
  <2> HIDE DEF old, new
  <2>4. /\ \A i \in DOMAIN old : i \in DOMAIN all /\ all[i] = old[i]
        /\ \A i \in DOMAIN all : i \notin DOMAIN old =>
             i - Len(old) \in DOMAIN new /\ all[i] = new[i - Len(old)]
        /\ \A k \in DOMAIN new : /\ Len(old) + k \in DOMAIN all
                                 /\ all[Len(old) + k] = new[k]
    <3>1. old \in Seq(entityVersion) /\ new \in Seq(entityVersion)
      BY Zenon, <2>2, <2>3
    <3>2. \A i \in DOMAIN old : i \in DOMAIN all /\ all[i] = old[i]
      BY ONLY Zenon, <3>1, AppendSplit
    <3>3. \A i \in DOMAIN all : i \notin DOMAIN old =>
            i - Len(old) \in DOMAIN new /\ all[i] = new[i - Len(old)]
      BY ONLY <3>1, AppendSplit
    <3>4. \A k \in DOMAIN new : /\ Len(old) + k \in DOMAIN all
                                /\ all[Len(old) + k] = new[k]
      BY ONLY <3>1, AppendSplit
    <3> QED
      BY ONLY Zenon, <3>2, <3>3, <3>4
  <2> HIDE DEF all
  <2>5. \A u : RowsOf(u, e)' = {i \in DOMAIN all : all[i].tx = u}
    BY <2>1 DEF RowsOf
  <2>6. RowsOf(t, e)' # {} <=> e \in writeSet[t]
    <3>1. ASSUME NEW i \in DOMAIN all, all[i].tx = t
          PROVE  DOMAIN new # {}
      BY Zenon, <2>2, <2>4, <3>1
    <3>2. ASSUME NEW k \in DOMAIN new
          PROVE  Len(old) + k \in {i \in DOMAIN all : all[i].tx = t}
      BY Zenon, <2>3, <2>4
    <3> QED
      BY Zenon, <2>3, <2>5, <3>1, <3>2
  <2>7. ASSUME NEW u \in Tx, u # t
        PROVE  RowsOf(u, e)' = RowsOf(u, e)
    <3>1. RowsOf(u, e) = {i \in DOMAIN old : old[i].tx = u}
      BY Zenon DEF RowsOf, old
    <3>2. \A i : (i \in DOMAIN all /\ all[i].tx = u)
                   <=> (i \in DOMAIN old /\ old[i].tx = u)
      BY Zenon, <2>3, <2>4, <2>7
    <3> QED
      BY Zenon, <2>5, <3>1, <3>2
  <2> QED
    BY Zenon, <2>6, <2>7
<1>4. ASSUME NEW u \in Tx, u # t, \A k \in Task : scheduledTasks[k] # u
      PROVE  \A k \in Task : scheduledTasks'[k] # u
  <2>1. u # None
    BY Zenon, ValueAssumption
  <2> QED
    BY Zenon, <1>1, <1>4, <2>1, TasksOwn
<1> SUFFICES ASSUME NEW u \in Tx
             PROVE  IF told'[u] = {"committed"}
                      THEN \A e \in Entity : RowsOf(u, e)' # {}
                                             <=> e \in writeSet'[u]
                      ELSE /\ \A e \in Entity : RowsOf(u, e)' = {}
                           /\ u \notin DOMAIN submitTimes'
                           /\ \A k \in Task : scheduledTasks'[k] # u
  BY Zenon DEF AllOrNothing
<1>5. CASE u = t
  BY Zenon, <1>1, <1>2, <1>3, <1>5
<1>6. CASE u # t /\ told'[u] = {"committed"}
  <2>1. AllOrNothing /\ told[u] = {"committed"}
    BY Zenon, <1>2, <1>6 DEF StoreInv
  <2>2. \A e \in Entity : RowsOf(u, e) # {} <=> e \in writeSet[u]
    BY Zenon, <2>1 DEF AllOrNothing
  <2>3. \A e \in Entity : RowsOf(u, e)' = RowsOf(u, e)
    BY Zenon, <1>3, <1>6
  <2> QED
    BY Zenon, <1>1, <1>6, <2>2, <2>3
<1>7. CASE u # t /\ told'[u] # {"committed"}
  <2>1. /\ \A e \in Entity : RowsOf(u, e) = {}
        /\ u \notin DOMAIN submitTimes
        /\ \A k \in Task : scheduledTasks[k] # u
    <3>1. AllOrNothing /\ told[u] # {"committed"}
      BY Zenon, <1>2, <1>7 DEF StoreInv
    <3> QED
      BY Zenon, <3>1 DEF AllOrNothing
  <2> QED
    BY Zenon, <1>1, <1>3, <1>4, <1>7, <2>1
<1> QED
  BY Zenon, <1>5, <1>6, <1>7

LEMMA StoreApply ==
  ASSUME TypeOK, IsolationInv, HandleInv, StoreInv, NEW t \in Tx, NEW now,
         CommitApply(t, now)
  PROVE  StoreInv'
<1>1. /\ pc[t] = "stamped" /\ told[t] = {}
      /\ stamp[t] <= lastSubmitTime
      /\ \A u \in Tx : pc[u] = "stamped" => u = t
  BY Zenon DEF CommitApply, HandleInv, IsolationInv
<1>2. /\ entityData' = [e \in Entity |-> entityData[e] \o FlushedRows(t, e)]
      /\ txIndex' = [e \in Entity |->
                       [txIndex[e] EXCEPT ![t] = recordTxIndex(t, e)]]
      /\ told' = [told EXCEPT ![t] = @ \cup {"committed"}]
      /\ pc' = [pc EXCEPT ![t] = "done"]
      /\ UNCHANGED <<stamp, lastSubmitTime>>
  BY Zenon DEF CommitApply
<1>3. /\ told'[t] = {"committed"}
      /\ \A u \in Tx : u # t => told'[u] = told[u]
      /\ \A u \in Tx : pc'[u] # "stamped"
  <2>1. told \in [Tx -> SUBSET Outcome]
    BY Zenon DEF TypeOK
  <2> QED
    BY Zenon, <1>1, <1>2, <2>1, TypeTimes
<1>4. ASSUME NEW e \in Entity, NEW i \in DOMAIN entityData'[e]
      PROVE  /\ told'[entityData'[e][i].tx] = {"committed"}
             /\ entityData'[e][i].submitTime = stamp'[entityData'[e][i].tx]
             /\ entityData'[e][i].version >= 1
  <2> DEFINE old == entityData[e]
             new == FlushedRows(t, e)
             all == old \o new
  <2>1. entityData'[e] = all
    BY Zenon, <1>2
  <2>2. /\ old \in Seq(entityVersion)
        /\ \A j \in DOMAIN old : old[j].tx \in Tx \ {t}
    BY Zenon, <1>1, AppliedRows
  <2>3. /\ new \in Seq(entityVersion) /\ BaseVersion(old) \in Nat
        /\ \A k \in DOMAIN new :
             /\ new[k].tx = t /\ new[k].submitTime = stamp[t]
             /\ new[k].version = BaseVersion(old) + k
             /\ k \in Nat /\ k >= 1
    <3>1. IsFlush(new, BaseVersion(old), t, e)
      BY Zenon, FlushedShape
    <3> HIDE DEF new, old
    <3> QED
      BY ONLY Zenon, <3>1 DEF IsFlush
  <2>4. \/ i \in DOMAIN old /\ all[i] = old[i]
        \/ \E k \in DOMAIN new : all[i] = new[k]
    <3>1. old \in Seq(entityVersion) /\ new \in Seq(entityVersion)
      BY Zenon, <2>2, <2>3
    <3>2. i \in DOMAIN all
      BY Zenon, <1>4, <2>1
    <3> HIDE DEF old, new
    <3>3. \A j \in DOMAIN old : all[j] = old[j]
      BY ONLY <3>1, AppendSplit
    <3>4. \A j \in DOMAIN all : j \notin DOMAIN old =>
            j - Len(old) \in DOMAIN new /\ all[j] = new[j - Len(old)]
      BY ONLY <3>1, AppendSplit
    <3> HIDE DEF all
    <3> QED
      BY ONLY Zenon, <3>2, <3>3, <3>4
  <2> HIDE DEF new, all
  <2>5. CASE i \in DOMAIN old /\ all[i] = old[i]
    <3>1. /\ told[old[i].tx] = {"committed"}
          /\ old[i].submitTime = stamp[old[i].tx] /\ old[i].version >= 1
      BY Zenon, <2>5 DEF StoreInv, Committed
    <3>2. told'[old[i].tx] = told[old[i].tx]
      BY Zenon, <1>3, <2>2, <2>5
    <3> HIDE DEF old
    <3> QED
      BY Zenon, <1>2, <2>1, <2>5, <3>1, <3>2
  <2>6. ASSUME NEW k \in DOMAIN new, all[i] = new[k]
        PROVE  /\ all[i].tx = t /\ all[i].submitTime = stamp[t]
               /\ all[i].version >= 1
    BY <2>3, <2>6
  <2> QED
    BY Zenon, <1>2, <1>3, <2>1, <2>4, <2>5, <2>6
<1>5. ASSUME NEW e \in Entity
      PROVE  LastLiveExists(entityData'[e]) /\ OrderedRows(entityData'[e])
  <2>1. entityData'[e] = entityData[e] \o FlushedRows(t, e)
    BY Zenon, <1>2
  <2> QED
    BY Zenon, <1>1, <2>1, AppliedRows
<1>6. ASSUME NEW e \in Entity, NEW u \in Tx, told'[u] # {"committed"}
      PROVE  txIndex'[e][u] = 0
  <2>1. u # t /\ told[u] # {"committed"}
    BY Zenon, <1>3, <1>6
  <2>2. txIndex'[e][u] = txIndex[e][u]
    BY Zenon, <1>2, <2>1, TypeStore
  <2> QED
    BY Zenon, <2>1, <2>2 DEF StoreInv, Committed
<1>7. ASSUME NEW u \in Tx, told'[u] = {"committed"}
      PROVE  /\ stamp'[u] <= lastSubmitTime'
             /\ \A w \in Tx : pc'[w] = "stamped" => stamp'[u] < stamp'[w]
  BY Zenon, <1>1, <1>2, <1>3, <1>7 DEF StoreInv, Committed
<1>8. VersionByTransaction' /\ AllOrNothing'
  BY Zenon, <1>1, IndexApply, AllApply
<1> QED
  BY Zenon, <1>4, <1>5, <1>6, <1>7, <1>8 DEF StoreInv, Committed

(* All three invariants together are inductive. *)
MemTxInv == TypeOK /\ IsolationInv /\ HandleInv /\ StoreInv

LEMMA MemTxInvHolds == Spec => []MemTxInv
<1>1. Init => MemTxInv
  BY Zenon, TypeInit, IsolationInit, HandleInit, StoreInit DEF MemTxInv
<1>2. ASSUME MemTxInv, TypeOK', [Next]_vars
      PROVE  MemTxInv'
  <2>1. IsolationInv' /\ HandleInv'
    BY Zenon, <1>2, IsolationStep, HandleStep DEF MemTxInv
  <2>2. StoreInv'
    BY Zenon, <1>2, QuietStep, StoreQuiet, StoreApply DEF MemTxInv
  <2> QED
    BY Zenon, <1>2, <2>1, <2>2 DEF MemTxInv
<1> QED
  BY <1>1, <1>2, TypeCorrect, PTL DEF Spec

(* The rows Commit flushes stay in submit-time order with increasing live  *)
(* versions, whatever the clock returns and however many transactions run, *)
(* and recordTxIndex always names the earliest live version its            *)
(* transaction wrote.                                                      *)
THEOREM VersionsFoundHolds == Spec => []VersionsFound
<1>1. MemTxInv => VersionsFound
  BY Zenon DEF MemTxInv, StoreInv, VersionsFound, RowsOrdered, OrderedRows
<1> QED
  BY <1>1, MemTxInvHolds, PTL

(* A Commit that returned success has left a row for every entity of the   *)
(* write set; any other transaction has left no row, no submit time and no *)
(* armed task.                                                             *)
THEOREM AllOrNothingHolds == Spec => []AllOrNothing
<1>1. MemTxInv => AllOrNothing
  BY DEF MemTxInv, StoreInv
<1> QED
  BY <1>1, MemTxInvHolds, PTL

=============================================================================
